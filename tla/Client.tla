------------------------------- MODULE Client -------------------------------
(***************************************************************************)
(* The processes of one user that hold the settings in their memory: the   *)
(* commands of the command line, the interactive menu and the TUI, which   *)
(* starts commands of its own and waits for them.  Each reads config.json  *)
(* once and writes the whole of it back, opened for writing and then       *)
(* filled (config.py), and nothing locks it.  Two of the commands, fetch   *)
(* and publish, put the one-shot question: shall the seeder be installed   *)
(* as a service?  Any process may be killed at any step.                   *)
(*                                                                         *)
(* Not here: what a command does besides the settings and the service, and *)
(* the fields that are only ever changed along with one that is here (the  *)
(* reviewer's categories) or by hand (directories, bootstrap peers, port). *)
(***************************************************************************)
EXTENDS SeederService, Naturals

CONSTANTS
  Clis,          \* processes for commands
  Menu, Tui,     \* the two that go on until the user leaves
  Authors, Languages,
  DefaultAuthor, DefaultLanguage,
  Torn,          \* a file that is not whole, and that no one can load
  MaxCommands    \* bound on what the user does

Shells == {Menu, Tui}

VARIABLES
  file,       \* config.json: None, Torn or the settings
  config,     \* the settings each process has in memory
  own,        \* the fields of them it was told to change, and has not saved
  current,    \* the processes behind whose back nobody opened the file to write
  offering,   \* those whose question has been answered, or need not be put
  children,   \* the commands that the TUI waits for
  accepted,   \* has the TUI an installation to start?
  settled,    \* was the answer saved, and not overwritten since?
  commands

settingsVars == <<file, config, own, current, settled>>
sessionVars == <<offering, children, accepted>>
vars == <<serviceVars, at, settingsVars, sessionVars, commands>>

Fields == {"author", "naming", "language", "prompted", "reviewer"}

(* naming: has a naming server been configured?                            *)
Settings ==
  [author: Authors, naming: BOOLEAN, language: Languages,
   prompted: BOOLEAN, reviewer: BOOLEAN]

ClientConfig(naming) ==
  [author |-> DefaultAuthor, naming |-> naming, language |-> DefaultLanguage,
   prompted |-> FALSE, reviewer |-> FALSE]

ASSUME ClientAssumption ==
  /\ Processes = Clis \cup Shells /\ Menu # Tui /\ Shells \cap Clis = {}
  /\ None \notin Processes \cup {"installed", "removed"}
  /\ None # Torn /\ None \notin Settings /\ Torn \notin Settings
  /\ DefaultAuthor \in Authors /\ DefaultLanguage \in Languages
  /\ MaxCommands \in Nat

(* What the user may make of some settings where he is asked for fields.   *)
Edited(base, fields) ==
  {s \in Settings :
     /\ \A f \in Fields \ fields : s[f] = base[f]
     /\ "naming" \in fields => s.naming = TRUE}

Does == commands < MaxCommands /\ commands' = commands + 1

Edit(p, s, fields) ==
  /\ config' = [config EXCEPT ![p] = s]
  /\ own' = [own EXCEPT ![p] = @ \cup fields]
  /\ Go(p, "changed")

load(p) ==
  /\ config' = [config EXCEPT ![p] = file]
  /\ own' = [own EXCEPT ![p] = {}]
  /\ current' = current \cup {p}

(* A process ends, and with it the copy that it had.  The TUI is told by   *)
(* the exit code of its commands whether to go on from there.              *)
Exits(p, code) ==
  /\ Go(p, IF code = 0 /\ p \in children THEN "ended" ELSE "off")
  /\ children' = IF code = 0 THEN children ELSE children \ {p}
  /\ config' = [config EXCEPT ![p] = None]
  /\ own' = [own EXCEPT ![p] = {}]
  /\ offering' = offering \ {p}
  /\ UNCHANGED accepted

(* What a process does after a save depends on what it is, not on how the  *)
(* save went.                                                              *)
GoesOn(p, unsaved) ==
  IF p \in Shells
  THEN /\ Go(p, "idle")
       /\ own' = [own EXCEPT ![p] = unsaved]
       /\ offering' = offering \ {p}
       /\ UNCHANGED <<config, children, accepted>>
  ELSE Exits(p, 0)
-----------------------------------------------------------------------------
(* save: open(path, "w") leaves an empty file.  It may be refused, or a    *)
(* reviewer's identity not be made before it: the change stays in memory.  *)
BeginSave(p) ==
  /\ at[p] = "changed"
  /\ \/ /\ file' = Torn
        /\ current' = {p}
        /\ settled' = (settled /\ p \in current)
        /\ Go(p, "saving")
        /\ UNCHANGED <<config, own, sessionVars>>
     \/ GoesOn(p, own[p]) /\ UNCHANGED <<file, current, settled>>
  /\ UNCHANGED <<serviceVars, commands>>

(* The text is written when the file is closed, or, on a full disk, a part *)
(* of it.  Where another process has opened the file meanwhile, whatever   *)
(* is longer of the two may show behind the other.                         *)
EndSave(p) ==
  /\ at[p] = "saving"
  /\ \/ /\ file' \in {config[p]} \cup (IF p \in current THEN {} ELSE {Torn})
        /\ GoesOn(p, {})
        /\ settled' = (p \in current /\ (settled \/ p \in offering))
     \/ /\ file' = Torn
        /\ GoesOn(p, own[p])
        /\ settled' = FALSE
  /\ current' = current \cap {p}
  /\ UNCHANGED <<serviceVars, commands>>
-----------------------------------------------------------------------------
(* main: nothing starts on a file that is not whole, setup neither.        *)
main(c) ==
  /\ at[c] = "off" /\ file # Torn
  /\ Does
  /\ load(c)
  /\ Go(c, "loaded")
  /\ UNCHANGED <<serviceVars, file, settled, sessionVars>>

Command(c) ==
  /\ at[c] = "loaded"
  /\ UNCHANGED <<file, current, settled, sessionVars, commands>>

(* BROKEN: the settings are made anew. *)
cli_setup_afresh(c) ==
  /\ Command(c)
  /\ \E fields \in SUBSET {"author", "naming", "language", "reviewer"} :
       /\ "author" \in fields
       /\ \E s \in Edited(ClientConfig(FALSE), fields) : Edit(c, s, fields)
  /\ UNCHANGED serviceVars

(* --reviewer can only be given.                                           *)
cli_setup(c) ==
  /\ Command(c)
  /\ \E fields \in SUBSET {"author", "naming", "language", "reviewer"} :
     \E s \in Edited(IF config[c] = None THEN ClientConfig(FALSE) ELSE config[c], fields) :
       /\ "author" \in fields
       /\ "reviewer" \in fields => s.reviewer = TRUE
       /\ Edit(c, s, IF config[c] = None THEN Fields ELSE fields)
  /\ UNCHANGED serviceVars

cli_reviewer_enable(c) ==
  /\ Command(c) /\ config[c] # None
  /\ Edit(c, [config[c] EXCEPT !.reviewer = TRUE], {"reviewer"})
  /\ UNCHANGED serviceVars

cli_reviewer_disable(c) ==
  /\ Command(c) /\ config[c] # None
  /\ config[c].reviewer = TRUE
  /\ Edit(c, [config[c] EXCEPT !.reviewer = FALSE], {"reviewer"})
  /\ UNCHANGED serviceVars

cli_language(c) ==
  /\ Command(c) /\ config[c] # None
  /\ \E s \in Edited(config[c], {"language"}) : Edit(c, s, {"language"})
  /\ UNCHANGED serviceVars

(* service install and service uninstall.                                  *)
cli_service(c) ==
  /\ Command(c)
  /\ Begins(c)
  /\ install(c) \/ uninstall(c)
  /\ UNCHANGED <<config, own>>

(* fetch or publish, and serve until it is stopped.                        *)
cli_fetch(c) ==
  /\ Command(c) /\ config[c] # None
  /\ Go(c, "busy")
  /\ UNCHANGED <<serviceVars, config, own>>

(* Any other command, or one that fails.                                   *)
cli_other(c) ==
  /\ at[c] \in {"loaded", "busy"}
  /\ Exits(c, 1)
  /\ UNCHANGED <<serviceVars, file, current, settled, commands>>
-----------------------------------------------------------------------------
_mark_prompted(p) ==
  /\ Edit(p, [config[p] EXCEPT !.prompted = TRUE], {"prompted"})
  /\ offering' = offering \cup {p}

(* A fetch or publish went well: offer_interactive asks where stdin is a   *)
(* terminal, and a command of the TUI has the TUI's.                       *)
offer_interactive(c) ==
  /\ at[c] = "busy"
  /\ \/ /\ config[c].prompted = FALSE /\ installed
        /\ _mark_prompted(c)
        /\ UNCHANGED <<children, accepted>>
     \/ Exits(c, 0)
     \/ /\ config[c].prompted = FALSE /\ ~installed
        /\ Go(c, "asking")
        /\ UNCHANGED <<config, own, sessionVars>>
  /\ UNCHANGED <<serviceVars, file, current, settled, commands>>

(* What comes after input(): an installation comes before the mark.        *)
Answer(c) ==
  /\ at[c] = "asking" /\ c \in Clis
  /\ Does
  /\ \/ _mark_prompted(c) /\ UNCHANGED serviceVars
     \/ /\ Begins(c) /\ install(c)
        /\ offering' = offering \cup {c}
        /\ UNCHANGED <<config, own>>
  /\ UNCHANGED <<file, current, settled, children, accepted>>

(* An installation that raised ends the command, and the answer is lost.   *)
ServiceEnds(c) ==
  /\ at[c] \in Ended
  /\ IF c \in offering /\ at[c] # "raised"
     THEN _mark_prompted(c) /\ UNCHANGED <<children, accepted>>
     ELSE Exits(c, 1)
  /\ UNCHANGED <<serviceVars, file, current, settled, commands>>
-----------------------------------------------------------------------------
(* action_config: author, naming and language, where something is typed.   *)
action_config ==
  \E fields \in SUBSET {"author", "naming", "language"} :
    IF config[Menu] = None
    THEN \E s \in Edited(ClientConfig(FALSE), fields) : Edit(Menu, s, Fields)
    ELSE \E s \in Edited(config[Menu], fields) : Edit(Menu, s, fields)

(* interactive_mode, which begins with the editor where there is no file.  *)
MenuStart ==
  /\ at[Menu] = "off" /\ file # Torn
  /\ Does
  /\ load(Menu)
  /\ Go(Menu, IF file = None THEN "loaded" ELSE "idle")
  /\ UNCHANGED <<serviceVars, file, settled, sessionVars>>

MenuEdits ==
  /\ action_config
  /\ \/ at[Menu] = "loaded" /\ UNCHANGED commands
     \/ at[Menu] = "idle" /\ Does
  /\ UNCHANGED <<serviceVars, file, current, settled, sessionVars>>

(* load_or_create_config: any trouble with the file is met with defaults,  *)
(* written over it, and a blank naming server is filled in.                *)
TuiStart ==
  /\ at[Tui] = "off"
  /\ Does
  /\ \/ /\ file \in Settings
        /\ current' = current \cup {Tui}
        /\ IF file.naming = TRUE
           THEN load(Tui) /\ Go(Tui, "idle")
           ELSE Edit(Tui, [file EXCEPT !.naming = TRUE], {"naming"})
     \/ /\ file \notin Settings
        /\ current' = IF file = None THEN current \cup {Tui} ELSE current \ {Tui}
        /\ Edit(Tui, ClientConfig(TRUE), Fields)
  /\ UNCHANGED <<serviceVars, file, settled, sessionVars>>

(* action_language, _enable_reviewer, _disable_reviewer.                   *)
TuiEdits ==
  /\ at[Tui] = "idle"
  /\ Does
  /\ \/ \E s \in Edited(config[Tui], {"language"}) : Edit(Tui, s, {"language"})
     \/ \E s \in Edited(config[Tui], {"reviewer"}) : Edit(Tui, s, {"reviewer"})
  /\ UNCHANGED <<serviceVars, file, current, settled, sessionVars>>

(* _run_fetch, _run_publish: a command of its own, in a process.           *)
TuiFetch(c) ==
  /\ at[Tui] = "idle" /\ at[c] = "off"
  /\ Does
  /\ file \in Settings
  /\ load(c)
  /\ Go(c, "busy")
  /\ children' = children \cup {c}
  /\ UNCHANGED <<serviceVars, file, settled, offering, accepted>>

(* BROKEN: the settings are not read again. *)
TuiOffer_from_memory(c) ==
  /\ at[Tui] = "idle" /\ at[c] = "ended"
  /\ children' = children \ {c}
  /\ at' = [at EXCEPT ![c] = "off", ![Tui] = "asking"]
  /\ config[Tui].prompted = FALSE /\ ~installed
  /\ UNCHANGED <<serviceVars, settingsVars, offering, accepted, commands>>

(* _maybe_offer_auto_seed, when a command has ended well: the settings are *)
(* read again, if they can be.                                             *)
TuiOffer(c) ==
  LET fresh == IF file \in Settings THEN file ELSE config[Tui]
      unsaved == IF file \in Settings THEN {} ELSE own[Tui]
  IN
  /\ at[Tui] = "idle" /\ at[c] = "ended"
  /\ current' = IF file \in Settings THEN current \cup {Tui} ELSE current
  /\ children' = children \ {c}
  /\ \/ /\ fresh.prompted = FALSE /\ installed
        /\ at' = [at EXCEPT ![c] = "off", ![Tui] = "changed"]
        /\ config' = [config EXCEPT ![Tui] = [fresh EXCEPT !.prompted = TRUE]]
        /\ own' = [own EXCEPT ![Tui] = unsaved \cup {"prompted"}]
        /\ offering' = offering \cup {Tui}
     \/ /\ \/ at' = [at EXCEPT ![c] = "off"]
           \/ /\ fresh.prompted = FALSE /\ ~installed
              /\ at' = [at EXCEPT ![c] = "off", ![Tui] = "asking"]
        /\ config' = [config EXCEPT ![Tui] = fresh]
        /\ own' = [own EXCEPT ![Tui] = unsaved]
        /\ UNCHANGED offering
  /\ UNCHANGED <<serviceVars, file, settled, accepted, commands>>

(* AutoSeedModal: here the mark comes before the installation.             *)
TuiAnswer ==
  /\ at[Tui] = "asking"
  /\ Does
  /\ _mark_prompted(Tui)
  /\ accepted' \in BOOLEAN
  /\ UNCHANGED <<serviceVars, file, current, settled, children>>

(* _install_service: a command again, which has to read the settings.      *)
TuiInstall(c) ==
  /\ accepted = TRUE /\ accepted' = FALSE
  /\ at[Tui] = "idle" /\ at[c] = "off"
  /\ IF file = Torn
     THEN UNCHANGED <<serviceVars, at>>
     ELSE Begins(c) /\ install(c)
  /\ UNCHANGED <<settingsVars, offering, children, commands>>
-----------------------------------------------------------------------------
(* A process is stopped anywhere: by the user, or by the TUI when it took  *)
(* too long.                                                               *)
Kill(p) ==
  /\ at[p] # "off" /\ p # Tui
  /\ Exits(p, 1)
  /\ settled' = (settled /\ ~(at[p] = "saving" /\ p \in current))
  /\ UNCHANGED <<serviceVars, file, current, commands>>

TuiQuits ==
  /\ at[Tui] # "off"
  /\ at' = [p \in Processes |-> IF p = Tui \/ at[p] = "ended" THEN "off" ELSE at[p]]
  /\ children' = {} /\ accepted' = FALSE
  /\ config' = [config EXCEPT ![Tui] = None]
  /\ own' = [own EXCEPT ![Tui] = {}]
  /\ offering' = offering \ {Tui}
  /\ settled' = (settled /\ ~(at[Tui] = "saving" /\ Tui \in current))
  /\ UNCHANGED <<serviceVars, file, current, commands>>
-----------------------------------------------------------------------------
(* At first there is no file, or one of `setup --author`.                  *)
Init ==
  /\ ServiceInit
  /\ at = [p \in Processes |-> "off"]
  /\ file \in {None, ClientConfig(FALSE)}
  /\ config = [p \in Processes |-> None]
  /\ own = [p \in Processes |-> {}]
  /\ current = {} /\ offering = {} /\ children = {}
  /\ accepted = FALSE /\ settled = FALSE
  /\ commands = 0

CliStep(c) ==
  \/ main(c) \/ cli_setup(c) \/ cli_reviewer_enable(c) \/ cli_reviewer_disable(c)
  \/ cli_language(c) \/ cli_service(c) \/ cli_fetch(c) \/ cli_other(c)
  \/ offer_interactive(c) \/ Answer(c) \/ ServiceEnds(c)

ShellStep ==
  \/ MenuStart \/ MenuEdits
  \/ TuiStart \/ TuiEdits \/ TuiAnswer \/ TuiQuits
  \/ \E c \in Clis : TuiFetch(c) \/ TuiOffer(c) \/ TuiInstall(c)

SomeStep(p) ==
  \/ BeginSave(p) \/ EndSave(p) \/ Kill(p)
  \/ ServiceStep(p) /\ UNCHANGED <<settingsVars, sessionVars, commands>>

Next ==
  \/ \E c \in Clis : CliStep(c)
  \/ ShellStep
  \/ \E p \in Processes : SomeStep(p)
  \/ NewSession /\ UNCHANGED <<settingsVars, sessionVars, commands>>

Spec == Init /\ [][Next]_vars
-----------------------------------------------------------------------------
Places ==
  Installing \cup Uninstalling \cup Ended \cup
  {"off", "loaded", "busy", "asking", "changed", "saving", "ended", "idle"}

TypeOK ==
  /\ platform \in Platforms /\ unit \in {"absent", "torn", "whole"}
  /\ armed \in BOOLEAN /\ active \in BOOLEAN
  /\ alone \in Processes \cup {None} /\ promise \in {None, "installed", "removed"}
  /\ at \in [Processes -> Places]
  /\ file \in Settings \cup {None, Torn}
  /\ config \in [Processes -> Settings \cup {None}]
  /\ own \in [Processes -> SUBSET Fields]
  /\ current \subseteq Processes /\ offering \subseteq Processes
  /\ children \subseteq Clis
  /\ accepted \in BOOLEAN /\ settled \in BOOLEAN /\ commands \in 0..MaxCommands

(* A process that writes the settings back changes what it was told to     *)
(* change, by flags, answers or the editor, and nothing else               *)
(* (commands.py:162-343, interactive.py:121-176, tui.py:896-975,           *)
(* service.py:509-516): what other processes have saved is kept, as long   *)
(* as none of them opened the file after this one had read it.             *)
OthersAreKept ==
  \A p \in current :
    at[p] = "changed" /\ file \in Settings =>
      \A f \in Fields \ own[p] : config[p][f] = file[f]

(* "The offer fires the FIRST time the user does something that produces a *)
(* local site ...  We skip when the user has already been asked"           *)
(* (service.py:486-506, tui.py:1173-1198): once an answer has been saved,  *)
(* and nobody saved settings read before it, only a command that has read  *)
(* them before may still put the question, and the TUI only while the file *)
(* is being written.                                                       *)
AskedOnce ==
  [][settled =>
       \A p \in Processes : at[p] # "asking" /\ at'[p] = "asking" =>
         p \notin current /\ (p = Tui => file = Torn)]_vars
=============================================================================
