--------------------------- MODULE Client_proofs ---------------------------
(***************************************************************************)
(* Theorems about Client and SeederService, for any number of commands at  *)
(* once, any authors and languages, on each of the three platforms.        *)
(*                                                                         *)
(* The invariant has four parts, proved one after the other for each       *)
(* action: the types, what a process holds where it stands (PlaceInv), the *)
(* copies of the settings against the file (FileInv), and the service as   *)
(* far as one process has been alone at it (ServiceInv).  FileInv needs    *)
(* the processes that are still current, since of the others nothing can   *)
(* be said: their copies may be of any age.                                *)
(***************************************************************************)
EXTENDS Client, TLAPS

PlaceInv ==
  /\ \A p \in Processes :
       at[p] \in {"busy", "asking", "changed", "saving", "idle"} => config[p] \in Settings
  /\ \A p \in offering :
       /\ config[p] \in Settings
       /\ AtService(p) \/ at[p] \in Ended \cup {"changed", "saving"}
       /\ at[p] \in {"changed", "saving"} => config[p].prompted = TRUE

(* The service: a process that has been alone at it is, and while a report *)
(* stands nobody is; where it goes on to forget the unit, it has removed   *)
(* it.                                                                     *)
ServiceInv ==
  /\ alone # None => \A q \in Processes \ {alone} : ~AtService(q)
  /\ promise # None => \A q \in Processes : ~AtService(q)
  /\ alone # None /\ at[alone] = "forget" => unit = "absent"
  /\ ReportsStayTrue

(* Who writes the file while nobody has opened it since is the only one    *)
(* that knows it, and has left it empty.                                   *)
WriterIsAlone ==
  \A p \in current : at[p] = "saving" => file = Torn /\ current = {p}

(* A copy differs from the file where its process was told to change it.   *)
CopiesFollow ==
  \A p \in current :
    /\ config[p] # None /\ file \in Settings =>
         \A f \in Fields \ own[p] : config[p][f] = file[f]
    /\ config[p] = None /\ at[p] = "loaded" => file = None

(* An answer that was saved is in the file and in the copies that follow   *)
(* it, or about to be written again.                                       *)
AnswerStands ==
  settled =>
    /\ \A p \in current : config[p] # None => config[p].prompted = TRUE
    /\ \/ file \in Settings /\ file.prompted = TRUE
       \/ file = Torn /\ \E p \in current : at[p] = "saving"

FileInv == WriterIsAlone /\ CopiesFollow /\ AnswerStands

ClientInv == TypeOK /\ PlaceInv /\ ServiceInv /\ FileInv
-----------------------------------------------------------------------------
(* One field of some settings changed.                                     *)
LEMMA WithPrompted ==
  ASSUME NEW s \in Settings
  PROVE  /\ [s EXCEPT !.prompted = TRUE] \in Settings
         /\ [s EXCEPT !.prompted = TRUE].prompted = TRUE
         /\ \A f \in Fields \ {"prompted"} : [s EXCEPT !.prompted = TRUE][f] = s[f]
  BY DEF Settings, Fields

LEMMA WithReviewer ==
  ASSUME NEW s \in Settings, NEW b \in BOOLEAN
  PROVE  /\ [s EXCEPT !.reviewer = b] \in Settings
         /\ [s EXCEPT !.reviewer = b].prompted = s.prompted
         /\ \A f \in Fields \ {"reviewer"} : [s EXCEPT !.reviewer = b][f] = s[f]
  BY DEF Settings, Fields

LEMMA WithNaming ==
  ASSUME NEW s \in Settings
  PROVE  /\ [s EXCEPT !.naming = TRUE] \in Settings
         /\ [s EXCEPT !.naming = TRUE].prompted = s.prompted
         /\ \A f \in Fields \ {"naming"} : [s EXCEPT !.naming = TRUE][f] = s[f]
  BY DEF Settings, Fields

LEMMA DefaultFacts ==
  ASSUME NEW b \in BOOLEAN
  PROVE  ClientConfig(b) \in Settings
  BY ClientAssumption DEF ClientConfig, Settings

LEMMA EditTypes ==
  ASSUME TypeOK, NEW p \in Processes, NEW s \in Settings, NEW fields \in SUBSET Fields,
         Edit(p, s, fields)
  PROVE  /\ config' \in [Processes -> Settings \cup {None}]
         /\ own' \in [Processes -> SUBSET Fields]
         /\ at' \in [Processes -> Places]
  BY DEF TypeOK, Edit, Go, Places

LEMMA MarkTypes ==
  ASSUME TypeOK, NEW p \in Processes, config[p] \in Settings, _mark_prompted(p)
  PROVE  /\ config' \in [Processes -> Settings \cup {None}]
         /\ own' \in [Processes -> SUBSET Fields]
         /\ at' \in [Processes -> Places]
         /\ offering' \subseteq Processes
<1>1. [config[p] EXCEPT !.prompted = TRUE] \in Settings
  BY WithPrompted
<1>2. {"prompted"} \in SUBSET Fields
  BY DEF Fields
<1> QED BY <1>1, <1>2, EditTypes DEF _mark_prompted, TypeOK

LEMMA CliTypes ==
  ASSUME TypeOK, PlaceInv, NEW c \in Clis, CliStep(c)
  PROVE  TypeOK'
<1> USE ClientAssumption DEF TypeOK, serviceVars, settingsVars, sessionVars,
        Go, load, Does, Command, Shells
<1>1. CASE main(c)
  BY <1>1 DEF main, Places
<1>2. CASE cli_setup(c)
  <2>1. ClientConfig(FALSE) \in Settings
    BY DefaultFacts
  <2>2. SUBSET {"author", "naming", "language", "reviewer"} \subseteq SUBSET Fields
    BY DEF Fields
  <2> HIDE DEF Go
  <2> QED BY <1>2, <2>1, <2>2, EditTypes DEF cli_setup, Edited
<1>3. CASE cli_reviewer_enable(c)
  <2>1. config[c] \in Settings /\ {"reviewer"} \in SUBSET Fields
    BY <1>3 DEF cli_reviewer_enable, Fields
  <2>2. [config[c] EXCEPT !.reviewer = TRUE] \in Settings
    BY <2>1, WithReviewer
  <2> QED BY <1>3, <2>1, <2>2, EditTypes DEF cli_reviewer_enable
<1>4. CASE cli_reviewer_disable(c)
  <2>1. config[c] \in Settings /\ {"reviewer"} \in SUBSET Fields
    BY <1>4 DEF cli_reviewer_disable, Fields
  <2>2. [config[c] EXCEPT !.reviewer = FALSE] \in Settings
    BY <2>1, WithReviewer
  <2> QED BY <1>4, <2>1, <2>2, EditTypes DEF cli_reviewer_disable
<1>5. CASE cli_language(c)
  BY <1>5 DEF cli_language, Edit, Edited, Fields, Places
<1>6. CASE cli_service(c)
  BY <1>6 DEF cli_service, Begins, install, uninstall, Platforms, Installing, Uninstalling, Places
<1>7. CASE cli_fetch(c)
  BY <1>7 DEF cli_fetch, Places
<1>8. CASE cli_other(c)
  BY <1>8 DEF cli_other, Exits, Places
<1>9. CASE offer_interactive(c)
  <2>1. config[c] \in Settings
    BY <1>9 DEF offer_interactive, PlaceInv
  <2> QED BY <1>9, <2>1, MarkTypes DEF offer_interactive, Exits, Places
<1>10. CASE Answer(c)
  <2>1. config[c] \in Settings
    BY <1>10 DEF Answer, PlaceInv
  <2>2. CASE _mark_prompted(c) /\ UNCHANGED serviceVars
    BY <1>10, <2>1, <2>2, MarkTypes DEF Answer
  <2> QED BY <1>10, <2>2 DEF Answer, Begins, install, Installing, Places
<1>11. CASE ServiceEnds(c)
  <2>1. c \in offering => config[c] \in Settings
    BY <1>11 DEF ServiceEnds, PlaceInv
  <2> QED BY <1>11, <2>1, MarkTypes DEF ServiceEnds, Exits, Places
<1> QED BY <1>1, <1>2, <1>3, <1>4, <1>5, <1>6, <1>7, <1>8, <1>9, <1>10, <1>11 DEF CliStep

LEMMA ShellTypes ==
  ASSUME TypeOK, PlaceInv, ShellStep
  PROVE  TypeOK'
<1> USE ClientAssumption DEF TypeOK, serviceVars, settingsVars, sessionVars,
        Go, load, Does, Shells
<1>1. CASE MenuStart
  BY <1>1 DEF MenuStart, Places
<1>2. CASE MenuEdits
  <2>1. ClientConfig(FALSE) \in Settings
    BY DefaultFacts
  <2>2. SUBSET {"author", "naming", "language"} \subseteq SUBSET Fields
    BY DEF Fields
  <2>3. \E s \in Settings, fields \in SUBSET Fields : Edit(Menu, s, fields)
    <3>1. PICK fields \in SUBSET Fields :
            \/ \E s \in Edited(ClientConfig(FALSE), fields) : Edit(Menu, s, Fields)
            \/ \E s \in Edited(config[Menu], fields) : Edit(Menu, s, fields)
      BY <1>2, <2>2 DEF MenuEdits, action_config
    <3> QED BY <3>1 DEF Edited
  <2>4. UNCHANGED <<serviceVars, file, current, settled, sessionVars>>
    BY <1>2 DEF MenuEdits
  <2>5. commands' \in 0..MaxCommands
    <3>1. commands' = commands \/ Does
      BY <1>2 DEF MenuEdits
    <3> QED BY <3>1
  <2> QED BY <2>3, <2>4, <2>5, EditTypes
<1>3. CASE TuiStart
  <2>1. ClientConfig(TRUE) \in Settings
    BY DefaultFacts
  <2>2. file \in Settings => [file EXCEPT !.naming = TRUE] \in Settings
    BY WithNaming
  <2>3. {"naming"} \in SUBSET Fields
    BY DEF Fields
  <2>4. CASE load(Tui) /\ Go(Tui, "idle") /\ file \in Settings
    BY <1>3, <2>4 DEF TuiStart, Places
  <2>5. CASE \E s \in Settings, fields \in SUBSET Fields : Edit(Tui, s, fields)
    <3>1. current' \subseteq Processes /\ UNCHANGED <<serviceVars, file, settled, sessionVars>>
      BY <1>3 DEF TuiStart
    <3>2. commands' \in 0..MaxCommands
      BY <1>3 DEF TuiStart
    <3>3. PICK s \in Settings, fields \in SUBSET Fields : Edit(Tui, s, fields)
      BY <2>5
    <3>4. /\ config' \in [Processes -> Settings \cup {None}]
          /\ own' \in [Processes -> SUBSET Fields]
          /\ at' \in [Processes -> Places]
      BY <3>3, EditTypes
    <3> QED BY <3>1, <3>2, <3>4
  <2>6. CASE Edit(Tui, [file EXCEPT !.naming = TRUE], {"naming"}) /\ file \in Settings
    BY <2>2, <2>3, <2>5, <2>6
  <2>7. CASE Edit(Tui, ClientConfig(TRUE), Fields)
    BY <2>1, <2>5, <2>7
  <2> HIDE DEF Go, load, TypeOK
  <2> QED BY <1>3, <2>4, <2>6, <2>7 DEF TuiStart
<1>4. CASE TuiEdits
  BY <1>4 DEF TuiEdits, Edit, Edited, Fields, Places
<1>5. CASE TuiAnswer
  <2>1. config[Tui] \in Settings
    BY <1>5 DEF TuiAnswer, PlaceInv
  <2> QED BY <1>5, <2>1, MarkTypes DEF TuiAnswer
<1>6. CASE TuiQuits
  BY <1>6 DEF TuiQuits, Places
<1>7. ASSUME NEW c \in Clis, TuiFetch(c) PROVE TypeOK'
  BY <1>7 DEF TuiFetch, Places
<1>8. ASSUME NEW c \in Clis, TuiOffer(c) PROVE TypeOK'
  <2> DEFINE fresh == IF file \in Settings THEN file ELSE config[Tui]
  <2>1. fresh \in Settings
    BY <1>8 DEF TuiOffer, PlaceInv
  <2>2. [fresh EXCEPT !.prompted = TRUE] \in Settings
    BY <2>1, WithPrompted
  <2>3. {"prompted"} \in SUBSET Fields
    BY DEF Fields
  <2>4. PICK place \in {"idle", "changed", "asking"} :
          at' = [at EXCEPT ![c] = "off", ![Tui] = place]
    BY <1>8 DEF TuiOffer
  <2>5. PICK s \in Settings : config' = [config EXCEPT ![Tui] = s]
    BY <1>8, <2>1, <2>2 DEF TuiOffer
  <2>6. PICK fields \in SUBSET Fields : own' = [own EXCEPT ![Tui] = fields]
    BY <1>8, <2>3 DEF TuiOffer
  <2> QED BY <1>8, <2>4, <2>5, <2>6 DEF TuiOffer, Places
<1>9. ASSUME NEW c \in Clis, TuiInstall(c) PROVE TypeOK'
  BY <1>9 DEF TuiInstall, Begins, install, Installing, Places
<1> QED BY <1>1, <1>2, <1>3, <1>4, <1>5, <1>6, <1>7, <1>8, <1>9 DEF ShellStep

(* Where a process that is at the service goes, and what it leaves alone.  *)
ServiceEffect(p) ==
  /\ AtService(p)
  /\ \E place \in Installing \cup Uninstalling \cup Ended :
       /\ Go(p, place)
       /\ at[p] \in Installing => place \in Installing \cup Ended
  /\ unit' \in {"absent", "torn", "whole"}
  /\ armed' \in BOOLEAN /\ active' \in BOOLEAN
  /\ promise' \in {None, promise, "installed", "removed"}
  /\ UNCHANGED <<platform, alone>>

LEMMA ServiceSteps ==
  ASSUME TypeOK, NEW p \in Processes, ServiceStep(p)
  PROVE  ServiceEffect(p)
<1> USE DEF Continues, Succeeds, Installing, Uninstalling, Ended, ServiceEffect, AtService
<1> DEFINE Types == /\ unit \in {"absent", "torn", "whole"}
                    /\ armed \in BOOLEAN /\ active \in BOOLEAN
<1>0. Types /\ UNCHANGED platform
  BY DEF TypeOK, ServiceStep
<1>1. CASE _darwin_install(p)
  <2>1. CASE WriteUnit(p, "bootstrap")
    BY <2>1, <1>0 DEF WriteUnit
  <2>2. CASE at[p] = "bootstrap"
    BY <1>1, <2>2, <1>0 DEF _darwin_install, WriteUnit
  <2>3. CASE at[p] = "load"
    BY <1>1, <2>3, <1>0 DEF _darwin_install, WriteUnit
  <2> QED BY <1>1, <2>1, <2>2, <2>3 DEF _darwin_install
<1>2. CASE _darwin_uninstall(p)
  <2>1. CASE at[p] = "look"
    BY <1>2, <2>1, <1>0 DEF _darwin_uninstall
  <2>2. CASE at[p] = "bootout"
    BY <1>2, <2>2, <1>0 DEF _darwin_uninstall
  <2>3. CASE at[p] = "unload"
    BY <1>2, <2>3, <1>0 DEF _darwin_uninstall
  <2>4. CASE at[p] = "unlink"
    BY <1>2, <2>4, <1>0 DEF _darwin_uninstall, Unlink
  <2> QED BY <1>2, <2>1, <2>2, <2>3, <2>4 DEF _darwin_uninstall
<1>3. CASE _linux_install(p)
  <2>1. CASE WriteUnit(p, "reload")
    BY <2>1, <1>0 DEF WriteUnit
  <2>2. CASE at[p] = "reload"
    BY <1>3, <2>2, <1>0 DEF _linux_install, WriteUnit, enable
  <2>3. CASE enable(p)
    BY <2>3, <1>0 DEF enable
  <2> QED BY <1>3, <2>1, <2>2, <2>3 DEF _linux_install
<1>4. CASE _linux_uninstall(p)
  <2>1. CASE at[p] = "disable"
    BY <1>4, <2>1, <1>0 DEF _linux_uninstall
  <2>2. CASE at[p] = "unlink"
    BY <1>4, <2>2, <1>0 DEF _linux_uninstall, Unlink
  <2>3. CASE at[p] = "forget"
    BY <1>4, <2>3, <1>0 DEF _linux_uninstall
  <2> QED BY <1>4, <2>1, <2>2, <2>3 DEF _linux_uninstall
<1>5. CASE _windows_install(p) \/ _windows_uninstall(p)
  BY <1>5, <1>0 DEF _windows_install, _windows_uninstall
<1>6. CASE CommandMissing(p)
  BY <1>6, <1>0 DEF CommandMissing
<1> QED BY <1>1, <1>2, <1>3, <1>4, <1>5, <1>6 DEF ServiceStep

LEMMA ServiceTypes ==
  ASSUME TypeOK, NEW p \in Processes, ServiceStep(p),
         UNCHANGED <<settingsVars, sessionVars, commands>>
  PROVE  TypeOK'
  BY ServiceSteps DEF ServiceEffect, TypeOK, Go, Places, settingsVars, sessionVars

LEMMA Types ==
  ASSUME TypeOK, PlaceInv, Next
  PROVE  TypeOK'
<1> USE ClientAssumption
<1>1. ASSUME NEW p \in Processes, BeginSave(p) PROVE TypeOK'
  BY <1>1 DEF BeginSave, GoesOn, Exits, Go, TypeOK, serviceVars, sessionVars, Places
<1>2. ASSUME NEW p \in Processes, EndSave(p) PROVE TypeOK'
  <2>1. config[p] \in Settings
    BY <1>2 DEF EndSave, PlaceInv
  <2>2. file' \in Settings \cup {Torn} /\ settled' \in BOOLEAN /\ current' \subseteq Processes
    BY <1>2, <2>1 DEF EndSave, TypeOK
  <2>3. PICK unsaved \in {{}, own[p]} : GoesOn(p, unsaved)
    BY <1>2 DEF EndSave
  <2>4. CASE p \in Shells
    BY <1>2, <2>2, <2>3, <2>4 DEF EndSave, GoesOn, Go, TypeOK, serviceVars, Places
  <2>5. CASE p \notin Shells
    BY <1>2, <2>2, <2>3, <2>5 DEF EndSave, GoesOn, Exits, Go, TypeOK, serviceVars, Places
  <2> QED BY <2>4, <2>5
<1>3. ASSUME NEW p \in Processes, Kill(p) PROVE TypeOK'
  BY <1>3 DEF Kill, Exits, Go, TypeOK, serviceVars, sessionVars, Places
<1>4. CASE NewSession /\ UNCHANGED <<settingsVars, sessionVars, commands>>
  BY <1>4 DEF NewSession, StartsAtLogin, TypeOK, settingsVars, sessionVars
<1> QED BY <1>1, <1>2, <1>3, <1>4, CliTypes, ShellTypes, ServiceTypes DEF Next, SomeStep
-----------------------------------------------------------------------------
LEMMA EditPlaces ==
  ASSUME TypeOK, PlaceInv, NEW p \in Processes, NEW s \in Settings,
         \E fields : Edit(p, s, fields), offering' \subseteq offering \cup {p},
         p \in offering' => s.prompted = TRUE
  PROVE  PlaceInv'
  BY DEF TypeOK, PlaceInv, AtService, Ended, Installing, Uninstalling, Edit, Go

LEMMA MarkPlaces ==
  ASSUME TypeOK, PlaceInv, NEW p \in Processes, config[p] \in Settings, _mark_prompted(p)
  PROVE  PlaceInv'
<1>1. /\ [config[p] EXCEPT !.prompted = TRUE] \in Settings
      /\ [config[p] EXCEPT !.prompted = TRUE].prompted = TRUE
  BY WithPrompted
<1> QED BY <1>1, EditPlaces DEF _mark_prompted

LEMMA ExitPlaces ==
  ASSUME TypeOK, PlaceInv, NEW p \in Processes, NEW code, Exits(p, code)
  PROVE  PlaceInv'
  BY DEF TypeOK, PlaceInv, AtService, Exits, Go

LEMMA PlacedAnew ==
  ASSUME TypeOK, PlaceInv, NEW p \in Processes, NEW place \in Places, Go(p, place),
         offering' \subseteq offering,
         \A q \in Processes \ {p} : config'[q] = config[q],
         place \in {"busy", "asking", "changed", "saving", "idle"} => config'[p] \in Settings,
         p \notin offering'
  PROVE  PlaceInv'
  BY DEF TypeOK, PlaceInv, AtService, Go

(* No answer is being saved before the process is asked or has changed      *)
(* something.                                                               *)
LEMMA NotOffering ==
  ASSUME TypeOK, PlaceInv, NEW p \in Processes,
         at[p] \in {"off", "loaded", "busy", "asking", "idle", "ended"}
  PROVE  p \notin offering
  BY DEF PlaceInv, AtService, Installing, Uninstalling, Ended

LEMMA CliPlaces ==
  ASSUME TypeOK, PlaceInv, NEW c \in Clis, CliStep(c)
  PROVE  PlaceInv'
<1> USE ClientAssumption DEF sessionVars
<1>0. c \in Processes
  OBVIOUS
<1>1. CASE main(c)
  BY <1>1, NotOffering, PlacedAnew DEF main, load, TypeOK, Places
<1>2. CASE cli_setup(c)
  <2>1. PICK s \in Settings : \E fields : Edit(c, s, fields)
    BY <1>2 DEF cli_setup, Edited
  <2>2. c \notin offering /\ offering' = offering
    BY <1>2, NotOffering DEF cli_setup, Command
  <2> QED BY <2>1, <2>2, EditPlaces
<1>3. CASE cli_reviewer_enable(c) \/ cli_reviewer_disable(c)
  <2>1. config[c] \in Settings
    BY <1>3 DEF cli_reviewer_enable, cli_reviewer_disable, TypeOK
  <2>2. PICK s \in Settings : \E fields : Edit(c, s, fields)
    BY <1>3, <2>1, WithReviewer DEF cli_reviewer_enable, cli_reviewer_disable
  <2>3. c \notin offering /\ offering' = offering
    BY <1>3, NotOffering DEF cli_reviewer_enable, cli_reviewer_disable, Command
  <2> QED BY <2>2, <2>3, EditPlaces
<1>4. CASE cli_language(c)
  <2>1. PICK s \in Settings : \E fields : Edit(c, s, fields)
    BY <1>4 DEF cli_language, Edited
  <2>2. c \notin offering /\ offering' = offering
    BY <1>4, NotOffering DEF cli_language, Command
  <2> QED BY <2>1, <2>2, EditPlaces
<1>5. CASE cli_service(c)
  <2>1. PICK place \in Installing \cup Uninstalling : Go(c, place)
    BY <1>5 DEF cli_service, install, uninstall, Installing, Uninstalling, Begins, TypeOK, Platforms
  <2>2. c \notin offering
    BY <1>5, NotOffering DEF cli_service, Command
  <2> QED BY <1>5, <2>1, <2>2, PlacedAnew
          DEF cli_service, Command, Places, Installing, Uninstalling
<1>6. CASE cli_fetch(c)
  <2>1. config[c] \in Settings /\ c \notin offering
    BY <1>6, NotOffering DEF cli_fetch, Command, TypeOK
  <2> QED BY <1>6, <2>1, PlacedAnew DEF cli_fetch, Command, Places
<1>7. CASE cli_other(c)
  BY <1>7, ExitPlaces DEF cli_other
<1>8. CASE offer_interactive(c)
  <2>1. config[c] \in Settings /\ c \notin offering
    BY <1>8, NotOffering DEF offer_interactive, PlaceInv
  <2>2. CASE Go(c, "asking") /\ UNCHANGED <<config, own, sessionVars>>
    BY <2>1, <2>2, PlacedAnew DEF Places
  <2> QED BY <1>8, <2>1, <2>2, MarkPlaces, ExitPlaces DEF offer_interactive
<1>9. CASE Answer(c)
  <2>1. config[c] \in Settings
    BY <1>9 DEF Answer, PlaceInv
  <2>2. CASE install(c) /\ offering' = offering \cup {c} /\ UNCHANGED config
    BY <2>1, <2>2 DEF install, Go, PlaceInv, TypeOK, AtService, Installing, Uninstalling
  <2> QED BY <1>9, <2>1, <2>2, MarkPlaces DEF Answer
<1>10. CASE ServiceEnds(c)
  <2>1. c \in offering => config[c] \in Settings
    BY DEF PlaceInv
  <2> QED BY <1>10, <2>1, MarkPlaces, ExitPlaces DEF ServiceEnds
<1> QED BY <1>1, <1>2, <1>3, <1>4, <1>5, <1>6, <1>7, <1>8, <1>9, <1>10 DEF CliStep

LEMMA ShellPlaces ==
  ASSUME TypeOK, PlaceInv, ShellStep
  PROVE  PlaceInv'
<1> USE ClientAssumption DEF sessionVars
<1>0. Menu \in Processes /\ Tui \in Processes
  BY DEF Shells
<1>1. CASE MenuStart
  <2>1. Menu \notin offering
    BY <1>0, <1>1, NotOffering DEF MenuStart
  <2>2. PICK place \in Places : Go(Menu, place) /\ (place = "idle" => file # None) /\ place \in {"loaded", "idle"}
    BY <1>1 DEF MenuStart, Places
  <2> QED BY <1>0, <1>1, <2>1, <2>2, PlacedAnew DEF MenuStart, load, TypeOK, Places
<1>2. CASE MenuEdits
  <2>1. PICK s \in Settings : \E fields : Edit(Menu, s, fields)
    BY <1>2 DEF MenuEdits, action_config, Edited
  <2>2. Menu \notin offering /\ offering' = offering
    BY <1>0, <1>2, NotOffering DEF MenuEdits
  <2> QED BY <1>0, <2>1, <2>2, EditPlaces
<1>3. CASE TuiStart
  <2>1. Tui \notin offering /\ offering' = offering
    BY <1>0, <1>3, NotOffering DEF TuiStart
  <2>2. CASE load(Tui) /\ Go(Tui, "idle") /\ file \in Settings
    BY <1>0, <2>1, <2>2, PlacedAnew DEF load, TypeOK, Places
  <2>3. CASE \E s \in Settings : \E fields : Edit(Tui, s, fields)
    BY <1>0, <2>1, <2>3, EditPlaces
  <2> QED BY <1>3, <2>2, <2>3, WithNaming, DefaultFacts DEF TuiStart
<1>4. CASE TuiEdits
  <2>1. PICK s \in Settings : \E fields : Edit(Tui, s, fields)
    BY <1>4 DEF TuiEdits, Edited
  <2>2. Tui \notin offering /\ offering' = offering
    BY <1>0, <1>4, NotOffering DEF TuiEdits
  <2> QED BY <1>0, <2>1, <2>2, EditPlaces
<1>5. CASE TuiAnswer
  <2>1. config[Tui] \in Settings
    BY <1>0, <1>5 DEF TuiAnswer, PlaceInv
  <2> QED BY <1>0, <1>5, <2>1, MarkPlaces DEF TuiAnswer
<1>6. CASE TuiQuits
  BY <1>6 DEF TuiQuits, PlaceInv, TypeOK, AtService, Installing, Uninstalling, Ended
<1>7. ASSUME NEW c \in Clis, TuiFetch(c) PROVE PlaceInv'
  BY <1>7, NotOffering, PlacedAnew DEF TuiFetch, load, TypeOK, Places
<1>8. ASSUME NEW c \in Clis, TuiOffer(c) PROVE PlaceInv'
  <2> DEFINE fresh == IF file \in Settings THEN file ELSE config[Tui]
  <2>1. fresh \in Settings /\ Tui \notin offering /\ c \notin offering /\ c # Tui
    BY <1>0, <1>8, NotOffering DEF TuiOffer, PlaceInv, Shells
  <2>2. /\ [fresh EXCEPT !.prompted = TRUE] \in Settings
        /\ [fresh EXCEPT !.prompted = TRUE].prompted = TRUE
    BY <2>1, WithPrompted
  <2>3. PICK place \in {"idle", "changed", "asking"}, s \in Settings :
          /\ at' = [at EXCEPT ![c] = "off", ![Tui] = place]
          /\ config' = [config EXCEPT ![Tui] = s]
          /\ offering' \subseteq offering \cup {Tui}
          /\ Tui \in offering' => place = "changed" /\ s.prompted = TRUE
    <3>1. CASE offering' = offering
      BY <1>0, <1>8, <2>1, <2>2, <3>1 DEF TuiOffer, TypeOK
    <3>2. CASE offering' # offering
      BY <1>8, <2>2, <3>2 DEF TuiOffer
    <3> QED BY <3>1, <3>2
  <2> QED BY <1>0, <2>1, <2>3 DEF TypeOK, PlaceInv, AtService
<1>9. ASSUME NEW c \in Clis, TuiInstall(c) PROVE PlaceInv'
  <2>1. c \notin offering
    BY <1>9, NotOffering DEF TuiInstall
  <2> QED BY <1>9, <2>1 DEF TuiInstall, install, Go, settingsVars, PlaceInv, TypeOK, AtService
<1> QED BY <1>1, <1>2, <1>3, <1>4, <1>5, <1>6, <1>7, <1>8, <1>9 DEF ShellStep

LEMMA PlacesKept ==
  ASSUME TypeOK, PlaceInv, Next
  PROVE  PlaceInv'
<1> USE ClientAssumption DEF sessionVars, settingsVars
<1>1. ASSUME NEW p \in Processes, NEW unsaved, GoesOn(p, unsaved), config[p] \in Settings
      PROVE  PlaceInv'
  BY <1>1, ExitPlaces, PlacedAnew DEF GoesOn, Places, TypeOK
<1>2. ASSUME NEW p \in Processes, BeginSave(p) PROVE PlaceInv'
  <2>1. config[p] \in Settings
    BY <1>2 DEF BeginSave, PlaceInv
  <2>2. CASE Go(p, "saving") /\ UNCHANGED <<config, own, sessionVars>>
    BY <1>2, <2>1, <2>2 DEF BeginSave, Go, PlaceInv, TypeOK, AtService, Installing, Uninstalling, Ended
  <2> QED BY <1>1, <1>2, <2>1, <2>2 DEF BeginSave
<1>3. ASSUME NEW p \in Processes, EndSave(p) PROVE PlaceInv'
  BY <1>1, <1>3 DEF EndSave, PlaceInv
<1>4. ASSUME NEW p \in Processes, Kill(p) PROVE PlaceInv'
  BY <1>4, ExitPlaces DEF Kill
<1>5. ASSUME NEW p \in Processes, ServiceStep(p), UNCHANGED <<settingsVars, sessionVars, commands>>
      PROVE  PlaceInv'
  <2>1. PICK place \in Installing \cup Uninstalling \cup Ended : Go(p, place)
    BY <1>5, ServiceSteps DEF ServiceEffect
  <2> QED BY <1>5, <2>1 DEF Go, PlaceInv, TypeOK, AtService, Installing, Uninstalling, Ended
<1>6. CASE NewSession /\ UNCHANGED <<settingsVars, sessionVars, commands>>
  BY <1>6 DEF NewSession, PlaceInv, AtService
<1> QED BY <1>2, <1>3, <1>4, <1>5, <1>6, CliPlaces, ShellPlaces DEF Next, SomeStep
-----------------------------------------------------------------------------
(* A process changes its copy, while no one touches the file.              *)
LEMMA LocalFile ==
  ASSUME TypeOK, FileInv, NEW p \in Processes,
         UNCHANGED <<file, current, settled>>,
         \A q \in Processes \ {p} :
           config'[q] = config[q] /\ own'[q] = own[q] /\ at'[q] = at[q],
         at[p] # "saving", at'[p] # "saving",
         p \in current /\ config'[p] # None =>
           /\ file \in Settings => \A f \in Fields \ own'[p] : config'[p][f] = file[f]
           /\ settled => config'[p].prompted = TRUE,
         p \in current /\ config'[p] = None /\ at'[p] = "loaded" => file = None
  PROVE  FileInv'
<1>1. WriterIsAlone'
  BY DEF FileInv, WriterIsAlone, TypeOK
<1>2. CopiesFollow'
  BY DEF FileInv, CopiesFollow, TypeOK
<1>3. AnswerStands'
  BY DEF FileInv, AnswerStands, TypeOK
<1> QED BY <1>1, <1>2, <1>3 DEF FileInv

LEMMA EditFile ==
  ASSUME TypeOK, FileInv, NEW p \in Processes, NEW s \in Settings, NEW fields \in SUBSET Fields,
         Edit(p, s, fields), UNCHANGED <<file, current, settled>>,
         at[p] # "saving",
         \/ /\ config[p] \in Settings
            /\ \A f \in Fields \ fields : s[f] = config[p][f]
            /\ "prompted" \in fields => s.prompted = TRUE
         \/ config[p] = None /\ at[p] = "loaded" /\ fields = Fields
  PROVE  FileInv'
<1> USE ClientAssumption
<1>1. /\ at' = [at EXCEPT ![p] = "changed"] /\ config' = [config EXCEPT ![p] = s]
      /\ own' = [own EXCEPT ![p] = @ \cup fields]
  BY DEF Edit, Go
<1>2. config'[p] = s /\ own'[p] = own[p] \cup fields /\ at'[p] = "changed" /\ s # None
  BY <1>1 DEF TypeOK
<1>3. CASE config[p] \in Settings /\ \A f \in Fields \ fields : s[f] = config[p][f]
           /\ ("prompted" \in fields => s.prompted = TRUE)
  <2>1. p \in current /\ file \in Settings =>
          \A f \in Fields \ own'[p] : s[f] = file[f]
    BY <1>2, <1>3 DEF FileInv, CopiesFollow
  <2>2. p \in current /\ settled => s.prompted = TRUE
    BY <1>3 DEF FileInv, AnswerStands, Fields
  <2> QED BY <1>1, <1>2, <2>1, <2>2, LocalFile DEF TypeOK
<1>4. CASE config[p] = None /\ at[p] = "loaded" /\ fields = Fields
  <2>1. p \in current => file = None /\ ~settled
    BY <1>4 DEF FileInv, CopiesFollow, AnswerStands, TypeOK
  <2> QED BY <1>1, <1>2, <2>1, LocalFile DEF TypeOK
<1> QED BY <1>3, <1>4

LEMMA MarkFile ==
  ASSUME TypeOK, FileInv, NEW p \in Processes, config[p] \in Settings, _mark_prompted(p),
         UNCHANGED <<file, current, settled>>, at[p] # "saving"
  PROVE  FileInv'
<1>1. /\ [config[p] EXCEPT !.prompted = TRUE] \in Settings
      /\ [config[p] EXCEPT !.prompted = TRUE].prompted = TRUE
      /\ \A f \in Fields \ {"prompted"} : [config[p] EXCEPT !.prompted = TRUE][f] = config[p][f]
  BY WithPrompted
<1>2. {"prompted"} \in SUBSET Fields
  BY DEF Fields
<1> QED BY <1>1, <1>2, EditFile DEF _mark_prompted

(* It ends, or goes elsewhere.                                             *)
LEMMA ExitFile ==
  ASSUME TypeOK, FileInv, NEW p \in Processes, NEW code, Exits(p, code),
         UNCHANGED <<file, current, settled>>, at[p] # "saving"
  PROVE  FileInv'
  BY LocalFile DEF Exits, Go, TypeOK

LEMMA GoFile ==
  ASSUME TypeOK, FileInv, NEW p \in Processes, NEW place \in Places, Go(p, place),
         UNCHANGED <<file, current, settled, config, own>>,
         at[p] # "saving", place \notin {"loaded", "saving"}
  PROVE  FileInv'
<1>1. \A q \in Processes \ {p} : at'[q] = at[q]
  BY DEF Go, TypeOK
<1>2. at'[p] = place
  BY DEF Go, TypeOK
<1>3. p \in current /\ config[p] # None =>
           /\ file \in Settings => \A f \in Fields \ own[p] : config[p][f] = file[f]
           /\ settled => config[p].prompted = TRUE
  BY DEF FileInv, CopiesFollow, AnswerStands
<1> QED BY <1>1, <1>2, <1>3, LocalFile

LEMMA LoadFile ==
  ASSUME TypeOK, FileInv, NEW p \in Processes, NEW place \in {"loaded", "busy", "idle"},
         load(p), Go(p, place), UNCHANGED <<file, settled>>, file # Torn
  PROVE  FileInv'
<1> USE ClientAssumption
<1>0. /\ \A q \in Processes \ {p} :
           config'[q] = config[q] /\ own'[q] = own[q] /\ at'[q] = at[q]
      /\ config'[p] = file /\ own'[p] = {} /\ at'[p] = place /\ current' = current \cup {p}
  BY DEF load, Go, TypeOK
<1>1. WriterIsAlone'
  BY <1>0 DEF FileInv, WriterIsAlone, TypeOK
<1>2. CopiesFollow'
  BY <1>0 DEF FileInv, CopiesFollow, TypeOK
<1>3. AnswerStands'
  BY <1>0 DEF FileInv, AnswerStands, TypeOK
<1> QED BY <1>1, <1>2, <1>3 DEF FileInv

LEMMA CliFile ==
  ASSUME TypeOK, PlaceInv, FileInv, NEW c \in Clis, CliStep(c)
  PROVE  FileInv'
<1> USE ClientAssumption DEF sessionVars
<1>0. c \in Processes
  OBVIOUS
<1>1. CASE main(c)
  BY <1>1, LoadFile DEF main
<1>2. CASE cli_setup(c)
  <2>1. at[c] = "loaded" /\ UNCHANGED <<file, current, settled>>
    BY <1>2 DEF cli_setup, Command
  <2>2. CASE config[c] = None
    <3>1. PICK s \in Settings : Edit(c, s, Fields)
      BY <1>2, <2>2 DEF cli_setup, Edited
    <3> QED BY <2>1, <2>2, <3>1, EditFile
  <2>3. CASE config[c] # None
    <3>1. PICK fields \in SUBSET {"author", "naming", "language", "reviewer"} :
            \E s \in Edited(config[c], fields) : Edit(c, s, fields)
      BY <1>2, <2>3 DEF cli_setup
    <3>2. PICK s \in Edited(config[c], fields) : Edit(c, s, fields)
      BY <3>1
    <3>3. fields \in SUBSET Fields /\ "prompted" \notin fields
      BY DEF Fields
    <3>4. s \in Settings /\ \A f \in Fields \ fields : s[f] = config[c][f]
      BY DEF Edited
    <3>5. config[c] \in Settings
      BY <2>3 DEF TypeOK
    <3> QED BY <2>1, <3>2, <3>3, <3>4, <3>5, EditFile
  <2> QED BY <2>2, <2>3
<1>3. CASE cli_reviewer_enable(c) \/ cli_reviewer_disable(c)
  <2>1. at[c] = "loaded" /\ UNCHANGED <<file, current, settled>>
    BY <1>3 DEF cli_reviewer_enable, cli_reviewer_disable, Command
  <2>2. config[c] \in Settings
    BY <1>3 DEF cli_reviewer_enable, cli_reviewer_disable, TypeOK
  <2>3. PICK b \in BOOLEAN : Edit(c, [config[c] EXCEPT !.reviewer = b], {"reviewer"})
    BY <1>3 DEF cli_reviewer_enable, cli_reviewer_disable
  <2>4. {"reviewer"} \in SUBSET Fields /\ "prompted" \notin {"reviewer"}
    BY DEF Fields
  <2> DEFINE s == [config[c] EXCEPT !.reviewer = b]
  <2>5. s \in Settings /\ \A f \in Fields \ {"reviewer"} : s[f] = config[c][f]
    BY <2>2, WithReviewer
  <2>6. Edit(c, s, {"reviewer"})
    BY <2>3
  <2> HIDE DEF s
  <2> QED BY <2>1, <2>2, <2>4, <2>5, <2>6, EditFile
<1>4. CASE cli_language(c)
  <2>1. at[c] = "loaded" /\ UNCHANGED <<file, current, settled>> /\ config[c] \in Settings
    BY <1>4 DEF cli_language, Command, TypeOK
  <2>2. PICK s \in Edited(config[c], {"language"}) : Edit(c, s, {"language"})
    BY <1>4 DEF cli_language
  <2>3. s \in Settings /\ \A f \in Fields \ {"language"} : s[f] = config[c][f]
    BY DEF Edited
  <2>4. {"language"} \in SUBSET Fields /\ "prompted" \notin {"language"}
    BY DEF Fields
  <2> QED BY <2>1, <2>2, <2>3, <2>4, EditFile
<1>5. CASE cli_service(c)
  <2>1. PICK place \in Installing \cup Uninstalling : Go(c, place)
    BY <1>5 DEF cli_service, install, uninstall, Installing, Uninstalling, Begins, TypeOK, Platforms
  <2> QED BY <1>5, <2>1, GoFile DEF cli_service, Command, Places, Installing, Uninstalling
<1>6. CASE cli_fetch(c)
  BY <1>6, GoFile DEF cli_fetch, Command, Places
<1>7. CASE cli_other(c)
  BY <1>7, ExitFile DEF cli_other
<1>8. CASE offer_interactive(c)
  <2>1. config[c] \in Settings /\ at[c] # "saving"
    BY <1>8 DEF offer_interactive, PlaceInv
  <2>2. CASE Go(c, "asking") /\ UNCHANGED <<config, own, sessionVars>>
    BY <1>8, <2>1, <2>2, GoFile DEF offer_interactive, Places
  <2> QED BY <1>8, <2>1, <2>2, MarkFile, ExitFile DEF offer_interactive
<1>9. CASE Answer(c)
  <2>1. config[c] \in Settings /\ at[c] # "saving" /\ UNCHANGED <<file, current, settled>>
    BY <1>9 DEF Answer, PlaceInv
  <2>2. CASE install(c) /\ UNCHANGED <<config, own>>
    <3>1. PICK place \in Installing : Go(c, place)
      BY <2>2 DEF install, Installing
    <3> QED BY <2>1, <2>2, <3>1, GoFile DEF Places, Installing
  <2> QED BY <1>9, <2>1, <2>2, MarkFile DEF Answer
<1>10. CASE ServiceEnds(c)
  <2>1. at[c] # "saving" /\ (c \in offering => config[c] \in Settings)
    BY <1>10 DEF PlaceInv, ServiceEnds, Ended
  <2> QED BY <1>10, <2>1, MarkFile, ExitFile DEF ServiceEnds
<1> QED BY <1>1, <1>2, <1>3, <1>4, <1>5, <1>6, <1>7, <1>8, <1>9, <1>10 DEF CliStep

LEMMA ShellFile ==
  ASSUME TypeOK, PlaceInv, FileInv, ShellStep
  PROVE  FileInv'
<1> USE ClientAssumption DEF sessionVars
<1>0. Menu \in Processes /\ Tui \in Processes
  BY DEF Shells
<1>1. CASE MenuStart
  BY <1>0, <1>1, LoadFile DEF MenuStart
<1>2. CASE MenuEdits
  <2>1. at[Menu] \in {"loaded", "idle"} /\ UNCHANGED <<file, current, settled>>
    BY <1>2 DEF MenuEdits
  <2>2. CASE config[Menu] = None
    <3>1. PICK s \in Settings : Edit(Menu, s, Fields)
      BY <1>2, <2>2 DEF MenuEdits, action_config, Edited
    <3>2. at[Menu] = "loaded"
      BY <1>0, <2>1, <2>2 DEF PlaceInv
    <3> QED BY <1>0, <2>1, <2>2, <3>1, <3>2, EditFile
  <2>3. CASE config[Menu] # None
    <3>1. PICK fields \in SUBSET {"author", "naming", "language"} :
            \E s \in Edited(config[Menu], fields) : Edit(Menu, s, fields)
      BY <1>2, <2>3 DEF MenuEdits, action_config
    <3>2. PICK s \in Edited(config[Menu], fields) : Edit(Menu, s, fields)
      BY <3>1
    <3>3. fields \in SUBSET Fields /\ "prompted" \notin fields
      BY DEF Fields
    <3>4. s \in Settings /\ \A f \in Fields \ fields : s[f] = config[Menu][f]
      BY DEF Edited
    <3>5. config[Menu] \in Settings
      BY <1>0, <2>3 DEF TypeOK
    <3> QED BY <1>0, <2>1, <3>2, <3>3, <3>4, <3>5, EditFile
  <2> QED BY <2>2, <2>3
<1>3. CASE TuiStart
  <2> USE DEF FileInv
  <2>1. at[Tui] = "off" /\ UNCHANGED <<file, settled>>
    BY <1>3 DEF TuiStart
  <2>2. CASE file \in Settings /\ load(Tui) /\ Go(Tui, "idle")
    BY <1>0, <2>1, <2>2, LoadFile
  <2>3. CASE /\ file \in Settings /\ current' = current \cup {Tui}
             /\ Edit(Tui, [file EXCEPT !.naming = TRUE], {"naming"})
    <3> DEFINE s == [file EXCEPT !.naming = TRUE]
    <3>1. /\ s # None /\ s.prompted = file.prompted
          /\ \A f \in Fields \ {"naming"} : s[f] = file[f]
      BY <2>3, WithNaming
    <3>2. /\ \A q \in Processes \ {Tui} :
               config'[q] = config[q] /\ own'[q] = own[q] /\ at'[q] = at[q]
          /\ config'[Tui] = s /\ own'[Tui] = own[Tui] \cup {"naming"} /\ at'[Tui] = "changed"
      BY <1>0, <2>3 DEF Edit, Go, TypeOK
    <3> HIDE DEF s
    <3>3. WriterIsAlone'
      BY <1>0, <2>1, <2>3, <3>2 DEF WriterIsAlone, TypeOK
    <3>4. CopiesFollow'
      BY <1>0, <2>1, <2>3, <3>1, <3>2 DEF CopiesFollow, TypeOK
    <3>5. AnswerStands'
      BY <1>0, <2>1, <2>3, <3>1, <3>2 DEF AnswerStands, TypeOK
    <3> QED BY <3>3, <3>4, <3>5
  <2>4. CASE /\ file \notin Settings
             /\ current' = IF file = None THEN current \cup {Tui} ELSE current \ {Tui}
             /\ Edit(Tui, ClientConfig(TRUE), Fields)
    <3>1. /\ \A q \in Processes \ {Tui} :
               config'[q] = config[q] /\ own'[q] = own[q] /\ at'[q] = at[q]
          /\ config'[Tui] # None /\ at'[Tui] = "changed"
      BY <1>0, <2>4, DefaultFacts DEF Edit, Go, TypeOK
    <3>2. file \in {None, Torn}
      BY <2>4 DEF TypeOK
    <3>3. WriterIsAlone'
      BY <1>0, <2>1, <2>4, <3>1, <3>2 DEF WriterIsAlone, TypeOK
    <3>4. CopiesFollow'
      BY <1>0, <2>1, <2>4, <3>1, <3>2 DEF CopiesFollow, TypeOK
    <3>5. AnswerStands'
      BY <1>0, <2>1, <2>4, <3>1, <3>2 DEF AnswerStands, TypeOK
    <3> QED BY <3>3, <3>4, <3>5
  <2> QED BY <1>3, <2>2, <2>3, <2>4 DEF TuiStart
<1>4. CASE TuiEdits
  <2>1. at[Tui] = "idle" /\ UNCHANGED <<file, current, settled>> /\ config[Tui] \in Settings
    BY <1>0, <1>4 DEF TuiEdits, PlaceInv
  <2>2. PICK field \in {"language", "reviewer"} :
          \E s \in Edited(config[Tui], {field}) : Edit(Tui, s, {field})
    BY <1>4 DEF TuiEdits
  <2>3. PICK s \in Edited(config[Tui], {field}) : Edit(Tui, s, {field})
    BY <2>2
  <2>4. s \in Settings /\ \A f \in Fields \ {field} : s[f] = config[Tui][f]
    BY DEF Edited
  <2>5. {field} \in SUBSET Fields /\ "prompted" \notin {field}
    BY DEF Fields
  <2> QED BY <1>0, <2>1, <2>3, <2>4, <2>5, EditFile
<1>5. CASE TuiAnswer
  <2>1. config[Tui] \in Settings /\ at[Tui] # "saving"
    BY <1>0, <1>5 DEF TuiAnswer, PlaceInv
  <2> QED BY <1>0, <1>5, <2>1, MarkFile DEF TuiAnswer
<1>6. CASE TuiQuits
  <2> USE DEF FileInv
  <2>1. /\ \A q \in Processes \ {Tui} :
             /\ config'[q] = config[q] /\ own'[q] = own[q]
             /\ at'[q] \in {at[q], "off"} /\ (at[q] = "saving" => at'[q] = "saving")
        /\ config'[Tui] = None /\ at'[Tui] = "off"
        /\ file' = file /\ current' = current
        /\ settled' = (settled /\ ~(at[Tui] = "saving" /\ Tui \in current))
    BY <1>0, <1>6 DEF TuiQuits, TypeOK
  <2>2. WriterIsAlone'
    BY <1>0, <2>1 DEF WriterIsAlone, TypeOK
  <2>3. CopiesFollow'
    BY <1>0, <2>1 DEF CopiesFollow, TypeOK
  <2>4. AnswerStands'
    BY <1>0, <2>1 DEF AnswerStands, TypeOK
  <2> QED BY <2>2, <2>3, <2>4
<1>7. ASSUME NEW c \in Clis, TuiFetch(c) PROVE FileInv'
  BY <1>7, LoadFile DEF TuiFetch
<1>8. ASSUME NEW c \in Clis, TuiOffer(c) PROVE FileInv'
  <2> USE DEF FileInv
  <2> DEFINE fresh == IF file \in Settings THEN file ELSE config[Tui]
  <2>1. fresh \in Settings /\ c # Tui
    BY <1>0, <1>8 DEF TuiOffer, PlaceInv, Shells
  <2>2. /\ [fresh EXCEPT !.prompted = TRUE] \in Settings
        /\ [fresh EXCEPT !.prompted = TRUE].prompted = TRUE
        /\ \A f \in Fields \ {"prompted"} : [fresh EXCEPT !.prompted = TRUE][f] = fresh[f]
    BY <2>1, WithPrompted
  <2>3. PICK place \in {"idle", "changed", "asking"}, s \in Settings, fields \in SUBSET Fields :
          /\ at' = [at EXCEPT ![c] = "off", ![Tui] = place]
          /\ config' = [config EXCEPT ![Tui] = s]
          /\ own' = [own EXCEPT ![Tui] = fields]
          /\ file \notin Settings => own[Tui] \subseteq fields
          /\ \A f \in Fields \ fields : s[f] = fresh[f]
          /\ fresh.prompted = TRUE => s.prompted = TRUE
    <3>1. CASE /\ at' = [at EXCEPT ![c] = "off", ![Tui] = "changed"]
               /\ config' = [config EXCEPT ![Tui] = [fresh EXCEPT !.prompted = TRUE]]
               /\ own' = [own EXCEPT ![Tui] = (IF file \in Settings THEN {} ELSE own[Tui]) \cup {"prompted"}]
      <4> DEFINE fields == (IF file \in Settings THEN {} ELSE own[Tui]) \cup {"prompted"}
                 s == [fresh EXCEPT !.prompted = TRUE]
      <4>1. fields \in SUBSET Fields /\ "prompted" \in fields /\ (file \notin Settings => own[Tui] \subseteq fields)
        BY <1>0 DEF Fields, TypeOK
      <4>2. s \in Settings /\ s.prompted = TRUE /\ \A f \in Fields \ fields : s[f] = fresh[f]
        BY <2>2, <4>1
      <4> HIDE DEF s, fields, fresh
      <4> QED BY <3>1, <4>1, <4>2 DEF s, fields
    <3>2. CASE /\ at' \in {[at EXCEPT ![c] = "off"], [at EXCEPT ![c] = "off", ![Tui] = "asking"]}
               /\ config' = [config EXCEPT ![Tui] = fresh]
               /\ own' = [own EXCEPT ![Tui] = IF file \in Settings THEN {} ELSE own[Tui]]
      <4>1. PICK place \in {"idle", "asking"} : at' = [at EXCEPT ![c] = "off", ![Tui] = place]
        BY <1>0, <1>8, <2>1, <3>2 DEF TuiOffer, TypeOK
      <4>2. (IF file \in Settings THEN {} ELSE own[Tui]) \in SUBSET Fields
        BY <1>0 DEF TypeOK
      <4> HIDE DEF fresh
      <4> QED BY <2>1, <3>2, <4>1, <4>2
    <3> QED BY <1>8, <3>1, <3>2 DEF TuiOffer
  <2>4. /\ \A q \in Processes \ {Tui} : config'[q] = config[q] /\ own'[q] = own[q]
        /\ \A q \in Processes \ {c, Tui} : at'[q] = at[q]
        /\ config'[Tui] = s /\ own'[Tui] = fields
        /\ at'[c] = "off" /\ at'[Tui] = place
        /\ file' = file /\ settled' = settled
        /\ current' = IF file \in Settings THEN current \cup {Tui} ELSE current
    BY <1>0, <1>8, <2>1, <2>3 DEF TuiOffer, TypeOK
  <2>5. at[Tui] = "idle" /\ at[c] = "ended" /\ config[Tui] \in Settings
    BY <1>0, <1>8 DEF TuiOffer, PlaceInv
  <2>6. WriterIsAlone'
    BY <1>0, <2>4, <2>5 DEF WriterIsAlone, TypeOK
  <2>7. CopiesFollow'
    BY <1>0, <2>3, <2>4, <2>5 DEF CopiesFollow, TypeOK
  <2>8. AnswerStands'
    BY <1>0, <2>3, <2>4, <2>5 DEF AnswerStands, TypeOK
  <2> QED BY <2>6, <2>7, <2>8
<1>9. ASSUME NEW c \in Clis, TuiInstall(c) PROVE FileInv'
  <2>1. CASE install(c)
    <3>1. PICK place \in Installing : Go(c, place)
      BY <2>1 DEF install, Installing
    <3> QED BY <1>9, <3>1, GoFile DEF TuiInstall, settingsVars, Places, Installing
  <2>2. CASE UNCHANGED at
    BY <1>9, <2>2 DEF TuiInstall, settingsVars, FileInv, WriterIsAlone, CopiesFollow, AnswerStands
  <2> QED BY <1>9, <2>1, <2>2 DEF TuiInstall
<1> QED BY <1>1, <1>2, <1>3, <1>4, <1>5, <1>6, <1>7, <1>8, <1>9 DEF ShellStep

LEMMA SaveFile ==
  ASSUME TypeOK, PlaceInv, FileInv, NEW p \in Processes, BeginSave(p) \/ EndSave(p) \/ Kill(p)
  PROVE  FileInv'
<1> USE ClientAssumption DEF FileInv
(* What a process does after a save: others are not touched, and its copy   *)
(* is what it was or gone.                                                  *)
<1> DEFINE Resumes(unsaved) ==
      /\ \A q \in Processes \ {p} : config'[q] = config[q] /\ own'[q] = own[q] /\ at'[q] = at[q]
      /\ at'[p] \notin {"saving", "loaded"}
      /\ config'[p] # None => config'[p] = config[p] /\ own'[p] = unsaved
<1>1. ASSUME NEW unsaved \in SUBSET Fields, GoesOn(p, unsaved) PROVE Resumes(unsaved)
  BY <1>1 DEF GoesOn, Exits, Go, TypeOK
<1>2. CASE BeginSave(p)
  <2>1. config[p] \in Settings /\ at[p] = "changed"
    BY <1>2 DEF BeginSave, PlaceInv
  <2>2. CASE file' = Torn
    <3>1. CASE GoesOn(p, own[p]) /\ UNCHANGED <<file, current, settled>>
      <4>1. own[p] \in SUBSET Fields
        BY DEF TypeOK
      <4>2. Resumes(own[p])
        BY <1>1, <3>1, <4>1
      <4>3. WriterIsAlone'
        BY <2>1, <3>1, <4>2 DEF WriterIsAlone, TypeOK
      <4>4. CopiesFollow'
        BY <2>1, <3>1, <4>2 DEF CopiesFollow, TypeOK
      <4>5. AnswerStands'
        BY <2>1, <3>1, <4>2 DEF AnswerStands, TypeOK
      <4> QED BY <4>3, <4>4, <4>5
    <3>2. CASE /\ current' = {p} /\ settled' = (settled /\ p \in current)
               /\ Go(p, "saving") /\ UNCHANGED <<config, own, sessionVars>>
      <4>1. at'[p] = "saving" /\ config' = config
        BY <3>2 DEF Go, TypeOK
      <4>2. WriterIsAlone'
        BY <2>2, <3>2 DEF WriterIsAlone
      <4>3. CopiesFollow'
        BY <2>1, <2>2, <3>2, <4>1 DEF CopiesFollow
      <4>4. AnswerStands'
        BY <2>1, <2>2, <3>2, <4>1 DEF AnswerStands
      <4> QED BY <4>2, <4>3, <4>4
    <3> QED BY <1>2, <3>1, <3>2 DEF BeginSave
  <2>3. CASE GoesOn(p, own[p]) /\ UNCHANGED <<file, current, settled>>
    <3>1. own[p] \in SUBSET Fields
      BY DEF TypeOK
    <3>2. Resumes(own[p])
      BY <1>1, <2>3, <3>1
    <3>3. p \in current /\ config'[p] # None =>
            /\ file \in Settings => \A f \in Fields \ own'[p] : config'[p][f] = file[f]
            /\ settled => config'[p].prompted = TRUE
      BY <3>2 DEF CopiesFollow, AnswerStands
    <3>4. at[p] # "saving" /\ at'[p] \notin {"saving", "loaded"}
      BY <2>1, <3>2
    <3> QED BY <2>3, <3>2, <3>3, <3>4, LocalFile
  <2> QED BY <1>2, <2>2, <2>3 DEF BeginSave
<1>3. CASE EndSave(p)
  <2>1. config[p] \in Settings /\ at[p] = "saving" /\ current' = current \cap {p}
    BY <1>3 DEF EndSave, PlaceInv
  <2>2. CASE /\ file' \in {config[p]} \cup (IF p \in current THEN {} ELSE {Torn})
             /\ GoesOn(p, {})
             /\ settled' = (p \in current /\ (settled \/ p \in offering))
    <3>1. Resumes({})
      BY <1>1, <2>2
    <3>2. p \in current => file' = config[p]
      BY <2>2
    <3>3. settled' => config[p].prompted = TRUE
      BY <2>1, <2>2 DEF AnswerStands, PlaceInv
    <3>4. WriterIsAlone'
      BY <2>1, <3>1 DEF WriterIsAlone
    <3>5. CopiesFollow'
      BY <2>1, <3>1, <3>2 DEF CopiesFollow
    <3>6. AnswerStands'
      BY <2>1, <2>2, <3>1, <3>2, <3>3 DEF AnswerStands
    <3> QED BY <3>4, <3>5, <3>6
  <2>3. CASE file' = Torn /\ GoesOn(p, own[p]) /\ settled' = FALSE
    <3>1. own[p] \in SUBSET Fields
      BY DEF TypeOK
    <3>2. Resumes(own[p])
      BY <1>1, <2>3, <3>1
    <3>3. WriterIsAlone'
      BY <2>1, <3>2 DEF WriterIsAlone
    <3>4. CopiesFollow'
      BY <2>1, <2>3, <3>2 DEF CopiesFollow
    <3>5. AnswerStands'
      BY <2>3 DEF AnswerStands
    <3> QED BY <3>3, <3>4, <3>5
  <2> QED BY <1>3, <2>2, <2>3 DEF EndSave
<1>4. CASE Kill(p)
  <2>1. /\ \A q \in Processes \ {p} : config'[q] = config[q] /\ own'[q] = own[q] /\ at'[q] = at[q]
        /\ config'[p] = None /\ at'[p] = "off"
        /\ file' = file /\ current' = current
        /\ settled' = (settled /\ ~(at[p] = "saving" /\ p \in current))
    BY <1>4 DEF Kill, Exits, Go, TypeOK
  <2>2. WriterIsAlone'
    BY <2>1 DEF WriterIsAlone, TypeOK
  <2>3. CopiesFollow'
    BY <2>1 DEF CopiesFollow, TypeOK
  <2>4. AnswerStands'
    BY <2>1 DEF AnswerStands, TypeOK
  <2> QED BY <2>2, <2>3, <2>4
<1> QED BY <1>2, <1>3, <1>4

LEMMA FileKept ==
  ASSUME TypeOK, PlaceInv, FileInv, Next
  PROVE  FileInv'
<1>1. ASSUME NEW p \in Processes, ServiceStep(p), UNCHANGED <<settingsVars, sessionVars, commands>>
      PROVE  FileInv'
  <2>1. PICK place \in Installing \cup Uninstalling \cup Ended : AtService(p) /\ Go(p, place)
    BY <1>1, ServiceSteps DEF ServiceEffect
  <2> QED BY <1>1, <2>1, GoFile
          DEF settingsVars, AtService, Places, Installing, Uninstalling, Ended
<1>2. CASE NewSession /\ UNCHANGED <<settingsVars, sessionVars, commands>>
  BY <1>2 DEF NewSession, settingsVars, FileInv, WriterIsAlone, CopiesFollow, AnswerStands
<1> QED BY <1>1, <1>2, CliFile, ShellFile, SaveFile DEF Next, SomeStep
-----------------------------------------------------------------------------
(* Nobody comes to the service, and whoever was there stays or leaves.     *)
LEMMA QuietService ==
  ASSUME TypeOK, ServiceInv, UNCHANGED serviceVars,
         \A q \in Processes : at'[q] = at[q] \/ at'[q] \notin Installing \cup Uninstalling
  PROVE  ServiceInv'
<1>1. UNCHANGED <<platform, unit, armed, active, alone, promise>>
  BY DEF serviceVars
<1>2. \A q \in Processes : AtService(q)' => AtService(q)
  BY DEF AtService
<1>3. ReportsStayTrue'
  BY <1>1 DEF ServiceInv, ReportsStayTrue, StartsAtLogin, restarts
<1> QED BY ClientAssumption, <1>1, <1>2, <1>3 DEF ServiceInv, TypeOK, Installing, Uninstalling

LEMMA BeginsService ==
  ASSUME TypeOK, NEW p \in Processes, Begins(p), install(p) \/ uninstall(p)
  PROVE  ServiceInv'
<1>1. PICK place \in (Installing \cup Uninstalling) \ {"forget"} : Go(p, place)
  BY DEF install, uninstall, Begins, Installing, Uninstalling, TypeOK, Platforms
<1>2. at'[p] = place /\ \A q \in Processes \ {p} : at'[q] = at[q]
  BY <1>1 DEF Go, TypeOK
<1>3. promise' = None /\ alone' \in {None, p}
      /\ (alone' = p => \A q \in Processes \ {p} : ~AtService(q))
  BY ClientAssumption DEF Begins
<1>4. \A q \in Processes \ {p} : AtService(q)' = AtService(q)
  BY <1>2 DEF AtService
<1>5. ReportsStayTrue'
  BY <1>3, ClientAssumption DEF ReportsStayTrue
<1> QED BY <1>2, <1>3, <1>4, <1>5, ClientAssumption DEF ServiceInv

LEMMA StepsOfService ==
  ASSUME TypeOK, ServiceInv, NEW p \in Processes, ServiceStep(p)
  PROVE  ServiceInv'
<1> USE ClientAssumption
<1>1. PICK place \in Installing \cup Uninstalling \cup Ended : Go(p, place) /\ AtService(p)
  BY ServiceSteps DEF ServiceEffect
<1>2. at'[p] = place /\ \A q \in Processes \ {p} : at'[q] = at[q] /\ AtService(q)' = AtService(q)
  BY <1>1 DEF Go, TypeOK, AtService
<1>3. promise = None /\ UNCHANGED <<platform, alone>>
  BY <1>1, ServiceSteps DEF ServiceEffect, ServiceInv
<1>4. promise' # None => alone = p /\ at'[p] = "done"
  <2>1. CASE UNCHANGED promise
    BY <1>3, <2>1
  <2>2. CASE \E word : Succeeds(p, word)
    BY <2>2, <1>3 DEF Succeeds, Go, TypeOK
  <2> QED BY <2>1, <2>2 DEF ServiceStep, _darwin_install, _darwin_uninstall, _linux_install,
            _linux_uninstall, _windows_install, _windows_uninstall, CommandMissing, WriteUnit,
            enable, Continues
<1>5. ASSUME promise' # None
      PROVE  \/ promise' = "installed" /\ StartsAtLogin' /\ (restarts => active)'
             \/ promise' = "removed" /\ ~StartsAtLogin'
  <2> USE <1>3, <1>5 DEF Succeeds, Continues, StartsAtLogin, restarts
  <2>1. CASE platform = "darwin"
    <3>1. CASE _darwin_install(p)
      BY <2>1, <3>1 DEF _darwin_install, WriteUnit
    <3>2. CASE _darwin_uninstall(p)
      BY <2>1, <3>2 DEF _darwin_uninstall, Unlink
    <3> QED BY <2>1, <3>1, <3>2 DEF ServiceStep, CommandMissing
  <2>2. CASE platform = "linux"
    <3>1. CASE _linux_install(p)
      BY <2>2, <3>1 DEF _linux_install, WriteUnit, enable
    <3>2. CASE _linux_uninstall(p)
      BY <1>4, <2>2, <3>2 DEF _linux_uninstall, Unlink, ServiceInv
    <3> QED BY <2>2, <3>1, <3>2 DEF ServiceStep, CommandMissing
  <2>3. CASE platform = "windows"
    BY <2>3 DEF ServiceStep, _windows_install, _windows_uninstall, CommandMissing
  <2> QED BY <2>1, <2>2, <2>3 DEF TypeOK, Platforms
<1>6. alone' # None /\ at'[alone'] = "forget" => unit' = "absent"
  <2>1. CASE alone = p
    <3>1. at[p] # "forget" /\ place = "forget" => unit' = "absent"
      BY <1>1 DEF ServiceStep, _darwin_install, _darwin_uninstall, _linux_install,
         _linux_uninstall, _windows_install, _windows_uninstall, CommandMissing, WriteUnit,
         enable, Continues, Succeeds, Go, Unlink, TypeOK
    <3>2. at[p] = "forget" => place # "forget"
      <4>1. CASE at[p] = "forget" /\ Go(p, "done")
        BY <1>2, <4>1 DEF Go, TypeOK
      <4>2. CASE at[p] = "forget" /\ Go(p, "raised")
        BY <1>2, <4>2 DEF Go, TypeOK
      <4> QED BY <4>1, <4>2 DEF ServiceStep, _darwin_install, _darwin_uninstall, _linux_install,
         _linux_uninstall, _windows_install, _windows_uninstall, CommandMissing, WriteUnit,
         enable, Continues, Succeeds
    <3> QED BY <1>2, <1>3, <2>1, <3>1, <3>2
  <2>2. CASE alone # p
    BY <1>1, <1>2, <1>3, <2>2 DEF ServiceInv, TypeOK, AtService, Uninstalling
  <2> QED BY <2>1, <2>2
<1>7. ReportsStayTrue'
  BY <1>5 DEF ReportsStayTrue
<1> QED BY <1>1, <1>2, <1>3, <1>4, <1>6, <1>7
        DEF ServiceInv, AtService, Installing, Uninstalling

LEMMA ServiceKept ==
  ASSUME TypeOK, PlaceInv, ServiceInv, Next
  PROVE  ServiceInv'
<1> USE ClientAssumption
<1>1. ASSUME NEW c \in Clis, CliStep(c) PROVE ServiceInv'
  <2>1. CASE Begins(c) /\ (install(c) \/ uninstall(c))
    BY <2>1, BeginsService
  <2>2. CASE UNCHANGED serviceVars /\ \E place \in Places \ (Installing \cup Uninstalling) : Go(c, place)
    BY <2>2, QuietService DEF Go, TypeOK
  <2> QED
    BY <1>1, <2>1, <2>2
    DEF CliStep, main, Command, cli_setup, cli_reviewer_enable, cli_reviewer_disable, cli_language,
        cli_service, cli_fetch, cli_other, offer_interactive, Answer, ServiceEnds,
        _mark_prompted, Edit, Exits, Places, Installing, Uninstalling
<1>2. CASE ShellStep
  <2>1. CASE \E c \in Clis : TuiInstall(c)
    <3>1. PICK c \in Clis : TuiInstall(c)
      BY <2>1
    <3>2. CASE UNCHANGED <<serviceVars, at>>
      BY <3>2, QuietService
    <3> QED BY <3>1, <3>2, BeginsService DEF TuiInstall
  <2>2. CASE MenuStart \/ MenuEdits \/ TuiStart \/ TuiEdits \/ TuiAnswer \/ \E c \in Clis : TuiFetch(c)
    <3>1. UNCHANGED serviceVars
      BY <2>2 DEF MenuStart, MenuEdits, TuiStart, TuiEdits, TuiAnswer, TuiFetch
    <3>2. \E q \in Processes, place \in Places \ (Installing \cup Uninstalling) : Go(q, place)
      BY <2>2 DEF MenuStart, MenuEdits, TuiStart, TuiEdits, TuiAnswer, TuiFetch, action_config,
           _mark_prompted, Edit, Shells, Places, Installing, Uninstalling
    <3> QED BY <3>1, <3>2, QuietService DEF Go, TypeOK
  <2>3. CASE TuiQuits \/ \E c \in Clis : TuiOffer(c)
    <3>1. UNCHANGED serviceVars
      BY <2>3 DEF TuiQuits, TuiOffer
    <3>2. \A q \in Processes : at'[q] = at[q] \/ at'[q] \notin Installing \cup Uninstalling
      BY <2>3 DEF TuiQuits, TuiOffer, TypeOK, Installing, Uninstalling
    <3> QED BY <3>1, <3>2, QuietService
  <2> QED BY <1>2, <2>1, <2>2, <2>3 DEF ShellStep
<1>3. ASSUME NEW p \in Processes, SomeStep(p) PROVE ServiceInv'
  <2>1. CASE UNCHANGED serviceVars /\ \E place \in Places \ (Installing \cup Uninstalling) : Go(p, place)
    BY <2>1, QuietService DEF Go, TypeOK
  <2> QED BY <1>3, <2>1, StepsOfService
          DEF SomeStep, BeginSave, EndSave, Kill, GoesOn, Exits, Places, Installing, Uninstalling
<1>4. CASE NewSession
  BY <1>4 DEF NewSession, ServiceInv, ReportsStayTrue, StartsAtLogin, restarts, AtService, TypeOK
<1> QED BY <1>1, <1>2, <1>3, <1>4 DEF Next
-----------------------------------------------------------------------------
LEMMA ClientInvHolds == Spec => []ClientInv
<1>1. Init => ClientInv
  <2> USE ClientAssumption
  <2> SUFFICES ASSUME Init PROVE ClientInv
    OBVIOUS
  <2>1. TypeOK
    <3>1. file \in Settings \cup {None, Torn}
      BY DefaultFacts DEF Init
    <3>2. /\ at \in [Processes -> Places]
          /\ config \in [Processes -> Settings \cup {None}]
          /\ own \in [Processes -> SUBSET Fields]
      BY DEF Init, Places
    <3>3. commands \in 0..MaxCommands
      BY DEF Init
    <3>4. /\ current \subseteq Processes /\ offering \subseteq Processes /\ children \subseteq Clis
          /\ accepted \in BOOLEAN /\ settled \in BOOLEAN
      BY DEF Init
    <3> QED BY <3>1, <3>2, <3>3, <3>4 DEF Init, ServiceInit, TypeOK
  <2>2. PlaceInv
    BY DEF Init, PlaceInv
  <2>3. ServiceInv
    BY DEF Init, ServiceInit, ServiceInv, ReportsStayTrue
  <2>4. FileInv
    BY DEF Init, FileInv, WriterIsAlone, CopiesFollow, AnswerStands
  <2> QED BY <2>1, <2>2, <2>3, <2>4 DEF ClientInv
<1>2. ClientInv /\ [Next]_vars => ClientInv'
  <2> SUFFICES ASSUME ClientInv, [Next]_vars PROVE ClientInv'
    OBVIOUS
  <2>1. CASE Next
    BY <2>1, Types, PlacesKept, ServiceKept, FileKept DEF ClientInv
  <2>2. CASE UNCHANGED vars
    <3> USE <2>2 DEF vars, serviceVars, settingsVars, sessionVars, ClientInv
    <3>1. TypeOK'
      BY DEF TypeOK
    <3>2. PlaceInv'
      BY DEF PlaceInv, AtService
    <3>3. ServiceInv'
      BY DEF ServiceInv, ReportsStayTrue, StartsAtLogin, restarts, AtService
    <3>4. FileInv'
      BY DEF FileInv, WriterIsAlone, CopiesFollow, AnswerStands
    <3> QED BY <3>1, <3>2, <3>3, <3>4
  <2> QED BY <2>1, <2>2
<1> QED BY <1>1, <1>2, PTL DEF Spec

(* Settings, places and the state of the service keep their types,         *)
(* whatever is killed or refused.                                          *)
THEOREM TypeCorrect == Spec => []TypeOK
<1>1. ClientInv => TypeOK
  BY DEF ClientInv
<1> QED BY <1>1, ClientInvHolds, PTL

(* What install and uninstall reported of the seeder's service stays so    *)
(* until somebody turns to it again (service.py:84-389).                   *)
THEOREM ServiceAsReported == Spec => []ReportsStayTrue
<1>1. ClientInv => ReportsStayTrue
  BY DEF ClientInv, ServiceInv
<1> QED BY <1>1, ClientInvHolds, PTL

(* A process that saves the settings changes what it was told to change    *)
(* and nothing else, unless another has opened the file since it read it   *)
(* (config.py:48-53 and every caller of save).                             *)
THEOREM SavesKeepTheRest == Spec => []OthersAreKept
<1>1. ClientInv => OthersAreKept
  BY ClientAssumption DEF ClientInv, FileInv, CopiesFollow, OthersAreKept, PlaceInv, TypeOK
<1> QED BY <1>1, ClientInvHolds, PTL

(* The one-shot offer is made once (service.py:486-506, tui.py:1173-1198). *)
THEOREM OfferedOnce == Spec => AskedOnce
<1> USE ClientAssumption
<1> DEFINE Asks(p) == at[p] # "asking" /\ at'[p] = "asking"
           Excused(p) == p \notin current /\ (p = Tui => file = Torn)
<1>1. ASSUME ClientInv, Next, settled, NEW p \in Processes, Asks(p)
      PROVE  Excused(p)
  <2> USE DEF ClientInv, FileInv, AnswerStands
  <2>1. TypeOK /\ PlaceInv
    BY <1>1
  <2>2. ASSUME NEW q \in Processes, NEW place \in Places \ {"asking"}, Go(q, place) PROVE FALSE
    BY <1>1, <2>1, <2>2 DEF Go, TypeOK
  <2>3. ASSUME NEW c \in Clis, CliStep(c) PROVE Excused(p)
    <3>1. CASE offer_interactive(c) /\ Go(c, "asking") /\ config[c].prompted = FALSE
      <4>1. p = c /\ p # Tui
        BY <1>1, <2>1, <3>1 DEF Go, TypeOK, Shells
      <4>2. config[c] \in Settings
        BY <2>1, <3>1 DEF offer_interactive, PlaceInv
      <4> QED BY <1>1, <3>1, <4>1, <4>2
    <3> QED
      BY <2>1, <2>2, <2>3, <3>1
      DEF CliStep, main, Command, cli_setup, cli_reviewer_enable, cli_reviewer_disable,
          cli_language, cli_service, cli_fetch, cli_other, offer_interactive, Answer, ServiceEnds,
          _mark_prompted, Edit, Exits, Begins, install, uninstall, TypeOK, Platforms,
          Places, Installing, Uninstalling
  <2>4. ASSUME NEW c \in Clis, TuiOffer(c) PROVE Excused(p)
    <3> DEFINE fresh == IF file \in Settings THEN file ELSE config[Tui]
    <3>1. Tui \in Processes /\ c # Tui
      BY DEF Shells
    <3>2. at'[Tui] = "asking" /\ p = Tui /\ fresh.prompted = FALSE
      BY <1>1, <2>1, <2>4, <3>1 DEF TuiOffer, TypeOK
    <3>3. config[Tui] \in Settings
      BY <2>1, <2>4, <3>1 DEF TuiOffer, PlaceInv
    <3> QED BY <1>1, <2>1, <3>2, <3>3
  <2>5. CASE \E c \in Clis : TuiInstall(c)
    BY <1>1, <2>1, <2>2, <2>5 DEF TuiInstall, install, Installing, Places
  <2>6. CASE MenuStart \/ MenuEdits \/ TuiStart \/ TuiEdits \/ TuiAnswer \/ \E c \in Clis : TuiFetch(c)
    BY <2>2, <2>6 DEF MenuStart, MenuEdits, TuiStart, TuiEdits, TuiAnswer, TuiFetch, action_config,
         _mark_prompted, Edit, Shells, Places
  <2>7. CASE TuiQuits
    BY <1>1, <2>7 DEF TuiQuits
  <2>8. ASSUME NEW q \in Processes, SomeStep(q) PROVE FALSE
    <3>1. CASE ServiceStep(q)
      BY <2>1, <2>2, <3>1, ServiceSteps
         DEF ServiceEffect, Places, Installing, Uninstalling, Ended
    <3> QED BY <2>2, <2>8, <3>1 DEF SomeStep, BeginSave, EndSave, Kill, GoesOn, Exits, Places
  <2>9. CASE NewSession
    BY <1>1, <2>9 DEF NewSession
  <2> QED BY <1>1, <2>3, <2>4, <2>5, <2>6, <2>7, <2>8, <2>9 DEF Next, ShellStep
<1>2. ClientInv /\ [Next]_vars =>
        [settled => \A p \in Processes : Asks(p) => Excused(p)]_vars
  BY <1>1
<1> QED BY <1>2, ClientInvHolds, PTL DEF Spec, AskedOnce
=============================================================================
