--------------------------- MODULE SeederService ---------------------------
(***************************************************************************)
(* The seeder as a service of the user's session: install, uninstall and   *)
(* status in mdp2p_client/service.py, for launchd, systemd and the Task    *)
(* Scheduler.  They run a few commands of the system one after the other,  *)
(* each of which may fail, be missing or be the last that the process runs.*)
(* The commands themselves are the system's: what they do is taken from    *)
(* how the code uses them.                                                 *)
(*                                                                         *)
(* On any other platform nothing is offered or installed.                  *)
(***************************************************************************)
CONSTANTS
  Processes,   \* of the user
  None

VARIABLES
  platform,
  unit,        \* the property list or the unit file: absent, torn or whole
  armed,       \* the link that systemctl enable makes; the scheduled task
  active,      \* does the session's manager keep the seeder running?
  at,          \* where each process is
  alone,       \* the process that is at the service, if it has been alone
  promise      \* what the last install or uninstall reported, if it was alone

Platforms == {"darwin", "linux", "windows"}

serviceVars == <<platform, unit, armed, active, alone, promise>>

Installing == {"write", "bootstrap", "load", "reload", "enable", "create"}
Uninstalling ==
  {"look", "bootout", "unload", "disable", "unlink", "forget", "delete"}
Ended == {"done", "failed", "raised"}
AtService(p) == at[p] \in Installing \cup Uninstalling

Go(p, place) == at' = [at EXCEPT ![p] = place]
-----------------------------------------------------------------------------
(* RunAtLoad; WantedBy=default.target; /sc onlogon.                        *)
StartsAtLogin ==
  IF platform = "windows" THEN armed
  ELSE unit = "whole" /\ (platform = "linux" => armed)

(* KeepAlive; Restart=on-failure, every five seconds, which is below the   *)
(* rate where systemd gives up.  A scheduled task that ends is over.       *)
restarts == platform # "windows"

_darwin_status == unit # "absent"
_linux_status == unit # "absent"
_windows_status == armed

(* status()["installed"]                                                   *)
installed ==
  CASE platform = "darwin" -> _darwin_status
    [] platform = "linux" -> _linux_status
    [] platform = "windows" -> _windows_status

install(p) ==
  Go(p, IF platform = "windows" THEN "create" ELSE "write")
uninstall(p) ==
  Go(p, CASE platform = "darwin" -> "look"
          [] platform = "linux" -> "disable"
          [] platform = "windows" -> "delete")

(* A process turns to the service.                                         *)
Begins(p) ==
  /\ alone' = IF \E q \in Processes \ {p} : AtService(q) THEN None ELSE p
  /\ promise' = None
  /\ UNCHANGED <<platform, unit, armed, active>>

(* It is told that all went well.                                          *)
Succeeds(p, word) ==
  /\ Go(p, "done")
  /\ promise' = IF alone = p THEN word ELSE None
  /\ UNCHANGED alone

Continues(p, place) == Go(p, place) /\ UNCHANGED <<promise, alone>>

(* _darwin_write_plist, and write_text of the unit: the file is truncated  *)
(* and then written.                                                       *)
WriteUnit(p, next) ==
  /\ at[p] = "write"
  /\ \/ unit' = "whole" /\ Continues(p, next)
     \/ unit' \in {unit, "torn"} /\ Continues(p, "raised")
  /\ UNCHANGED <<armed, active>>

_darwin_install(p) ==
  \/ WriteUnit(p, "bootstrap")
  \/ /\ at[p] \in {"bootstrap", "load"}
     /\ \/ unit = "whole" /\ active' = TRUE /\ Succeeds(p, "installed")
        \/ /\ Continues(p, IF at[p] = "bootstrap" THEN "load" ELSE "failed")
           /\ UNCHANGED active
     /\ UNCHANGED <<unit, armed>>

(* BROKEN: the result of systemctl enable is not looked at. *)
enable_unchecked(p) ==
  /\ at[p] = "enable"
  /\ \/ armed' = TRUE /\ active' = TRUE
     \/ UNCHANGED <<armed, active>>
  /\ Succeeds(p, "installed")
  /\ UNCHANGED unit

(* enable --now may make the link and fail to start the unit.              *)
enable(p) ==
  /\ at[p] = "enable"
  /\ \/ /\ unit = "whole"
        /\ armed' = TRUE /\ active' = TRUE
        /\ Succeeds(p, "installed")
     \/ armed' \in {armed, TRUE} /\ Continues(p, "failed") /\ UNCHANGED active
  /\ UNCHANGED unit

_linux_install(p) ==
  \/ WriteUnit(p, "reload")
  \/ /\ at[p] = "reload"
     /\ Continues(p, "enable") \/ Continues(p, "failed")
     /\ UNCHANGED <<unit, armed, active>>
  \/ enable(p)

_windows_install(p) ==
  /\ at[p] = "create"
  /\ \/ armed' = TRUE /\ Succeeds(p, "installed")
     \/ Continues(p, "failed") /\ UNCHANGED armed
  /\ UNCHANGED <<unit, active>>

Unlink(p) == unit' = "absent" /\ UNCHANGED <<armed, active>>

(* What launchctl says of bootout and unload is not looked at.             *)
_darwin_uninstall(p) ==
  \/ /\ at[p] = "look"
     /\ IF unit = "absent" THEN Succeeds(p, "removed") ELSE Continues(p, "bootout")
     /\ UNCHANGED <<unit, armed, active>>
  \/ /\ at[p] \in {"bootout", "unload"}
     /\ Continues(p, IF at[p] = "bootout" THEN "unload" ELSE "unlink")
     /\ active' \in {active, FALSE}
     /\ UNCHANGED <<unit, armed>>
  \/ /\ at[p] = "unlink"
     /\ \/ Unlink(p) /\ Succeeds(p, "removed")
        \/ Continues(p, "failed") /\ UNCHANGED <<unit, armed, active>>

(* Nor what systemctl says of disable --now.                               *)
_linux_uninstall(p) ==
  \/ /\ at[p] = "disable"
     /\ \/ armed' = FALSE /\ active' = FALSE
        \/ UNCHANGED <<armed, active>>
     /\ Continues(p, "unlink")
     /\ UNCHANGED unit
  \/ /\ at[p] = "unlink"
     /\ \/ Unlink(p) /\ Continues(p, "forget")
        \/ /\ unit # "absent" /\ Continues(p, "failed")
           /\ UNCHANGED <<unit, armed, active>>
  \/ /\ at[p] = "forget"
     /\ Succeeds(p, "removed")
     /\ UNCHANGED <<unit, armed, active>>

(* That the task cannot be found counts as success, where the message is   *)
(* in English.                                                             *)
_windows_uninstall(p) ==
  /\ at[p] = "delete"
  /\ \/ armed' = FALSE /\ Succeeds(p, "removed")
     \/ Continues(p, "failed") /\ UNCHANGED armed
  /\ UNCHANGED <<unit, active>>

(* A command that is not there: subprocess.run raises.                     *)
CommandMissing(p) ==
  /\ AtService(p) /\ at[p] \notin {"write", "look"}
  /\ Continues(p, "raised")
  /\ UNCHANGED <<unit, armed, active>>

ServiceStep(p) ==
  /\ UNCHANGED platform
  /\ \/ platform = "darwin" /\ (_darwin_install(p) \/ _darwin_uninstall(p))
     \/ platform = "linux" /\ (_linux_install(p) \/ _linux_uninstall(p))
     \/ platform = "windows" /\ (_windows_install(p) \/ _windows_uninstall(p))
     \/ CommandMissing(p)

(* The user logs out and in again.                                         *)
NewSession ==
  /\ active' = StartsAtLogin
  /\ UNCHANGED <<platform, unit, armed, at, alone, promise>>

ServiceInit ==
  /\ platform \in Platforms
  /\ unit = "absent" /\ armed = FALSE /\ active = FALSE
  /\ alone = None /\ promise = None
-----------------------------------------------------------------------------
(* What install and uninstall reported stays so (service.py:127-150,       *)
(* 256-297, 347-389), whichever commands failed on the way and in the      *)
(* sessions to come, until somebody turns to the service again: the seeder *)
(* starts at login, and where the manager restarts it it is being kept     *)
(* running; or it does not start at login.                                 *)
ReportsStayTrue ==
  /\ promise = "installed" => StartsAtLogin /\ (restarts => active)
  /\ promise = "removed" => ~StartsAtLogin
=============================================================================
