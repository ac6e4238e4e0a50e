-------------------------------- MODULE DCG --------------------------------
(***************************************************************************)
(* The DCG adapter of internal/tools/dcg.go: CheckCommand, GetStatus,      *)
(* Health and Capabilities each run the dcg binary under a context with   *)
(* the adapter's timeout and turn what the process did into a result.     *)
(*                                                                         *)
(* The process is the environment.  It may fail to start (the binary is  *)
(* missing), exit with a code and an output, or hang.  The deadline may   *)
(* pass while it runs (exec kills it) or after it has exited but before   *)
(* the adapter reads ctx.Err().  A dcg that works exits 1 for a command   *)
(* it judges dangerous and 0 otherwise; any run may instead exit 2.       *)
(* Outputs are abstracted to what the adapter tells apart: JSON that      *)
(* unmarshals, JSON of the wrong shape, and text.                         *)
(***************************************************************************)
EXTENDS Integers

VARIABLES
    installed,   \* exec.LookPath finds dcg
    kind,        \* the call in progress: "check", "status", "health", "caps", "hascap"
    phase,       \* "idle", "running", "exited" (Run returned) or "done"
    dangerous,   \* the command passed to CheckCommand is one dcg blocks
    exit,        \* the exit code, or NoExit, StartError, Killed
    stdout,      \* what the process printed
    expired,     \* the call's context deadline has passed
    outcome      \* what the call returned

\* Sentinels for exit: no exit yet, a process that never started (an error
\* that is not an *exec.ExitError), and a process killed by the deadline
\* (ExitCode() of a signalled process is -1).
NoExit     == -3
StartError == -2
Killed     == -1

vars == <<installed, kind, phase, dangerous, exit, stdout, expired, outcome>>

Kinds == {"check", "status", "health", "caps", "hascap"}

Outputs == {"blocked_json", "status_on", "status_off", "wrong_json", "version", "robot_help", "text", "none"}

\* The outputs a run of dcg may print, by call and exit code.
PrintsFor(k, code) ==
    CASE k = "check"  /\ code = 1 -> {"blocked_json", "wrong_json", "text"}
      [] k = "status" /\ code = 0 -> {"status_on", "status_off", "wrong_json", "text"}
      [] k = "health" /\ code = 0 -> {"version", "text"}
      [] k \in {"caps", "hascap"} -> {"robot_help", "text"}
      [] OTHER                    -> {"text"}

\* The exit codes of a run: the verdict of a working dcg, or a failure.
ExitsFor(k, isDangerous) ==
    IF k = "check" THEN (IF isDangerous THEN {1} ELSE {0}) \cup {2} ELSE {0, 2}

Init ==
    /\ installed \in BOOLEAN
    /\ kind = "check"
    /\ phase = "idle"
    /\ dangerous = FALSE
    /\ exit = NoExit
    /\ stdout = "none"
    /\ expired = FALSE
    /\ outcome = "none"

\* A new call starts the process under a fresh context.
Launch(k) ==
    /\ phase \in {"idle", "done"}
    /\ kind' = k
    /\ phase' = "running"
    /\ exit' = NoExit
    /\ stdout' = "none"
    /\ expired' = FALSE
    /\ outcome' = "none"
    /\ UNCHANGED installed

CheckCommand ==
    /\ \E d \in BOOLEAN : dangerous' = d
    /\ Launch("check")

GetStatus ==
    /\ Launch("status")
    /\ UNCHANGED dangerous

\* Health and Capabilities call Detect first and run nothing without dcg.
Health ==
    /\ phase \in {"idle", "done"}
    /\ IF installed
       THEN Launch("health")
       ELSE /\ kind' = "health" /\ phase' = "done" /\ outcome' = "not_installed"
            /\ UNCHANGED <<installed, exit, stdout, expired>>
    /\ UNCHANGED dangerous

Capabilities ==
    /\ phase \in {"idle", "done"}
    /\ IF installed
       THEN Launch("caps")
       ELSE /\ kind' = "caps" /\ phase' = "done" /\ outcome' = "no_caps"
            /\ UNCHANGED <<installed, exit, stdout, expired>>
    /\ UNCHANGED dangerous

\* HasCapability(CapRobotMode) is a Capabilities call whose list it
\* searches; Capabilities never returns an error, so only the list counts.
HasCapability ==
    /\ phase \in {"idle", "done"}
    /\ IF installed
       THEN Launch("hascap")
       ELSE /\ kind' = "hascap" /\ phase' = "done" /\ outcome' = "lacks_robot"
            /\ UNCHANGED <<installed, exit, stdout, expired>>
    /\ UNCHANGED dangerous

-----------------------------------------------------------------------------
(* The process and the clock.                                             *)

StartFails ==
    /\ phase = "running"
    /\ ~installed
    /\ phase' = "exited"
    /\ exit' = StartError
    /\ UNCHANGED <<installed, kind, dangerous, stdout, expired, outcome>>

ProcessExits ==
    /\ phase = "running"
    /\ installed
    /\ \E code \in ExitsFor(kind, dangerous), out \in Outputs :
          /\ out \in PrintsFor(kind, code)
          /\ exit' = code
          /\ stdout' = out
    /\ phase' = "exited"
    /\ UNCHANGED <<installed, kind, dangerous, expired, outcome>>

\* Mutant: the process is started with exec.Command instead of
\* exec.CommandContext, so the deadline does not kill it.
DeadlinePassesNoKill ==
    /\ phase \in {"running", "exited"}
    /\ ~expired
    /\ expired' = TRUE
    /\ UNCHANGED <<installed, kind, phase, dangerous, exit, stdout, outcome>>

\* The deadline passes.  exec.CommandContext kills a process still running;
\* the buffer keeps whatever it printed before the kill.
DeadlinePasses ==
    /\ phase \in {"running", "exited"}
    /\ ~expired
    /\ expired' = TRUE
    /\ IF phase = "running"
       THEN /\ phase' = "exited"
            /\ exit' = Killed
            /\ stdout' \in {"none"} \cup PrintsFor(kind, Killed)
       ELSE UNCHANGED <<phase, exit, stdout>>
    /\ UNCHANGED <<installed, kind, dangerous, outcome>>

-----------------------------------------------------------------------------
(* What each call makes of the run, once cmd.Run has returned.            *)

\* Mutant: an exit other than 1 is taken as "allowed" too.
CheckOutcomeFailOpen ==
    CASE exit = 0  -> "allowed"
      [] expired   -> "timeout"
      [] exit = 1  -> IF stdout = "blocked_json" THEN "blocked_parsed" ELSE "blocked_basic"
      [] OTHER     -> "allowed"

\* CheckCommand: exit 0 allows; otherwise a passed deadline is ErrTimeout;
\* exit 1 is a block, described by dcg's JSON when it unmarshals and by a
\* basic record otherwise; anything else is an error.
CheckOutcome ==
    CASE exit = 0  -> "allowed"
      [] expired   -> "timeout"
      [] exit = 1  -> IF stdout = "blocked_json" THEN "blocked_parsed" ELSE "blocked_basic"
      [] OTHER     -> "error"

\* GetStatus: after exit 0, the JSON status, or the default {Enabled: true}
\* for output that is not JSON, or a parse error; a failed run is
\* ErrTimeout past the deadline and the default status otherwise.
StatusOutcome ==
    CASE exit = 0 -> CASE stdout = "status_on"  -> "enabled"
                       [] stdout = "status_off" -> "disabled"
                       [] stdout = "wrong_json" -> "error"
                       [] OTHER                 -> "enabled"
      [] expired  -> "timeout"
      [] OTHER    -> "enabled"

\* Health, through Version: healthy when dcg --version exits 0 and its
\* output parses as a version.
HealthOutcome ==
    IF exit = 0 /\ stdout = "version" THEN "healthy" ELSE "unresponsive"

\* Capabilities ignores the run's error and looks for --json or robot in
\* whatever was printed.
CapsOutcome ==
    IF stdout = "robot_help" THEN "robot" ELSE "no_caps"

Returns ==
    /\ phase = "exited"
    /\ phase' = "done"
    /\ outcome' = CASE kind = "check"  -> CheckOutcome
                    [] kind = "status" -> StatusOutcome
                    [] kind = "health" -> HealthOutcome
                    [] kind = "hascap" -> IF CapsOutcome = "robot" THEN "has_robot" ELSE "lacks_robot"
                    [] OTHER           -> CapsOutcome
    /\ UNCHANGED <<installed, kind, dangerous, exit, stdout, expired>>

Adapter == CheckCommand \/ GetStatus \/ Health \/ Capabilities \/ HasCapability \/ Returns

Environment == StartFails \/ ProcessExits \/ DeadlinePasses

Next == Adapter \/ Environment

\* Time passes, so an armed deadline eventually expires; Run returns once
\* the process is gone and the adapter then returns.  dcg itself may hang.
Spec == Init /\ [][Next]_vars /\ WF_vars(DeadlinePasses) /\ WF_vars(Returns) /\ WF_vars(StartFails)

=============================================================================
