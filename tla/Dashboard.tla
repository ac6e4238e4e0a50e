----------------------------- MODULE Dashboard -----------------------------
(***************************************************************************)
(* The dashboard command of internal/cli/dashboard.go: RunE resolves the  *)
(* --json, --no-tui and --debug flags against the environment and picks   *)
(* the JSON, plain or interactive dashboard; runDashboard checks tmux and *)
(* the session, may start a file-reservation watcher, runs the dashboard  *)
(* and stops the watcher on return (defer).                               *)
(*                                                                         *)
(* tmux, the session resolver, Agent Mail, the watcher and the dashboard  *)
(* itself are not in the repository: what they return is chosen from the *)
(* outcomes the code distinguishes.                                       *)
(***************************************************************************)
VARIABLES
    pc,        \* "start", "ensure", "resolve", "exists", "watch", "dashboard", "done"
    flags,     \* the flags and environment RunE saw
    mode,      \* "none", "json", "plain" or "tui"
    debug,     \* the debug argument of runDashboard
    watcher,   \* the reservation watcher: "none", "running" or "stopped"
    outcome    \* "none", "ok", "cancelled" or "error"

vars == <<pc, flags, mode, debug, watcher, outcome>>

Flags == [json : BOOLEAN, noTUI : BOOLEAN, debug : BOOLEAN,
          plainEnv : BOOLEAN,   \* shouldUsePlainMode(): CI, TERM=dumb, ...
          debugEnv : BOOLEAN,   \* isTUIDebugEnabled(): NTM_TUI_DEBUG
          reserve : BOOLEAN]    \* cfg loaded with FileReservation and AgentMail enabled

Init ==
    /\ pc = "start"
    /\ flags \in Flags
    /\ mode = "none"
    /\ debug = FALSE
    /\ watcher = "none"
    /\ outcome = "none"

\* Mutant: --no-tui is tested before --json, which has just set it.
SelectModeNoTUIFirst(f) ==
    LET noTUI == f.noTUI \/ f.json \/ f.plainEnv
    IN CASE noTUI  -> "plain"
         [] f.json -> "json"
         [] OTHER  -> "tui"

\* RunE: --json implies --no-tui, a non-interactive environment selects
\* plain mode, and the JSON, plain and interactive runs are tried in that
\* order.
SelectMode(f) ==
    LET noTUI == f.noTUI \/ f.json \/ f.plainEnv
    IN CASE f.json -> "json"
         [] noTUI  -> "plain"
         [] OTHER  -> "tui"

RunE ==
    /\ pc = "start"
    /\ mode' = SelectMode(flags)
    /\ debug' = (flags.debug \/ flags.debugEnv)
    /\ IF mode' = "tui"
       THEN pc' = "ensure" /\ UNCHANGED outcome
       ELSE pc' = "done" /\ outcome' \in {"ok", "error"}   \* runDashboardJSON, runDashboardPlain
    /\ UNCHANGED <<flags, watcher>>

\* A step of runDashboard whose call either fails, ending the command with
\* its error, or lets it go on to the next step.
Step(from, to) ==
    /\ pc = from
    /\ \/ pc' = to /\ UNCHANGED outcome
       \/ pc' = "done" /\ outcome' = "error"
    /\ UNCHANGED <<flags, mode, debug, watcher>>

EnsureInstalled == Step("ensure", "resolve")

\* ResolveSession: an error, no session chosen (return nil), or a session.
ResolveSession ==
    \/ Step("resolve", "exists")
    \/ /\ pc = "resolve"
       /\ pc' = "done"
       /\ outcome' = "cancelled"
       /\ UNCHANGED <<flags, mode, debug, watcher>>

SessionExists == Step("exists", "watch")

\* With the reservation and Agent Mail enabled, a watcher is started when
\* the health check answers within 2s and the constructor returns one.
StartWatcher ==
    /\ pc = "watch"
    /\ pc' = "dashboard"
    /\ \/ watcher' = "none"
       \/ flags.reserve /\ watcher' = "running"
    /\ UNCHANGED <<flags, mode, debug, outcome>>

\* Mutant: the watcher is not stopped when runDashboard returns.
AfterRunNoStop(w) == w

\* The deferred reservationWatcher.Stop().
AfterRun(w) == IF w = "running" THEN "stopped" ELSE w

\* dashboard.Run returns, with or without an error; the defer runs.
RunDashboard ==
    /\ pc = "dashboard"
    /\ pc' = "done"
    /\ outcome' \in {"ok", "error"}
    /\ watcher' = AfterRun(watcher)
    /\ UNCHANGED <<flags, mode, debug>>

Next ==
    \/ RunE \/ EnsureInstalled \/ ResolveSession \/ SessionExists
    \/ StartWatcher \/ RunDashboard

\* One invocation: it stops when the command returns.
Spec == Init /\ [][Next]_vars

=============================================================================
