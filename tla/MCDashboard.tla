----------------------------- MODULE MCDashboard -----------------------------
(***************************************************************************)
(* Every combination of flags and environment, through every way the     *)
(* interactive dashboard can end.                                         *)
(***************************************************************************)
EXTENDS Dashboard

\* The command's help: --json gives JSON output whatever else is set,
\* --no-tui or a non-interactive environment (CI, TERM=dumb) gives plain
\* text, and only otherwise does the interactive dashboard run, in debug
\* mode when --debug or NTM_TUI_DEBUG asks for it.
ModeFollowsFlags ==
    mode # "none" =>
        /\ mode = "json"  <=> flags.json
        /\ mode = "plain" <=> (~flags.json /\ (flags.noTUI \/ flags.plainEnv))
        /\ mode = "tui" => debug = (flags.debug \/ flags.debugEnv)

\* The file-reservation watcher runs only while the interactive dashboard
\* it was started for is running, only when reservations and Agent Mail
\* are enabled, and it is stopped by the time the command returns, however
\* dashboard.Run ends.
WatcherBoundToDashboard ==
    /\ watcher = "running" => (pc = "dashboard" /\ mode = "tui" /\ flags.reserve)
    /\ pc = "done" => watcher # "running"

=============================================================================
