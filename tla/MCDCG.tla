------------------------------- MODULE MCDCG -------------------------------
(***************************************************************************)
(* One DCGAdapter making calls one after another, with dcg installed or   *)
(* missing, against a process that answers, fails, hangs or is killed.    *)
(***************************************************************************)
EXTENDS DCG

\* CheckCommand never lets through a command dcg judges dangerous: whatever
\* dcg does (crash, hang, garbled output, missing binary) and whenever the
\* deadline passes, the result is a block, a timeout or an error.
DangerousNeverAllowed ==
    (kind = "check" /\ phase = "done" /\ dangerous) => outcome # "allowed"

\* Every call returns: a hung dcg is killed at the deadline.
CallsReturn == phase = "running" ~> phase = "done"

\* The comment at the exit-code check: exit code 1 means the command was
\* blocked.  A dcg that exited 1 must be reported as a block.
BlockedVerdictDelivered ==
    (kind = "check" /\ phase = "done" /\ exit = 1) =>
        outcome \in {"blocked_parsed", "blocked_basic"}

\* The comment at GetStatus's fallback: "DCG might not have a status
\* command - return default".  The default {Enabled: true} stands for a dcg
\* that ran without a status command, so it is reported only when dcg was
\* started.
StatusDefaultOnlyWhenRan ==
    (kind = "status" /\ phase = "done" /\ outcome = "enabled") => exit # StartError

=============================================================================
