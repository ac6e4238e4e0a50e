----------------------------- MODULE KernelCLI -----------------------------
(***************************************************************************)
(* The kernel command of internal/cli/kernel.go over the default registry. *)
(* The package's init registers kernel.list (GET /api/kernel/commands)    *)
(* with MustRegister, so a failed registration panics before main runs;   *)
(* `ntm kernel list` then prints kernel.List(), as JSON with its count, or *)
(* as a table, or as a message when the registry is empty.                *)
(*                                                                         *)
(* Other callers of Register may run concurrently with both.  A listing  *)
(* is kept as what the output tells apart: the commands, in order, with   *)
(* their names and bindings as written.                                    *)
(***************************************************************************)
EXTENDS Registry

CONSTANTS
    KernelInit,    \* the caller that is the cli package's init
    KernelListCmd  \* the command that init registers

ASSUME KernelInit \in MustCallers /\ KernelListCmd \in Commands

VARIABLES
    printed        \* what `ntm kernel list` printed, or NoREST before it ran

cliVars == <<vars, printed>>

\* runKernelList: the JSON result carries Count = len(commands); the table
\* has a row per command, its REST column empty without a binding.
runKernelList(json) ==
    LET cmds == List
    IN CASE json         -> [format |-> "json", commands |-> cmds, count |-> Len(cmds)]
         [] cmds = <<>>  -> [format |-> "empty", commands |-> <<>>, count |-> 0]
         [] OTHER        -> [format |-> "table", commands |-> cmds, count |-> 0]

\* The init of package cli calls MustRegister with the kernel.list command.
CLIInit ==
    /\ Init
    /\ cmdOf[KernelInit] = KernelListCmd
    /\ printed = NoREST

\* main runs once every init has returned, so after the kernel.list
\* registration and only if it did not panic; other callers may still be
\* registering.
RunKernelList ==
    /\ printed = NoREST
    /\ pc[KernelInit] = "done"
    /\ ~Panicked
    /\ \E json \in BOOLEAN : printed' = runKernelList(json)
    /\ UNCHANGED vars

CLINext ==
    \/ Next /\ UNCHANGED printed
    \/ RunKernelList

CLISpec == CLIInit /\ [][CLINext]_cliVars

=============================================================================
