---------------------------- MODULE MCRegistry ----------------------------
(***************************************************************************)
(* Three callers register commands that collide after normalisation: the *)
(* same name with and without padding, and the same REST binding written  *)
(* "GET /p" and " get /p ".                                               *)
(* Caller c1 is the init of package cli, registering kernel.list with   *)
(* MustRegister; the others race it.                                      *)
(***************************************************************************)
EXTENDS KernelCLI

ListName    == [word |-> "kernel.list", padded |-> FALSE]
ListNamePad == [word |-> "kernel.list", padded |-> TRUE]
ShowName    == [word |-> "kernel.show", padded |-> FALSE]
ShowNamePad == [word |-> "kernel.show", padded |-> TRUE]
BlankName   == [word |-> "", padded |-> TRUE]

MethodGet      == [word |-> "GET", lower |-> FALSE, padded |-> FALSE]
MethodGetLower == [word |-> "GET", lower |-> TRUE, padded |-> TRUE]
MethodPost     == [word |-> "POST", lower |-> FALSE, padded |-> FALSE]
Path           == [word |-> "/api/kernel/commands", padded |-> FALSE]
PathPad        == [word |-> "/api/kernel/commands", padded |-> TRUE]

\* The command kernel.go's init registers.
MCKernelList == [name |-> ListName, documented |-> TRUE, rest |-> [method |-> MethodGet, path |-> Path]]

MCCommands ==
    { MCKernelList,
      [name |-> ListNamePad, documented |-> TRUE,  rest |-> [method |-> MethodPost, path |-> Path]],
      [name |-> ShowName,    documented |-> TRUE,  rest |-> [method |-> MethodGetLower, path |-> PathPad]],
      [name |-> ShowNamePad, documented |-> TRUE,  rest |-> NoREST],
      [name |-> ShowName,    documented |-> FALSE, rest |-> NoREST],
      [name |-> BlankName,   documented |-> TRUE,  rest |-> NoREST] }

\* The trimmed names in byte order.
Words == <<"", "kernel.list", "kernel.show">>

MCWordLess(a, b) == \E i, j \in DOMAIN Words : i < j /\ Words[i] = a /\ Words[j] = b

KeyOf(cmd) == IF cmd.rest = NoREST THEN "" ELSE restKey(cmd.rest)

\* The binding as an HTTP router sees it: method case and padding ignored.
RouteOf(cmd) == <<cmd.rest.method.word, cmd.rest.path.word>>

TypeOK ==
    /\ DOMAIN commands \subseteq {TrimSpace(cmd.name) : cmd \in Commands}
    /\ \A n \in DOMAIN commands : commands[n] \in Commands
    /\ \A k \in DOMAIN restIndex : restIndex[k] \in DOMAIN commands
    /\ cmdOf \in [Callers -> Commands]
    /\ pc \in [Callers -> {"validate", "lock", "done"}]
    /\ outcome \in [Callers -> {"", "ok", "invalid", "duplicate", "conflict", "panic"}]
    /\ printed # NoREST => printed.format \in {"json", "empty", "table"}

\* r.restIndex and r.commands agree: each REST key names a registered
\* command whose own binding normalises to that key, and each registered
\* command with a binding is found under its key.
IndexConsistent ==
    /\ \A k \in DOMAIN restIndex : KeyOf(commands[restIndex[k]]) = k
    /\ \A n \in DOMAIN commands :
          commands[n].rest # NoREST => (KeyOf(commands[n]) \in DOMAIN restIndex
                                        /\ restIndex[KeyOf(commands[n])] = n)

\* However concurrent Register calls interleave, two calls that succeed
\* never share a trimmed name or a route (method and path up to case
\* and padding, as restKey promises to normalise them), and a call refused
\* as a duplicate or conflict lost to a call that succeeded with that name
\* or key.
OneWinnerPerBinding ==
    /\ \A c, d \in Callers :
          (c # d /\ outcome[c] = "ok" /\ outcome[d] = "ok") =>
              /\ TrimSpace(cmdOf[c].name) # TrimSpace(cmdOf[d].name)
              /\ (cmdOf[c].rest # NoREST /\ cmdOf[d].rest # NoREST) => RouteOf(cmdOf[c]) # RouteOf(cmdOf[d])
    /\ \A c \in Callers :
          /\ outcome[c] = "duplicate" =>
                \E d \in Callers : outcome[d] = "ok" /\ TrimSpace(cmdOf[d].name) = TrimSpace(cmdOf[c].name)
          /\ outcome[c] = "conflict" =>
                \E d \in Callers : outcome[d] = "ok" /\ cmdOf[d].rest # NoREST
                                   /\ RouteOf(cmdOf[d]) = RouteOf(cmdOf[c])

\* The registry's promise, stated over the commands as written: the
\* trimmed name, the route up to method case and padding, and the checks
\* of validateCommand.
Complete(cmd) ==
    /\ cmd.name.word # ""
    /\ cmd.documented
    /\ cmd.rest # NoREST => (cmd.rest.method.word # "" /\ cmd.rest.path.word # "")

Abstract == INSTANCE RegistryAbstract
               WITH registered <- commands, routes <- restIndex,
                    NameOf <- LAMBDA cmd : cmd.name.word,
                    RouteOf <- RouteOf, Valid <- Complete

\* Register implements the abstract registry: each successful call adds
\* one valid command with a fresh name and, if bound, a fresh route in one
\* step under r.mu; every validation failure and refusal changes nothing.
RegistryRefinesAbstract == Abstract!Spec

\* The test TestRegistryRegisterAndGet: once Register(cmd) has returned
\* nil, Get(cmd.Name) finds the command, with the same Name.
GetFindsRegistered ==
    \A c \in Callers :
        outcome[c] = "ok" =>
            LET got == Get(cmdOf[c].name) IN got.ok /\ got.cmd.name = cmdOf[c].name

\* `ntm kernel list`, whenever it runs and whatever other callers do
\* meanwhile: its listing is never empty and holds kernel.list (the init's
\* MustRegister succeeded, or the process panicked before main), holds
\* exactly the commands whose Register had returned nil when it ran, and
\* is sorted by trimmed name, each once.
KernelListShowsRegistry ==
    [][printed = NoREST /\ printed' # NoREST =>
         LET out == printed'.commands
         IN /\ printed'.format # "empty"
            /\ \E i \in DOMAIN out : out[i] = KernelListCmd
            /\ Range(out) = {cmdOf[c] : c \in {d \in Callers : outcome[d] = "ok"}}
            /\ \A i \in 1..Len(out) - 1 : WordLess(out[i].name.word, out[i + 1].name.word)
      ]_printed
=============================================================================
