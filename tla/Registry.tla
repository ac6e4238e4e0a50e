------------------------------ MODULE Registry ------------------------------
(***************************************************************************)
(* The command registry of internal/kernel/registry.go: Register checks a *)
(* command outside the lock, then under r.mu rejects a duplicate name or  *)
(* a REST binding already used, and otherwise records the binding and the *)
(* command.  Several callers register concurrently.                       *)
(*                                                                         *)
(* Strings are abstracted to what the code does with them.  A name is     *)
(* [word, padded]: strings.TrimSpace keeps the word ("" for a blank name). *)
(* A REST method is [word, lower, padded]: restKey upper-cases and trims  *)
(* it to the word.  A path is [word, padded].  "documented" stands for    *)
(* the description, category and example checks of validateCommand.       *)
(***************************************************************************)
EXTENDS Integers, FiniteSets, SequencesExt

CONSTANTS
    Callers,      \* goroutines calling Register
    MustCallers,  \* the callers that call MustRegister instead
    Commands,     \* the commands a caller may register
    NoREST,       \* model value: cmd.REST == nil
    WordLess(_, _) \* the byte order of trimmed names, as sort.Strings uses

VARIABLES
    commands,     \* r.commands: trimmed name -> command
    restIndex,    \* r.restIndex: REST key -> trimmed name
    cmdOf,        \* caller -> the command it registers
    pc,           \* caller -> "validate", "lock" or "done"
    outcome       \* caller -> what Register returned, "" while running

vars == <<commands, restIndex, cmdOf, pc, outcome>>

\* MustRegister: an error of Register is a panic, which ends the process.
Fail(c, err) == IF c \in MustCallers THEN "panic" ELSE err

Panicked == \E c \in Callers : outcome[c] = "panic"

TrimSpace(n) == n.word

\* Mutant: the method is not upper-cased nor trimmed.
restKeyCaseSensitive(rest) ==
    IF rest.method.word = "" \/ rest.path.word = "" THEN ""
    ELSE <<rest.method.word, rest.method.lower, rest.method.padded, rest.path.word>>

\* restKey: method upper-cased and trimmed, path trimmed, "" if either is
\* blank.  A key is kept as the pair of words.
restKey(rest) ==
    IF rest.method.word = "" \/ rest.path.word = "" THEN ""
    ELSE <<rest.method.word, rest.path.word>>

\* validateCommand, then the empty-name check of Register.
validateCommand(cmd) ==
    /\ TrimSpace(cmd.name) # ""
    /\ cmd.documented
    /\ cmd.rest # NoREST => (cmd.rest.method.word # "" /\ cmd.rest.path.word # "")

Init ==
    /\ commands = [n \in {} |-> NoREST]
    /\ restIndex = [k \in {} |-> ""]
    /\ cmdOf \in [Callers -> Commands]
    /\ pc = [c \in Callers |-> "validate"]
    /\ outcome = [c \in Callers |-> ""]

\* Register, before the lock: an invalid command is refused.
Validate(c) ==
    /\ pc[c] = "validate"
    /\ IF validateCommand(cmdOf[c])
       THEN /\ pc' = [pc EXCEPT ![c] = "lock"]
            /\ UNCHANGED outcome
       ELSE /\ pc' = [pc EXCEPT ![c] = "done"]
            /\ outcome' = [outcome EXCEPT ![c] = Fail(c, "invalid")]
    /\ UNCHANGED <<commands, restIndex, cmdOf>>

\* The function f extended with x :> v.
Extend(f, x, v) == [y \in DOMAIN f \cup {x} |-> IF y = x THEN v ELSE f[y]]

\* Mutant: the REST checks and write come before the duplicate-name check.
CommitIndexBeforeNameCheck(c) ==
    LET cmd == cmdOf[c]  name == TrimSpace(cmd.name)
        key == IF cmd.rest = NoREST THEN "" ELSE restKey(cmd.rest)
        idx == IF cmd.rest # NoREST THEN Extend(restIndex, key, name) ELSE restIndex
    IN /\ pc[c] = "lock"
       /\ pc' = [pc EXCEPT ![c] = "done"]
       /\ CASE cmd.rest # NoREST /\ key \in DOMAIN restIndex ->
                 outcome' = [outcome EXCEPT ![c] = Fail(c, "conflict")] /\ UNCHANGED <<commands, restIndex>>
            [] name \in DOMAIN commands ->
                 outcome' = [outcome EXCEPT ![c] = Fail(c, "duplicate")] /\ restIndex' = idx /\ UNCHANGED commands
            [] OTHER ->
                 restIndex' = idx /\ commands' = Extend(commands, name, cmd)
                 /\ outcome' = [outcome EXCEPT ![c] = "ok"]
       /\ UNCHANGED cmdOf

\* Mutant: the binding is written before the conflict is detected.
CommitIndexOnConflict(c) ==
    LET cmd == cmdOf[c]  name == TrimSpace(cmd.name)
        key == IF cmd.rest = NoREST THEN "" ELSE restKey(cmd.rest)
    IN /\ pc[c] = "lock"
       /\ pc' = [pc EXCEPT ![c] = "done"]
       /\ CASE name \in DOMAIN commands ->
                 outcome' = [outcome EXCEPT ![c] = Fail(c, "duplicate")] /\ UNCHANGED <<commands, restIndex>>
            [] cmd.rest # NoREST /\ key \in DOMAIN restIndex ->
                 outcome' = [outcome EXCEPT ![c] = Fail(c, "conflict")] /\ UNCHANGED commands
                 /\ restIndex' = [restIndex EXCEPT ![key] = name]
            [] OTHER ->
                 restIndex' = (IF cmd.rest # NoREST THEN Extend(restIndex, key, name) ELSE restIndex)
                 /\ commands' = Extend(commands, name, cmd) /\ outcome' = [outcome EXCEPT ![c] = "ok"]
       /\ UNCHANGED cmdOf

\* Mutant: the duplicate-name check is missing; a later command replaces.
CommitNoDuplicateCheck(c) ==
    LET cmd == cmdOf[c]  name == TrimSpace(cmd.name)
        key == IF cmd.rest = NoREST THEN "" ELSE restKey(cmd.rest)
    IN /\ pc[c] = "lock"
       /\ pc' = [pc EXCEPT ![c] = "done"]
       /\ CASE cmd.rest # NoREST /\ key \in DOMAIN restIndex ->
                 outcome' = [outcome EXCEPT ![c] = Fail(c, "conflict")] /\ UNCHANGED <<commands, restIndex>>
            [] OTHER ->
                 restIndex' = (IF cmd.rest # NoREST THEN Extend(restIndex, key, name) ELSE restIndex)
                 /\ commands' = Extend(commands, name, cmd) /\ outcome' = [outcome EXCEPT ![c] = "ok"]
       /\ UNCHANGED cmdOf

\* Register, under r.mu: the checks in the code's order, then both writes.
Commit(c) ==
    LET cmd  == cmdOf[c]
        name == TrimSpace(cmd.name)
        key  == IF cmd.rest = NoREST THEN "" ELSE restKey(cmd.rest)
    IN
    /\ pc[c] = "lock"
    /\ pc' = [pc EXCEPT ![c] = "done"]
    /\ CASE name \in DOMAIN commands ->
              /\ outcome' = [outcome EXCEPT ![c] = Fail(c, "duplicate")]
              /\ UNCHANGED <<commands, restIndex>>
         [] cmd.rest # NoREST /\ key = "" ->
              /\ outcome' = [outcome EXCEPT ![c] = Fail(c, "invalid")]
              /\ UNCHANGED <<commands, restIndex>>
         [] cmd.rest # NoREST /\ key \in DOMAIN restIndex ->
              /\ outcome' = [outcome EXCEPT ![c] = Fail(c, "conflict")]
              /\ UNCHANGED <<commands, restIndex>>
         [] OTHER ->
              /\ restIndex' = IF cmd.rest # NoREST THEN Extend(restIndex, key, name)
                              ELSE restIndex
              /\ commands' = Extend(commands, name, cmd)
              /\ outcome' = [outcome EXCEPT ![c] = "ok"]
    /\ UNCHANGED cmdOf

Next == ~Panicked /\ \E c \in Callers : Validate(c) \/ Commit(c)

Spec == Init /\ [][Next]_vars

-----------------------------------------------------------------------------
(* The readers.  Each holds r.mu.RLock for its whole body, so it reads   *)
(* one state of the registry and changes nothing.                        *)

\* Get(name): r.commands[name].  The map is keyed by trimmed names and the
\* name is looked up as written, so a padded name is never found.
Get(name) ==
    IF ~name.padded /\ name.word \in DOMAIN commands
    THEN [cmd |-> commands[name.word], ok |-> TRUE]
    ELSE [cmd |-> NoREST, ok |-> FALSE]

\* The byte order of names as written: a name padded with a leading space
\* sorts before every trimmed one.
WrittenLess(a, b) ==
    \/ a.padded /\ ~b.padded
    \/ a.padded = b.padded /\ WordLess(a.word, b.word)

\* Mutant: the commands are sorted by their Name field as written.
ListByWrittenName ==
    SortSeq(SetToSeq(Range(commands)), LAMBDA x, y : WrittenLess(x.name, y.name))

\* List: nil for an empty registry, else the commands in the sort.Strings
\* order of their keys.
List ==
    LET names == SetToSortSeq(DOMAIN commands, WordLess)
    IN [i \in 1..Len(names) |-> commands[names[i]]]

=============================================================================
