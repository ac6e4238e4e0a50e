--------------------------- MODULE SessionStore ---------------------------
(***************************************************************************)
(* The ensemble session store of internal/ensemble/session_store.go:       *)
(* LoadSession and SaveSession over one ensemble.json per session name.    *)
(* Processes call them without any lock between them; each call's file     *)
(* operations (ReadFile, Stat, MkdirAll, AtomicWriteFile) are atomic, and  *)
(* LoadSession's ReadFile and Stat are two of them.                        *)
(*                                                                         *)
(* An EnsembleSession is abstracted to [SessionName, CreatedAt, Rev]:      *)
(* CreatedAt is a clock reading (0 is the zero time.Time), Rev stands for  *)
(* the rest of the state and counts a caller's changes.                    *)
(***************************************************************************)
EXTENDS Naturals

CONSTANTS
    Names,     \* session names
    Procs,     \* processes calling the store
    Nil,       \* a nil pointer, or no file
    MaxTime,   \* bound of the clock
    MaxRev,    \* bound of the changes a caller makes to a state
    MaxCalls   \* bound of the LoadSession and SaveSession calls of a process

VARIABLES
    disk,      \* session name -> Nil or [st, mtime]: the state file
    dirs,      \* the session directories that exist
    now,       \* the clock
    mem,       \* process -> the *EnsembleSession it holds, or Nil
    pc,        \* process -> "idle", or "stat" inside LoadSession
    target,    \* process -> the name LoadSession was called with
    buf,       \* process -> the state LoadSession unmarshalled
    result,    \* process -> what its last call returned: "loaded", "saved",
               \* "error", or "none" once it has changed its state since
    lastSaved, \* name -> the state the last successful save of it wrote
    expect,    \* process -> lastSaved of the file its load read
    calls      \* process -> the store calls it has made

vars == <<disk, dirs, now, mem, pc, target, buf, result, lastSaved, expect, calls>>

Times == 0..MaxTime

State == [SessionName : Names \cup {""}, CreatedAt : Times, Rev : 0..MaxRev]

\* A file written by something other than SaveSession: no name, no
\* creation time.
Legacy == [SessionName |-> "", CreatedAt |-> 0, Rev |-> 0]

Init ==
    /\ disk \in [Names -> {Nil, [st |-> Legacy, mtime |-> 1]}]
    /\ dirs = { n \in Names : disk[n] # Nil }
    /\ now = 1
    /\ mem = [p \in Procs |-> Nil]
    /\ pc = [p \in Procs |-> "idle"]
    /\ target = [p \in Procs |-> Nil]
    /\ buf = [p \in Procs |-> Nil]
    /\ result = [p \in Procs |-> "none"]
    /\ lastSaved = [n \in Names |-> Nil]
    /\ expect = [p \in Procs |-> Nil]
    /\ calls = [p \in Procs |-> 0]

-----------------------------------------------------------------------------
(* The callers.                                                           *)

Tick ==
    /\ now < MaxTime
    /\ now' = now + 1
    /\ UNCHANGED <<disk, dirs, mem, pc, target, buf, result, lastSaved, expect, calls>>

\* A caller builds a new state, with or without a name.
NewState(p) ==
    /\ pc[p] = "idle"
    /\ \E s \in Names \cup {""} :
          mem' = [mem EXCEPT ![p] = [SessionName |-> s, CreatedAt |-> 0, Rev |-> 0]]
    /\ result' = [result EXCEPT ![p] = "none"]
    /\ UNCHANGED <<disk, dirs, now, pc, target, buf, lastSaved, expect, calls>>

\* A caller changes the state it holds.
Modify(p) ==
    /\ pc[p] = "idle"
    /\ mem[p] # Nil
    /\ mem[p].Rev < MaxRev
    /\ mem' = [mem EXCEPT ![p].Rev = @ + 1]
    /\ result' = [result EXCEPT ![p] = "none"]
    /\ UNCHANGED <<disk, dirs, now, pc, target, buf, lastSaved, expect, calls>>

-----------------------------------------------------------------------------
(* LoadSession.                                                           *)

\* ReadFile and Unmarshal; an empty SessionName becomes the name asked
\* for.  A state with a zero CreatedAt goes on to Stat the file.
ReadFile(p, n) ==
    /\ pc[p] = "idle"
    /\ calls[p] < MaxCalls
    /\ calls' = [calls EXCEPT ![p] = @ + 1]
    /\ IF disk[n] = Nil
       THEN /\ result' = [result EXCEPT ![p] = "error"]
            /\ UNCHANGED <<mem, pc, target, buf, expect>>
       ELSE LET st == disk[n].st
                named == IF st.SessionName = "" THEN [st EXCEPT !.SessionName = n] ELSE st
            IN /\ expect' = [expect EXCEPT ![p] = lastSaved[n]]
               /\ target' = [target EXCEPT ![p] = n]
               /\ IF named.CreatedAt = 0
                  THEN /\ pc' = [pc EXCEPT ![p] = "stat"]
                       /\ buf' = [buf EXCEPT ![p] = named]
                       /\ UNCHANGED <<mem, result>>
                  ELSE /\ mem' = [mem EXCEPT ![p] = named]
                       /\ result' = [result EXCEPT ![p] = "loaded"]
                       /\ UNCHANGED <<pc, buf>>
    /\ UNCHANGED <<disk, dirs, now, lastSaved>>

\* os.Stat of the path, which is read again: the creation time is the
\* ModTime of the file there now.
StatFile(p) ==
    /\ pc[p] = "stat"
    /\ mem' = [mem EXCEPT ![p] = [buf[p] EXCEPT !.CreatedAt = disk[target[p]].mtime]]
    /\ result' = [result EXCEPT ![p] = "loaded"]
    /\ pc' = [pc EXCEPT ![p] = "idle"]
    /\ buf' = [buf EXCEPT ![p] = Nil]
    /\ UNCHANGED <<disk, dirs, now, target, lastSaved, expect, calls>>

-----------------------------------------------------------------------------
(* SaveSession.                                                           *)

\* Mutant: the file is written at the path of the state's own name.
WritePathOfState(sessionName, state) == state.SessionName

\* The file AtomicWriteFile replaces: SessionStatePath(sessionName).
WritePath(sessionName, state) == sessionName

\* Mutant: a state without a creation time is saved as it is.
FillDefaultsNameOnly(st, sessionName, t) ==
    [st EXCEPT !.SessionName = IF st.SessionName = "" THEN sessionName ELSE @]

\* SaveSession fills in an empty SessionName and a zero CreatedAt.
FillDefaults(st, sessionName, t) ==
    [st EXCEPT !.SessionName = IF st.SessionName = "" THEN sessionName ELSE @,
               !.CreatedAt   = IF st.CreatedAt = 0 THEN t ELSE @]

\* SaveSession(arg, mem[p]).  The name falls back to the state's own; the
\* state is then filled in, through the caller's pointer, before MkdirAll
\* and the write, either of which may fail.
SaveSession(p, arg) ==
    /\ pc[p] = "idle"
    /\ calls[p] < MaxCalls
    /\ calls' = [calls EXCEPT ![p] = @ + 1]
    /\ LET st          == mem[p]
           sessionName == IF arg = "" /\ st # Nil THEN st.SessionName ELSE arg
       IN IF st = Nil \/ sessionName = ""
          THEN /\ result' = [result EXCEPT ![p] = "error"]
               /\ UNCHANGED <<disk, dirs, mem, lastSaved>>
          ELSE LET filled == FillDefaults(st, sessionName, now)
               IN /\ mem' = [mem EXCEPT ![p] = filled]
                  /\ \/ /\ result' = [result EXCEPT ![p] = "error"]
                        /\ UNCHANGED <<disk, dirs, lastSaved>>
                     \/ /\ dirs' = dirs \cup {sessionName}
                        /\ \/ /\ result' = [result EXCEPT ![p] = "error"]
                              /\ UNCHANGED <<disk, lastSaved>>
                           \/ /\ result' = [result EXCEPT ![p] = "saved"]
                              /\ disk' = [disk EXCEPT ![WritePath(sessionName, filled)] =
                                             [st |-> filled, mtime |-> now]]
                              /\ lastSaved' = [lastSaved EXCEPT ![sessionName] = filled]
    /\ UNCHANGED <<now, pc, target, buf, expect>>

Next ==
    \/ Tick
    \/ \E p \in Procs :
          \/ NewState(p)
          \/ Modify(p)
          \/ StatFile(p)
          \/ \E n \in Names : ReadFile(p, n)
          \/ \E a \in Names \cup {""} : SaveSession(p, a)

Spec == Init /\ [][Next]_vars

=============================================================================
