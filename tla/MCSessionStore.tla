--------------------------- MODULE MCSessionStore ---------------------------
(***************************************************************************)
(* Two processes loading, changing and saving two sessions, one of which  *)
(* may start out as a file with no name and no creation time.             *)
(***************************************************************************)
EXTENDS SessionStore, TLC

\* Sessions and processes are interchangeable: nothing in the store
\* tells one name or one process from another.
Symmetry == Permutations(Names) \cup Permutations(Procs)

File == [st : State, mtime : 1..MaxTime]

TypeOK ==
    /\ disk \in [Names -> {Nil} \cup File]
    /\ dirs \subseteq Names
    /\ now \in 1..MaxTime
    /\ mem \in [Procs -> {Nil} \cup State]
    /\ pc \in [Procs -> {"idle", "stat"}]
    /\ result \in [Procs -> {"none", "loaded", "saved", "error"}]
    /\ lastSaved \in [Names -> {Nil} \cup State]
    /\ \A n \in Names : disk[n] # Nil => n \in dirs

\* A load returns what the last successful SaveSession of that name wrote,
\* defaults included, even when another process saved the session in
\* between or is saving it concurrently: SaveSession writes the path of
\* the name it resolved, and LoadSession reads it back unchanged.
LoadReturnsLastSave ==
    \A p \in Procs :
        (result[p] = "loaded" /\ expect[p] # Nil) => mem[p] = expect[p]

\* Every state SaveSession has written carries a name and a creation time
\* no later than the write, so a later LoadSession never needs the Stat
\* fallback for it.
SavedStateComplete ==
    \A n \in Names :
        lastSaved[n] # Nil =>
            /\ disk[n] # Nil
            /\ disk[n].st.SessionName # ""
            /\ disk[n].st.CreatedAt \in 1..disk[n].mtime

=============================================================================
