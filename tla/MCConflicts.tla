---------------------------- MODULE MCConflicts ----------------------------
(***************************************************************************)
(* Checks ConflictsSince / DetectConflicts against a reference definition *)
(* over every list of up to MaxChanges recorded changes: two paths, a      *)
(* modified and a created change type, attributions to no, one, two or    *)
(* three agents, two sessions, and timestamps 1, 3 and 12, so spreads of  *)
(* 0, 2 (the doc comment's bound), 9 and 11 minutes (either side of the   *)
(* code's 10).  Each step appends one change (as GlobalFileChanges        *)
(* records it) or changes the session queried.                            *)
(***************************************************************************)
EXTENDS Conflicts

CONSTANTS
    MaxChanges,  \* longest change list
    Paths,       \* file paths
    Types,       \* FileChange types, FileModified among them
    Attributions,\* agent sets a change may be attributed to
    Sessions,    \* session names
    Times        \* timestamps, in minutes

VARIABLES
    changes,     \* the []RecordedFileChange GlobalFileChanges.Since returned
    query        \* the session passed to ConflictsSince, "" for all

vars == <<changes, query>>

Init ==
    /\ changes = <<>>
    /\ query = ""

AddChange ==
    /\ Len(changes) < MaxChanges
    /\ \E p \in Paths, t \in Types, a \in Attributions, s \in Sessions, ts \in Times :
          changes' = Append(changes, [Path |-> p, Type |-> t, Agents |-> a,
                                      Session |-> s, Timestamp |-> ts])
    /\ UNCHANGED query

SetQuery ==
    /\ query' \in ({""} \cup Sessions) \ {query}
    /\ UNCHANGED changes

Restart ==
    /\ changes # <<>>
    /\ changes' = <<>>
    /\ query' = ""

Next == AddChange \/ SetQuery \/ Restart

Spec == Init /\ [][Next]_vars

-----------------------------------------------------------------------------
Out == ConflictsSince(changes, query)

\* The positions of the changes ConflictsSince keeps for path p.
Idx(p) == { i \in DOMAIN changes : /\ query = "" \/ changes[i].Session = query
                                   /\ changes[i].Agents # {}
                                   /\ changes[i].Type = FileModified
                                   /\ changes[i].Path = p }

AgentsOf(I) == UNION { changes[i].Agents : i \in I }

Stamps(I) == { changes[i].Timestamp : i \in I }

Earliest(I) == CHOOSE t \in Stamps(I) : \A u \in Stamps(I) : t <= u

Latest(I) == CHOOSE t \in Stamps(I) : \A u \in Stamps(I) : u <= t

\* The k-th smallest position of I.
Nth(I, k) == CHOOSE i \in I : Cardinality({ j \in I : j < i }) = k - 1

\* ConflictsSince reports exactly the paths of the queried session that
\* two or more attributed modifications by two or more distinct agents
\* touched, each once, with all of those changes in recording order, the
\* union of their agents and the latest of their timestamps.
ConflictsMatchReference ==
    /\ { c.Path : c \in Out } = { p \in Paths : Cardinality(Idx(p)) >= 2
                                                /\ Cardinality(AgentsOf(Idx(p))) >= 2 }
    /\ Cardinality(Out) = Cardinality({ c.Path : c \in Out })
    /\ \A c \in Out :
          LET I == Idx(c.Path)
          IN /\ c.Agents = AgentsOf(I)
             /\ c.LastAt = Latest(I)
             /\ Len(c.Changes) = Cardinality(I)
             /\ \A k \in 1..Len(c.Changes) : c.Changes[k] = changes[Nth(I, k)]

\* The spread, in minutes, within which the doc comment of conflictSeverity
\* calls a conflict critical.
DocCriticalSpread == 2

\* The path's first and last change, from its recorded changes.
Spread(c) == Latest(Idx(c.Path)) - Earliest(Idx(c.Path))

\* The half of conflictSeverity's doc comment the code keeps: a conflict of
\* three or more agents, or whose first and last change are within 2
\* minutes, is critical, whatever the order of its changes.
CriticalWhereDocSaysCritical ==
    \A c \in Out :
        Cardinality(c.Agents) >= 3 \/ Spread(c) <= DocCriticalSpread => c.Severity = "critical"

\* conflictSeverity's doc comment (conflicts.go:93-95): critical iff three
\* or more agents or a first and last change within 2 minutes, otherwise
\* warning.
SeverityFollowsDocComment ==
    \A c \in Out :
        c.Severity = IF Cardinality(c.Agents) >= 3 \/ Spread(c) <= DocCriticalSpread
                     THEN "critical" ELSE "warning"

=============================================================================
