----------------------------- MODULE Conflicts -----------------------------
(***************************************************************************)
(* The conflict detector of internal/tracker/conflicts.go.  A recorded     *)
(* change is [Path, Type, Agents, Session, Timestamp]: Agents is the set   *)
(* of agents the change is attributed to (only distinct names are ever    *)
(* counted), Timestamp a whole number of minutes, 0 being the zero         *)
(* time.Time.  Go map iteration makes the order of the conflicts and of   *)
(* each conflict's Agents unspecified, so both are sets here.             *)
(***************************************************************************)
EXTENDS Integers, Sequences, FiniteSets

CONSTANTS
    FileModified   \* the FileChange type DetectConflicts looks at

\* The spread (in minutes) up to which conflictSeverity reports "critical".
CriticalSpread == 10

\* The modified changes of one path, in input order: byPath[path].
ModifiedOf(changes, path) ==
    SelectSeq(changes, LAMBDA c : c.Type = FileModified /\ c.Path = path)

\* allAgents: every agent of every change of the path.
AllAgents(pcs) == UNION { pcs[i].Agents : i \in DOMAIN pcs }

\* Mutant: minT is not seeded by the first change and stays the zero time.
conflictSeverityZeroMin(pcs, agentCount) ==
    IF agentCount >= 3 THEN "critical"
    ELSE LET RECURSIVE Scan(_, _, _)
             Scan(i, minT, maxT) ==
                 IF i > Len(pcs) THEN maxT - minT
                 ELSE Scan(i + 1, IF pcs[i].Timestamp < minT THEN pcs[i].Timestamp ELSE minT,
                                  IF pcs[i].Timestamp > maxT THEN pcs[i].Timestamp ELSE maxT)
         IN IF Scan(1, 0, 0) <= CriticalSpread THEN "critical" ELSE "warning"

\* conflictSeverity: critical with three or more agents; otherwise the
\* earliest and latest timestamps are found in one pass (minT seeded by
\* the first change, maxT from the zero time) and a spread of at most
\* CriticalSpread minutes is critical.
conflictSeverity(pcs, agentCount) ==
    IF agentCount >= 3 THEN "critical"
    ELSE LET RECURSIVE Scan(_, _, _)
             Scan(i, minT, maxT) ==
                 IF i > Len(pcs) THEN maxT - minT
                 ELSE Scan(i + 1,
                           IF i = 1 \/ pcs[i].Timestamp < minT THEN pcs[i].Timestamp ELSE minT,
                           IF pcs[i].Timestamp > maxT THEN pcs[i].Timestamp ELSE maxT)
         IN IF Scan(1, 0, 0) <= CriticalSpread THEN "critical" ELSE "warning"

\* The latest timestamp of the path's changes, from the zero time.
LastOf(pcs) ==
    LET RECURSIVE Scan(_, _)
        Scan(i, last) ==
            IF i > Len(pcs) THEN last
            ELSE Scan(i + 1, IF pcs[i].Timestamp > last THEN pcs[i].Timestamp ELSE last)
    IN Scan(1, 0)

\* Mutant: a single change attributed to two agents is already a conflict.
DetectConflictsSingleChange(changes) ==
    LET paths == { changes[i].Path : i \in DOMAIN changes }
        isConflict(p) == Len(ModifiedOf(changes, p)) >= 1
                         /\ Cardinality(AllAgents(ModifiedOf(changes, p))) > 1
    IN { LET pcs == ModifiedOf(changes, p)  ag == AllAgents(pcs)
         IN [Path |-> p, Changes |-> pcs, Severity |-> conflictSeverity(pcs, Cardinality(ag)),
             Agents |-> ag, LastAt |-> LastOf(pcs)]
         : p \in { q \in paths : isConflict(q) } }

\* DetectConflicts: the modified changes are grouped by path; a path with
\* more than one change and more than one distinct agent is a conflict.
DetectConflicts(changes) ==
    LET paths == { changes[i].Path : i \in DOMAIN changes }
        isConflict(p) == /\ Len(ModifiedOf(changes, p)) > 1
                         /\ Cardinality(AllAgents(ModifiedOf(changes, p))) > 1
    IN { LET pcs == ModifiedOf(changes, p)
             ag  == AllAgents(pcs)
         IN [Path     |-> p,
             Changes  |-> pcs,
             Severity |-> conflictSeverity(pcs, Cardinality(ag)),
             Agents   |-> ag,
             LastAt   |-> LastOf(pcs)]
         : p \in { q \in paths : isConflict(q) } }

\* ConflictsSince, after GlobalFileChanges.Since: changes of other sessions
\* (when a session is given) and changes with no agent are dropped.
ConflictsSince(changes, session) ==
    DetectConflicts(SelectSeq(changes, LAMBDA c : /\ (session = "" \/ c.Session = session)
                                                  /\ c.Agents # {}))

=============================================================================
