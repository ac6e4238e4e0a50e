---------------------------- MODULE RoutingScan ----------------------------
(***************************************************************************)
(* AgentScorer.ScoreAgents (internal/robot/routing.go) as a loop that runs *)
(* while the panes of the session keep changing.  The pane list is read   *)
(* once (tmux.GetPanes); each pane is then classified at a later moment,  *)
(* when it may have closed or changed state.  A classifier is kept per    *)
(* pane in the scorer's ActivityMonitor across calls.                     *)
(*                                                                         *)
(* The tmux session is the environment: panes open, close, and change     *)
(* activity state and context usage at any time.  A pane's title, hence   *)
(* its agent type, is fixed (PaneType).                                   *)
(***************************************************************************)
EXTENDS AgentScorer

CONSTANTS
    Panes,         \* pane indices of the session, a finite set of naturals
    PaneType,      \* [Panes -> agent type], "" for a user pane
    Observations,  \* [State, LastActivity, Context] a live pane may show
    Prompt,        \* the prompt passed to ScoreAgents
    ListError      \* model value: the error a failed pane listing returns

VARIABLES
    tmux,          \* pane -> [status, obs]: the session as tmux sees it
    classifiers,   \* panes that have a classifier in the ActivityMonitor
    pc,            \* "idle" or "scanning": where ScoreAgents is
    listed,        \* the pane list GetPanes returned, in index order
    cursor,        \* the position in listed of the next pane to score
    scored,        \* the []ScoredAgent built so far
    result         \* what the last ScoreAgents call returned

vars == <<tmux, classifiers, pc, listed, cursor, scored, result>>

PaneStatus == {"unborn", "live", "closed"}

\* Pane indices in increasing order, as tmux lists them.
RECURSIVE SortedPanes(_)
SortedPanes(S) ==
    IF S = {} THEN <<>>
    ELSE LET p == CHOOSE q \in S : \A r \in S : q <= r
         IN <<p>> \o SortedPanes(S \ {p})

LivePanes == { p \in Panes : tmux[p].status = "live" }

\* The ScoredAgent fields filled from the pane and its classification.  The
\* code never sets ContextUsage, so it keeps its zero value; PaneContext is
\* the usage the pane really reports, kept beside it for the properties.
NewAgent(p, obs) ==
    [PaneIndex |-> p, AgentType |-> PaneType[p], State |-> obs.State,
     ContextUsage |-> 0, PaneContext |-> obs.Context, LastActivity |-> obs.LastActivity,
     HealthState |-> deriveHealthState(obs.State), RateLimited |-> FALSE,
     Score |-> 0, Excluded |-> FALSE, ExcludeReason |-> "",
     ScoreDetail |-> [ContextScore |-> 0, StateScore |-> 0, RecencyScore |-> 0,
                      AffinityBonus |-> 0, ContextContrib |-> 0, StateContrib |-> 0,
                      RecencyContrib |-> 0]]

\* The output of a user pane is never read; it is held at one observation.
UserObs == CHOOSE o \in Observations : TRUE

PaneObservations(p) == IF PaneType[p] = "" THEN {UserObs} ELSE Observations

Init ==
    /\ tmux \in [Panes -> [status : {"unborn", "live"}, obs : Observations]]
    /\ \A p \in Panes : tmux[p].obs \in PaneObservations(p)
    /\ classifiers = {}
    /\ pc = "idle"
    /\ listed = <<>>
    /\ cursor = 1
    /\ scored = <<>>
    /\ result = <<>>

-----------------------------------------------------------------------------
(* The session (environment).                                             *)

PaneOpen(p) ==
    /\ tmux[p].status = "unborn"
    /\ tmux' = [tmux EXCEPT ![p].status = "live"]
    /\ UNCHANGED <<classifiers, pc, listed, cursor, scored, result>>

PaneClose(p) ==
    /\ tmux[p].status = "live"
    /\ tmux' = [tmux EXCEPT ![p].status = "closed"]
    /\ UNCHANGED <<classifiers, pc, listed, cursor, scored, result>>

PaneActivity(p) ==
    /\ tmux[p].status = "live"
    /\ \E o \in PaneObservations(p) \ {tmux[p].obs} : tmux' = [tmux EXCEPT ![p].obs = o]
    /\ UNCHANGED <<classifiers, pc, listed, cursor, scored, result>>

-----------------------------------------------------------------------------
(* ScoreAgents.                                                           *)

\* tmux.GetPanes fails (the session is gone): the call returns the error.
GetPanesFails ==
    /\ pc = "idle"
    /\ result' = ListError
    /\ UNCHANGED <<tmux, classifiers, pc, listed, cursor, scored>>

\* tmux.GetPanes returns the live panes; the loop starts.
StartScore ==
    /\ pc = "idle"
    /\ pc' = "scanning"
    /\ listed' = SortedPanes(LivePanes)
    /\ cursor' = 1
    /\ scored' = <<>>
    /\ UNCHANGED <<tmux, classifiers, result>>

Current == listed[cursor]

\* A pane whose title names no agent type is skipped.
SkipUserPane ==
    /\ pc = "scanning"
    /\ cursor <= Len(listed)
    /\ PaneType[Current] = ""
    /\ cursor' = cursor + 1
    /\ UNCHANGED <<tmux, classifiers, pc, listed, scored, result>>

\* Mutant: a classification error is returned for the whole batch.
ClassifyFailsAbortsBatch ==
    /\ pc = "scanning"
    /\ cursor <= Len(listed)
    /\ PaneType[Current] # ""
    /\ classifiers' = classifiers \cup {Current}
    /\ pc' = "idle"
    /\ result' = ListError
    /\ listed' = <<>>
    /\ cursor' = 1
    /\ scored' = <<>>
    /\ UNCHANGED tmux

\* GetOrCreate makes the classifier; Classify fails (the pane has closed,
\* or its output does not parse) and the pane is skipped.
ClassifyFails ==
    /\ pc = "scanning"
    /\ cursor <= Len(listed)
    /\ PaneType[Current] # ""
    /\ classifiers' = classifiers \cup {Current}
    /\ cursor' = cursor + 1
    /\ UNCHANGED <<tmux, pc, listed, scored, result>>

\* Classify succeeds on a live pane: the agent is built, scored, and
\* appended.
ScorePane ==
    /\ pc = "scanning"
    /\ cursor <= Len(listed)
    /\ PaneType[Current] # ""
    /\ tmux[Current].status = "live"
    /\ classifiers' = classifiers \cup {Current}
    /\ scored' = Append(scored, ScoreAgent(NewAgent(Current, tmux[Current].obs), Prompt))
    /\ cursor' = cursor + 1
    /\ UNCHANGED <<tmux, pc, listed, result>>

\* The loop is over: the scored list is returned and the call's locals
\* (panes, scored, the loop index) go out of scope.
FinishScore ==
    /\ pc = "scanning"
    /\ cursor > Len(listed)
    /\ pc' = "idle"
    /\ result' = scored
    /\ listed' = <<>>
    /\ cursor' = 1
    /\ scored' = <<>>
    /\ UNCHANGED <<tmux, classifiers>>

Environment == \E p \in Panes : PaneOpen(p) \/ PaneClose(p) \/ PaneActivity(p)

Scorer == GetPanesFails \/ StartScore \/ SkipUserPane \/ ClassifyFails \/ ScorePane \/ FinishScore

Next == Environment \/ Scorer

\* Only safety is checked, so no fairness is assumed.
Spec == Init /\ [][Next]_vars

=============================================================================
