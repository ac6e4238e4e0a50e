-------------------------- MODULE MCEffectiveness --------------------------
(***************************************************************************)
(* Three agent types ranked for the bug task: claude with the base score  *)
(* of effectiveness_test.go (0.80) and three samples averaging 0.90,      *)
(* codex with the same base score but too few samples, so the two tie     *)
(* when history is off, and gemini with no base entry and no history.     *)
(* Modes change, learned scores are set (one out of range) and cleared,   *)
(* while rankings are computed.                                            *)
(***************************************************************************)
EXTENDS Effectiveness

\* The refinement mapping: the scores read so far are the entries built so
\* far, each agent type's entry holding the one read for it.
Taken == [a \in {entries[i].agent : i \in DOMAIN entries} |->
             LET i == CHOOSE i \in DOMAIN entries : entries[i].agent = a IN entries[i].score]

\* The capability read for the next entry, whose bonus is not yet read.
Pending == IF capability = NoScore THEN [a \in {} |-> 0]
           ELSE [a \in {AgentTypes[Len(entries) + 1]} |-> capability]

Abs == INSTANCE RankingAbstract WITH pending <- Pending, taken <- Taken, returned <- ranking

MCAgentTypes == <<"claude", "codex", "gemini">>

MCBaseTable == [a \in {"claude", "codex"} |-> 80]

MCHistory == [claude |-> [score |-> 90, samples |-> 3],
              codex  |-> [score |-> 20, samples |-> 2],
              gemini |-> NoData]

\* A learned score below 0, inside the range, and above 1.
MCLearnedValues == {-5, 95, 120}

TypeOK ==
    /\ config \in [enabled : BOOLEAN, mode : Modes]
    /\ base = BaseTable
    /\ DOMAIN learned \subseteq Range(AgentTypes) /\ \A a \in DOMAIN learned : learned[a] \in 0..100
    /\ rpc \in {"idle", "rank"}
    /\ Len(entries) <= Len(AgentTypes)
    /\ capability \in {NoScore} \cup 0..100
    /\ rpc = "rank" => ranking = <<>>

-----------------------------------------------------------------------------
\* Spec sections 4.2 and 8: RankAgentsForTask, with SetMode, SetLearned and
\* ClearLearned running between its reads, implements RankingAbstract: it
\* returns a ranking of every agent type at once, ranks 1..N, scores
\* descending with ties in agent-type order, and each agent's score one it
\* really had: its learned override, else base, else 0.5, read at one
\* instant of the call, plus the bonus of the mode in force at a later one.
RankingRefinesAbstract == Abs!ASpec

=============================================================================
