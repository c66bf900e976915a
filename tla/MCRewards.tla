------------------------------- MODULE MCRewards -------------------------------
(* Instances of what an approval pays and leads to: the reward by the time of *)
(* the hand-in, the boards, and the honors.  They share no state; each        *)
(* behaviour is about the one that area names.                                *)
EXTENDS RewardSchedule, Rankings, Honors, TLC

MCPolicies == {FixedPolicy(2), FixedPolicy(5), RelativePolicy(1), RelativePolicy(4)}

MCRules == << [fact |-> "completed", threshold |-> 1], [fact |-> "streak", threshold |-> 2], [fact |-> "points", threshold |-> 2] >>

RewardSymmetry ==
    Permutations(Projectors) \cup Permutations(Students) \cup Permutations(Approvers)

VARIABLE area

vars == <<area, scheduleVars, rankingVars, honorVars>>

Init ==
    /\ area \in {"schedule", "overlap", "months", "honors", "streak"}
    /\ ScheduleInit /\ RankingInit /\ HonorInit
    /\ area # "schedule" => policy = FixedPolicy(2) /\ base = 1 /\ claimedAt = 0

Schedule_Next == area = "schedule" /\ HandInLater /\ UNCHANGED <<area, rankingVars, honorVars>>

\* The boards are looked at twice: jobs that overlap, over the entries of one
\* day, and one job at a time, over the days of a month.  The first award is the
\* smallest, so a later one may draw level or overtake.
Rankings_Next ==
    /\ area \in {"overlap", "months"} /\ RankingNext
    /\ entries' # <<>> => entries'[1].amount = Min(Amounts)
    /\ area = "overlap" => \A i \in DOMAIN entries' : entries'[i].day = 0
    /\ area = "months" => Cardinality({w \in Projectors : projector'[w] # Idle}) <= 1
    /\ UNCHANGED <<area, scheduleVars, honorVars>>

\* The honors as well: two students, and three approvals of one.
Concerned == {s \in Students : \/ done[s] # <<>> \/ owned[s] # {}
                               \/ \E w \in Approvers : evaluation[w] # Free /\ evaluation[w].student = s}

Honors_Next ==
    /\ area \in {"honors", "streak"} /\ HonorNext
    /\ area = "honors" => stamps' < MaxStamps
    /\ area = "streak" => Cardinality(Concerned') <= 1
    /\ UNCHANGED <<area, scheduleVars, rankingVars>>

Next == Schedule_Next \/ Rankings_Next \/ Honors_Next

Spec == Init /\ [][Next]_vars

=============================================================================
