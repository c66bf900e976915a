-------------------------------- MODULE MCPoints --------------------------------
(* Instances of Points for TLC. *)
EXTENDS Points, TLC

CONSTANTS u1, u2

\* One claim pays the price of the dearer reward.
MCClaimUser   == [c \in Claims |-> u1]
MCClaimReward == [c \in Claims |-> 2]

\* Scarce: two points, the last one.  Limited: one point, once a term.
Scarce    == [cost |-> 2, stock |-> 1, limit |-> Unlimited]
Limited   == [cost |-> 1, stock |-> Unlimited, limit |-> 1]
MCOffers  == {Scarce, Limited}

MCAdjustments == {2}

PointsSymmetry ==
    Permutations(Sessions) \cup Permutations(Redemptions) \cup Permutations(Terms)

\* Two instances in one run: every operation within a term, and two terms
\* with the points of the claim alone.
VARIABLE scope

MCInit == Init /\ scope \in {"one term", "no adjustment"}

MCNext ==
    /\ Next /\ UNCHANGED scope
    /\ scope = "one term" => UNCHANGED term
    /\ scope = "no adjustment" => \A s \in Sessions : command'[s].op # "adjust"

MCSpec == MCInit /\ [][MCNext]_<<vars, scope>>

=============================================================================
