--------------------------- MODULE MCClaimLifecycle ---------------------------
(* Instances of ClaimLifecycle for TLC. *)
EXTENDS ClaimLifecycle, TLC

CONSTANTS s1, s2, t1, t2, a1, a2, c1, c2, c3, u1, u2, w1, w2

\* Allocation: t1 has a FIXED deadline and is published and closed by its
\* owner, t2 is RELATIVE.
AllocTaskOf     == (a1 :> t1) @@ (a2 :> t2)
AllocPolicy     == (t1 :> FixedPolicy(3)) @@ (t2 :> RelativePolicy(1))
AllocCutoff     == (t1 :> 1) @@ (t2 :> 0)
AllocBaseReward == (t1 :> 10) @@ (t2 :> 10)

\* Pipeline: one unit of one task, due one instant after the claim.
PipeTaskOf      == a1 :> t1
PipePolicy      == t1 :> RelativePolicy(1)
PipeCutoff      == t1 :> 0
PipeBaseReward  == t1 :> 10

\* Two units of one task, which one student may not hold at the same time.
SameTaskOf     == (a1 :> t1) @@ (a2 :> t1)
SamePolicy     == PipePolicy
SameCutoff     == PipeCutoff
SameBaseReward == PipeBaseReward

\* The workers are interchangeable, and so are the upload identities.
PipeSymmetry == Permutations(Workers) \cup Permutations(Uploads)
HandoverSymmetry ==
    Permutations(Uploads) \cup Permutations(Students) \cup Permutations(Claims)
        \cup Permutations(Assignments)

=============================================================================
