-------------------------- MODULE CollaborationProofs --------------------------
(***************************************************************************)
(* Theorems about the work people do together: the proofs attached to an    *)
(* achievement, its review, a task at its teachers' desks, the import of    *)
(* its units, and the contacts and passwords of an account.  Each has an    *)
(* inductive invariant relating every request to the rows it has read.      *)
(***************************************************************************)
EXTENDS Evidence, Reviews, TaskImport, Credentials,
        FiniteSetTheorems, SequenceTheorems, TLAPS

-----------------------------------------------------------------------------
(* The proofs attached to an achievement.                                  *)

ProofStates == {"NONE", "PENDING", "CHECKING", "READY", "REJECTED"}
ProofRows == [state : ProofStates, born : 0..MaxTime, token : Checks \cup {NoCheck},
              until : 0..MaxTime + CheckLease, digest : Good \cup {0}, cited : BOOLEAN,
              removed : BOOLEAN]
CheckRows == [at : {"NEW", "LOOK", "SEEN", "END"}, of : Proofs \cup {NoCheck}, found : Contents]
ReadingRows == [at : {"NEW", "FETCH", "FETCHED", "SHOWN", "END"}, of : Proofs \cup {NoCheck},
                round : Nat, got : Contents]
Citations == [round : Nat, of : Proofs, digest : Good]

EvidenceTyped ==
    /\ time \in 0..MaxTime /\ pending \in BOOLEAN /\ round \in 0..MaxRounds
    /\ proof \in [Proofs -> ProofRows] /\ stored \in [Proofs -> Contents]
    /\ check \in [Checks -> CheckRows] /\ \A c \in Checks : check[c].at # "NEW" => check[c].of \in Proofs
    /\ reading \in [Readers -> ReadingRows]
    /\ \A r \in Readers : reading[r].at # "NEW" => reading[r].of \in Proofs
    /\ cited \subseteq Citations

\* A proof being checked has one token, a checked one a good digest.
ProofSound(p) ==
    /\ (proof[p].state = "CHECKING") = (proof[p].token # NoCheck)
    /\ proof[p].state = "READY" => proof[p].digest \in Good

\* What was cited carries the mark that keeps remove away.
CitationSound(x) ==
    LET p == proof[x.of] IN
    p.state = "READY" /\ ~p.removed /\ p.cited /\ p.digest = x.digest

\* What a reader holds was compared with the citation.
ReadingSound(r) ==
    reading[r].at \in {"FETCHED", "SHOWN"} => Cites(reading[r].round, reading[r].of, reading[r].got)

FewLoose == IsFiniteSet(Loose) /\ Cardinality(Loose) <= MaxLoose

EvidenceInv ==
    /\ EvidenceTyped
    /\ \A p \in Proofs : ProofSound(p)
    /\ \A x \in cited : CitationSound(x)
    /\ \A r \in Readers : ReadingSound(r)
    /\ FewLoose

LEMMA EvidenceStart == EvidenceInit => EvidenceInv
<1> SUFFICES ASSUME EvidenceInit PROVE EvidenceInv OBVIOUS
<1>1. Absent \in ProofRows BY EvidenceAssumption DEF Absent, ProofRows, ProofStates
<1>2. EvidenceTyped
  <2>1. proof \in [Proofs -> ProofRows] BY <1>1 DEF EvidenceInit
  <2>2. check \in [Checks -> CheckRows] /\ stored \in [Proofs -> Contents]
        /\ (\A c \in Checks : check[c].at = "NEW")
    BY EvidenceAssumption DEF EvidenceInit, CheckRows
  <2>3. reading \in [Readers -> ReadingRows] /\ (\A r \in Readers : reading[r].at = "NEW")
    BY EvidenceAssumption DEF EvidenceInit, ReadingRows
  <2>4. time \in 0..MaxTime /\ round \in 0..MaxRounds BY EvidenceAssumption DEF EvidenceInit
  <2>5. pending \in BOOLEAN /\ cited \subseteq Citations BY DEF EvidenceInit
  <2> QED BY <2>1, <2>2, <2>3, <2>4, <2>5 DEF EvidenceTyped
<1>3. \A p \in Proofs : ProofSound(p)
  BY DEF EvidenceInit, ProofSound, Absent
<1>4. Loose = {} BY DEF EvidenceInit, Loose, Absent
<1>5. FewLoose BY <1>4, FS_EmptySet, EvidenceAssumption DEF FewLoose
<1> QED BY <1>2, <1>3, <1>5 DEF EvidenceInit, EvidenceInv, ReadingSound

\* Fewer loose proofs stay few.
LEMMA FewerLoose == ASSUME FewLoose, Loose' \subseteq Loose PROVE FewLoose'
<1>1. IsFiniteSet(Loose') /\ Cardinality(Loose') <= Cardinality(Loose)
  BY FS_Subset DEF FewLoose
<1>2. Cardinality(Loose) \in Nat /\ Cardinality(Loose') \in Nat
  BY <1>1, FS_CardinalityType DEF FewLoose
<1> QED BY <1>1, <1>2, EvidenceAssumption DEF FewLoose

\* A step on one proof that is not cited: the citations stand.
LEMMA UncitedStep ==
    ASSUME EvidenceInv, NEW p \in Proofs, proof'[p] \in ProofRows, ProofSound(p)',
           proof' = [proof EXCEPT ![p] = proof'[p]],
           proof[p].state # "READY" \/ ~proof[p].cited, cited' = cited
    PROVE  /\ proof' \in [Proofs -> ProofRows]
           /\ \A q \in Proofs : ProofSound(q)'
           /\ \A x \in cited' : CitationSound(x)'
<1>1. proof \in [Proofs -> ProofRows] /\ cited \subseteq Citations
  BY DEF EvidenceInv, EvidenceTyped
<1>2. \A q \in Proofs : q # p => proof'[q] = proof[q] BY <1>1
<1>3. \A q \in Proofs : ProofSound(q)' BY <1>2 DEF EvidenceInv, ProofSound
<1>4. \A x \in cited : x.of \in Proofs /\ x.of # p
  BY <1>1 DEF EvidenceInv, CitationSound, Citations
<1>5. \A x \in cited' : CitationSound(x)'
  BY <1>2, <1>4 DEF EvidenceInv, CitationSound
<1> QED BY <1>1, <1>3, <1>5

LEMMA CreateProofKeeps == ASSUME EvidenceInv, NEW p \in Proofs, CreateProof(p) PROVE EvidenceInv'
<1>1. /\ proof[p] = Absent /\ Cardinality(Loose) < MaxLoose
      /\ proof' = [proof EXCEPT ![p].state = "PENDING", ![p].born = time]
      /\ UNCHANGED <<time, stored, check, pending, round, cited, reading>>
  BY DEF CreateProof
<1>2. proof \in [Proofs -> ProofRows] /\ time \in 0..MaxTime BY DEF EvidenceInv, EvidenceTyped
<1>10. proof[p].token = NoCheck /\ proof[p].state = "NONE"
  <2>1. Absent.token = NoCheck /\ Absent.state = "NONE" BY DEF Absent
  <2> QED BY <1>1, <2>1
<1>3. proof'[p] \in ProofRows /\ proof'[p].state = "PENDING" /\ proof'[p].token = NoCheck
  <2>1. proof[p] \in ProofRows /\ proof[p].token = NoCheck BY <1>2, <1>10
  <2>2. proof'[p] = [proof[p] EXCEPT !.state = "PENDING", !.born = time] BY <1>1, <1>2
  <2> QED BY <1>2, <2>1, <2>2 DEF ProofRows, ProofStates
<1>4. proof' = [proof EXCEPT ![p] = proof'[p]] BY <1>1, <1>2
<1>5. ProofSound(p)' BY <1>3 DEF ProofSound
<1>6. /\ proof' \in [Proofs -> ProofRows] /\ \A q \in Proofs : ProofSound(q)'
      /\ \A x \in cited' : CitationSound(x)'
  BY <1>1, <1>3, <1>4, <1>5, <1>10, UncitedStep
<1>7. EvidenceTyped' BY <1>1, <1>6 DEF EvidenceInv, EvidenceTyped
<1>8. \A r \in Readers : ReadingSound(r)' BY <1>1 DEF EvidenceInv, ReadingSound, Cites
<1>9. FewLoose'
  <2>1. \A q \in Proofs : q # p => proof'[q] = proof[q] BY <1>1, <1>2
  <2>2. Loose' \subseteq Loose \cup {p} BY <1>1, <2>1 DEF Loose, Expired
  <2>3. IsFiniteSet(Loose \cup {p}) /\ Cardinality(Loose \cup {p}) <= Cardinality(Loose) + 1
    BY FS_AddElement, FS_CardinalityType DEF EvidenceInv, FewLoose
  <2>4. IsFiniteSet(Loose') /\ Cardinality(Loose') <= Cardinality(Loose \cup {p})
    BY <2>2, <2>3, FS_Subset
  <2>5. Cardinality(Loose) \in Nat /\ Cardinality(Loose') \in Nat /\ Cardinality(Loose \cup {p}) \in Nat
    BY <2>3, <2>4, FS_CardinalityType DEF EvidenceInv, FewLoose
  <2> QED BY <1>1, <2>3, <2>4, <2>5, EvidenceAssumption DEF FewLoose
<1> QED BY <1>6, <1>7, <1>8, <1>9 DEF EvidenceInv

LEMMA PutProofKeeps ==
    ASSUME EvidenceInv, NEW p \in Proofs, NEW b \in Contents, PutProof(p, b) PROVE EvidenceInv'
<1>1. stored' = [stored EXCEPT ![p] = b]
      /\ UNCHANGED <<time, proof, check, pending, round, cited, reading>>
  BY DEF PutProof
<1>2. EvidenceTyped' BY <1>1 DEF EvidenceInv, EvidenceTyped
<1>3. Loose' = Loose BY <1>1 DEF Loose, Expired
<1> QED BY <1>1, <1>2, <1>3 DEF EvidenceInv, ProofSound, CitationSound, ReadingSound, Cites, FewLoose

LEMMA StartCheckKeeps ==
    ASSUME EvidenceInv, NEW c \in Checks, NEW p \in Proofs, StartCheck(c, p) PROVE EvidenceInv'
<1>1. /\ Checkable(p)
      /\ proof' = [proof EXCEPT ![p].state = "CHECKING", ![p].token = c, ![p].until = time + CheckLease]
      /\ check' = [check EXCEPT ![c].at = "LOOK", ![c].of = p]
      /\ UNCHANGED <<time, stored, pending, round, cited, reading>>
  BY DEF StartCheck
<1>2. proof \in [Proofs -> ProofRows] /\ time \in 0..MaxTime /\ check \in [Checks -> CheckRows]
  BY DEF EvidenceInv, EvidenceTyped
<1>3. proof[p] \in ProofRows BY <1>2
<1>4. time + CheckLease \in 0..MaxTime + CheckLease BY <1>2, EvidenceAssumption
<1>5. /\ proof'[p] = [proof[p] EXCEPT !.state = "CHECKING", !.token = c, !.until = time + CheckLease]
  BY <1>1, <1>2
<1>6. /\ proof'[p] \in ProofRows /\ proof'[p].state = "CHECKING" /\ proof'[p].token = c
      /\ proof'[p].removed = proof[p].removed /\ proof'[p].cited = proof[p].cited
      /\ proof'[p].born = proof[p].born
  <2> DEFINE until == time + CheckLease
  <2>1. until \in 0..MaxTime + CheckLease BY <1>4
  <2>2. "CHECKING" \in ProofStates BY DEF ProofStates
  <2> HIDE DEF until
  <2>3. LET r == [proof[p] EXCEPT !.state = "CHECKING", !.token = c, !.until = until]
        IN  /\ r \in ProofRows /\ r.state = "CHECKING" /\ r.token = c
            /\ r.removed = proof[p].removed /\ r.cited = proof[p].cited /\ r.born = proof[p].born
    BY <1>3, <2>1, <2>2 DEF ProofRows
  <2> QED BY <1>5, <2>3 DEF until
<1>7. proof' = [proof EXCEPT ![p] = proof'[p]] BY <1>1, <1>2
<1>8. ProofSound(p)' BY <1>6, EvidenceAssumption DEF ProofSound
<1>9. /\ proof' \in [Proofs -> ProofRows] /\ \A q \in Proofs : ProofSound(q)'
      /\ \A x \in cited' : CitationSound(x)'
  BY <1>1, <1>6, <1>7, <1>8, UncitedStep DEF Checkable
<1>10. check' \in [Checks -> CheckRows] /\ (\A d \in Checks : check'[d].at # "NEW" => check'[d].of \in Proofs)
  BY <1>1, <1>2 DEF CheckRows, EvidenceInv, EvidenceTyped
<1>11. EvidenceTyped' BY <1>1, <1>9, <1>10 DEF EvidenceInv, EvidenceTyped
<1>12. \A r \in Readers : ReadingSound(r)' BY <1>1 DEF EvidenceInv, ReadingSound, Cites
<1>13. \A q \in Proofs : q # p => proof'[q] = proof[q] BY <1>1, <1>2
<1>14. Loose' \subseteq Loose BY <1>1, <1>6, <1>13 DEF Loose, Expired, Checkable
<1> QED BY <1>9, <1>11, <1>12, <1>14, FewerLoose DEF EvidenceInv

LEMMA CheckMovesKeep ==
    ASSUME EvidenceInv, NEW c \in Checks, Look(c) \/ LookFails(c) \/ DropCheck(c) PROVE EvidenceInv'
<1>1. UNCHANGED <<time, proof, stored, pending, round, cited, reading>>
  BY DEF Look, LookFails, DropCheck
<1>2. check \in [Checks -> CheckRows] /\ stored \in [Proofs -> Contents]
      /\ (check[c].at # "NEW" => check[c].of \in Proofs)
  BY DEF EvidenceInv, EvidenceTyped
<1>3. check' \in [Checks -> CheckRows] /\ (\A d \in Checks : check'[d].at # "NEW" => check'[d].of \in Proofs)
  BY <1>2, EvidenceAssumption DEF Look, LookFails, DropCheck, CheckRows, EvidenceInv, EvidenceTyped
<1>4. EvidenceTyped' BY <1>1, <1>3 DEF EvidenceInv, EvidenceTyped
<1>5. Loose' = Loose BY <1>1 DEF Loose, Expired
<1> QED BY <1>1, <1>4, <1>5 DEF EvidenceInv, ProofSound, CitationSound, ReadingSound, Cites, FewLoose

LEMMA FinishCheckKeeps == ASSUME EvidenceInv, NEW c \in Checks, FinishCheck(c) PROVE EvidenceInv'
<1> PICK p, b : p = check[c].of /\ b = check[c].found OBVIOUS
<1>1. /\ check[c].at = "SEEN" /\ proof[p].state = "CHECKING"
      /\ proof' = [proof EXCEPT ![p] = Reported(proof[p], b)]
      /\ check' = [check EXCEPT ![c].at = "END"]
      /\ UNCHANGED <<time, stored, pending, round, cited, reading>>
  BY DEF FinishCheck, Holds
<1>2. proof \in [Proofs -> ProofRows] /\ check \in [Checks -> CheckRows] /\ p \in Proofs /\ b \in Contents
  BY <1>1 DEF EvidenceInv, EvidenceTyped, CheckRows
<1>3. proof[p] \in ProofRows BY <1>2
<1>4. proof'[p] = Reported(proof[p], b) BY <1>1, <1>2
<1>5. /\ Reported(proof[p], b) \in ProofRows
      /\ Reported(proof[p], b).token = NoCheck
      /\ Reported(proof[p], b).state \in {"PENDING", "READY", "REJECTED"}
      /\ Reported(proof[p], b).state = "READY" => Reported(proof[p], b).digest \in Good
      /\ Reported(proof[p], b).removed = proof[p].removed
      /\ Reported(proof[p], b).cited = proof[p].cited
  BY <1>3 DEF Reported, ProofRows, ProofStates
<1>6. proof' = [proof EXCEPT ![p] = proof'[p]] BY <1>1, <1>2
<1>7. ProofSound(p)' BY <1>4, <1>5 DEF ProofSound
<1>8. /\ proof' \in [Proofs -> ProofRows] /\ \A q \in Proofs : ProofSound(q)'
      /\ \A x \in cited' : CitationSound(x)'
  BY <1>1, <1>2, <1>4, <1>5, <1>6, <1>7, UncitedStep
<1>9. check' \in [Checks -> CheckRows] /\ (\A d \in Checks : check'[d].at # "NEW" => check'[d].of \in Proofs)
  BY <1>1, <1>2 DEF CheckRows, EvidenceInv, EvidenceTyped
<1>10. EvidenceTyped' BY <1>1, <1>8, <1>9 DEF EvidenceInv, EvidenceTyped
<1>11. \A r \in Readers : ReadingSound(r)' BY <1>1 DEF EvidenceInv, ReadingSound, Cites
<1>12. \A q \in Proofs : q # p => proof'[q] = proof[q] BY <1>1, <1>2
<1>13. Loose' \subseteq Loose
  <2> SUFFICES ASSUME NEW q \in Loose' PROVE q \in Loose OBVIOUS
  <2>1. q \in Proofs BY DEF Loose
  <2>2. CASE q = p BY <1>1, <1>4, <1>5, <2>1, <2>2 DEF Loose
  <2>3. CASE q # p BY <1>1, <1>12, <2>1, <2>3 DEF Loose, Expired
  <2> QED BY <2>2, <2>3
<1> QED BY <1>8, <1>10, <1>11, <1>13, FewerLoose DEF EvidenceInv

LEMMA RemoveProofKeeps == ASSUME EvidenceInv, NEW p \in Proofs, RemoveProof(p) PROVE EvidenceInv'
<1>1. /\ ~proof[p].cited /\ proof' = [proof EXCEPT ![p].removed = TRUE]
      /\ UNCHANGED <<time, stored, check, pending, round, cited, reading>>
  BY DEF RemoveProof, Removable
<1>2. proof \in [Proofs -> ProofRows] BY DEF EvidenceInv, EvidenceTyped
<1>3. proof[p] \in ProofRows /\ proof'[p] = [proof[p] EXCEPT !.removed = TRUE] BY <1>1, <1>2
<1>4. /\ proof'[p] \in ProofRows /\ proof'[p].removed
      /\ proof'[p].state = proof[p].state /\ proof'[p].token = proof[p].token
      /\ proof'[p].digest = proof[p].digest
  BY <1>3 DEF ProofRows
<1>5. proof' = [proof EXCEPT ![p] = proof'[p]] BY <1>1, <1>2
<1>6. ProofSound(p)' BY <1>4 DEF EvidenceInv, ProofSound
<1>7. /\ proof' \in [Proofs -> ProofRows] /\ \A q \in Proofs : ProofSound(q)'
      /\ \A x \in cited' : CitationSound(x)'
  BY <1>1, <1>4, <1>5, <1>6, UncitedStep
<1>8. EvidenceTyped' BY <1>1, <1>7 DEF EvidenceInv, EvidenceTyped
<1>9. \A r \in Readers : ReadingSound(r)' BY <1>1 DEF EvidenceInv, ReadingSound, Cites
<1>10. \A q \in Proofs : q # p => proof'[q] = proof[q] BY <1>1, <1>2
<1>11. Loose' \subseteq Loose BY <1>1, <1>4, <1>10 DEF Loose, Expired
<1> QED BY <1>7, <1>8, <1>9, <1>11, FewerLoose DEF EvidenceInv

LEMMA CiteProofsKeep == ASSUME EvidenceInv, NEW S \in SUBSET Proofs, CiteProofs(S) PROVE EvidenceInv'
<1> DEFINE new == {[round |-> round + 1, of |-> p, digest |-> proof[p].digest] : p \in S}
<1>1. /\ round < MaxRounds /\ \A p \in S : proof[p].state = "READY" /\ ~proof[p].removed
      /\ proof' = [p \in Proofs |-> IF p \in S THEN [proof[p] EXCEPT !.cited = TRUE] ELSE proof[p]]
      /\ pending' = TRUE /\ round' = round + 1 /\ cited' = cited \cup new
      /\ UNCHANGED <<time, stored, check, reading>>
  BY DEF CiteProofs
<1>2. proof \in [Proofs -> ProofRows] /\ round \in 0..MaxRounds /\ cited \subseteq Citations
  BY DEF EvidenceInv, EvidenceTyped
<1>3. \A p \in Proofs :
         /\ proof'[p] \in ProofRows
         /\ proof'[p].state = proof[p].state /\ proof'[p].token = proof[p].token
         /\ proof'[p].digest = proof[p].digest /\ proof'[p].removed = proof[p].removed
         /\ proof'[p].born = proof[p].born
         /\ proof'[p].cited = (p \in S \/ proof[p].cited)
  <2> SUFFICES ASSUME NEW p \in Proofs
               PROVE  /\ proof'[p] \in ProofRows
                      /\ proof'[p].state = proof[p].state /\ proof'[p].token = proof[p].token
                      /\ proof'[p].digest = proof[p].digest /\ proof'[p].removed = proof[p].removed
                      /\ proof'[p].born = proof[p].born
                      /\ proof'[p].cited = (p \in S \/ proof[p].cited)
    OBVIOUS
  <2>1. proof[p] \in ProofRows BY <1>2
  <2>2. CASE p \in S
    <3>1. proof'[p] = [proof[p] EXCEPT !.cited = TRUE] BY <1>1, <2>2
    <3> QED BY <2>1, <2>2, <3>1 DEF ProofRows
  <2>3. CASE p \notin S
    <3>1. proof'[p] = proof[p] BY <1>1, <2>3
    <3> QED BY <2>1, <2>3, <3>1 DEF ProofRows
  <2> QED BY <2>2, <2>3
<1>4. \A p \in S : proof[p].digest \in Good BY <1>1 DEF EvidenceInv, ProofSound
<1>5. new \subseteq Citations BY <1>2, <1>4, EvidenceAssumption DEF Citations
<1>6. \A x \in new : x.of \in S /\ x.digest = proof[x.of].digest OBVIOUS
<1> HIDE DEF new
<1>7. EvidenceTyped'
  <2>1. proof' \in [Proofs -> ProofRows] BY <1>1, <1>3
  <2>2. round' \in 0..MaxRounds BY <1>1, <1>2, EvidenceAssumption
  <2>3. cited' \subseteq Citations BY <1>1, <1>2, <1>5
  <2> QED BY <1>1, <2>1, <2>2, <2>3 DEF EvidenceInv, EvidenceTyped
<1>8. \A p \in Proofs : ProofSound(p)' BY <1>3 DEF EvidenceInv, ProofSound
<1>9. \A x \in cited' : CitationSound(x)'
  <2>1. ASSUME NEW x \in cited PROVE CitationSound(x)'
    <3>1. x.of \in Proofs /\ CitationSound(x) BY <1>2, <2>1 DEF EvidenceInv, Citations
    <3> QED BY <1>3, <3>1 DEF CitationSound
  <2>2. ASSUME NEW x \in new PROVE CitationSound(x)'
    BY <1>1, <1>3, <1>6, <2>2 DEF CitationSound
  <2> QED BY <1>1, <2>1, <2>2
<1>10. \A r \in Readers : ReadingSound(r)' BY <1>1 DEF EvidenceInv, ReadingSound, Cites
<1>11. Loose' \subseteq Loose BY <1>1, <1>3 DEF Loose, Expired
<1> QED BY <1>7, <1>8, <1>9, <1>10, <1>11, FewerLoose DEF EvidenceInv

LEMMA ReadersKeep ==
    ASSUME EvidenceInv, NEW r \in Readers,
           FetchProof(r) \/ DeliverProof(r) \/ \E p \in Proofs : OpenProof(r, p)
    PROVE  EvidenceInv'
<1>1. UNCHANGED <<time, proof, stored, check, pending, round, cited>>
  BY DEF FetchProof, DeliverProof, OpenProof
<1>2. reading \in [Readers -> ReadingRows] /\ (reading[r].at # "NEW" => reading[r].of \in Proofs)
      /\ stored \in [Proofs -> Contents] /\ round \in Nat
  BY EvidenceAssumption DEF EvidenceInv, EvidenceTyped
<1>3. /\ reading' \in [Readers -> ReadingRows]
      /\ \A s \in Readers : s # r => reading'[s] = reading[s]
      /\ reading'[r].at # "NEW" => reading'[r].of \in Proofs
  <2>1. CASE FetchProof(r) BY <1>2, <2>1 DEF FetchProof, ReadingRows
  <2>2. CASE DeliverProof(r) BY <1>2, <2>2 DEF DeliverProof, ReadingRows
  <2>3. CASE \E p \in Proofs : OpenProof(r, p)
    <3>1. PICK p \in Proofs : OpenProof(r, p) BY <2>3
    <3>2. reading' = [reading EXCEPT ![r].at = "FETCH", ![r].of = p, ![r].round = round]
      BY <3>1 DEF OpenProof
    <3>3. reading'[r] = [reading[r] EXCEPT !.at = "FETCH", !.of = p, !.round = round] BY <1>2, <3>2
    <3>4. reading[r] \in ReadingRows BY <1>2
    <3>5. reading'[r] \in ReadingRows /\ reading'[r].of = p BY <1>2, <3>3, <3>4 DEF ReadingRows
    <3> QED BY <1>2, <3>2, <3>5
  <2> QED BY <2>1, <2>2, <2>3
<1>4. EvidenceTyped' BY <1>1, <1>3 DEF EvidenceInv, EvidenceTyped
<1>5. ReadingSound(r)'
  <2>1. CASE FetchProof(r) BY <1>1, <1>2, <2>1 DEF FetchProof, Unaltered, ReadingSound, Cites, ReadingRows
  <2>2. CASE DeliverProof(r)
    BY <1>1, <1>2, <2>2 DEF DeliverProof, EvidenceInv, ReadingSound, Cites, ReadingRows
  <2>3. CASE \E p \in Proofs : OpenProof(r, p)
    <3>1. PICK p \in Proofs : OpenProof(r, p) BY <2>3
    <3>2. reading'[r].at = "FETCH" BY <1>2, <3>1 DEF OpenProof, ReadingRows
    <3> QED BY <3>2 DEF ReadingSound
  <2> QED BY <2>1, <2>2, <2>3
<1>6. \A s \in Readers : ReadingSound(s)' BY <1>1, <1>3, <1>5 DEF EvidenceInv, ReadingSound, Cites
<1>7. Loose' = Loose BY <1>1 DEF Loose, Expired
<1> QED BY <1>1, <1>4, <1>6, <1>7 DEF EvidenceInv, ProofSound, CitationSound, FewLoose

LEMMA EvidenceStep == EvidenceInv /\ [EvidenceNext]_evidenceVars => EvidenceInv'
<1> SUFFICES ASSUME EvidenceInv, [EvidenceNext]_evidenceVars PROVE EvidenceInv' OBVIOUS
<1>1. CASE OwnerOfProofs
  BY <1>1, CreateProofKeeps, PutProofKeeps, StartCheckKeeps, CheckMovesKeep, FinishCheckKeeps,
     RemoveProofKeeps DEF OwnerOfProofs
<1>2. CASE ReaderOfProofs BY <1>2, ReadersKeep DEF ReaderOfProofs
<1>3. ASSUME NEW S \in SUBSET Proofs, CiteProofs(S) PROVE EvidenceInv' BY <1>3, CiteProofsKeep
<1>4. CASE EndReview
  <2>1. EvidenceTyped' BY <1>4 DEF EndReview, EvidenceInv, EvidenceTyped
  <2>2. Loose' = Loose BY <1>4 DEF EndReview, Loose, Expired
  <2> QED BY <1>4, <2>1, <2>2
          DEF EndReview, EvidenceInv, ProofSound, CitationSound, ReadingSound, Cites, FewLoose
<1>5. CASE Wait
  <2>1. EvidenceTyped' BY <1>5, EvidenceAssumption DEF Wait, EvidenceInv, EvidenceTyped
  <2>2. \A p \in Proofs : Expired(p) => Expired(p)'
    BY <1>5, EvidenceAssumption DEF Wait, Expired, EvidenceInv, EvidenceTyped, ProofRows
  <2>3. Loose' \subseteq Loose BY <1>5, <2>2 DEF Wait, Loose
  <2>4. FewLoose' BY <2>3, FewerLoose DEF EvidenceInv
  <2> QED BY <1>5, <2>1, <2>4
          DEF Wait, EvidenceInv, ProofSound, CitationSound, ReadingSound, Cites
<1>6. CASE UNCHANGED evidenceVars
  <2>1. Loose' = Loose BY <1>6 DEF evidenceVars, Loose, Expired
  <2>2. EvidenceTyped' BY <1>6 DEF evidenceVars, EvidenceInv, EvidenceTyped
  <2> QED BY <1>6, <2>1, <2>2
          DEF evidenceVars, EvidenceInv, ProofSound, CitationSound, ReadingSound, Cites, FewLoose
<1> QED BY <1>1, <1>2, <1>3, <1>4, <1>5, <1>6 DEF EvidenceNext

\* Bytes are shown by the step that looks at the review once more.
LEMMA ShownStep ==
    ASSUME EvidenceInv, EvidenceNext, NEW r \in Readers, reading[r].at # "SHOWN", reading'[r].at = "SHOWN"
    PROVE  /\ Cites(reading[r].round, reading[r].of, reading[r].got)
           /\ pending /\ reading[r].round = round
<1>1. reading \in [Readers -> ReadingRows] BY DEF EvidenceInv, EvidenceTyped
<1>2. reading'[r] # reading[r] OBVIOUS
<1>3. PICK s \in Readers : FetchProof(s) \/ DeliverProof(s) \/ \E p \in Proofs : OpenProof(s, p)
  BY <1>2 DEF EvidenceNext, OwnerOfProofs, ReaderOfProofs, CreateProof, PutProof, StartCheck, Look,
     LookFails, FinishCheck, DropCheck, RemoveProof, CiteProofs, EndReview, Wait
<1>4. ~FetchProof(s) BY <1>1 DEF FetchProof, ReadingRows
<1>5. ASSUME NEW p \in Proofs, OpenProof(s, p) PROVE FALSE
  <2>1. reading' = [reading EXCEPT ![s] = [@ EXCEPT !.at = "FETCH", !.of = p, !.round = round]]
    BY <1>5 DEF OpenProof
  <2>2. s = r BY <1>1, <1>2, <2>1
  <2>3. reading'[r] = [reading[r] EXCEPT !.at = "FETCH", !.of = p, !.round = round]
    BY <1>1, <2>1, <2>2
  <2> QED BY <1>1, <2>3 DEF ReadingRows
<1>6. DeliverProof(s) BY <1>3, <1>4, <1>5
<1>7. s = r /\ reading[r].at = "FETCHED" /\ StillOpen(r)
  BY <1>1, <1>2, <1>6 DEF DeliverProof, ReadingRows
<1> QED BY <1>7 DEF EvidenceInv, ReadingSound, StillOpen

\* What a submission cites was checked, is kept, and is what a reviewer is shown,
\* for any number of proofs, checks and readers
\* (evidence_service.py complete, remove; review_operations_service.py read_content).
THEOREM EvidenceKeepsContract == EvidenceSpec => EvidenceContract
<1> DEFINE Shown == \A r \in Readers : (reading[r].at # "SHOWN" /\ reading'[r].at = "SHOWN") =>
                      /\ Cites(reading[r].round, reading[r].of, reading[r].got)
                      /\ pending /\ reading[r].round = round
           Safe == EvidenceTypeOK /\ CitedStands /\ LooseProofsBounded
<1>1. EvidenceInit => EvidenceInv BY EvidenceStart
<1>2. EvidenceInv /\ [EvidenceNext]_evidenceVars => EvidenceInv' BY EvidenceStep
<1>3. EvidenceInv => Safe
  <2> SUFFICES ASSUME EvidenceInv PROVE Safe OBVIOUS
  <2>1. EvidenceTypeOK
    BY DEF EvidenceInv, EvidenceTyped, ProofSound, EvidenceTypeOK, ProofRows, ProofStates, CheckRows
  <2>2. CitedStands BY DEF EvidenceInv, EvidenceTyped, CitationSound, CitedStands, Citations
  <2>3. LooseProofsBounded BY DEF EvidenceInv, FewLoose, LooseProofsBounded
  <2> QED BY <2>1, <2>2, <2>3
<1>4. EvidenceInv /\ [EvidenceNext]_evidenceVars => [Shown]_evidenceVars
  BY ShownStep
<1>5. (EvidenceSpec => [][Shown]_evidenceVars) => (EvidenceSpec => ShownBytesWereCited)
  BY DEF ShownBytesWereCited
<1> HIDE DEF Shown
<1>6. EvidenceSpec => [][Shown]_evidenceVars BY <1>1, <1>2, <1>4, PTL DEF EvidenceSpec
<1>8. EvidenceSpec => []Safe BY <1>1, <1>2, <1>3, PTL DEF EvidenceSpec
<1> QED BY <1>5, <1>6, <1>8, PTL DEF EvidenceContract

-----------------------------------------------------------------------------
(* The review of an achievement.                                           *)

WorkflowRows == [state : {"DRAFT", "SUBMITTED", "RETURNED", "APPROVED"}, version : Nat, public : Nat]
CaseRows == [status : {"SUBMITTED", "WITHDRAWN", "RETURNED", "APPROVED"}, op : {"SUBMIT", "UPDATE"},
             of : [Parts -> 1..MaxSaved], version : Nat, by : Operators \cup {Unassigned}]
SawRows == [case : Nat, version : Nat]

ReviewTyped ==
    /\ saved \in [Parts -> 1..MaxSaved] /\ workflow \in WorkflowRows
    /\ cases \in Seq(CaseRows)
    /\ granted \subseteq Operators /\ conflicted \subseteq Operators
    /\ saw \in [Operators -> SawRows] /\ \A o \in Operators : saw[o].case <= Len(cases)

\* Only the newest case may be open; it is about the achievement that is saved, is held by nobody
\* who stepped aside, and the workflow knows of it.
OpenSound(c) ==
    cases[c].status = "SUBMITTED" =>
        /\ c = Len(cases) /\ cases[c].of.achievement = saved.achievement /\ cases[c].by \notin conflicted
        /\ workflow.state = IF cases[c].op = "SUBMIT" THEN "SUBMITTED" ELSE "APPROVED"

\* A workflow that waits waits for the newest case.
WaitsForNewest ==
    workflow.state = "SUBMITTED" =>
        /\ Len(cases) # 0 /\ cases[Len(cases)].status = "SUBMITTED"
        /\ cases[Len(cases)].op = "SUBMIT"

PublicSound ==
    /\ workflow.state = "APPROVED" <=> workflow.public # 0
    /\ \A c \in CaseIds : cases[c].status = "APPROVED" => c <= workflow.public
    /\ workflow.public # 0 => /\ workflow.public \in CaseIds
                              /\ cases[workflow.public].status = "APPROVED"

\* The revisions follow what has been saved, and one another.
Advancing ==
    \A c \in CaseIds, part \in Parts :
        /\ cases[c].of[part] <= saved[part]
        /\ \A d \in CaseIds : c <= d => cases[c].of[part] <= cases[d].of[part]

ReviewInv ==
    /\ ReviewTyped
    /\ Advancing
    /\ \A c \in CaseIds : OpenSound(c)
    /\ WaitsForNewest
    /\ PublicSound

LEMMA ReviewStart == ReviewInit => ReviewInv
<1> SUFFICES ASSUME ReviewInit PROVE ReviewInv OBVIOUS
<1>1. cases = <<>> /\ Len(cases) = 0 /\ CaseIds = {} BY DEF ReviewInit, CaseIds
<1>2. workflow \in WorkflowRows /\ workflow.state = "DRAFT" /\ workflow.public = 0
  BY DEF ReviewInit, WorkflowRows
<1>3. saw \in [Operators -> SawRows] /\ \A o \in Operators : saw[o].case = 0
  BY DEF ReviewInit, SawRows
<1>4. ReviewTyped BY <1>1, <1>2, <1>3, ReviewsAssumption DEF ReviewInit, ReviewTyped
<1> QED BY <1>1, <1>2, <1>4 DEF ReviewInv, Advancing, WaitsForNewest, PublicSound

LEMMA VersionGrows ==
    /\ \A line \in CaseRows : line.version + 1 \in Nat
    /\ \A w \in WorkflowRows : w.version + 1 \in Nat
BY DEF CaseRows, WorkflowRows

\* One case is rewritten, the others stay.
Rewritten(c, line) ==
    /\ cases' \in Seq(CaseRows) /\ Len(cases') = Len(cases)
    /\ \A d \in CaseIds : cases'[d] = IF d = c THEN line ELSE cases[d]

LEMMA CaseRewritten ==
    ASSUME cases \in Seq(CaseRows), NEW c \in CaseIds, NEW line \in CaseRows,
           cases' = [cases EXCEPT ![c] = line]
    PROVE  Rewritten(c, line)
BY DEF Rewritten, CaseIds

\* No case is closed or opened by a step that keeps their states.
LEMMA CasesAlike ==
    ASSUME ReviewInv, ReviewTyped', Len(cases') = Len(cases), workflow' = workflow, saved' = saved,
           \A c \in CaseIds : /\ cases'[c].status = cases[c].status /\ cases'[c].op = cases[c].op
                              /\ cases'[c].of = cases[c].of,
           \A c \in CaseIds : cases'[c].status = "SUBMITTED" => cases'[c].by \notin conflicted'
    PROVE  ReviewInv'
<1>1. CaseIds' = CaseIds /\ Len(cases) \in Nat BY DEF CaseIds, ReviewInv, ReviewTyped
<1>2. \A c \in CaseIds' : OpenSound(c)' BY <1>1 DEF ReviewInv, OpenSound
<1>3. WaitsForNewest' BY <1>1 DEF ReviewInv, WaitsForNewest, CaseIds
<1>4. PublicSound' BY <1>1 DEF ReviewInv, PublicSound
<1>5. Advancing' BY <1>1 DEF ReviewInv, Advancing
<1> QED BY <1>2, <1>3, <1>4, <1>5 DEF ReviewInv

\* Withdrawal or decision of the newest case, which was open.
LEMMA CaseCloses ==
    ASSUME ReviewInv, NEW c \in CaseIds, cases[c].status = "SUBMITTED",
           NEW line \in CaseRows, line.status # "SUBMITTED", line.of = cases[c].of, Rewritten(c, line),
           NEW w \in WorkflowRows, workflow' = w, w.state # "SUBMITTED",
           IF line.status = "APPROVED" THEN w.state = "APPROVED" /\ w.public = c
           ELSE w.public = workflow.public /\ (w.state = "APPROVED" <=> workflow.state = "APPROVED"),
           UNCHANGED <<saved, granted, conflicted, saw>>
    PROVE  ReviewInv'
<1>1. CaseIds' = CaseIds /\ c = Len(cases) /\ Len(cases) \in Nat /\ Len(cases) # 0
  BY DEF Rewritten, CaseIds, ReviewInv, ReviewTyped, OpenSound
<1>2. ReviewTyped' BY <1>1 DEF Rewritten, ReviewInv, ReviewTyped
<1>3. \A d \in CaseIds : cases'[d].status # "SUBMITTED"
  BY <1>1 DEF Rewritten, ReviewInv, OpenSound
<1>4. PublicSound'
  <2>1. CASE line.status = "APPROVED"
    <3>1. \A d \in CaseIds : d <= c BY <1>1 DEF CaseIds
    <3> QED BY <1>1, <2>1, <3>1 DEF Rewritten, PublicSound, CaseIds
  <2>2. CASE line.status # "APPROVED"
    <3>1. workflow.public # c BY <1>1 DEF ReviewInv, PublicSound
    <3> QED BY <1>1, <2>2, <3>1 DEF Rewritten, ReviewInv, PublicSound
  <2> QED BY <2>1, <2>2
<1>5. Advancing'
  <2>1. \A d \in CaseIds : cases'[d].of = cases[d].of BY DEF Rewritten
  <2> QED BY <1>1, <2>1 DEF ReviewInv, Advancing
<1> QED BY <1>1, <1>2, <1>3, <1>4, <1>5 DEF ReviewInv, OpenSound, WaitsForNewest

LEMMA NothingOpen == ASSUME ReviewInv, Pending = {} PROVE workflow.state # "SUBMITTED"
<1>1. \A c \in CaseIds : cases[c].status # "SUBMITTED" BY DEF Pending
<1>2. Len(cases) \in Nat BY DEF ReviewInv, ReviewTyped
<1> QED BY <1>1, <1>2 DEF ReviewInv, WaitsForNewest, CaseIds

LEMMA SubmitKeeps ==
    ASSUME ReviewInv, NEW op \in {"SUBMIT", "UPDATE"}, Submit(op) PROVE ReviewInv'
<1> DEFINE line == [status |-> "SUBMITTED", op |-> op, of |-> saved, version |-> 1, by |-> Unassigned]
           state == IF op = "SUBMIT" THEN "SUBMITTED" ELSE workflow.state
<1>1. /\ Pending = {} /\ cases' = Append(cases, line)
      /\ op = "SUBMIT" => workflow.state \in {"DRAFT", "RETURNED"}
      /\ op = "UPDATE" => workflow.state = "APPROVED"
      /\ workflow' = [workflow EXCEPT !.version = @ + 1, !.state = state]
      /\ UNCHANGED <<saved, granted, conflicted, ownerSaw, saw, claims>>
  BY DEF Submit
<1>2. cases \in Seq(CaseRows) /\ workflow \in WorkflowRows /\ saved \in [Parts -> 1..MaxSaved]
      /\ conflicted \subseteq Operators
  BY DEF ReviewInv, ReviewTyped
<1>3. line \in CaseRows BY <1>2 DEF CaseRows
<1>4. state \in {"DRAFT", "SUBMITTED", "RETURNED", "APPROVED"} BY <1>2 DEF WorkflowRows
<1>5. /\ workflow' \in WorkflowRows /\ workflow'.state = state
      /\ workflow'.public = workflow.public
  BY <1>1, <1>2, <1>4, VersionGrows DEF WorkflowRows
<1>6. /\ line.status = "SUBMITTED" /\ line.op = op /\ line.of = saved /\ line.by = Unassigned
  OBVIOUS
<1>7. state = (IF op = "SUBMIT" THEN "SUBMITTED" ELSE "APPROVED") BY <1>1
<1>8. state = "APPROVED" <=> workflow.state = "APPROVED" BY <1>1
<1> HIDE DEF line, state
<1>9. /\ cases' \in Seq(CaseRows) /\ Len(cases') = Len(cases) + 1 /\ Len(cases) \in Nat
      /\ cases'[Len(cases')] = line
      /\ \A c \in CaseIds : cases'[c] = cases[c] /\ cases[c].status # "SUBMITTED"
  BY <1>1, <1>2, <1>3 DEF CaseIds, Pending
<1>10. CaseIds' = CaseIds \cup {Len(cases')} /\ CaseIds \subseteq Nat BY <1>9 DEF CaseIds
<1>11. ReviewTyped' 
  <2>1. \A o \in Operators : saw'[o].case <= Len(cases')
    BY <1>1, <1>9 DEF ReviewInv, ReviewTyped, SawRows
  <2> QED BY <1>1, <1>5, <1>9, <2>1 DEF ReviewInv, ReviewTyped
<1>12. \A c \in CaseIds' : OpenSound(c)'
  <2>1. ASSUME NEW c \in CaseIds PROVE OpenSound(c)' BY <1>9 DEF OpenSound
  <2>2. ASSUME NEW c, c = Len(cases') PROVE OpenSound(c)'
    <3>1. conflicted' = conflicted /\ saved' = saved BY <1>1
    <3>2. Unassigned \notin conflicted' BY <1>2, <3>1, ReviewsAssumption
    <3> QED BY <1>5, <1>6, <1>7, <1>9, <2>2, <3>1, <3>2 DEF OpenSound
  <2> QED BY <1>10, <2>1, <2>2
<1>13. WaitsForNewest' BY <1>5, <1>6, <1>7, <1>9 DEF WaitsForNewest
<1>14. PublicSound' BY <1>5, <1>6, <1>8, <1>9, <1>10 DEF ReviewInv, PublicSound
<1>15. Advancing'
  <2>1. saved' = saved /\ \A part \in Parts : saved[part] \in Int BY <1>1, <1>2
  <2>2. \A c \in CaseIds : c < Len(cases') BY <1>9 DEF CaseIds
  <2>3. \A c \in CaseIds, part \in Parts :
           /\ cases[c].of[part] <= saved[part]
           /\ \A d \in CaseIds : c <= d => cases[c].of[part] <= cases[d].of[part]
    BY DEF ReviewInv, Advancing
  <2>4. \A c \in CaseIds : cases'[c].of = cases[c].of BY <1>9
  <2>5. cases'[Len(cases')].of = saved BY <1>6, <1>9
  <2>6. ASSUME NEW part \in Parts, NEW c \in CaseIds'
        PROVE  cases'[c].of[part] <= saved[part]
    BY <1>10, <2>1, <2>3, <2>4, <2>5
  <2>7. ASSUME NEW part \in Parts, NEW c \in CaseIds', NEW d \in CaseIds', c <= d
        PROVE  cases'[c].of[part] <= cases'[d].of[part]
    <3>1. CASE d = Len(cases') BY <2>5, <2>6, <3>1
    <3>2. CASE d # Len(cases')
      <4>1. d \in CaseIds /\ c \in CaseIds
        BY <1>9, <1>10, <2>2, <2>7, <3>2 DEF CaseIds
      <4> QED BY <2>3, <2>4, <2>7, <4>1
    <3> QED BY <3>1, <3>2
  <2> QED BY <2>1, <2>6, <2>7 DEF Advancing
<1> QED BY <1>11, <1>12, <1>13, <1>14, <1>15 DEF ReviewInv

LEMMA WithdrawKeeps == ASSUME ReviewInv, Withdraw PROVE ReviewInv'
<1>1. PICK c : c = Len(cases) OBVIOUS
<1>2. /\ cases # <<>> /\ cases[c].status = "SUBMITTED"
      /\ cases' = [cases EXCEPT ![c].status = "WITHDRAWN", ![c].version = @ + 1]
      /\ workflow' = AfterWithdrawal(workflow)
      /\ UNCHANGED <<saved, granted, conflicted, ownerSaw, saw, claims>>
  BY <1>1 DEF Withdraw
<1>3. cases \in Seq(CaseRows) /\ workflow \in WorkflowRows BY DEF ReviewInv, ReviewTyped
<1>4. c \in CaseIds BY <1>1, <1>2, <1>3 DEF CaseIds
<1>5. cases[c] \in CaseRows BY <1>3, <1>4 DEF CaseIds
<1> DEFINE line == [cases[c] EXCEPT !.status = "WITHDRAWN", !.version = @ + 1]
<1>6. line \in CaseRows /\ line.status = "WITHDRAWN" /\ line.of = cases[c].of BY <1>5, VersionGrows DEF CaseRows
<1>7. cases' = [cases EXCEPT ![c] = line] BY <1>2, <1>3, <1>4
<1> HIDE DEF line
<1>8. Rewritten(c, line) BY <1>3, <1>4, <1>6, <1>7, CaseRewritten
<1>9. /\ workflow' \in WorkflowRows /\ workflow'.public = workflow.public
      /\ workflow'.state = IF workflow.state = "SUBMITTED" THEN "DRAFT" ELSE workflow.state
  BY <1>2, <1>3, VersionGrows DEF AfterWithdrawal, WorkflowRows
<1> QED BY <1>2, <1>4, <1>6, <1>8, <1>9, CaseCloses

LEMMA DecideKeeps ==
    ASSUME ReviewInv, NEW o \in Operators, NEW d \in {"APPROVED", "RETURNED"}, Decide(o, d)
    PROVE  ReviewInv'
<1>1. PICK c : c = saw[o].case OBVIOUS
<1>2. /\ c \in CaseIds /\ cases[c].status = "SUBMITTED"
      /\ workflow.state = IF cases[c].op = "SUBMIT" THEN "SUBMITTED" ELSE "APPROVED"
      /\ cases' = [cases EXCEPT ![c].status = d, ![c].version = @ + 1]
      /\ workflow' = AfterDecision(workflow, c, d)
      /\ UNCHANGED <<saved, granted, conflicted, ownerSaw, saw, claims>>
  BY <1>1 DEF Decide, Admitted, Decidable, Seen
<1>3. cases \in Seq(CaseRows) /\ workflow \in WorkflowRows BY DEF ReviewInv, ReviewTyped
<1>4. cases[c] \in CaseRows BY <1>2, <1>3 DEF CaseIds
<1> DEFINE line == [cases[c] EXCEPT !.status = d, !.version = @ + 1]
<1>5. line \in CaseRows /\ line.status = d /\ line.of = cases[c].of BY <1>4, VersionGrows DEF CaseRows
<1>6. cases' = [cases EXCEPT ![c] = line] BY <1>2, <1>3
<1> HIDE DEF line
<1>7. Rewritten(c, line) BY <1>2, <1>3, <1>5, <1>6, CaseRewritten
<1>8. c \in Nat BY <1>2 DEF CaseIds
<1>9. /\ workflow' \in WorkflowRows
      /\ workflow'.public = IF d = "APPROVED" THEN c ELSE workflow.public
      /\ workflow'.state = IF cases[c].op = "SUBMIT" THEN d ELSE workflow.state
  BY <1>2, <1>3, <1>8, VersionGrows DEF AfterDecision, WorkflowRows
<1> QED BY <1>2, <1>5, <1>7, <1>9, CaseCloses

LEMMA ClaimKeeps == ASSUME ReviewInv, NEW o \in Operators, Claim(o) PROVE ReviewInv'
<1>1. PICK c : c = saw[o].case OBVIOUS
<1>2. /\ c \in CaseIds /\ o \notin conflicted
      /\ cases' = [cases EXCEPT ![c].by = o, ![c].version = @ + 1]
      /\ saw' = [saw EXCEPT ![o].version = @ + 1]
      /\ UNCHANGED <<saved, workflow, granted, conflicted, ownerSaw>>
  BY <1>1 DEF Claim, Admitted, Seen
<1>3. cases \in Seq(CaseRows) /\ saw \in [Operators -> SawRows] BY DEF ReviewInv, ReviewTyped
<1>4. cases[c] \in CaseRows BY <1>2, <1>3 DEF CaseIds
<1> DEFINE line == [cases[c] EXCEPT !.by = o, !.version = @ + 1]
<1>5. /\ line \in CaseRows /\ line.by = o /\ line.status = cases[c].status
      /\ line.op = cases[c].op /\ line.of = cases[c].of
  BY <1>4, VersionGrows DEF CaseRows
<1>6. cases' = [cases EXCEPT ![c] = line] BY <1>2, <1>3
<1> HIDE DEF line
<1>7. Rewritten(c, line) BY <1>2, <1>3, <1>5, <1>6, CaseRewritten
<1>8. saw' \in [Operators -> SawRows] /\ \A p \in Operators : saw'[p].case = saw[p].case
  BY <1>2, <1>3 DEF SawRows
<1>9. ReviewTyped' BY <1>2, <1>7, <1>8 DEF ReviewInv, ReviewTyped, Rewritten
<1>10. \A d \in CaseIds : /\ cases'[d].status = cases[d].status /\ cases'[d].op = cases[d].op
                          /\ cases'[d].of = cases[d].of
  BY <1>5, <1>7 DEF Rewritten
<1>11. \A d \in CaseIds : cases'[d].status = "SUBMITTED" => cases'[d].by \notin conflicted'
  <2> SUFFICES ASSUME NEW d \in CaseIds, cases'[d].status = "SUBMITTED"
               PROVE  cases'[d].by \notin conflicted
    BY <1>2
  <2>1. CASE d = c BY <1>2, <1>5, <1>7, <2>1 DEF Rewritten
  <2>2. CASE d # c
    <3>1. cases'[d] = cases[d] BY <1>7, <2>2 DEF Rewritten
    <3> QED BY <3>1 DEF ReviewInv, OpenSound
  <2> QED BY <2>1, <2>2
<1> QED BY <1>2, <1>7, <1>9, <1>10, <1>11, CasesAlike DEF Rewritten

LEMMA DeclareConflictKeeps ==
    ASSUME ReviewInv, NEW o \in Operators, DeclareConflict(o) PROVE ReviewInv'
<1>1. /\ conflicted' = conflicted \cup {o} /\ cases' = Released(o)
      /\ UNCHANGED <<saved, workflow, granted, ownerSaw, saw, claims>>
  BY DEF DeclareConflict
<1>2. cases \in Seq(CaseRows) /\ Len(cases) \in Nat /\ conflicted \subseteq Operators
  BY DEF ReviewInv, ReviewTyped
<1>3. \A c \in CaseIds :
         /\ cases'[c] \in CaseRows
         /\ cases'[c].status = cases[c].status /\ cases'[c].op = cases[c].op
         /\ cases'[c].of = cases[c].of
         /\ cases'[c].status = "SUBMITTED" =>
               cases'[c].by = IF cases[c].by = o THEN Unassigned ELSE cases[c].by
  <2> SUFFICES ASSUME NEW c \in CaseIds
               PROVE  /\ cases'[c] \in CaseRows
                      /\ cases'[c].status = cases[c].status /\ cases'[c].op = cases[c].op
                      /\ cases'[c].of = cases[c].of
                      /\ cases'[c].status = "SUBMITTED" =>
                            cases'[c].by = IF cases[c].by = o THEN Unassigned ELSE cases[c].by
    OBVIOUS
  <2>1. cases[c] \in CaseRows BY <1>2 DEF CaseIds
  <2>2. CASE cases[c].status = "SUBMITTED" /\ cases[c].by = o
    <3>1. cases'[c] = [cases[c] EXCEPT !.by = Unassigned, !.version = @ + 1]
      BY <1>1, <2>2 DEF Released, Pending
    <3> QED BY <2>1, <2>2, <3>1, VersionGrows DEF CaseRows
  <2>3. CASE ~(cases[c].status = "SUBMITTED" /\ cases[c].by = o)
    <3>1. cases'[c] = cases[c] BY <1>1, <2>3 DEF Released, Pending
    <3> QED BY <2>1, <2>3, <3>1 DEF CaseRows
  <2> QED BY <2>2, <2>3
<1>4. cases' \in Seq(CaseRows) /\ Len(cases') = Len(cases)
  <2>1. cases' \in [1..Len(cases) -> CaseRows] BY <1>1, <1>3 DEF Released, CaseIds
  <2> QED BY <1>2, <2>1, SeqDef, LenProperties
<1>5. ReviewTyped' BY <1>1, <1>2, <1>4 DEF ReviewInv, ReviewTyped
<1>6. \A c \in CaseIds : cases'[c].status = "SUBMITTED" => cases'[c].by \notin conflicted'
  BY <1>1, <1>2, <1>3, ReviewsAssumption DEF ReviewInv, OpenSound
<1> QED BY <1>1, <1>3, <1>4, <1>5, <1>6, CasesAlike

\* A save of one part disturbs no case that is open for the other.
LEMMA SaveKeeps ==
    ASSUME ReviewInv, NEW part \in Parts, saved[part] < MaxSaved,
           saved' = [saved EXCEPT ![part] = @ + 1],
           \/ saved'.achievement = saved.achievement
           \/ \A c \in CaseIds : cases[c].status # "SUBMITTED",
           UNCHANGED <<workflow, cases, granted, conflicted, saw>>
    PROVE  ReviewInv'
<1>1. saved \in [Parts -> 1..MaxSaved] /\ CaseIds' = CaseIds
      /\ cases \in Seq(CaseRows)
  BY DEF ReviewInv, ReviewTyped, CaseIds
<1>2. saved' \in [Parts -> 1..MaxSaved] /\ \A p \in Parts : saved[p] <= saved'[p]
  BY <1>1, ReviewsAssumption
<1>3. ReviewTyped' BY <1>2 DEF ReviewInv, ReviewTyped
<1>4. Advancing'
  <2>1. \A c \in CaseIds, p \in Parts : cases[c].of[p] \in Int /\ saved[p] \in Int /\ saved'[p] \in Int
    <3> SUFFICES ASSUME NEW c \in CaseIds, NEW p \in Parts
                 PROVE  cases[c].of[p] \in Int /\ saved[p] \in Int /\ saved'[p] \in Int
      OBVIOUS
    <3>1. cases[c] \in CaseRows BY <1>1 DEF CaseIds
    <3>2. cases[c].of \in [Parts -> 1..MaxSaved] BY <3>1 DEF CaseRows
    <3> QED BY <1>1, <1>2, <3>2
  <2>2. \A c \in CaseIds, p \in Parts : cases[c].of[p] <= saved'[p]
    BY <1>2, <2>1 DEF ReviewInv, Advancing
  <2> QED BY <1>1, <2>2 DEF ReviewInv, Advancing
<1>5. \A c \in CaseIds' : OpenSound(c)' BY <1>1 DEF ReviewInv, OpenSound
<1> QED BY <1>3, <1>4, <1>5 DEF ReviewInv, WaitsForNewest, PublicSound, CaseIds

LEMMA ReviewStep == ReviewInv /\ [ReviewNext]_reviewVars => ReviewInv'
<1> SUFFICES ASSUME ReviewInv, [ReviewNext]_reviewVars PROVE ReviewInv' OBVIOUS
<1>0. ReviewTyped /\ \A c \in CaseIds : OpenSound(c) BY DEF ReviewInv
<1>1. ASSUME UNCHANGED <<saved, workflow, cases, conflicted>>, granted' \subseteq Operators,
             saw' \in [Operators -> SawRows], \A o \in Operators : saw'[o].case <= Len(cases)
      PROVE  ReviewInv'
  <2>1. ReviewTyped' BY <1>1 DEF ReviewInv, ReviewTyped
  <2> QED BY <1>0, <1>1, <2>1, CasesAlike DEF OpenSound
<1>2. CASE LoadOwnerPage BY <1>0, <1>1, <1>2 DEF LoadOwnerPage, ReviewTyped
<1>3. CASE SaveAchievement
  <2>1. \A c \in CaseIds : cases[c].status # "SUBMITTED" BY <1>3 DEF SaveAchievement, Editable, Pending
  <2> QED BY <1>3, <2>1, SaveKeeps DEF SaveAchievement, Parts
<1>12. CASE SaveProject
  <2>1. saved'.achievement = saved.achievement BY <1>0, <1>12 DEF SaveProject, ReviewTyped, Parts
  <2> QED BY <1>12, <2>1, SaveKeeps DEF SaveProject, Parts
<1>4. CASE Withdraw BY <1>4, WithdrawKeeps
<1>5. ASSUME NEW op \in {"SUBMIT", "UPDATE"}, Submit(op) PROVE ReviewInv' BY <1>5, SubmitKeeps
<1>6. ASSUME NEW o \in Operators, LoadQueue(o) PROVE ReviewInv'
  <2>1. PICK c \in Pending : saw' = [saw EXCEPT ![o] = [case |-> c, version |-> cases[c].version]]
    BY <1>6 DEF LoadQueue
  <2>2. c \in CaseIds /\ Len(cases) \in Nat /\ cases[c] \in CaseRows
    BY <1>0, <2>1 DEF Pending, CaseIds, ReviewTyped
  <2>3. [case |-> c, version |-> cases[c].version] \in SawRows BY <2>2 DEF SawRows, CaseRows, CaseIds
  <2>4. saw' \in [Operators -> SawRows] BY <1>0, <2>1, <2>3 DEF ReviewTyped
  <2>5. \A p \in Operators : saw'[p].case <= Len(cases)
    BY <1>0, <2>1, <2>2 DEF ReviewTyped, CaseIds
  <2> QED BY <1>0, <1>1, <1>6, <2>4, <2>5 DEF LoadQueue, ReviewTyped
<1>7. ASSUME NEW o \in Operators, Claim(o) PROVE ReviewInv' BY <1>7, ClaimKeeps
<1>8. ASSUME NEW o \in Operators, DeclareConflict(o) PROVE ReviewInv' BY <1>8, DeclareConflictKeeps
<1>9. ASSUME NEW o \in Operators, NEW d \in {"APPROVED", "RETURNED"}, Decide(o, d) PROVE ReviewInv'
  BY <1>9, DecideKeeps
<1>10. ASSUME NEW o \in Operators, ToggleGrant(o) PROVE ReviewInv'
  BY <1>0, <1>1, <1>10 DEF ToggleGrant, ReviewTyped
<1>11. CASE UNCHANGED reviewVars BY <1>0, <1>1, <1>11 DEF reviewVars, ReviewTyped
<1> QED BY <1>2, <1>3, <1>4, <1>5, <1>6, <1>7, <1>8, <1>9, <1>10, <1>11, <1>12
        DEF ReviewNext, OwnerNext, OperatorNext

\* Whatever is done to the cases, one that is not open keeps its state.
LEMMA ClosedStep ==
    ASSUME ReviewInv, ReviewNext, NEW c \in CaseIds \ Pending
    PROVE  cases'[c].status = cases[c].status
<1>1. cases \in Seq(CaseRows) /\ c \in CaseIds /\ cases[c].status # "SUBMITTED"
  BY DEF ReviewInv, ReviewTyped, Pending
<1>2. CASE cases' = cases BY <1>2
<1>3. ASSUME NEW op \in {"SUBMIT", "UPDATE"}, Submit(op) PROVE cases'[c].status = cases[c].status
  BY <1>1, <1>3 DEF Submit, CaseIds
<1>4. CASE Withdraw BY <1>1, <1>4 DEF Withdraw, CaseIds
<1>5. ASSUME NEW o \in Operators, Claim(o) PROVE cases'[c].status = cases[c].status
  BY <1>1, <1>5 DEF Claim, Seen, Admitted, CaseIds
<1>6. ASSUME NEW o \in Operators, DeclareConflict(o) PROVE cases'[c].status = cases[c].status
  BY <1>1, <1>6 DEF DeclareConflict, Released, Pending
<1>7. ASSUME NEW o \in Operators, NEW d \in {"APPROVED", "RETURNED"}, Decide(o, d)
      PROVE  cases'[c].status = cases[c].status
  BY <1>1, <1>7 DEF Decide, Decidable, Seen, Admitted, CaseIds
<1> QED BY <1>2, <1>3, <1>4, <1>5, <1>6, <1>7
        DEF ReviewNext, OwnerNext, OperatorNext, LoadOwnerPage, SaveAchievement, SaveProject, LoadQueue, ToggleGrant

LEMMA ReviewInvSound ==
    ReviewInv => /\ ReviewTypeOK /\ WorkflowMatchesCases /\ ReviewedIsSaved
                 /\ ConflictedHoldsNothing /\ PublicIsNewestApproved
<1> SUFFICES ASSUME ReviewInv
             PROVE  /\ ReviewTypeOK /\ WorkflowMatchesCases /\ ReviewedIsSaved
                    /\ ConflictedHoldsNothing /\ PublicIsNewestApproved
  OBVIOUS
<1>1. ReviewTyped /\ Len(cases) \in Nat BY DEF ReviewInv, ReviewTyped
<1>2. workflow.public \in 0..Len(cases) BY <1>1 DEF ReviewInv, PublicSound, ReviewTyped, WorkflowRows, CaseIds
<1>3. ReviewTypeOK
  <2>1. \A o \in Operators : saw[o].case \in 0..Len(cases) /\ saw[o].version \in Nat
    BY <1>1 DEF ReviewTyped, SawRows
  <2>2. workflow.state \in {"DRAFT", "SUBMITTED", "RETURNED", "APPROVED"} /\ workflow.version \in Nat
    BY <1>1 DEF ReviewTyped, WorkflowRows
  <2> QED BY <1>1, <1>2, <2>1, <2>2 DEF ReviewTypeOK, ReviewTyped, CaseRows
<1>4. WorkflowMatchesCases
  <2>1. Pending \subseteq {Len(cases)} BY DEF ReviewInv, OpenSound, Pending
  <2>2. Cardinality(Pending) <= 1
    <3>1. IsFiniteSet({Len(cases)}) /\ Cardinality({Len(cases)}) = 1 BY FS_Singleton
    <3> QED BY <2>1, <3>1, FS_Subset
  <2>3. workflow.state = "SUBMITTED" => \E c \in Pending : cases[c].op = "SUBMIT"
    BY <1>1 DEF ReviewInv, WaitsForNewest, Pending, CaseIds
  <2>4. (\E c \in Pending : cases[c].op = "SUBMIT") => workflow.state = "SUBMITTED"
    BY DEF ReviewInv, OpenSound, Pending
  <2> QED BY <2>2, <2>3, <2>4 DEF WorkflowMatchesCases, ReviewInv, PublicSound
<1>5. ReviewedIsSaved /\ ConflictedHoldsNothing
  BY DEF ReviewInv, OpenSound, Advancing, ReviewedIsSaved, ConflictedHoldsNothing, Pending
<1>6. PublicIsNewestApproved
  <2> DEFINE approved == {c \in CaseIds : cases[c].status = "APPROVED"}
  <2>1. \A c \in approved : c <= workflow.public /\ c # 0 /\ c \in Nat
    BY <1>1 DEF ReviewInv, PublicSound, CaseIds
  <2>2. workflow.public # 0 => workflow.public \in approved BY DEF ReviewInv, PublicSound
  <2>3. workflow.public \in Nat BY <1>1 DEF ReviewTyped, WorkflowRows
  <2>4. approved = {} => workflow.public = 0 BY <2>2
  <2>5. approved # {} => workflow.public # 0 BY <2>1, <2>3
  <2> QED BY <2>1, <2>2, <2>4, <2>5 DEF PublicIsNewestApproved
<1> QED BY <1>3, <1>4, <1>5, <1>6

\* Workflow, cases, saved texts and what is public agree although author and
\* operators act at once, and a closed case stays closed, for any number of
\* operators and cases (review_service.py, review_operations_service.py).
THEOREM ReviewKeepsContract == ReviewSpec => ReviewContract
<1> DEFINE Stands == \A c \in CaseIds \ Pending : cases'[c].status = cases[c].status
           Safe == /\ ReviewTypeOK /\ WorkflowMatchesCases /\ ReviewedIsSaved
                   /\ ConflictedHoldsNothing /\ PublicIsNewestApproved
<1>1. ReviewInv /\ [ReviewNext]_reviewVars => ReviewInv' BY ReviewStep
<1>2. ReviewInv => Safe BY ReviewInvSound
<1>3. ReviewInv /\ [ReviewNext]_reviewVars => [Stands]_reviewVars BY ClosedStep
<1>4. (ReviewSpec => [][Stands]_reviewVars) => (ReviewSpec => ClosedCaseStands)
  BY DEF ClosedCaseStands
<1> HIDE DEF Stands
<1>5. ReviewSpec => [][Stands]_reviewVars BY <1>1, <1>3, ReviewStart, PTL DEF ReviewSpec
<1>6. ReviewSpec => []Safe BY <1>1, <1>2, ReviewStart, PTL DEF ReviewSpec
<1> QED BY <1>4, <1>5, <1>6, PTL DEF ReviewContract

-----------------------------------------------------------------------------
(* One task at its teachers' desks.                                        *)

LiveStatuses == {"DRAFT", "PUBLISHED", "PAUSED", "CLOSED", "ARCHIVED"}
TaskRows == [status : LiveStatuses \cup {"NONE"}, contract : Contracts \cup {NoTask}]
DeskRows == [verb : {"none", "edit", "move", "add", "remove", "import"},
             by : Teachers \cup {Owner, NoTask},
             of : Contracts \cup LiveStatuses \cup Teachers \cup {NoTask},
             give : SUBSET Powers, status : LiveStatuses, own : SUBSET Powers]

DeskTyped ==
    /\ task \in TaskRows /\ units \in BOOLEAN
    /\ power \in [Teachers -> SUBSET Powers] /\ desk \in [Desks -> DeskRows]

\* An operation that holds the task row has read what still stands.
Holding(d) == desk[d].verb \in {"edit", "move", "add", "remove"}
OwnOf(who) == IF who = Owner THEN Powers ELSE power[who]

DeskSound(d) ==
    /\ desk[d] # Idle => task.status # "NONE"
    /\ desk[d] = Idle \/ desk[d].verb # "none"
    /\ Holding(d) => desk[d].status = task.status /\ desk[d].own = OwnOf(desk[d].by)
    /\ desk[d].verb = "edit" => desk[d].of \in Contracts
    /\ desk[d].verb = "move" => desk[d].of \in LiveStatuses
    /\ desk[d].verb \in {"add", "remove"} => desk[d].of \in Teachers

OneHolds == \A d, e \in Desks : Holding(d) /\ Holding(e) => d = e

TaskSound ==
    /\ task.status \notin {"NONE", "DRAFT"} => units
    /\ task.status \notin {"NONE", "DRAFT"} => task.contract = sold /\ sold \notin Faulty
    /\ trail.after = IF task.status = "NONE" THEN "DRAFT" ELSE task.status

TaskDeskInv == DeskTyped /\ (\A d \in Desks : DeskSound(d)) /\ OneHolds /\ TaskSound

LEMMA StatusNames == DOMAIN AllowedTaskTransitions = LiveStatuses
BY DEF AllowedTaskTransitions, LiveStatuses

\* Where a task may go from each of its states.
LEMMA AllowedMoves ==
    ASSUME NEW from \in LiveStatuses, NEW to \in AllowedTaskTransitions[from]
    PROVE  /\ to \in LiveStatuses \ {"DRAFT"}
           /\ from = "DRAFT" => to = "PUBLISHED"
           /\ to = "PUBLISHED" => from \in {"DRAFT", "PAUSED"}
BY DEF AllowedTaskTransitions, LiveStatuses

LEMMA IdleRow == Idle \in DeskRows /\ Idle.verb = "none"
BY DEF Idle, DeskRows, LiveStatuses

LEMMA DeskStart == DeskInit => TaskDeskInv
<1> SUFFICES ASSUME DeskInit PROVE TaskDeskInv OBVIOUS
<1>1. task \in TaskRows /\ task.status = "NONE" BY DEF DeskInit, TaskRows
<1>2. \A d \in Desks : desk[d] = Idle BY DEF DeskInit
<1>3. desk \in [Desks -> DeskRows] /\ power \in [Teachers -> SUBSET Powers]
  BY IdleRow DEF DeskInit
<1>4. DeskTyped BY <1>1, <1>3 DEF DeskInit, DeskTyped
<1>5. trail.after = "DRAFT" BY DEF DeskInit
<1> QED BY <1>1, <1>2, <1>4, <1>5, IdleRow DEF TaskDeskInv, DeskSound, Holding, OneHolds, TaskSound

LEMMA CreateTaskKeeps ==
    ASSUME TaskDeskInv, NEW c \in Contracts, NEW counted \in BOOLEAN, CreateTask(c, counted)
    PROVE  TaskDeskInv'
<1>1. /\ task.status = "NONE" /\ task' = [status |-> "DRAFT", contract |-> c] /\ units' = counted
      /\ UNCHANGED <<power, desk, sold, trail>>
  BY DEF CreateTask
<1>2. task' \in TaskRows /\ task'.status = "DRAFT" BY <1>1 DEF TaskRows, LiveStatuses
<1>3. \A d \in Desks : desk[d] = Idle BY <1>1 DEF TaskDeskInv, DeskSound
<1>4. DeskTyped' BY <1>1, <1>2 DEF TaskDeskInv, DeskTyped
<1> QED BY <1>1, <1>2, <1>3, <1>4, IdleRow DEF TaskDeskInv, DeskSound, Holding, OneHolds, TaskSound

LEMMA OpenKeeps ==
    ASSUME TaskDeskInv, NEW d \in Desks, NEW verb \in {"edit", "move", "add", "remove", "import"},
           NEW by \in Teachers \cup {Owner},
           NEW of \in Contracts \cup LiveStatuses \cup Teachers \cup {NoTask},
           NEW give \in SUBSET Powers, Open(d, verb, by, of, give),
           verb = "edit" => of \in Contracts, verb = "move" => of \in LiveStatuses,
           verb \in {"add", "remove"} => of \in Teachers
    PROVE  TaskDeskInv'
<1> DEFINE line == [verb |-> verb, by |-> by, of |-> of, give |-> give, status |-> task.status,
                   own |-> IF by = Owner THEN Powers ELSE power[by]]
<1>1. /\ task.status # "NONE" /\ (verb = "import" \/ RowFree)
      /\ desk' = [desk EXCEPT ![d] = line] /\ UNCHANGED <<task, units, power, sold, trail>>
  BY DEF Open
<1>2. task \in TaskRows /\ power \in [Teachers -> SUBSET Powers] /\ desk \in [Desks -> DeskRows]
  BY DEF TaskDeskInv, DeskTyped
<1>3. task.status \in LiveStatuses /\ OwnOf(by) \in SUBSET Powers BY <1>1, <1>2 DEF TaskRows, OwnOf
<1>4. line \in DeskRows BY <1>3 DEF DeskRows, OwnOf
<1>5. /\ line.verb = verb /\ line.by = by /\ line.of = of /\ line.status = task.status
      /\ line.own = OwnOf(by)
  BY DEF OwnOf
<1> HIDE DEF line
<1>6. desk'[d] = line /\ \A e \in Desks : e # d => desk'[e] = desk[e] BY <1>1, <1>2
<1>7. desk' \in [Desks -> DeskRows] BY <1>1, <1>2, <1>4
<1>8. DeskTyped' BY <1>1, <1>7 DEF TaskDeskInv, DeskTyped
<1>9. \A e \in Desks : DeskSound(e)'
  BY <1>1, <1>5, <1>6 DEF TaskDeskInv, DeskSound, Holding, OwnOf
<1>10. RowFree => \A e \in Desks : ~Holding(e) BY DEF RowFree, Holding
<1>11. OneHolds' BY <1>1, <1>5, <1>6, <1>10 DEF TaskDeskInv, OneHolds, Holding
<1> QED BY <1>1, <1>8, <1>9, <1>11 DEF TaskDeskInv, TaskSound

\* One desk is cleared and, if it held the row, nobody else did.
LEMMA DeskCleared ==
    ASSUME TaskDeskInv, NEW d \in Desks, Finish(d)
    PROVE  /\ desk' \in [Desks -> DeskRows] /\ desk'[d] = Idle
           /\ \A e \in Desks : e # d => desk'[e] = desk[e]
           /\ OneHolds'
           /\ Holding(d) => \A e \in Desks : ~Holding(e)'
<1>1. desk \in [Desks -> DeskRows] BY DEF TaskDeskInv, DeskTyped
<1>2. /\ desk' \in [Desks -> DeskRows] /\ desk'[d] = Idle
      /\ \A e \in Desks : e # d => desk'[e] = desk[e]
  BY <1>1, IdleRow DEF Finish
<1> QED BY <1>2, IdleRow DEF TaskDeskInv, OneHolds, Holding

\* The desks that are left hold nothing that could have changed.
LEMMA DesksStand ==
    ASSUME TaskDeskInv, NEW d \in Desks, Finish(d), task'.status # "NONE",
           Holding(d) \/ UNCHANGED <<task, power>>
    PROVE  \A e \in Desks : DeskSound(e)'
BY DeskCleared, IdleRow DEF TaskDeskInv, DeskSound, Holding, OwnOf

LEMMA FinishKeeps ==
    ASSUME TaskDeskInv, NEW d \in Desks,
           GiveUp(d) \/ EditContract(d) \/ Transition(d) \/ AddCollaborator(d)
             \/ RemoveCollaborator(d) \/ ImportUnits(d)
    PROVE  TaskDeskInv'
<1>1. Finish(d)
  BY DEF GiveUp, EditContract, Transition, AddCollaborator, RemoveCollaborator, ImportUnits, Finish
<1>2. /\ task \in TaskRows /\ power \in [Teachers -> SUBSET Powers] /\ desk[d] \in DeskRows
      /\ DeskSound(d) /\ TaskSound /\ units \in BOOLEAN
  BY DEF TaskDeskInv, DeskTyped
<1>3. desk[d] # Idle
  BY IdleRow DEF GiveUp, EditContract, Transition, AddCollaborator, RemoveCollaborator, ImportUnits
<1>4. task.status \in LiveStatuses BY <1>2, <1>3 DEF DeskSound, TaskRows
<1>5. SUFFICES /\ task' \in TaskRows /\ power' \in [Teachers -> SUBSET Powers] /\ units' \in BOOLEAN
               /\ task'.status # "NONE" /\ TaskSound' /\ (Holding(d) \/ UNCHANGED <<task, power>>)
  BY <1>1, DeskCleared, DesksStand DEF TaskDeskInv, DeskTyped
<1>6. CASE GiveUp(d)
  BY <1>2, <1>4, <1>6 DEF GiveUp, TaskSound, LiveStatuses
<1>7. CASE EditContract(d)
  <2>1. desk[d].of \in Contracts /\ Holding(d) /\ desk[d].status = "DRAFT" /\ task.status = "DRAFT"
    BY <1>2, <1>7 DEF EditContract, DeskSound, Holding
  <2>2. task' = [task EXCEPT !.contract = desk[d].of] /\ UNCHANGED <<units, power, sold, trail>>
    BY <1>7 DEF EditContract
  <2>3. task' \in TaskRows /\ task'.status = task.status BY <1>2, <2>1, <2>2 DEF TaskRows
  <2> QED BY <1>2, <2>1, <2>2, <2>3 DEF TaskSound
<1>8. CASE Transition(d)
  <2>1. /\ Holding(d) /\ desk[d].status = task.status
        /\ desk[d].of \in AllowedTaskTransitions[task.status]
    BY <1>2, <1>8 DEF Transition, DeskSound, Holding
  <2>2. PICK to : to = desk[d].of OBVIOUS
  <2>3. /\ to \in LiveStatuses \ {"DRAFT"} /\ (task.status = "DRAFT" => to = "PUBLISHED")
        /\ (to = "PUBLISHED" => task.status \in {"DRAFT", "PAUSED"})
    BY <1>4, <2>1, <2>2, AllowedMoves
  <2>4. /\ to = "PUBLISHED" => task.contract \notin Faulty /\ HasUnits(d)
        /\ task' = [task EXCEPT !.status = to]
        /\ sold' = IF task.status = "DRAFT" THEN task.contract ELSE sold
        /\ trail' = [before |-> task.status, after |-> to] /\ UNCHANGED <<units, power>>
    BY <1>8, <2>1, <2>2 DEF Transition
  <2>5. task' \in TaskRows /\ task'.status = to /\ task'.contract = task.contract
    BY <1>2, <2>3, <2>4 DEF TaskRows
  <2>6. to \notin {"NONE", "DRAFT"} BY <2>3 DEF LiveStatuses
  <2>7. units' BY <1>2, <1>4, <2>1, <2>3, <2>4 DEF TaskSound, HasUnits, LiveStatuses
  <2>8. task.contract = sold' /\ sold' \notin Faulty
    BY <1>2, <1>4, <2>3, <2>4 DEF TaskSound, LiveStatuses
  <2>9. trail'.after = to BY <2>4
  <2> QED BY <1>2, <2>1, <2>4, <2>5, <2>6, <2>7, <2>8, <2>9 DEF TaskSound
<1>9. CASE AddCollaborator(d)
  <2>1. /\ Holding(d) /\ desk[d].give \in SUBSET Powers
        /\ power' = [power EXCEPT ![desk[d].of] = desk[d].give]
        /\ UNCHANGED <<task, units, sold, trail>>
    BY <1>2, <1>9 DEF AddCollaborator, Holding, DeskRows
  <2>2. power' \in [Teachers -> SUBSET Powers] BY <1>2, <2>1
  <2> QED BY <1>2, <1>4, <2>1, <2>2 DEF TaskSound, LiveStatuses
<1>10. CASE RemoveCollaborator(d)
  <2>1. /\ Holding(d) /\ power' = [power EXCEPT ![desk[d].of] = {}]
        /\ UNCHANGED <<task, units, sold, trail>>
    BY <1>10 DEF RemoveCollaborator, Holding
  <2>2. power' \in [Teachers -> SUBSET Powers] BY <1>2, <2>1
  <2> QED BY <1>2, <1>4, <2>1, <2>2 DEF TaskSound, LiveStatuses
<1>11. CASE ImportUnits(d)
  BY <1>2, <1>4, <1>11 DEF ImportUnits, TaskSound, LiveStatuses
<1> QED BY <1>6, <1>7, <1>8, <1>9, <1>10, <1>11

LEMMA TaskDeskStep == TaskDeskInv /\ [DeskNext]_deskVars => TaskDeskInv'
<1> SUFFICES ASSUME TaskDeskInv, [DeskNext]_deskVars PROVE TaskDeskInv' OBVIOUS
<1>1. ASSUME NEW c \in Contracts, NEW counted \in BOOLEAN, CreateTask(c, counted) PROVE TaskDeskInv'
  BY <1>1, CreateTaskKeeps
<1>2. ASSUME NEW d \in Desks, NEW c \in Contracts, Open(d, "edit", Owner, c, {}) PROVE TaskDeskInv'
  BY <1>2, OpenKeeps
<1>3. ASSUME NEW d \in Desks, NEW s \in DOMAIN AllowedTaskTransitions, Open(d, "move", Owner, s, {})
      PROVE  TaskDeskInv'
  <2>1. s \in LiveStatuses BY StatusNames
  <2> QED BY <1>3, <2>1, OpenKeeps
<1>4. ASSUME NEW d \in Desks, NEW by \in Teachers \cup {Owner}, NEW t \in Teachers,
             NEW give \in SUBSET Powers, Open(d, "add", by, t, give)
      PROVE  TaskDeskInv'
  BY <1>4, OpenKeeps
<1>5. ASSUME NEW d \in Desks, NEW by \in Teachers \cup {Owner}, NEW t \in Teachers,
             Open(d, "remove", by, t, {})
      PROVE  TaskDeskInv'
  BY <1>5, OpenKeeps
<1>6. ASSUME NEW d \in Desks, NEW by \in Teachers \cup {Owner}, Open(d, "import", by, NoTask, {})
      PROVE  TaskDeskInv'
  BY <1>6, OpenKeeps
<1>7. ASSUME NEW d \in Desks,
             GiveUp(d) \/ EditContract(d) \/ Transition(d) \/ AddCollaborator(d)
               \/ RemoveCollaborator(d) \/ ImportUnits(d)
      PROVE  TaskDeskInv'
  BY <1>7, FinishKeeps
<1>8. CASE UNCHANGED deskVars
  BY <1>8 DEF deskVars, TaskDeskInv, DeskTyped, DeskSound, Holding, OwnOf, OneHolds, TaskSound
<1> QED BY <1>1, <1>2, <1>3, <1>4, <1>5, <1>6, <1>7, <1>8 DEF DeskNext

\* Only a transition writes to the trail, from the state it has read.
LEMMA TrailStep ==
    ASSUME TaskDeskInv, DeskNext, trail' # trail
    PROVE  trail'.before = trail.after
<1>1. PICK d \in Desks : Transition(d)
  BY DEF DeskNext, CreateTask, Open, GiveUp, EditContract, AddCollaborator, RemoveCollaborator,
     ImportUnits
<1>2. DeskSound(d) /\ TaskSound /\ Holding(d) BY <1>1 DEF TaskDeskInv, Transition, Holding
<1>3. desk[d] # Idle BY <1>2, IdleRow DEF Holding
<1>4. trail'.before = desk[d].status BY <1>1 DEF Transition
<1> QED BY <1>2, <1>3, <1>4 DEF DeskSound, TaskSound

\* Only an addition enlarges what a collaborator may do, by what its giver holds.
LEMMA GiveStep ==
    ASSUME TaskDeskInv, DeskNext, NEW t \in Teachers, ~ power'[t] \subseteq power[t]
    PROVE  \E d \in Desks : /\ desk[d].verb = "add" /\ desk[d].of = t /\ desk'[d] = Idle
                            /\ desk[d].by = Owner \/ power'[t] \subseteq power[desk[d].by]
<1>1. power \in [Teachers -> SUBSET Powers] BY DEF TaskDeskInv, DeskTyped
<1>2. power' # power OBVIOUS
<1>3. PICK d \in Desks : AddCollaborator(d) \/ RemoveCollaborator(d)
  BY <1>2 DEF DeskNext, CreateTask, Open, GiveUp, EditContract, Transition, ImportUnits
<1>4. ~RemoveCollaborator(d) BY <1>1 DEF RemoveCollaborator
<1>5. /\ desk[d].verb = "add" /\ desk[d].give \subseteq desk[d].own
      /\ power' = [power EXCEPT ![desk[d].of] = desk[d].give] /\ Finish(d)
  BY <1>3, <1>4 DEF AddCollaborator, WithinCeiling
<1>6. desk[d].of = t /\ power'[t] = desk[d].give BY <1>1, <1>5
<1>7. desk'[d] = Idle BY <1>5, DeskCleared
<1>8. desk[d].own = OwnOf(desk[d].by) BY <1>5 DEF TaskDeskInv, DeskSound, Holding
<1> QED BY <1>5, <1>6, <1>7, <1>8 DEF OwnOf

\* A published contract stands, the audit trail is a path and nobody hands on what
\* it does not have, for any number of teachers, powers and desks
\* (tasks/service.py _transition, update_task; collaborator_service.py).
THEOREM DeskKeepsContract == DeskSpec => DeskContract
<1> DEFINE Path == trail' # trail => trail'.before = trail.after
           Gives == \A t \in Teachers : ~ power'[t] \subseteq power[t] =>
                      \E d \in Desks : /\ desk[d].verb = "add" /\ desk[d].of = t /\ desk'[d] = Idle
                                       /\ desk[d].by = Owner \/ power'[t] \subseteq power[desk[d].by]
<1>1. TaskDeskInv /\ [DeskNext]_deskVars => TaskDeskInv' BY TaskDeskStep
<1>2. TaskDeskInv => DeskTypeOK /\ ContractStands
  BY StatusNames DEF TaskDeskInv, DeskTyped, TaskRows, TaskSound, DeskTypeOK, ContractStands
<1>3. TaskDeskInv /\ [DeskNext]_deskVars => [Path]_deskVars BY TrailStep
<1>4. TaskDeskInv /\ [DeskNext]_deskVars => [Gives]_deskVars BY GiveStep
<1>5. (DeskSpec => [][Path]_deskVars) => (DeskSpec => TrailIsPath) BY DEF TrailIsPath
<1>6. (DeskSpec => [][Gives]_deskVars) => (DeskSpec => GivenFromOwn) BY DEF GivenFromOwn
<1> HIDE DEF Path, Gives
<1>7. DeskSpec => [][Path]_deskVars BY <1>1, <1>3, DeskStart, PTL DEF DeskSpec
<1>8. DeskSpec => [][Gives]_deskVars BY <1>1, <1>4, DeskStart, PTL DEF DeskSpec
<1>9. DeskSpec => [](DeskTypeOK /\ ContractStands) BY <1>1, <1>2, DeskStart, PTL DEF DeskSpec
<1> QED BY <1>5, <1>6, <1>7, <1>8, <1>9, PTL DEF DeskContract

-----------------------------------------------------------------------------
(* The import of units.                                                    *)

\* What a confirmation has put in; the order puts its rows in from below, and
\* the token it took is gone.
CallSound(c) ==
    /\ Distinct(confirm[c].rows)
    /\ confirm[c].at \notin {"WRITES", "DONE"} => confirm[c].put = {}
    /\ confirm[c].at = "DONE" => confirm[c].put = confirm[c].rows
    /\ confirm[c].at = "IDLE" => confirm[c].of = Nobody
    /\ confirm[c].of # Nobody => preview[confirm[c].of].at = "GONE"
    /\ \A w \in confirm[c].put, r \in Left(c) : Before(w, r)

\* Uncommitted rows hold places nobody else has.
PlacesApart(c) == confirm[c].at = "WRITES" =>
    /\ Inserted(c) \cap Existing = {}
    /\ \A d \in Confirms \ {c} : confirm[d].at = "WRITES" => Inserted(c) \cap Inserted(d) = {}

ImportInv ==
    /\ ImportTypeOK /\ LandsWhole /\ ClashHasCause /\ TokenServesOnce
    /\ \A c \in Confirms : CallSound(c)
    /\ \A c \in Confirms : PlacesApart(c)

LEMMA ProductParts ==
  ASSUME NEW A, NEW B, NEW x \in A \X B
  PROVE  \E a \in A, b \in B : x = <<a, b>>
OBVIOUS

LEMMA PairParts ==
  ASSUME NEW x \in Pairs
  PROVE  x[1] \in Nat /\ x[2] \in Nat /\ x = <<x[1], x[2]>>
<1>1. PICK a \in Platforms, b \in Keywords : x = <<a, b>> BY DEF Pairs
<1> QED BY <1>1, TaskImportAssumption

\* The order of the pairs is total and has no circle of two.
LEMMA PairOrder ==
  ASSUME NEW r \in UnitRows, NEW q \in UnitRows
  PROVE  /\ r.pair # q.pair => Before(r, q) \/ Before(q, r)
         /\ ~(Before(r, q) /\ Before(q, r))
<1>1. r.pair \in Pairs /\ q.pair \in Pairs BY DEF UnitRows
<1>2. /\ r.pair[1] \in Nat /\ r.pair[2] \in Nat /\ q.pair[1] \in Nat /\ q.pair[2] \in Nat
      /\ r.pair = <<r.pair[1], r.pair[2]>> /\ q.pair = <<q.pair[1], q.pair[2]>>
  BY <1>1, PairParts
<1> QED BY <1>2 DEF Before

LEMMA ImportStart == ImportInit => ImportInv
<1> SUFFICES ASSUME ImportInit PROVE ImportInv OBVIOUS
<1>1. /\ \A k \in Tokens : preview[k] = [at |-> "NONE", rows |-> {}]
      /\ \A c \in Confirms : confirm[c] = [at |-> "IDLE", of |-> Nobody, rows |-> {}, put |-> {}]
      /\ \A p \in Pairs : unit[p] = Nobody
  BY DEF ImportInit
<1>2. ImportTypeOK
  BY <1>1 DEF ImportInit, ImportTypeOK, PreviewRows, ConfirmRows, Distinct
<1>3. LandsWhole /\ ClashHasCause /\ TokenServesOnce
  BY <1>1, TaskImportAssumption DEF LandsWhole, ClashHasCause, TokenServesOnce
<1>4. \A c \in Confirms : CallSound(c) /\ PlacesApart(c)
  BY <1>1 DEF CallSound, PlacesApart, Distinct
<1> QED BY <1>2, <1>3, <1>4 DEF ImportInv

\* The wait for another's row has no circle: each row put in lies below those left.
LEMMA NoCircle == ImportInv => NoInsertCycle
<1> SUFFICES ASSUME ImportInv, NEW c \in Confirms, NEW d \in Confirms,
                    d \in WaitsFor(c), c \in WaitsFor(d)
             PROVE  FALSE
  BY DEF NoInsertCycle
<1>1. PICK r \in NextRows(c), v \in confirm[d].put : r.pair = v.pair BY DEF WaitsFor, Inserted, PairsOf
<1>2. PICK s \in NextRows(d), u \in confirm[c].put : s.pair = u.pair BY DEF WaitsFor, Inserted, PairsOf
<1>3. Before(u, r) /\ Before(v, s) BY DEF ImportInv, CallSound, NextRows
<1>4. /\ confirm[c].put \subseteq UnitRows /\ confirm[c].rows \subseteq UnitRows
      /\ confirm[d].put \subseteq UnitRows /\ confirm[d].rows \subseteq UnitRows
  BY DEF ImportInv, ImportTypeOK, ConfirmRows
<1>5. u \in UnitRows /\ r \in UnitRows BY <1>4 DEF NextRows, Left
<1>6. Before(r, u) BY <1>1, <1>2, <1>3 DEF Before
<1> QED BY <1>3, <1>5, <1>6, PairOrder

\* A step that leaves the confirmations and the units alone and never brings a
\* spent token back.
LEMMA PreviewsMove ==
  ASSUME ImportInv, UNCHANGED <<confirm, unit>>, offered' \subseteq Platforms,
         preview' \in [Tokens -> PreviewRows], \A k \in Tokens : Distinct(preview'[k].rows),
         \A k \in Tokens : preview[k].at = "GONE" => preview'[k].at = "GONE"
  PROVE  ImportInv'
<1>1. ImportTypeOK' BY DEF ImportInv, ImportTypeOK, Distinct
<1>2. LandsWhole' /\ ClashHasCause' /\ TokenServesOnce'
  BY DEF ImportInv, LandsWhole, ClashHasCause, TokenServesOnce, PairsOf
<1>3. \A c \in Confirms : confirm[c].of \in Tokens \cup {Nobody} BY DEF ImportInv, ImportTypeOK, ConfirmRows
<1>4. \A c \in Confirms : CallSound(c)' BY <1>3 DEF ImportInv, CallSound, Left, Distinct, Before
<1>5. \A c \in Confirms : PlacesApart(c)' BY DEF ImportInv, PlacesApart, Inserted, PairsOf, Existing
<1> QED BY <1>1, <1>2, <1>4, <1>5 DEF ImportInv

LEMMA PreviewSteps ==
  ASSUME ImportInv, NEW k \in Tokens,
         (\E file \in Files : Preview(k, file)) \/ LosePreview(k)
  PROVE  ImportInv'
<1>0. preview \in [Tokens -> PreviewRows] /\ (\A l \in Tokens : Distinct(preview[l].rows)) /\ offered \subseteq Platforms
  BY DEF ImportInv, ImportTypeOK
<1>1. CASE LosePreview(k)
  <2>1. [at |-> "GONE", rows |-> {}] \in PreviewRows /\ Distinct({}) BY DEF PreviewRows, Distinct
  <2> QED BY <1>0, <1>1, <2>1, PreviewsMove DEF LosePreview
<1>2. CASE \E file \in Files : Preview(k, file)
  <2>1. PICK file \in Files : Preview(k, file) BY <1>2
  <2>2. PICK n \in 1..MaxRows + 1 : file \in [1..n -> Lines] BY DEF Files
  <2>3. \A i \in DOMAIN file : Accepts(file, i) => i \in 1..MaxRows + 1 /\ file[i] \in Pairs
    <3> SUFFICES ASSUME NEW i \in 1..n, Accepts(file, i) PROVE i \in 1..MaxRows + 1 /\ file[i] \in Pairs
      BY <2>2
    <3> DEFINE A == {0} \cup Platforms
               B == {0} \cup Keywords
    <3>1. file[i] \in A \X B BY <2>2 DEF Lines
    <3> HIDE DEF A, B
    <3>2. PICK a \in A, b \in B : file[i] = <<a, b>> BY <3>1, ProductParts
    <3>3. a \in Platforms /\ b \in Keywords BY <1>0, <3>2 DEF Accepts, B
    <3>4. file[i] \in Pairs BY <3>2, <3>3 DEF Pairs
    <3> QED BY <2>2, <3>4, TaskImportAssumption
  <2>4. ValidRows(file) \subseteq UnitRows BY <2>3 DEF ValidRows, UnitRows
  <2>5. Distinct(ValidRows(file))
    <3> SUFFICES ASSUME NEW i \in 1..n, NEW j \in 1..n, Accepts(file, i), Accepts(file, j),
                        file[i] = file[j]
                 PROVE  i = j
      BY <2>2 DEF Distinct, ValidRows
    <3> QED BY <2>2, TaskImportAssumption DEF Accepts
  <2> DEFINE new == {r \in ValidRows(file) : r.pair \notin Existing}
             x == [at |-> "SHOWN", rows |-> new]
  <2>6. x \in PreviewRows /\ Distinct(x.rows) BY <2>4, <2>5 DEF PreviewRows, Distinct
  <2>7. preview' = [preview EXCEPT ![k] = x] /\ preview[k].at = "NONE" /\ UNCHANGED <<offered, confirm, unit>>
    BY <2>1 DEF Preview
  <2> HIDE DEF new, x
  <2> QED BY <1>0, <2>6, <2>7, PreviewsMove
<1> QED BY <1>1, <1>2

\* The step of one confirmation that writes no unit: what is left to show is about
\* the row it rewrites.
LEMMA OneCallMoves ==
  ASSUME ImportInv, NEW c \in Confirms, NEW x \in ConfirmRows,
         confirm' = [confirm EXCEPT ![c] = x], UNCHANGED <<offered, unit>>,
         preview' \in [Tokens -> PreviewRows], \A k \in Tokens : Distinct(preview'[k].rows),
         \A k \in Tokens : preview[k].at = "GONE" => preview'[k].at = "GONE",
         confirm[c].at # "DONE", x.at # "DONE", x.put \subseteq x.rows,
         x.at = "CLASH" => \E d \in Confirms \ {c} : \E p \in Pairs : p \in PairsOf(x.rows) /\ unit[p] = d,
         x.of # Nobody => \A d \in Confirms \ {c} : confirm[d].of # x.of,
         CallSound(c)', PlacesApart(c)'
  PROVE  ImportInv'
<1>1. /\ confirm \in [Confirms -> ConfirmRows] /\ confirm' \in [Confirms -> ConfirmRows] /\ confirm'[c] = x
      /\ \A d \in Confirms \ {c} : confirm'[d] = confirm[d]
  BY DEF ImportInv, ImportTypeOK
<1> HIDE DEF ConfirmRows
<1>2. ImportTypeOK' BY <1>1 DEF ImportInv, ImportTypeOK
<1>3. LandsWhole' BY <1>1 DEF ImportInv, LandsWhole
<1>4. ClashHasCause' BY <1>1 DEF ImportInv, ClashHasCause
<1>5. TokenServesOnce' BY <1>1 DEF ImportInv, TokenServesOnce
<1>6. ASSUME NEW d \in Confirms \ {c} PROVE CallSound(d)' /\ PlacesApart(d)'
  <2>1. CallSound(d) /\ PlacesApart(d) /\ confirm'[d] = confirm[d] BY <1>1 DEF ImportInv
  <2>2. confirm[d].of \in Tokens \cup {Nobody} BY <1>1 DEF ConfirmRows
  <2>3. CallSound(d)' BY <2>1, <2>2 DEF CallSound, Left, Before, Distinct
  <2>4. Inserted(d)' = Inserted(d) /\ Existing' = Existing BY <2>1 DEF Inserted, PairsOf, Existing
  <2>5. ASSUME NEW e \in Confirms \ {c} PROVE Inserted(e)' = Inserted(e) BY <1>1 DEF Inserted, PairsOf
  <2>6. PlacesApart(d)' BY <1>1, <2>1, <2>4, <2>5 DEF PlacesApart
  <2> QED BY <2>3, <2>6
<1> QED BY <1>2, <1>3, <1>4, <1>5, <1>6 DEF ImportInv

LEMMA NextOne ==
  ASSUME ImportInv, NEW c \in Confirms
  PROVE  /\ confirm[c] \in ConfirmRows /\ confirm[c].put \subseteq confirm[c].rows
         /\ CallSound(c) /\ PlacesApart(c)
BY DEF ImportInv, ImportTypeOK

LEMMA ConsumeKeeps ==
  ASSUME ImportInv, NEW c \in Confirms, NEW k \in Tokens, Consume(c, k)
  PROVE  ImportInv'
<1> DEFINE x == [at |-> "HOLDS", of |-> k, rows |-> preview[k].rows, put |-> {}]
<1>1. /\ preview \in [Tokens -> PreviewRows] /\ \A l \in Tokens : Distinct(preview[l].rows)
      /\ confirm \in [Confirms -> ConfirmRows]
  BY DEF ImportInv, ImportTypeOK
<1>2. /\ confirm' = [confirm EXCEPT ![c] = x] /\ preview' = [preview EXCEPT ![k] = Spent(k)]
      /\ confirm[c].at = "IDLE" /\ preview[k].at = "SHOWN" /\ UNCHANGED <<offered, unit>>
  BY DEF Consume
<1>3. Spent(k) \in PreviewRows /\ Distinct(Spent(k).rows) /\ Spent(k).at = "GONE"
  BY DEF Spent, PreviewRows, Distinct
<1>4. x \in ConfirmRows BY <1>1 DEF PreviewRows, ConfirmRows
<1>5. /\ preview' \in [Tokens -> PreviewRows] /\ \A l \in Tokens : Distinct(preview'[l].rows)
      /\ \A l \in Tokens : preview[l].at = "GONE" => preview'[l].at = "GONE"
      /\ preview'[k].at = "GONE"
  BY <1>1, <1>2, <1>3
<1>6. \A d \in Confirms \ {c} : confirm[d].of # x.of
  BY <1>2, TaskImportAssumption DEF ImportInv, CallSound
<1>7. confirm'[c] = x BY <1>1, <1>2
<1>8. CallSound(c)' BY <1>1, <1>5, <1>7 DEF CallSound, Left, Distinct
<1>9. PlacesApart(c)' BY <1>7 DEF PlacesApart
<1>10. x.at = "HOLDS" /\ x.put = {} OBVIOUS
<1> HIDE DEF x
<1> QED BY <1>2, <1>4, <1>5, <1>6, <1>8, <1>9, <1>10, OneCallMoves

\* A confirmation that stops loses what it had put in.
LEMMA StopKeeps ==
  ASSUME ImportInv, NEW c \in Confirms, NEW s \in {"CLASH", "DEAD"},
         confirm[c].at \in {"HOLDS", "WRITES"}, UNCHANGED <<offered, preview, unit>>,
         Ends(c, s),
         s = "CLASH" => PairsOf(confirm[c].rows) \cap Existing # {}
  PROVE  ImportInv'
<1> DEFINE x == [confirm[c] EXCEPT !.at = s, !.put = {}]
<1>1. /\ preview \in [Tokens -> PreviewRows] /\ \A l \in Tokens : Distinct(preview[l].rows)
      /\ confirm \in [Confirms -> ConfirmRows] /\ unit \in [Pairs -> Confirms \cup {Nobody}]
  BY DEF ImportInv, ImportTypeOK
<1>2. confirm' = [confirm EXCEPT ![c] = x] BY DEF Ends
<1>3. x \in ConfirmRows /\ x.at = s /\ x.put = {} /\ x.rows = confirm[c].rows /\ x.of = confirm[c].of
  BY <1>1 DEF ConfirmRows
<1> HIDE DEF x
<1>4. x.at = "CLASH" => \E d \in Confirms \ {c} : \E p \in Pairs : p \in PairsOf(x.rows) /\ unit[p] = d
  <2> SUFFICES ASSUME s = "CLASH"
               PROVE  \E d \in Confirms \ {c} : \E p \in Pairs : p \in PairsOf(x.rows) /\ unit[p] = d
    BY <1>3
  <2>1. PICK p \in Pairs : p \in PairsOf(x.rows) /\ unit[p] # Nobody BY <1>3 DEF Existing
  <2>2. unit[p] # c BY DEF ImportInv, LandsWhole
  <2> QED BY <1>1, <2>1, <2>2
<1>5. \A d \in Confirms \ {c} : x.of # Nobody => confirm[d].of # x.of
  BY <1>3 DEF ImportInv, TokenServesOnce
<1>6. confirm'[c] = x BY <1>1, <1>2
<1>7. CallSound(c)' BY <1>3, <1>6, NextOne DEF CallSound, Left, Distinct
<1>8. PlacesApart(c)' BY <1>3, <1>6 DEF PlacesApart
<1> QED BY <1>1, <1>2, <1>3, <1>4, <1>5, <1>7, <1>8, OneCallMoves

\* A confirmation that goes on holds places nobody else has.
LEMMA GoOnKeeps ==
  ASSUME ImportInv, NEW c \in Confirms, UNCHANGED <<offered, preview, unit>>,
         NEW W \in SUBSET confirm[c].rows, confirm[c].at \in {"HOLDS", "WRITES"},
         LET x == [at |-> "WRITES", of |-> confirm[c].of, rows |-> confirm[c].rows, put |-> W]
         IN confirm' = [confirm EXCEPT ![c] = x],
         \A w \in W, r \in confirm[c].rows \ W : Before(w, r),
         PairsOf(W) \cap Existing = {},
         \A d \in Confirms \ {c} : confirm[d].at = "WRITES" => PairsOf(W) \cap Inserted(d) = {}
  PROVE  ImportInv'
<1> DEFINE x == [at |-> "WRITES", of |-> confirm[c].of, rows |-> confirm[c].rows, put |-> W]
<1>1. /\ preview \in [Tokens -> PreviewRows] /\ \A l \in Tokens : Distinct(preview[l].rows)
      /\ confirm \in [Confirms -> ConfirmRows] /\ confirm' = [confirm EXCEPT ![c] = x]
  BY DEF ImportInv, ImportTypeOK
<1>2. x \in ConfirmRows BY <1>1 DEF ConfirmRows
<1>3. \A d \in Confirms \ {c} : x.of # Nobody => confirm[d].of # x.of
  BY DEF ImportInv, TokenServesOnce
<1>4. confirm'[c] = x /\ \A d \in Confirms \ {c} : confirm'[d] = confirm[d] BY <1>1, <1>2
<1>5. CallSound(c)' BY <1>4, NextOne DEF CallSound, Left, Distinct, Before
<1>6. Inserted(c)' = PairsOf(W) /\ Existing' = Existing
      /\ \A d \in Confirms \ {c} : Inserted(d)' = Inserted(d)
  BY <1>4 DEF Inserted, PairsOf, Existing
<1>7. PlacesApart(c)' BY <1>4, <1>6 DEF PlacesApart
<1>8. x.at = "WRITES" /\ x.put \subseteq x.rows OBVIOUS
<1> HIDE DEF x
<1> QED BY <1>1, <1>2, <1>3, <1>5, <1>7, <1>8, OneCallMoves

LEMMA LookKeeps == ASSUME ImportInv, NEW c \in Confirms, LookForConflicts(c) PROVE ImportInv'
<1>1. CASE PairsOf(confirm[c].rows) \cap Existing # {}
  <2>1. Ends(c, "CLASH") /\ confirm[c].at = "HOLDS" /\ UNCHANGED <<offered, preview, unit>>
    BY <1>1 DEF LookForConflicts
  <2> QED BY <1>1, <2>1, StopKeeps
<1>2. CASE PairsOf(confirm[c].rows) \cap Existing = {}
  <2> DEFINE x == [at |-> "WRITES", of |-> confirm[c].of, rows |-> confirm[c].rows, put |-> {}]
  <2>1. confirm' = [confirm EXCEPT ![c].at = "WRITES"] /\ confirm[c].at = "HOLDS"
        /\ UNCHANGED <<offered, preview, unit>>
    BY <1>2 DEF LookForConflicts
  <2>2. confirm[c].put = {} BY <2>1, NextOne DEF CallSound
  <2>3. [confirm[c] EXCEPT !.at = "WRITES"] = x BY <2>2, NextOne DEF ConfirmRows
  <2>4. confirm' = [confirm EXCEPT ![c] = x] BY <2>1, <2>3
  <2>5. {} \in SUBSET confirm[c].rows /\ PairsOf({}) = {} BY DEF PairsOf
  <2>6. /\ \A w \in {}, r \in confirm[c].rows \ {} : Before(w, r)
        /\ PairsOf({}) \cap Existing = {}
        /\ \A d \in Confirms \ {c} : confirm[d].at = "WRITES" => PairsOf({}) \cap Inserted(d) = {}
    BY <2>5
  <2> QED BY <2>1, <2>4, <2>5, <2>6, GoOnKeeps
<1> QED BY <1>1, <1>2

LEMMA RowPut ==
  ASSUME NEW q \in ConfirmRows, NEW W
  PROVE  [q EXCEPT !.put = W] = [at |-> q.at, of |-> q.of, rows |-> q.rows, put |-> W]
BY DEF ConfirmRows

LEMMA InsertKeeps == ASSUME ImportInv, NEW c \in Confirms, InsertRow(c) PROVE ImportInv'
<1>1. /\ confirm[c].at = "WRITES" /\ WaitsFor(c) = {} /\ UNCHANGED <<offered, preview, unit>>
  BY DEF InsertRow
<1>2. PICK r \in NextRows(c) : IF RefusedBy(c, r) THEN Ends(c, "CLASH")
                              ELSE confirm' = [confirm EXCEPT ![c].put = @ \cup {r}]
  BY DEF InsertRow
<1>3. r \in confirm[c].rows /\ r \notin confirm[c].put BY <1>2 DEF NextRows, Left
<1>4. CASE RefusedBy(c, r)
  <2>1. r.pair \notin Inserted(c)
    BY <1>3, NextOne DEF Inserted, PairsOf, CallSound, Distinct
  <2>2. r.pair \in Existing BY <1>4, <2>1 DEF RefusedBy
  <2>3. PairsOf(confirm[c].rows) \cap Existing # {} BY <1>3, <2>2 DEF PairsOf
  <2> QED BY <1>1, <1>2, <1>4, <2>3, StopKeeps
<1>5. CASE ~RefusedBy(c, r)
  <2> DEFINE W == confirm[c].put \cup {r}
             x == [at |-> "WRITES", of |-> confirm[c].of, rows |-> confirm[c].rows, put |-> W]
  <2>1. [confirm[c] EXCEPT !.put = @ \cup {r}] = x BY <1>1, NextOne, RowPut
  <2>2. confirm' = [confirm EXCEPT ![c] = x] BY <1>2, <1>5, <2>1
  <2>3. W \in SUBSET confirm[c].rows BY <1>3, NextOne
  <2>4. \A w \in W, q \in confirm[c].rows \ W : Before(w, q)
    <3> SUFFICES ASSUME NEW w \in W, NEW q \in confirm[c].rows \ W PROVE Before(w, q) OBVIOUS
    <3>1. q \in Left(c) BY DEF Left
    <3>2. CASE w \in confirm[c].put BY <3>1, <3>2, NextOne DEF CallSound
    <3>3. CASE w = r
      <4>1. r \in UnitRows /\ q \in UnitRows BY <1>3, NextOne DEF ConfirmRows
      <4>2. r.pair # q.pair BY <1>3, NextOne DEF CallSound, Distinct
      <4>3. ~Before(q, r) BY <1>2, <3>1 DEF NextRows
      <4> QED BY <3>3, <4>1, <4>2, <4>3, PairOrder
    <3> QED BY <3>2, <3>3
  <2>5. PairsOf(W) = Inserted(c) \cup {r.pair} BY DEF PairsOf, Inserted
  <2>6. PairsOf(W) \cap Existing = {} BY <1>1, <1>5, <2>5, NextOne DEF RefusedBy, PlacesApart
  <2>7. ASSUME NEW d \in Confirms \ {c}, confirm[d].at = "WRITES" PROVE PairsOf(W) \cap Inserted(d) = {}
    <3>1. r.pair \notin Inserted(d) BY <1>1, <1>2, <2>7 DEF WaitsFor, PairsOf
    <3> QED BY <1>1, <2>5, <2>7, <3>1, NextOne DEF PlacesApart
  <2> HIDE DEF W
  <2> QED BY <1>1, <2>2, <2>3, <2>4, <2>6, <2>7, GoOnKeeps
<1> QED BY <1>4, <1>5

LEMMA CommitKeeps == ASSUME ImportInv, NEW c \in Confirms, CommitImport(c) PROVE ImportInv'
<1> DEFINE x == [confirm[c] EXCEPT !.at = "DONE"]
<1>1. /\ preview \in [Tokens -> PreviewRows] /\ \A l \in Tokens : Distinct(preview[l].rows)
      /\ confirm \in [Confirms -> ConfirmRows] /\ unit \in [Pairs -> Confirms \cup {Nobody}]
      /\ offered \subseteq Platforms
      /\ \A d \in Confirms : confirm[d].put \subseteq confirm[d].rows
  BY DEF ImportInv, ImportTypeOK
<1>2. /\ confirm' = [confirm EXCEPT ![c] = x] /\ confirm[c].at = "WRITES" /\ Left(c) = {}
      /\ unit' = [p \in Pairs |-> IF p \in Inserted(c) THEN c ELSE unit[p]]
      /\ UNCHANGED <<offered, preview>>
  BY DEF CommitImport
<1>3. x \in ConfirmRows /\ x.at = "DONE" /\ x.put = confirm[c].put /\ x.rows = confirm[c].rows
      /\ x.of = confirm[c].of
  BY <1>1 DEF ConfirmRows
<1> HIDE DEF x
<1>4. confirm[c].put = confirm[c].rows BY <1>1, <1>2 DEF Left
<1>5. /\ confirm' \in [Confirms -> ConfirmRows] /\ confirm'[c] = x
      /\ \A d \in Confirms \ {c} : confirm'[d] = confirm[d]
  BY <1>1, <1>2, <1>3
<1>6. unit' \in [Pairs -> Confirms \cup {Nobody}] BY <1>1, <1>2
<1>7. ImportTypeOK' BY <1>1, <1>2, <1>3, <1>5, <1>6 DEF ImportTypeOK
<1>8. Inserted(c) \cap Existing = {}
      /\ \A d \in Confirms \ {c} : confirm[d].at = "WRITES" => Inserted(c) \cap Inserted(d) = {}
  BY <1>2, NextOne DEF PlacesApart
<1>9. Inserted(c) \subseteq Pairs BY NextOne DEF ConfirmRows, UnitRows, Inserted, PairsOf
<1>10. LandsWhole'
  <2>1. {p \in Pairs : unit'[p] = c} = PairsOf(confirm'[c].rows)
    <3>1. {p \in Pairs : unit[p] = c} = {} BY <1>2 DEF ImportInv, LandsWhole
    <3>2. {p \in Pairs : unit'[p] = c} = Inserted(c) BY <1>2, <1>9, <3>1
    <3> QED BY <1>3, <1>4, <1>5, <3>2 DEF Inserted
  <2>2. ASSUME NEW d \in Confirms \ {c}
        PROVE  {p \in Pairs : unit'[p] = d} = IF confirm'[d].at = "DONE" THEN PairsOf(confirm'[d].rows) ELSE {}
    <3>1. \A p \in Pairs : unit'[p] = d <=> unit[p] = d
      BY <1>2, <1>8, TaskImportAssumption DEF Existing
    <3> QED BY <1>5, <3>1 DEF ImportInv, LandsWhole
  <2> QED BY <1>3, <1>5, <2>1, <2>2 DEF LandsWhole
<1>11. ClashHasCause'
  <2> SUFFICES ASSUME NEW d \in Confirms, confirm'[d].at = "CLASH"
               PROVE  \E e \in Confirms \ {d} : \E p \in Pairs : p \in PairsOf(confirm'[d].rows) /\ unit'[p] = e
    BY DEF ClashHasCause, PairsOf
  <2>1. d # c /\ confirm'[d] = confirm[d] BY <1>3, <1>5
  <2>2. PICK e \in Confirms \ {d}, p \in Pairs : p \in PairsOf(confirm[d].rows) /\ unit[p] = e
    BY <2>1 DEF ImportInv, ClashHasCause
  <2> QED BY <1>2, <2>1, <2>2
<1>12. TokenServesOnce' BY <1>3, <1>5 DEF ImportInv, TokenServesOnce
<1>13. CallSound(c)' BY <1>2, <1>3, <1>4, <1>5, NextOne DEF CallSound, Left, Distinct
<1>14. PlacesApart(c)' BY <1>3, <1>5 DEF PlacesApart
<1>15. ASSUME NEW d \in Confirms \ {c} PROVE CallSound(d)' /\ PlacesApart(d)'
  <2>1. CallSound(d) /\ PlacesApart(d) /\ confirm'[d] = confirm[d] BY <1>5, NextOne
  <2>2. CallSound(d)' BY <1>2, <2>1 DEF CallSound, Left, Before, Distinct
  <2>3. \A e \in Confirms : Inserted(e)' = Inserted(e) BY <1>3, <1>5 DEF Inserted, PairsOf
  <2>4. Existing' \subseteq Existing \cup Inserted(c) BY <1>2 DEF Existing
  <2>5. \A e \in Confirms : confirm'[e].at = "WRITES" => confirm[e].at = "WRITES" BY <1>3, <1>5
  <2>6. PlacesApart(d)'
    <3> SUFFICES ASSUME confirm'[d].at = "WRITES"
                 PROVE  /\ Inserted(d)' \cap Existing' = {}
                        /\ \A e \in Confirms \ {d} : confirm'[e].at = "WRITES" => Inserted(d)' \cap Inserted(e)' = {}
      BY DEF PlacesApart
    <3>1. Inserted(d) \cap Existing = {} BY <2>1, <2>5 DEF PlacesApart
    <3>2. Inserted(d) \cap Inserted(c) = {} BY <1>8, <2>5
    <3>3. \A e \in Confirms \ {d} : confirm[e].at = "WRITES" => Inserted(d) \cap Inserted(e) = {}
      BY <2>1, <2>5 DEF PlacesApart
    <3> QED BY <2>3, <2>4, <2>5, <3>1, <3>2, <3>3
  <2> QED BY <2>2, <2>6
<1> QED BY <1>7, <1>10, <1>11, <1>12, <1>13, <1>14, <1>15 DEF ImportInv

LEMMA ImportStep == ImportInv /\ [ImportNext]_importVars => ImportInv'
<1> SUFFICES ASSUME ImportInv, [ImportNext]_importVars PROVE ImportInv' OBVIOUS
<1>1. preview \in [Tokens -> PreviewRows] /\ (\A k \in Tokens : Distinct(preview[k].rows)) /\ offered \subseteq Platforms
  BY DEF ImportInv, ImportTypeOK
<1>2. CASE UNCHANGED importVars BY <1>1, <1>2, PreviewsMove DEF importVars
<1>3. ASSUME NEW f \in Platforms, MovePlatform(f) PROVE ImportInv'
  BY <1>1, <1>3, PreviewsMove DEF MovePlatform
<1>4. ASSUME NEW c \in Confirms, ConfirmDies(c) PROVE ImportInv'
  BY <1>4, StopKeeps DEF ConfirmDies
<1> QED BY <1>2, <1>3, <1>4, PreviewSteps, ConsumeKeeps, LookKeeps, InsertKeeps, CommitKeeps DEF ImportNext

\* An import lands as its preview showed it or not at all, is refused only for a row
\* another import owns, never waits in a circle, and a token serves one confirmation
\* (confirm_assignments, insert_previewed_rows, consume_preview).
THEOREM ImportAlwaysSound == ImportSpec => []ImportSound
<1>1. ImportInv => ImportSound BY NoCircle DEF ImportInv, ImportSound
<1> QED BY <1>1, ImportStart, ImportStep, PTL DEF ImportSpec

\* Of the desk and the import that fills its task, the desk's contract and the import's
\* soundness hold together (TaskService, AssignmentImportService).
THEOREM TasksKeepContract == TasksSpec => TasksContract
<1>1. TasksSpec => DeskContract BY DeskKeepsContract DEF TasksSpec
<1>2. TasksSpec => []ImportSound BY ImportAlwaysSound DEF TasksSpec
<1> QED BY <1>1, <1>2 DEF TasksContract

-----------------------------------------------------------------------------
(* Contacts and passwords.                                                *)

OwnerRows == [phone : Phones \cup {NoPlace}, box : Boxes \cup {NoPlace}, verified : BOOLEAN,
              password : 0..MaxPasswords, active : BOOLEAN]

CredentialsTyped ==
    /\ owner \in [Owners -> OwnerRows]
    /\ \A u \in Learners : owner[u].phone \in Phones
    /\ ticket \in [Tickets -> TicketRows \cup {NoTicket, Burnt}]
    /\ spender \in [Spenders -> WorkRows \cup {AtRest}]
    /\ served \in [Tickets -> {0, 1}]

\* A ticket that has not been taken has changed nothing, names a place of its
\* kind, and a link that can be seen is on the audit trail.
TicketSound ==
    \A t \in Tickets : ticket[t] # Burnt =>
        /\ served[t] = 0
        /\ ticket[t] # NoTicket =>
              /\ ticket[t].kind \in Codes => ticket[t].place \in Phones
              /\ ticket[t].kind = "EMAIL" => ticket[t].place \in Boxes
              /\ ticket[t].kind = "LINK" /\ ticket[t].at # "stored" => <<"ISSUED", t>> \in auditRows

\* A request holds the ticket it has taken, and what it has found out stands
\* unless the row was written since.
WorkOf(d) ==
    LET doing == spender[d]
        mine == owner[doing.owner]
    IN  doing # AtRest =>
          /\ doing.ticket # NoTicket => ticket[doing.ticket] = Burnt
          /\ doing.ticket # NoTicket /\ doing.step \in {"stamp", "write"} => served[doing.ticket] = 0
          /\ doing.step = "read" => doing.act = "confirm" /\ doing.ticket = NoTicket
          /\ doing.step = "stamp" => /\ doing.proof \in TicketRows /\ doing.proof.owner = doing.owner
                                     /\ doing.proof.place = doing.seen
          /\ doing.step \in {"read", "stamp"} /\ ~doing.raced => doing.seen = mine.box
          /\ doing.step = "edit" /\ ~doing.raced => doing.clean = ~mine.verified
          /\ doing.step = "write" =>
                \/ doing.raced
                \/ doing.act = "reset" /\ doing.owner \in Learners /\ doing.proof.place = mine.phone
                \/ /\ doing.act = "link" /\ mine.active /\ doing.proof.owner = doing.owner
                   /\ <<"ISSUED", doing.ticket>> \in auditRows
                \/ doing.act = "change" /\ doing.seen = mine.password

WorkSound == \A d \in Spenders : WorkOf(d)

OneSpends ==
    \A d, e \in Spenders :
        /\ d # e /\ spender[d] # AtRest /\ spender[e] # AtRest
        /\ spender[d].ticket # NoTicket
        => spender[d].ticket # spender[e].ticket

CredentialsInv == CredentialsTyped /\ TicketSound /\ WorkSound /\ OneSpends

LEMMA CredentialsStart == CredentialsInit => CredentialsInv
<1> SUFFICES ASSUME CredentialsInit PROVE CredentialsInv OBVIOUS
<1>1. Born \in [Learners -> Phones]
  BY CredentialsAssumption DEF Born
<1>2. owner \in [Owners -> OwnerRows] /\ \A u \in Learners : owner[u].phone \in Phones
  <2>1. 0 \in 0..MaxPasswords BY CredentialsAssumption
  <2> QED BY <1>1, <2>1 DEF CredentialsInit, OwnerRows, Owners
<1> QED
  BY <1>2 DEF CredentialsInit, CredentialsInv, CredentialsTyped, TicketSound, WorkSound, WorkOf,
     OneSpends

\* Being overtaken changes nothing but the mark.
LEMMA RaceMarks ==
    ASSUME NEW w \in WorkRows
    PROVE  LET r == [w EXCEPT !.raced = TRUE]
           IN  /\ r \in WorkRows /\ r.raced = TRUE /\ r.act = w.act /\ r.step = w.step
               /\ r.owner = w.owner /\ r.ticket = w.ticket /\ r.proof = w.proof /\ r.seen = w.seen
               /\ r.clean = w.clean
BY DEF WorkRows

LEMMA OvertakenMarks ==
    ASSUME CredentialsTyped, NEW u
    PROVE  /\ Overtaken(u) \in [Spenders -> WorkRows \cup {AtRest}]
           /\ \A d \in Spenders :
                 LET w == spender[d]
                     r == Overtaken(u)[d]
                 IN  IF w = AtRest THEN r = AtRest
                     ELSE /\ w \in WorkRows /\ r \in WorkRows /\ r # AtRest
                          /\ r.act = w.act /\ r.step = w.step /\ r.owner = w.owner
                          /\ r.ticket = w.ticket /\ r.proof = w.proof /\ r.seen = w.seen
                          /\ r.clean = w.clean /\ r.raced = (w.raced \/ w.owner = u)
<1>1. \A d \in Spenders : spender[d] = AtRest \/ (spender[d] \in WorkRows /\ spender[d].raced \in BOOLEAN)
  BY DEF CredentialsTyped, WorkRows
<1>2. \A w \in WorkRows :
          LET r == [w EXCEPT !.raced = TRUE]
          IN  /\ r \in WorkRows /\ r.raced = TRUE /\ r.act = w.act /\ r.step = w.step
              /\ r.owner = w.owner /\ r.ticket = w.ticket /\ r.proof = w.proof /\ r.seen = w.seen
              /\ r.clean = w.clean
  BY RaceMarks
<1>3. AtRest \notin WorkRows BY CredentialsAssumption
<1>4. ASSUME NEW d \in Spenders
      PROVE  LET w == spender[d]
                 r == Overtaken(u)[d]
             IN  IF w = AtRest THEN r = AtRest
                 ELSE /\ w \in WorkRows /\ r \in WorkRows /\ r # AtRest
                      /\ r.act = w.act /\ r.step = w.step /\ r.owner = w.owner
                      /\ r.ticket = w.ticket /\ r.proof = w.proof /\ r.seen = w.seen
                      /\ r.clean = w.clean /\ r.raced = (w.raced \/ w.owner = u)
  <2>1. CASE spender[d] = AtRest \/ spender[d].owner # u
    <3>1. Overtaken(u)[d] = spender[d] BY <2>1 DEF Overtaken
    <3> QED BY <1>1, <1>3, <2>1, <3>1
  <2>2. CASE spender[d] # AtRest /\ spender[d].owner = u
    <3>1. Overtaken(u)[d] = [spender[d] EXCEPT !.raced = TRUE] BY <2>2 DEF Overtaken
    <3>2. spender[d] \in WorkRows BY <1>1, <2>2
    <3> DEFINE w == spender[d]
               r == Overtaken(u)[d]
    <3>3. r = [w EXCEPT !.raced = TRUE] /\ w \in WorkRows /\ w.owner = u BY <2>2, <3>1, <3>2
    <3> HIDE DEF w, r
    <3>4. /\ r \in WorkRows /\ r.raced = TRUE /\ r.act = w.act /\ r.step = w.step
          /\ r.owner = w.owner /\ r.ticket = w.ticket /\ r.proof = w.proof /\ r.seen = w.seen
          /\ r.clean = w.clean
      BY <1>2, <3>3
    <3>5. w # AtRest /\ r # AtRest BY <1>3, <3>3, <3>4
    <3> QED BY <3>3, <3>4, <3>5 DEF w, r
  <2> QED BY <2>1, <2>2
<1>5. \A d \in Spenders : Overtaken(u)[d] \in WorkRows \cup {AtRest} BY <1>4
<1>6. Overtaken(u) \in [Spenders -> WorkRows \cup {AtRest}] BY <1>5 DEF Overtaken
<1> QED BY <1>4, <1>6

\* What a request knows survives a step of somebody else.
LEMMA WorkLasts ==
    ASSUME CredentialsTyped, NEW d \in Spenders, WorkOf(d), NEW u,
           \A w \in Owners \ {u} : owner'[w] = owner[w],
           spender'[d] = Overtaken(u)[d],
           spender[d] # AtRest /\ spender[d].ticket # NoTicket =>
               /\ ticket'[spender[d].ticket] = ticket[spender[d].ticket]
               /\ served'[spender[d].ticket] = served[spender[d].ticket],
           auditRows \subseteq auditRows'
    PROVE  WorkOf(d)'
<1> DEFINE w == spender[d]
           r == Overtaken(u)[d]
<1>1. IF w = AtRest THEN r = AtRest
      ELSE /\ w \in WorkRows /\ r \in WorkRows /\ r # AtRest
           /\ r.act = w.act /\ r.step = w.step /\ r.owner = w.owner
           /\ r.ticket = w.ticket /\ r.proof = w.proof /\ r.seen = w.seen
           /\ r.clean = w.clean /\ r.raced = (w.raced \/ w.owner = u)
  BY OvertakenMarks
<1>2. spender'[d] = r OBVIOUS
<1>3. CASE w = AtRest BY <1>1, <1>2, <1>3 DEF WorkOf
<1>4. CASE w # AtRest
  <2>1. w.owner \in Owners BY <1>1, <1>4 DEF WorkRows
  <2>2. w.owner # u => owner'[w.owner] = owner[w.owner] BY <2>1
  <2> HIDE DEF w, r
  <2>3. /\ w.ticket # NoTicket => ticket[w.ticket] = Burnt
        /\ w.ticket # NoTicket /\ w.step \in {"stamp", "write"} => served[w.ticket] = 0
        /\ w.step = "read" => w.act = "confirm" /\ w.ticket = NoTicket
        /\ w.step = "stamp" => /\ w.proof \in TicketRows /\ w.proof.owner = w.owner
                               /\ w.proof.place = w.seen
        /\ w.step \in {"read", "stamp"} /\ ~w.raced => w.seen = owner[w.owner].box
        /\ w.step = "edit" /\ ~w.raced => w.clean = ~owner[w.owner].verified
        /\ w.step = "write" =>
              \/ w.raced
              \/ w.act = "reset" /\ w.owner \in Learners /\ w.proof.place = owner[w.owner].phone
              \/ /\ w.act = "link" /\ owner[w.owner].active /\ w.proof.owner = w.owner
                 /\ <<"ISSUED", w.ticket>> \in auditRows
              \/ w.act = "change" /\ w.seen = owner[w.owner].password
    BY <1>4 DEF WorkOf, w
  <2>4. w.ticket # NoTicket => ticket'[w.ticket] = ticket[w.ticket] /\ served'[w.ticket] = served[w.ticket]
    BY <1>4 DEF w
  <2>5. /\ r.ticket # NoTicket => ticket'[r.ticket] = Burnt
        /\ r.ticket # NoTicket /\ r.step \in {"stamp", "write"} => served'[r.ticket] = 0
        /\ r.step = "read" => r.act = "confirm" /\ r.ticket = NoTicket
        /\ r.step = "stamp" => /\ r.proof \in TicketRows /\ r.proof.owner = r.owner
                               /\ r.proof.place = r.seen
        /\ r.step \in {"read", "stamp"} /\ ~r.raced => r.seen = owner'[r.owner].box
        /\ r.step = "edit" /\ ~r.raced => r.clean = ~owner'[r.owner].verified
        /\ r.step = "write" =>
              \/ r.raced
              \/ r.act = "reset" /\ r.owner \in Learners /\ r.proof.place = owner'[r.owner].phone
              \/ /\ r.act = "link" /\ owner'[r.owner].active /\ r.proof.owner = r.owner
                 /\ <<"ISSUED", r.ticket>> \in auditRows'
              \/ r.act = "change" /\ r.seen = owner'[r.owner].password
    BY <1>1, <1>4, <2>2, <2>3, <2>4
  <2> QED BY <1>2, <2>5 DEF WorkOf
<1> QED BY <1>3, <1>4

LEMMA HoldsLast ==
    ASSUME OneSpends,
           \A d \in Spenders : spender'[d] # AtRest =>
               spender[d] # AtRest /\ spender'[d].ticket = spender[d].ticket
    PROVE  OneSpends'
BY DEF OneSpends

\* A step that writes a row and tells those who have read it, and may be the end
\* of one of them.
LEMMA RowsStep ==
    ASSUME CredentialsInv, NEW u \in Owners,
           owner' \in [Owners -> OwnerRows], \A w \in Learners : owner'[w].phone \in Phones,
           \A w \in Owners \ {u} : owner'[w] = owner[w],
           \/ spender' = Overtaken(u)
           \/ \E d \in Spenders : spender' = [Overtaken(u) EXCEPT ![d] = AtRest],
           UNCHANGED <<served, auditRows>>,
           \/ ticket' = ticket
           \/ /\ ticket' \in [Tickets -> TicketRows \cup {NoTicket, Burnt}] /\ TicketSound'
              /\ \A x \in Tickets : ticket[x] = Burnt => ticket'[x] = Burnt
    PROVE  CredentialsInv'
<1>1. CredentialsTyped /\ OneSpends /\ \A d \in Spenders : WorkOf(d)
  BY DEF CredentialsInv, WorkSound
<1> DEFINE spared == Overtaken(u)
<1>6. /\ spared \in [Spenders -> WorkRows \cup {AtRest}]
      /\ \A d \in Spenders : spared[d] # AtRest =>
            spender[d] # AtRest /\ spared[d].ticket = spender[d].ticket
  BY <1>1, OvertakenMarks
<1>7. spender' = spared \/ \E d \in Spenders : spender' = [spared EXCEPT ![d] = AtRest]
  OBVIOUS
<1> HIDE DEF spared
<1>8. /\ spender' \in [Spenders -> WorkRows \cup {AtRest}]
      /\ \A d \in Spenders : spender'[d] \in {AtRest, spared[d]}
  BY <1>6, <1>7
<1>2. CredentialsTyped'
  <2>1. ticket' \in [Tickets -> TicketRows \cup {NoTicket, Burnt}] /\ served' \in [Tickets -> {0, 1}]
    BY <1>1 DEF CredentialsTyped
  <2> QED BY <1>8, <2>1 DEF CredentialsTyped
<1>3. TicketSound' BY DEF CredentialsInv, TicketSound
<1>4. WorkSound'
  <2> SUFFICES ASSUME NEW d \in Spenders PROVE WorkOf(d)' BY DEF WorkSound
  <2>1. spender[d] # AtRest /\ spender[d].ticket # NoTicket =>
            ticket[spender[d].ticket] = Burnt /\ spender[d].ticket \in Tickets
    <3>1. spender[d] # AtRest => spender[d].ticket \in Tickets \cup {NoTicket}
      BY <1>1 DEF CredentialsTyped, WorkRows
    <3>2. WorkOf(d) BY <1>1
    <3> QED BY <3>1, <3>2 DEF WorkOf
  <2>2. CASE spender'[d] = AtRest BY <2>2 DEF WorkOf
  <2>3. CASE spender'[d] = Overtaken(u)[d] BY <1>1, <2>1, <2>3, WorkLasts
  <2> QED BY <1>8, <2>2, <2>3 DEF spared
<1>5. OneSpends'
  <2>1. \A d \in Spenders : spender'[d] # AtRest =>
            spender[d] # AtRest /\ spender'[d].ticket = spender[d].ticket
    BY <1>6, <1>8
  <2> QED BY <1>1, <2>1, HoldsLast
<1> QED BY <1>2, <1>3, <1>4, <1>5 DEF CredentialsInv

\* A step about one ticket that nobody holds.
LEMMA TicketStep ==
    ASSUME CredentialsInv, UNCHANGED <<owner, spender, served>>,
           auditRows \subseteq auditRows', NEW t \in Tickets, ticket[t] # Burnt,
           NEW r \in TicketRows \cup {NoTicket, Burnt}, ticket' = [ticket EXCEPT ![t] = r],
           r \notin {Burnt, NoTicket} =>
              /\ r.kind \in Codes => r.place \in Phones
              /\ r.kind = "EMAIL" => r.place \in Boxes
              /\ r.kind = "LINK" /\ r.at # "stored" => <<"ISSUED", t>> \in auditRows'
    PROVE  CredentialsInv'
<1>1. CredentialsTyped /\ OneSpends /\ TicketSound /\ \A d \in Spenders : WorkOf(d)
  BY DEF CredentialsInv, WorkSound
<1>2. CredentialsTyped' BY <1>1 DEF CredentialsTyped
<1>3. ticket'[t] = r /\ \A x \in Tickets \ {t} : ticket'[x] = ticket[x]
  BY <1>1 DEF CredentialsTyped
<1>4. TicketSound'
  <2> SUFFICES ASSUME NEW x \in Tickets, ticket'[x] # Burnt
               PROVE  /\ served[x] = 0
                      /\ ticket'[x] # NoTicket =>
                            /\ ticket'[x].kind \in Codes => ticket'[x].place \in Phones
                            /\ ticket'[x].kind = "EMAIL" => ticket'[x].place \in Boxes
                            /\ ticket'[x].kind = "LINK" /\ ticket'[x].at # "stored" =>
                                  <<"ISSUED", x>> \in auditRows'
    BY DEF TicketSound
  <2>1. CASE x = t BY <1>1, <1>3, <2>1 DEF TicketSound
  <2>2. CASE x # t BY <1>1, <1>3, <2>2 DEF TicketSound
  <2> QED BY <2>1, <2>2
<1>5. ASSUME NEW d \in Spenders PROVE WorkOf(d)'
  <2>1. spender[d] # AtRest /\ spender[d].ticket # NoTicket =>
            ticket[spender[d].ticket] = Burnt /\ spender[d].ticket \in Tickets
    BY <1>1 DEF WorkOf, CredentialsTyped, WorkRows
  <2> QED BY <1>1, <1>3, <2>1 DEF WorkOf
<1> QED BY <1>1, <1>2, <1>4, <1>5 DEF CredentialsInv, WorkSound, OneSpends

\* A change of one row, with what the contract says of it.
LEMMA RowRebuilt ==
    ASSUME CredentialsTyped, NEW u \in Owners, NEW r \in OwnerRows,
           u \in Learners => r.phone \in Phones, owner' = [owner EXCEPT ![u] = r]
    PROVE  /\ owner' \in [Owners -> OwnerRows] /\ owner'[u] = r
           /\ \A w \in Owners \ {u} : owner'[w] = owner[w]
           /\ \A w \in Learners : owner'[w].phone \in Phones
BY DEF CredentialsTyped, Owners

\* An edit of the address rewrites its own row and ends.
LEMMA EditWrites ==
    ASSUME CredentialsTyped, NEW d \in Spenders, NEW u \in Owners, NEW act,
           NEW box \in Boxes \cup {NoPlace}, Edit(d, u, act, box)
    PROVE  /\ owner' \in [Owners -> OwnerRows] /\ \A w \in Owners \ {u} : owner'[w] = owner[w]
           /\ \A w \in Learners : owner'[w].phone \in Phones
           /\ spender' = [Overtaken(u) EXCEPT ![d] = AtRest] /\ UNCHANGED <<served, auditRows>>
           /\ owner'[u].verified = (owner[u].verified /\ spender[d].clean)
           /\ owner'[u].phone = owner[u].phone /\ owner'[u].password = owner[u].password
<1> DEFINE r == Edited(owner[u], spender[d], box)
<1>1. /\ owner' = [owner EXCEPT ![u] = r] /\ UNCHANGED <<served, auditRows>>
      /\ spender' = [Overtaken(u) EXCEPT ![d] = AtRest]
  BY DEF CredentialsTyped, Edit
<1>2. owner[u] \in OwnerRows /\ (u \in Learners => owner[u].phone \in Phones)
  BY DEF CredentialsTyped
<1>3. spender[d] \in WorkRows BY DEF Edit, Doing, CredentialsTyped
<1>4. spender[d].clean \in BOOLEAN /\ owner[u].verified \in BOOLEAN
  BY <1>2, <1>3 DEF WorkRows, OwnerRows
<1>5. /\ r \in OwnerRows /\ r.phone = owner[u].phone /\ r.password = owner[u].password
      /\ r.verified = (owner[u].verified /\ spender[d].clean)
  <2> DEFINE b == IF box = spender[d].seen THEN owner[u].box ELSE box
             v == owner[u].verified /\ spender[d].clean
  <2>1. r = [owner[u] EXCEPT !.box = b, !.verified = v] BY DEF Edited
  <2>2. b \in Boxes \cup {NoPlace} BY <1>2 DEF OwnerRows
  <2>3. v \in BOOLEAN BY <1>4
  <2> HIDE DEF b, v, r
  <2>4. /\ r \in OwnerRows /\ r.phone = owner[u].phone /\ r.password = owner[u].password
        /\ r.verified = v
    BY <1>2, <2>1, <2>2, <2>3 DEF OwnerRows
  <2> QED BY <2>4 DEF v
<1> HIDE DEF r
<1>6. u \in Learners => r.phone \in Phones BY <1>2, <1>5
<1>7. /\ owner' \in [Owners -> OwnerRows] /\ owner'[u] = r
      /\ \A w \in Owners \ {u} : owner'[w] = owner[w]
      /\ \A w \in Learners : owner'[w].phone \in Phones
  BY <1>1, <1>5, <1>6, RowRebuilt
<1> QED BY <1>1, <1>5, <1>7

LEMMA IssueSteps ==
    ASSUME CredentialsInv, NEW u \in Owners, NEW t \in Tickets,
           \/ \E d \in Spenders, box \in Boxes : RequestEmail(d, u, t, box)
           \/ \E phone \in Phones, kind \in {"PHONE_CHANGE", "PHONE_BIND"} :
                 RequestPhone(u, t, kind, phone)
           \/ RequestReset(u, t) \/ RequestLink(u, t)
    PROVE  CredentialsInv'
<1> DEFINE Row(kind, place) == [kind |-> kind, owner |-> u, place |-> place,
                                at |-> "stored", lapsed |-> FALSE]
<1>1. \A kind \in Codes \cup {"EMAIL", "LINK"} : \A place \in Phones \cup Boxes \cup {NoPlace} :
          Row(kind, place) \in TicketRows
  BY DEF TicketRows
<1>2. CredentialsTyped /\ TicketSound BY DEF CredentialsInv
<1>3. NoTicket # Burnt BY CredentialsAssumption
<1>4. ASSUME NEW d \in Spenders, NEW box \in Boxes, RequestEmail(d, u, t, box)
      PROVE  CredentialsInv'
  <2> DEFINE r == Row("EMAIL", box)
  <2>1. /\ ticket[t] = NoTicket /\ ticket' = [ticket EXCEPT ![t] = r]
        /\ Edit(d, u, "bind", box)
    BY <1>4 DEF RequestEmail, Issue
  <2>2. r \in TicketRows BY <1>1
  <2>3. r.kind = "EMAIL" /\ r.place = box /\ r.at = "stored" OBVIOUS
  <2> HIDE DEF r
  <2>4. ticket' \in [Tickets -> TicketRows \cup {NoTicket, Burnt}] /\ ticket'[t] = r
        /\ \A x \in Tickets \ {t} : ticket'[x] = ticket[x]
    BY <1>2, <2>1, <2>2 DEF CredentialsTyped
  <2>6. /\ owner' \in [Owners -> OwnerRows] /\ \A w \in Owners \ {u} : owner'[w] = owner[w]
        /\ \A w \in Learners : owner'[w].phone \in Phones
        /\ spender' = [Overtaken(u) EXCEPT ![d] = AtRest] /\ UNCHANGED <<served, auditRows>>
    BY <1>2, <2>1, EditWrites
  <2>5. TicketSound' BY <1>2, <1>3, <2>1, <2>3, <2>4, <2>6 DEF TicketSound, Codes
  <2>8. \A x \in Tickets : ticket[x] = Burnt => ticket'[x] = Burnt BY <1>3, <2>1, <2>4
  <2> QED BY <2>4, <2>5, <2>6, <2>8, RowsStep
<1>5. ASSUME NEW kind \in Codes \cup {"LINK"}, NEW place \in Phones \cup {NoPlace},
             Issue(t, kind, u, place), kind \in Codes => place \in Phones,
             UNCHANGED <<owner, spender, served, auditRows>>
      PROVE  CredentialsInv'
  <2> DEFINE r == Row(kind, place)
  <2>1. ticket[t] = NoTicket /\ ticket' = [ticket EXCEPT ![t] = r] BY <1>5 DEF Issue
  <2>2. r \in TicketRows BY <1>1
  <2>3. r.kind = kind /\ r.place = place /\ r.at = "stored" OBVIOUS
  <2> HIDE DEF r
  <2>4. kind # "EMAIL" BY DEF Codes
  <2> QED BY <1>3, <1>5, <2>1, <2>2, <2>3, <2>4, TicketStep
<1>6. ASSUME NEW phone \in Phones, NEW kind \in {"PHONE_CHANGE", "PHONE_BIND"},
             RequestPhone(u, t, kind, phone)
      PROVE  CredentialsInv'
  BY <1>5, <1>6 DEF RequestPhone, Codes
<1>7. CASE RequestReset(u, t)
  <2>1. owner[u].phone \in Phones BY <1>2, <1>7 DEF RequestReset, CredentialsTyped
  <2> QED BY <1>5, <1>7, <2>1 DEF RequestReset, Codes
<1>8. CASE RequestLink(u, t)
  BY <1>5, <1>8 DEF RequestLink, Codes
<1> QED BY <1>4, <1>6, <1>7, <1>8

LEMMA SendSteps ==
    ASSUME CredentialsInv, NEW t \in Tickets, AuditLink(t) \/ Send(t) \/ Lapse(t)
    PROVE  CredentialsInv'
<1> DEFINE issued == ticket[t]
<1>1. CredentialsTyped /\ TicketSound BY DEF CredentialsInv
<1>2. issued \in TicketRows /\ issued # Burnt /\ issued # NoTicket
  BY <1>1 DEF CredentialsTyped, AuditLink, Send, Lapse, Stage
<1>3. /\ issued.kind \in Codes => issued.place \in Phones
      /\ issued.kind = "EMAIL" => issued.place \in Boxes
      /\ issued.kind = "LINK" /\ issued.at # "stored" => <<"ISSUED", t>> \in auditRows
  BY <1>1, <1>2 DEF TicketSound
<1>4. \A at \in {"audited", "sent"} :
          LET r == [issued EXCEPT !.at = at]
          IN  r \in TicketRows /\ r.kind = issued.kind /\ r.place = issued.place /\ r.at = at
  BY <1>2 DEF TicketRows
<1>5. LET r == [issued EXCEPT !.lapsed = TRUE]
      IN  r \in TicketRows /\ r.kind = issued.kind /\ r.place = issued.place /\ r.at = issued.at
  BY <1>2 DEF TicketRows
<1>6. CASE AuditLink(t)
  <2> DEFINE r == [issued EXCEPT !.at = "audited"]
  <2>1. /\ ticket' = [ticket EXCEPT ![t] = r] /\ auditRows' = auditRows \cup {<<"ISSUED", t>>}
        /\ UNCHANGED <<owner, spender, served>>
    BY <1>1, <1>6 DEF AuditLink, CredentialsTyped
  <2>2. r \in TicketRows /\ r.kind = issued.kind /\ r.place = issued.place BY <1>4
  <2> HIDE DEF r
  <2> QED BY <1>2, <1>3, <2>1, <2>2, TicketStep
<1>7. CASE Send(t)
  <2> DEFINE r == [issued EXCEPT !.at = "sent"]
  <2>1. ticket' = [ticket EXCEPT ![t] = r] /\ UNCHANGED <<owner, spender, served, auditRows>>
    BY <1>1, <1>7 DEF Send, CredentialsTyped
  <2>2. r \in TicketRows /\ r.kind = issued.kind /\ r.place = issued.place BY <1>4
  <2>3. issued.kind = "LINK" => issued.at = "audited" BY <1>7 DEF Send, MayShow, Stage
  <2> HIDE DEF r
  <2> QED BY <1>2, <1>3, <2>1, <2>2, <2>3, TicketStep
<1>8. CASE Lapse(t)
  <2> DEFINE r == IF issued.kind = "LINK" THEN Burnt ELSE [issued EXCEPT !.lapsed = TRUE]
  <2>1. ticket' = [ticket EXCEPT ![t] = r] /\ UNCHANGED <<owner, spender, served, auditRows>>
    BY <1>1, <1>8 DEF Lapse, CredentialsTyped
  <2>2. /\ r \in TicketRows \cup {NoTicket, Burnt}
        /\ r # Burnt => r.kind = issued.kind /\ r.place = issued.place /\ r.kind # "LINK"
    BY <1>5
  <2> HIDE DEF r
  <2> QED BY <1>2, <1>3, <2>1, <2>2, TicketStep
<1> QED BY <1>6, <1>7, <1>8

\* Taking a ticket: nobody held it, and it is gone.
LEMMA TakeStep ==
    ASSUME CredentialsInv, NEW d \in Spenders, NEW t \in Tickets,
           ticket[t] \notin {NoTicket, Burnt}, ticket' = Taken(t),
           UNCHANGED <<owner, served, auditRows>>,
           NEW w \in WorkRows \cup {AtRest}, spender' = [spender EXCEPT ![d] = w],
           w # AtRest => w.ticket = t,
           WorkOf(d)'
    PROVE  CredentialsInv'
<1>1. CredentialsTyped /\ OneSpends /\ TicketSound /\ \A e \in Spenders : WorkOf(e)
  BY DEF CredentialsInv, WorkSound
<1>2. CredentialsTyped' BY <1>1 DEF CredentialsTyped, Taken
<1>3. ticket'[t] = Burnt /\ \A x \in Tickets \ {t} : ticket'[x] = ticket[x]
  BY <1>1 DEF CredentialsTyped, Taken
<1>4. spender'[d] = w /\ \A e \in Spenders \ {d} : spender'[e] = spender[e]
  BY <1>1 DEF CredentialsTyped
<1>5. TicketSound'
  <2> SUFFICES ASSUME NEW x \in Tickets, ticket'[x] # Burnt
               PROVE  /\ served[x] = 0
                      /\ ticket'[x] # NoTicket =>
                            /\ ticket'[x].kind \in Codes => ticket'[x].place \in Phones
                            /\ ticket'[x].kind = "EMAIL" => ticket'[x].place \in Boxes
                            /\ ticket'[x].kind = "LINK" /\ ticket'[x].at # "stored" =>
                                  <<"ISSUED", x>> \in auditRows
    BY DEF TicketSound
  <2>1. ticket'[x] = ticket[x] BY <1>3
  <2> QED BY <1>1, <2>1 DEF TicketSound
<1>6. ASSUME NEW e \in Spenders, spender[e] # AtRest, spender[e].ticket # NoTicket
      PROVE  spender[e].ticket # t /\ spender[e].ticket \in Tickets
  <2>1. spender[e] \in WorkRows BY <1>1, <1>6 DEF CredentialsTyped
  <2>2. spender[e].ticket \in Tickets BY <1>6, <2>1 DEF WorkRows
  <2>3. ticket[spender[e].ticket] = Burnt
    BY <1>1, <1>6 DEF WorkOf
  <2> QED BY <2>2, <2>3
<1>7. ASSUME NEW e \in Spenders \ {d} PROVE WorkOf(e)'
  <2>1. spender'[e] = spender[e] /\ WorkOf(e) BY <1>1, <1>4
  <2>2. spender[e] # AtRest /\ spender[e].ticket # NoTicket =>
            ticket'[spender[e].ticket] = ticket[spender[e].ticket]
    BY <1>3, <1>6
  <2> QED BY <2>1, <2>2 DEF WorkOf
<1>8. OneSpends' BY <1>1, <1>4, <1>6 DEF OneSpends
<1> QED BY <1>2, <1>5, <1>7, <1>8 DEF CredentialsInv, WorkSound

\* What has been sent is a row, with what TicketSound says of it.
LEMMA SentParts ==
    ASSUME CredentialsInv, NEW t \in Tickets, NEW kinds, Sent(t, kinds)
    PROVE  /\ ticket[t] \in TicketRows /\ ticket[t] \notin {NoTicket, Burnt}
           /\ ticket[t].at = "sent" /\ ticket[t].kind \in kinds /\ served[t] = 0
           /\ ticket[t].kind \in Codes => ticket[t].place \in Phones
           /\ ticket[t].kind = "EMAIL" => ticket[t].place \in Boxes
           /\ ticket[t].kind = "LINK" => <<"ISSUED", t>> \in auditRows
BY DEF Sent, Stage, CredentialsInv, CredentialsTyped, TicketSound

LEMMA BeginSpendingStep ==
    ASSUME CredentialsInv, NEW d \in Spenders, NEW u \in Owners, NEW act \in DOMAIN Begun,
           BeginSpending(d, u, act)
    PROVE  CredentialsInv'
<1>1. CredentialsTyped /\ OneSpends /\ TicketSound /\ \A e \in Spenders : WorkOf(e)
  BY DEF CredentialsInv, WorkSound
<1> DEFINE w == Work(act, Begun[act], u, NoTicket)
           seen == IF act = "change" THEN owner[u].password ELSE owner[u].box
<1>2. spender' = [spender EXCEPT ![d] = w] /\ UNCHANGED <<owner, ticket, served, auditRows>>
  BY DEF BeginSpending
<1>3. /\ owner[u].box \in Boxes \cup {NoPlace} /\ owner[u].password \in 0..MaxPasswords
      /\ NoTicket \notin Tickets /\ AtRest \notin WorkRows
  BY <1>1, CredentialsAssumption DEF CredentialsTyped, OwnerRows
<1>11. /\ act \in {"confirm", "change", "bind", "unbind"}
       /\ Begun[act] = IF act = "confirm" THEN "read" ELSE IF act = "change" THEN "write" ELSE "edit"
  BY DEF Begun
<1>12. seen \in Boxes \cup {NoPlace} \cup 0..MaxPasswords BY <1>3
<1>13. w = [act |-> act, step |-> Begun[act], owner |-> u, ticket |-> NoTicket, proof |-> NoTicket,
            seen |-> seen, clean |-> ~owner[u].verified, raced |-> FALSE]
  BY <1>3, <1>11 DEF Work
<1>4. /\ w.act = act /\ w.step = Begun[act] /\ w.owner = u
      /\ w.ticket = NoTicket /\ w.raced = FALSE
      /\ w.seen = seen /\ w.clean = ~owner[u].verified
      /\ w \in WorkRows
  <2> HIDE DEF w, seen
  <2> QED BY <1>11, <1>12, <1>13 DEF WorkRows
<1> HIDE DEF w
<1>5. CredentialsTyped' BY <1>1, <1>2, <1>4 DEF CredentialsTyped
<1>6. spender'[d] = w /\ \A e \in Spenders \ {d} : spender'[e] = spender[e]
  BY <1>1, <1>2 DEF CredentialsTyped
<1>7. WorkOf(d)' BY <1>2, <1>4, <1>6, <1>11 DEF WorkOf
<1>8. \A e \in Spenders \ {d} : WorkOf(e)' BY <1>1, <1>2, <1>6 DEF WorkOf
<1>9. OneSpends' BY <1>1, <1>4, <1>6 DEF OneSpends
<1>10. TicketSound' BY <1>1, <1>2 DEF TicketSound
<1> QED BY <1>5, <1>7, <1>8, <1>9, <1>10 DEF CredentialsInv, WorkSound

LEMMA TakeTokenStep ==
    ASSUME CredentialsInv, NEW d \in Spenders, NEW t \in Tickets, TakeToken(d, t)
    PROVE  CredentialsInv'
<1>1. CredentialsTyped /\ WorkOf(d) BY DEF CredentialsInv, WorkSound
<1>2. /\ spender[d] \in WorkRows /\ spender[d] # AtRest /\ spender[d].step = "read"
      /\ ticket' = Taken(t) /\ UNCHANGED <<owner, served, auditRows>>
  BY <1>1 DEF TakeToken, CredentialsTyped
<1>3. /\ ticket[t] \in TicketRows /\ ticket[t] \notin {NoTicket, Burnt} /\ served[t] = 0
  BY SentParts DEF TakeToken
<1>4. ticket'[t] = Burnt BY <1>1, <1>2 DEF Taken, CredentialsTyped
<1>5. CASE Addressed(spender[d], t)
  <2> DEFINE w == [spender[d] EXCEPT !.step = "stamp", !.ticket = t, !.proof = ticket[t]]
  <2>1. spender' = [spender EXCEPT ![d] = w] BY <1>1, <1>5 DEF TakeToken, CredentialsTyped
  <2>2. /\ w.step = "stamp" /\ w.ticket = t /\ w.proof = ticket[t] /\ w.act = spender[d].act
        /\ w.owner = spender[d].owner /\ w.seen = spender[d].seen /\ w.raced = spender[d].raced
        /\ w \in WorkRows
    BY <1>2, <1>3 DEF WorkRows
  <2> HIDE DEF w
  <2>3. spender'[d] = w BY <1>1, <2>1 DEF CredentialsTyped
  <2>4. WorkOf(d)' BY <1>1, <1>2, <1>3, <1>4, <1>5, <2>2, <2>3 DEF WorkOf, Addressed
  <2> QED BY <1>2, <1>3, <2>1, <2>2, <2>4, TakeStep
<1>6. CASE ~Addressed(spender[d], t)
  <2>1. spender' = [spender EXCEPT ![d] = AtRest] BY <1>1, <1>6 DEF TakeToken, CredentialsTyped
  <2>2. WorkOf(d)' BY <1>1, <2>1 DEF WorkOf, CredentialsTyped
  <2> QED BY <1>2, <1>3, <2>1, <2>2, TakeStep
<1> QED BY <1>5, <1>6

LEMMA TakeForPasswordStep ==
    ASSUME CredentialsInv, NEW d \in Spenders, NEW t \in Tickets,
           TakeResetCode(d, t) \/ TakeLink(d, t)
    PROVE  CredentialsInv'
<1>1. CredentialsTyped /\ WorkOf(d) BY DEF CredentialsInv, WorkSound
<1>2. /\ ticket[t] \in TicketRows /\ ticket[t] \notin {NoTicket, Burnt} /\ served[t] = 0
      /\ ticket[t].kind = "LINK" => <<"ISSUED", t>> \in auditRows
  BY SentParts DEF TakeResetCode, TakeLink
<1>3. /\ spender[d] = AtRest /\ ticket' = Taken(t) /\ UNCHANGED <<owner, served, auditRows>>
  BY DEF TakeResetCode, TakeLink, TakeForPassword
<1>4. ticket'[t] = Burnt BY <1>1, <1>3 DEF Taken, CredentialsTyped
<1>5. CASE UNCHANGED spender
  <2>1. spender' = [spender EXCEPT ![d] = AtRest] BY <1>1, <1>3, <1>5 DEF CredentialsTyped
  <2>2. WorkOf(d)' BY <1>3, <1>5 DEF WorkOf
  <2> QED BY <1>2, <1>3, <2>1, <2>2, TakeStep
<1>6. ASSUME NEW act \in {"reset", "link"}, NEW u \in Owners,
             act = "reset" => u \in Learners /\ owner[u].phone = ticket[t].place,
             act = "link" => /\ owner[u].active /\ u = ticket[t].owner
                             /\ <<"ISSUED", t>> \in auditRows,
             spender' = [spender EXCEPT ![d] = Work(act, "write", u, t)]
      PROVE  CredentialsInv'
  <2> DEFINE w == Work(act, "write", u, t)
  <2>1. /\ w.act = act /\ w.step = "write" /\ w.owner = u /\ w.ticket = t
        /\ w.proof = ticket[t] /\ w.raced = FALSE /\ w \in WorkRows
    BY <1>2 DEF Work, WorkRows
  <2>2. spender' = [spender EXCEPT ![d] = w] BY <1>6
  <2> HIDE DEF w
  <2>3. spender'[d] = w BY <1>1, <2>2 DEF CredentialsTyped
  <2>4. WorkOf(d)' BY <1>2, <1>3, <1>4, <1>6, <2>1, <2>3 DEF WorkOf
  <2> QED BY <1>2, <1>3, <2>1, <2>2, <2>4, TakeStep
<1>7. CASE TakeResetCode(d, t)
  BY <1>5, <1>6, <1>7 DEF TakeResetCode, TakeForPassword, ResetOf, Owners
<1>8. CASE TakeLink(d, t)
  <2>1. ticket[t].owner \in Owners BY <1>2 DEF TicketRows
  <2>2. ticket[t].kind = "LINK" BY <1>8 DEF TakeLink, Sent
  <2> QED BY <1>2, <1>5, <1>6, <1>8, <2>1, <2>2 DEF TakeLink, TakeForPassword, LinkOf
<1> QED BY <1>7, <1>8

LEMMA AccountSteps ==
    ASSUME CredentialsInv, NEW u \in Owners,
           (\E d \in Spenders : UnbindEmail(d, u)) \/ \E on \in BOOLEAN : SetActive(u, on)
    PROVE  CredentialsInv'
<1>1. CredentialsTyped BY DEF CredentialsInv
<1>2. owner[u] \in OwnerRows BY <1>1 DEF CredentialsTyped
<1>3. ASSUME NEW d \in Spenders, UnbindEmail(d, u) PROVE CredentialsInv'
  <2>1. /\ owner' \in [Owners -> OwnerRows] /\ \A w \in Owners \ {u} : owner'[w] = owner[w]
        /\ \A w \in Learners : owner'[w].phone \in Phones
        /\ spender' = [Overtaken(u) EXCEPT ![d] = AtRest] /\ UNCHANGED <<served, auditRows>>
    BY <1>1, <1>3, EditWrites DEF UnbindEmail
  <2> QED BY <1>3, <2>1, RowsStep DEF UnbindEmail
<1>4. ASSUME NEW on \in BOOLEAN, SetActive(u, on) PROVE CredentialsInv'
  <2> DEFINE r == [owner[u] EXCEPT !.active = on]
  <2>1. r \in OwnerRows /\ r.phone = owner[u].phone BY <1>2 DEF OwnerRows
  <2>2. owner' = [owner EXCEPT ![u] = r] BY <1>1, <1>4 DEF SetActive, CredentialsTyped
  <2> HIDE DEF r
  <2>3. u \in Learners => r.phone \in Phones BY <1>1, <2>1 DEF CredentialsTyped
  <2>4. /\ owner' \in [Owners -> OwnerRows] /\ \A w \in Owners \ {u} : owner'[w] = owner[w]
        /\ \A w \in Learners : owner'[w].phone \in Phones
    BY <1>1, <2>1, <2>2, <2>3, RowRebuilt
  <2> QED BY <1>4, <2>4, RowsStep DEF SetActive
<1> QED BY <1>3, <1>4

LEMMA BindPhoneStep ==
    ASSUME CredentialsInv, NEW u \in Owners, NEW t \in Tickets,
           NEW purpose \in {"PHONE_CHANGE", "PHONE_BIND"}, BindPhone(u, t, purpose)
    PROVE  CredentialsInv'
<1>1. CredentialsTyped /\ OneSpends /\ TicketSound /\ \A e \in Spenders : WorkOf(e)
  BY DEF CredentialsInv, WorkSound
<1>2. /\ ticket[t] \in TicketRows /\ ticket[t] \notin {NoTicket, Burnt} /\ served[t] = 0
      /\ ticket[t].place \in Phones
  BY SentParts DEF BindPhone
<1>3. ticket' = [ticket EXCEPT ![t] = Burnt] /\ UNCHANGED auditRows BY DEF BindPhone, Taken
<1>4. CASE UNCHANGED <<owner, spender, served>>
  BY <1>2, <1>3, <1>4, TicketStep
<1>5. CASE /\ owner' = [owner EXCEPT ![u].phone = ticket[t].place]
           /\ served' = [served EXCEPT ![t] = @ + 1] /\ spender' = Overtaken(u)
  <2> DEFINE r == [owner[u] EXCEPT !.phone = ticket[t].place]
  <2>1. r \in OwnerRows /\ r.phone = ticket[t].place
    BY <1>1, <1>2 DEF CredentialsTyped, OwnerRows
  <2>2. owner' = [owner EXCEPT ![u] = r] BY <1>1, <1>5 DEF CredentialsTyped
  <2> HIDE DEF r
  <2>3. /\ owner' \in [Owners -> OwnerRows] /\ \A w \in Owners \ {u} : owner'[w] = owner[w]
        /\ \A w \in Learners : owner'[w].phone \in Phones
    BY <1>1, <1>2, <2>1, <2>2, RowRebuilt
  <2>4. /\ ticket'[t] = Burnt /\ \A x \in Tickets \ {t} : ticket'[x] = ticket[x] /\ served'[x] = served[x]
        /\ served' \in [Tickets -> {0, 1}]
    BY <1>1, <1>2, <1>3, <1>5 DEF CredentialsTyped
  <2>5. CredentialsTyped'
    BY <1>1, <1>3, <1>5, <2>3, <2>4, OvertakenMarks DEF CredentialsTyped
  <2>6. TicketSound'
    <3> SUFFICES ASSUME NEW x \in Tickets, ticket'[x] # Burnt
                 PROVE  /\ served'[x] = 0
                        /\ ticket'[x] # NoTicket =>
                              /\ ticket'[x].kind \in Codes => ticket'[x].place \in Phones
                              /\ ticket'[x].kind = "EMAIL" => ticket'[x].place \in Boxes
                              /\ ticket'[x].kind = "LINK" /\ ticket'[x].at # "stored" =>
                                    <<"ISSUED", x>> \in auditRows
      BY <1>3 DEF TicketSound
    <3>1. ticket'[x] = ticket[x] /\ served'[x] = served[x] BY <2>4
    <3> QED BY <1>1, <3>1 DEF TicketSound
  <2>7. ASSUME NEW e \in Spenders PROVE WorkOf(e)'
    <3>1. spender[e] # AtRest /\ spender[e].ticket # NoTicket =>
              spender[e].ticket # t /\ spender[e].ticket \in Tickets
      <4> SUFFICES ASSUME spender[e] # AtRest, spender[e].ticket # NoTicket
                   PROVE  spender[e].ticket # t /\ spender[e].ticket \in Tickets
        OBVIOUS
      <4>1. WorkOf(e) BY <1>1
      <4>2. ticket[spender[e].ticket] = Burnt BY <4>1 DEF WorkOf
      <4>3. spender[e] \in WorkRows BY <1>1 DEF CredentialsTyped
      <4>4. spender[e].ticket \in Tickets BY <4>3 DEF WorkRows
      <4> QED BY <1>2, <4>2, <4>4
    <3>2. /\ CredentialsTyped /\ WorkOf(e) /\ spender'[e] = Overtaken(u)[e]
          /\ auditRows \subseteq auditRows' /\ \A w \in Owners \ {u} : owner'[w] = owner[w]
      BY <1>1, <1>3, <1>5, <2>3
    <3>3. spender[e] # AtRest /\ spender[e].ticket # NoTicket =>
              /\ ticket'[spender[e].ticket] = ticket[spender[e].ticket]
              /\ served'[spender[e].ticket] = served[spender[e].ticket]
      BY <2>4, <3>1
    <3> QED BY <3>2, <3>3, WorkLasts
  <2>8. OneSpends' BY <1>1, <1>5, OvertakenMarks, HoldsLast
  <2> QED BY <2>5, <2>6, <2>7, <2>8 DEF CredentialsInv, WorkSound
<1> QED BY <1>4, <1>5 DEF BindPhone

\* A request that has what it needs writes the row and ends, or goes on to the
\* audit row of its link.
LEMMA WriteSteps ==
    ASSUME CredentialsInv, NEW d \in Spenders, Stamp(d) \/ WritePassword(d)
    PROVE  CredentialsInv'
<1> DEFINE w == spender[d]
           u == spender[d].owner
           t == spender[d].ticket
<1>1. CredentialsTyped /\ OneSpends /\ TicketSound /\ \A e \in Spenders : WorkOf(e)
  BY DEF CredentialsInv, WorkSound
<1>2. /\ w \in WorkRows /\ w # AtRest /\ u \in Owners /\ w.step \in {"stamp", "write"}
      /\ t \in Tickets \cup {NoTicket} /\ UNCHANGED <<ticket, auditRows>>
  BY <1>1 DEF Stamp, WritePassword, Write, CredentialsTyped, WorkRows
<1>3. t # NoTicket => t \in Tickets /\ ticket[t] = Burnt /\ served[t] = 0
  BY <1>1, <1>2 DEF WorkOf
<1>4. /\ served' \in [Tickets -> {0, 1}] /\ \A x \in Tickets : x # t => served'[x] = served[x]
      /\ t = NoTicket => served' = served
  <2>1. served' = IF t = NoTicket THEN served ELSE [served EXCEPT ![t] = @ + 1]
    BY DEF Stamp, WritePassword, Write
  <2> QED BY <1>1, <1>3, <2>1 DEF CredentialsTyped
<1>5. /\ owner' \in [Owners -> OwnerRows] /\ \A x \in Owners \ {u} : owner'[x] = owner[x]
      /\ \A x \in Learners : owner'[x].phone \in Phones
  <2>1. owner[u] \in OwnerRows /\ (u \in Learners => owner[u].phone \in Phones)
    BY <1>1, <1>2 DEF CredentialsTyped
  <2>2. CASE Stamp(d)
    <3> DEFINE r == [owner[u] EXCEPT !["verified"] = TRUE]
    <3>1. owner' = [owner EXCEPT ![u] = r] BY <1>1, <1>2, <2>2 DEF Stamp, Write, CredentialsTyped
    <3>2. r \in OwnerRows /\ r.phone = owner[u].phone BY <2>1 DEF OwnerRows
    <3> HIDE DEF r
    <3> QED BY <1>1, <1>2, <2>1, <3>1, <3>2, RowRebuilt
  <2>3. CASE WritePassword(d)
    <3> DEFINE n == owner[u].password + 1
               r == [owner[u] EXCEPT !["password"] = n]
    <3>1. owner' = [owner EXCEPT ![u] = r]
      BY <1>1, <1>2, <2>3 DEF WritePassword, Write, CredentialsTyped
    <3>2. n \in 0..MaxPasswords
      <4>1. owner[u].password \in 0..MaxPasswords /\ owner[u].password < MaxPasswords
        BY <2>1, <2>3 DEF WritePassword, OwnerRows
      <4> QED BY <4>1, CredentialsAssumption
    <3> HIDE DEF n
    <3>3. r \in OwnerRows /\ r.phone = owner[u].phone BY <2>1, <3>2 DEF OwnerRows
    <3> HIDE DEF r
    <3> QED BY <1>1, <1>2, <2>1, <3>1, <3>3, RowRebuilt
  <2> QED BY <2>2, <2>3
<1>6. /\ \A e \in Spenders \ {d} : spender'[e] = Overtaken(u)[e]
      /\ \/ spender'[d] = AtRest
         \/ /\ spender'[d] \in WorkRows /\ spender'[d].step = "audit" /\ spender'[d].ticket = t
      /\ spender' \in [Spenders -> WorkRows \cup {AtRest}]
  <2>1. /\ Overtaken(u) \in [Spenders -> WorkRows \cup {AtRest}]
        /\ Overtaken(u)[d] \in WorkRows /\ Overtaken(u)[d].ticket = t
    BY <1>1, <1>2, OvertakenMarks
  <2>2. LET r == [Overtaken(u)[d] EXCEPT !.step = "audit"]
        IN  r \in WorkRows /\ r.step = "audit" /\ r.ticket = t
    BY <2>1 DEF WorkRows
  <2>3. CASE Stamp(d) BY <2>1, <2>3 DEF Stamp
  <2>4. CASE WritePassword(d) BY <2>1, <2>2, <2>4 DEF WritePassword
  <2> QED BY <2>3, <2>4
<1>7. CredentialsTyped' BY <1>1, <1>2, <1>4, <1>5, <1>6 DEF CredentialsTyped
<1>8. TicketSound'
  <2> SUFFICES ASSUME NEW x \in Tickets, ticket[x] # Burnt PROVE served'[x] = served[x]
    BY <1>1, <1>2 DEF TicketSound
  <2> QED BY <1>3, <1>4
<1>9. ASSUME NEW e \in Spenders PROVE WorkOf(e)'
  <2>1. CASE e = d BY <1>2, <1>3, <1>6, <2>1 DEF WorkOf
  <2>2. CASE e # d
    <3>1. spender[e] # AtRest /\ spender[e].ticket # NoTicket =>
              spender[e].ticket # t /\ spender[e].ticket \in Tickets
      BY <1>1, <1>2, <2>2 DEF OneSpends, CredentialsTyped, WorkRows
    <3> QED BY <1>1, <1>2, <1>4, <1>5, <1>6, <2>2, <3>1, WorkLasts
  <2> QED BY <2>1, <2>2
<1>10. OneSpends'
  <2>1. \A e \in Spenders : spender'[e] # AtRest =>
            spender[e] # AtRest /\ spender'[e].ticket = spender[e].ticket
    BY <1>1, <1>2, <1>6, OvertakenMarks
  <2> QED BY <1>1, <2>1, HoldsLast
<1> QED BY <1>7, <1>8, <1>9, <1>10 DEF CredentialsInv, WorkSound

LEMMA AuditSpentStep ==
    ASSUME CredentialsInv, NEW d \in Spenders, AuditSpent(d)
    PROVE  CredentialsInv'
<1>1. CredentialsTyped /\ OneSpends /\ TicketSound /\ \A e \in Spenders : WorkOf(e)
  BY DEF CredentialsInv, WorkSound
<1>2. /\ spender' = [spender EXCEPT ![d] = AtRest] /\ auditRows \subseteq auditRows'
      /\ UNCHANGED <<owner, ticket, served>>
  BY DEF AuditSpent
<1>3. CredentialsTyped' /\ TicketSound' BY <1>1, <1>2 DEF CredentialsTyped, TicketSound
<1>4. spender'[d] = AtRest /\ \A e \in Spenders \ {d} : spender'[e] = spender[e]
  BY <1>1, <1>2 DEF CredentialsTyped
<1>5. \A e \in Spenders : WorkOf(e)' BY <1>1, <1>2, <1>4 DEF WorkOf
<1>6. OneSpends' BY <1>1, <1>4 DEF OneSpends
<1> QED BY <1>3, <1>5, <1>6 DEF CredentialsInv, WorkSound

LEMMA CredentialsStep ==
    ASSUME CredentialsInv, [CredentialsNext]_contactVars
    PROVE  CredentialsInv'
<1>1. CASE UNCHANGED contactVars
  BY <1>1 DEF contactVars, CredentialsInv, CredentialsTyped, TicketSound, WorkSound, WorkOf, OneSpends
<1>2. ASSUME NEW u \in Owners, NEW t \in Tickets,
             \/ \E d \in Spenders, box \in Boxes : RequestEmail(d, u, t, box)
             \/ \E phone \in Phones, kind \in {"PHONE_CHANGE", "PHONE_BIND"} :
                   RequestPhone(u, t, kind, phone)
             \/ RequestReset(u, t) \/ RequestLink(u, t)
      PROVE  CredentialsInv'
  BY <1>2, IssueSteps
<1>3. ASSUME NEW u \in Owners, NEW t \in Tickets, NEW purpose \in {"PHONE_CHANGE", "PHONE_BIND"},
             BindPhone(u, t, purpose)
      PROVE  CredentialsInv'
  BY <1>3, BindPhoneStep
<1>4. ASSUME NEW t \in Tickets, AuditLink(t) \/ Send(t) \/ Lapse(t) PROVE CredentialsInv'
  BY <1>4, SendSteps
<1>5. ASSUME NEW d \in Spenders, NEW u \in Owners, NEW act \in DOMAIN Begun,
             BeginSpending(d, u, act)
      PROVE  CredentialsInv'
  BY <1>5, BeginSpendingStep
<1>6. ASSUME NEW d \in Spenders, NEW t \in Tickets,
             TakeToken(d, t) \/ TakeResetCode(d, t) \/ TakeLink(d, t)
      PROVE  CredentialsInv'
  BY <1>6, TakeTokenStep, TakeForPasswordStep
<1>7. ASSUME NEW d \in Spenders, Stamp(d) \/ WritePassword(d) \/ AuditSpent(d)
      PROVE  CredentialsInv'
  BY <1>7, WriteSteps, AuditSpentStep
<1>8. ASSUME NEW u \in Owners,
             (\E d \in Spenders : UnbindEmail(d, u)) \/ \E on \in BOOLEAN : SetActive(u, on)
      PROVE  CredentialsInv'
  BY <1>8, AccountSteps
<1> QED BY <1>1, <1>2, <1>3, <1>4, <1>5, <1>6, <1>7, <1>8 DEF CredentialsNext

\* Who may write which column of which row.
LEMMA OnlyTheseWrite ==
    ASSUME CredentialsInv, [CredentialsNext]_contactVars, NEW w \in Owners
    PROVE  /\ owner'[w].verified /\ (~owner[w].verified \/ owner'[w].box # owner[w].box) =>
                 \E d \in Spenders :
                     \/ Stamp(d) /\ spender[d].owner = w /\ owner'[w].box = owner[w].box
                     \/ /\ Doing(d, "edit", w) /\ owner[w].verified
                        /\ owner'[w].verified = (owner[w].verified /\ spender[d].clean)
           /\ owner'[w].phone # owner[w].phone =>
                 \E t \in Tickets, purpose \in {"PHONE_CHANGE", "PHONE_BIND"} :
                     /\ BindPhone(w, t, purpose) /\ ProofFits(t, purpose)
                     /\ owner'[w].phone = ticket[t].place
                     /\ \A x \in Owners \ {w} : /\ owner[x].phone # ticket[t].place
                                               /\ owner'[x] = owner[x]
           /\ owner'[w].password # owner[w].password =>
                 \E d \in Spenders : WritePassword(d) /\ spender[d].owner = w
<1>1. /\ owner \in [Owners -> OwnerRows] /\ CredentialsTyped
      /\ \A d \in Spenders : spender[d] # AtRest => spender[d].owner \in Owners
  BY DEF CredentialsInv, CredentialsTyped, WorkRows
<1>2. CASE UNCHANGED owner BY <1>2
<1>3. ASSUME NEW d \in Spenders, NEW u \in Owners, NEW act, NEW box \in Boxes \cup {NoPlace},
             Edit(d, u, act, box)
      PROVE  /\ owner'[w].phone = owner[w].phone /\ owner'[w].password = owner[w].password
             /\ u # w => owner'[w] = owner[w]
             /\ u = w => /\ Doing(d, "edit", w)
                         /\ owner'[w].verified = (owner[w].verified /\ spender[d].clean)
  <2>1. /\ \A x \in Owners \ {u} : owner'[x] = owner[x]
        /\ owner'[u].verified = (owner[u].verified /\ spender[d].clean)
        /\ owner'[u].phone = owner[u].phone /\ owner'[u].password = owner[u].password
    BY <1>1, <1>3, EditWrites
  <2>2. Doing(d, "edit", u) BY <1>3 DEF Edit
  <2>3. CASE u = w BY <2>1, <2>2, <2>3
  <2>4. CASE u # w BY <2>1, <2>4
  <2> QED BY <2>3, <2>4
<1>8. ASSUME NEW d \in Spenders, NEW u \in Owners,
             UnbindEmail(d, u) \/ \E t \in Tickets, box \in Boxes : RequestEmail(d, u, t, box)
      PROVE  /\ owner'[w].phone = owner[w].phone /\ owner'[w].password = owner[w].password
             /\ owner'[w].verified /\ (~owner[w].verified \/ owner'[w].box # owner[w].box) =>
                   /\ Doing(d, "edit", w) /\ owner[w].verified
                   /\ owner'[w].verified = (owner[w].verified /\ spender[d].clean)
  <2>1. PICK act, box : box \in Boxes \cup {NoPlace} /\ Edit(d, u, act, box)
    BY <1>8 DEF UnbindEmail, RequestEmail
  <2> QED BY <1>3, <2>1
<1>4. ASSUME NEW u \in Owners, NEW on \in BOOLEAN, SetActive(u, on)
      PROVE  /\ owner'[w].verified = owner[w].verified /\ owner'[w].box = owner[w].box
             /\ owner'[w].phone = owner[w].phone /\ owner'[w].password = owner[w].password
  BY <1>1, <1>4 DEF SetActive, OwnerRows
<1>5. ASSUME NEW d \in Spenders, Stamp(d)
      PROVE  /\ owner'[w].verified /\ ~owner[w].verified => spender[d].owner = w
             /\ owner'[w].box = owner[w].box
             /\ owner'[w].phone = owner[w].phone /\ owner'[w].password = owner[w].password
  BY <1>1, <1>5 DEF Stamp, Write, OwnerRows
<1>6. ASSUME NEW d \in Spenders, WritePassword(d)
      PROVE  /\ owner'[w].verified = owner[w].verified /\ owner'[w].phone = owner[w].phone
             /\ owner'[w].box = owner[w].box
             /\ owner'[w].password # owner[w].password => spender[d].owner = w
  BY <1>1, <1>6 DEF WritePassword, Write, OwnerRows
<1>7. ASSUME NEW u \in Owners, NEW t \in Tickets, NEW purpose \in {"PHONE_CHANGE", "PHONE_BIND"},
             BindPhone(u, t, purpose)
      PROVE  /\ owner'[w].verified = owner[w].verified /\ owner'[w].password = owner[w].password
             /\ owner'[w].box = owner[w].box
             /\ owner'[w].phone # owner[w].phone =>
                   /\ u = w /\ ProofFits(t, purpose) /\ owner'[w].phone = ticket[t].place
                   /\ \A x \in Owners \ {w} : /\ owner[x].phone # ticket[t].place
                                             /\ owner'[x] = owner[x]
  BY <1>1, <1>7 DEF BindPhone, OwnerRows
<1> QED
  BY <1>2, <1>4, <1>5, <1>6, <1>7, <1>8
     DEF CredentialsNext, contactVars, RequestPhone, RequestReset, RequestLink, AuditLink, Send,
         Lapse, BeginSpending, TakeToken, TakeResetCode, TakeLink, TakeForPassword, AuditSpent

\* However the requests overlap and wherever they stop: one change for one
\* ticket, an address stamped for its own token, a phone bound for the code it
\* was sent, a password set by who has authority over the account.
THEOREM CredentialsKeepContract == CredentialsSpec => CredentialsContract
<1> DEFINE
      Stamped(u) == \E d \in Spenders :
          \/ /\ Doing(d, "stamp", u) /\ spender[d].proof.owner = u
             /\ \/ spender[d].raced
                \/ spender[d].proof.place = owner[u].box /\ owner'[u].box = owner[u].box
          \/ Doing(d, "edit", u) /\ spender[d].raced /\ owner[u].verified
      Vouched(u) ==
          /\ owner'[u].verified
          /\ ~owner[u].verified \/ owner'[u].box # owner[u].box
      Bound(u) ==
          /\ \E t \in Tickets :
                /\ Sent(t, {"PHONE_CHANGE", "PHONE_BIND"}) /\ ticket'[t] = Burnt
                /\ ticket[t].place = owner'[u].phone
          /\ \A w \in Owners \ {u} : owner'[w].phone # owner'[u].phone
      Authorised(u) == \E d \in Spenders :
          /\ Doing(d, "write", u)
          /\ \/ spender[d].raced
             \/ /\ spender[d].act = "reset" /\ u \in Learners
                /\ spender[d].proof.place = owner[u].phone
             \/ /\ spender[d].act = "link" /\ owner[u].active
                /\ spender[d].proof.owner = u /\ <<"ISSUED", spender[d].ticket>> \in auditRows
             \/ spender[d].act = "change" /\ spender[d].seen = owner[u].password
<1>1. CredentialsInv => CredentialsTypeOK /\ TicketServesOnce
  <2> SUFFICES ASSUME CredentialsInv PROVE CredentialsTypeOK /\ TicketServesOnce OBVIOUS
  <2>1. TicketServesOnce BY DEF CredentialsInv, CredentialsTyped, TicketServesOnce
  <2>2. ASSUME NEW u \in Owners
        PROVE  /\ owner[u].phone \in Phones \cup {NoPlace} /\ owner[u].box \in Boxes \cup {NoPlace}
               /\ owner[u].verified \in BOOLEAN /\ owner[u].active \in BOOLEAN
               /\ owner[u].password \in 0..MaxPasswords
    BY DEF CredentialsInv, CredentialsTyped, OwnerRows
  <2>3. ASSUME NEW t \in Tickets
        PROVE  \/ ticket[t] \in {NoTicket, Burnt}
               \/ /\ ticket[t].kind \in Codes \cup {"EMAIL", "LINK"}
                  /\ ticket[t].at \in {"stored", "audited", "sent"}
                  /\ ticket[t].place = NoPlace => ticket[t].kind = "LINK"
    BY CredentialsAssumption DEF CredentialsInv, CredentialsTyped, TicketRows, TicketSound
  <2>4. ASSUME NEW d \in Spenders
        PROVE  \/ spender[d] = AtRest \/ spender[d].step \in {"read", "stamp", "edit", "write", "audit"}
    BY DEF CredentialsInv, CredentialsTyped, WorkRows
  <2> QED BY <2>1, <2>2, <2>3, <2>4 DEF CredentialsTypeOK
<1>2. CredentialsInv /\ [CredentialsNext]_contactVars =>
          [\A u \in Owners : Vouched(u) => Stamped(u)]_contactVars
  <2> SUFFICES ASSUME CredentialsInv, [CredentialsNext]_contactVars, NEW u \in Owners, Vouched(u)
               PROVE  Stamped(u)
    OBVIOUS
  <2>1. PICK d \in Spenders :
            \/ Stamp(d) /\ spender[d].owner = u /\ owner'[u].box = owner[u].box
            \/ /\ Doing(d, "edit", u) /\ owner[u].verified
               /\ owner'[u].verified = (owner[u].verified /\ spender[d].clean)
    BY OnlyTheseWrite
  <2>2. WorkOf(d) BY DEF CredentialsInv, WorkSound
  <2>3. CASE Stamp(d) /\ spender[d].owner = u /\ owner'[u].box = owner[u].box
    BY <2>2, <2>3 DEF WorkOf, Stamp, Doing
  <2>4. CASE /\ Doing(d, "edit", u) /\ owner[u].verified
             /\ owner'[u].verified = (owner[u].verified /\ spender[d].clean)
    <3>1. spender[d].raced \/ spender[d].clean = ~owner[u].verified
      BY <2>2, <2>4 DEF WorkOf, Doing
    <3> QED BY <2>4, <3>1
  <2> QED BY <2>1, <2>3, <2>4
<1>3. CredentialsInv /\ [CredentialsNext]_contactVars =>
          [\A u \in Owners : owner'[u].phone # owner[u].phone => Bound(u)]_contactVars
  <2> SUFFICES ASSUME CredentialsInv, [CredentialsNext]_contactVars, NEW u \in Owners,
                      owner'[u].phone # owner[u].phone
               PROVE  Bound(u)
    OBVIOUS
  <2>1. PICK t \in Tickets, purpose \in {"PHONE_CHANGE", "PHONE_BIND"} :
            /\ BindPhone(u, t, purpose) /\ ProofFits(t, purpose)
            /\ owner'[u].phone = ticket[t].place
            /\ \A x \in Owners \ {u} : owner[x].phone # ticket[t].place /\ owner'[x] = owner[x]
    BY OnlyTheseWrite
  <2>2. Sent(t, {"PHONE_CHANGE", "PHONE_BIND"}) /\ ticket'[t] = Burnt
    BY <2>1 DEF BindPhone, ProofFits, Sent, Taken, CredentialsInv, CredentialsTyped
  <2> QED BY <2>1, <2>2
<1>4. CredentialsInv /\ [CredentialsNext]_contactVars =>
          [\A u \in Owners : owner'[u].password # owner[u].password => Authorised(u)]_contactVars
  <2> SUFFICES ASSUME CredentialsInv, [CredentialsNext]_contactVars, NEW u \in Owners,
                      owner'[u].password # owner[u].password
               PROVE  Authorised(u)
    OBVIOUS
  <2>1. PICK d \in Spenders : WritePassword(d) /\ spender[d].owner = u BY OnlyTheseWrite
  <2>2. WorkOf(d) BY DEF CredentialsInv, WorkSound
  <2> QED BY <2>1, <2>2 DEF WorkOf, WritePassword, Doing
<1> QED
  BY <1>1, <1>2, <1>3, <1>4, CredentialsStart, CredentialsStep, PTL
     DEF CredentialsSpec, CredentialsContract, StampIsProved, PhoneIsProved, PasswordTakesAuthority

==============================================================================
