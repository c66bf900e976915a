---------------------------- MODULE MCCollaboration ----------------------------
(* Instances of the community and innovation modules, of the teachers' desk   *)
(* and of the contact details of an account for TLC.  They share no state;    *)
(* each behaviour is about the one that area names.                           *)
EXTENDS Comments, Feedback, Recruitment, Reviews, Evidence, Talent, TaskDesk,
        TaskImport, Credentials, TLC

\* The areas name their concurrent calls alike, so that two permutations serve
\* them all.
CollaborationSymmetry == Permutations(Tabs) \cup Permutations(Proofs)

VARIABLE area

vars == <<area, commentVars, feedbackVars, recruitmentVars, reviewVars, evidenceVars, talentVars,
          deskVars, importVars, contactVars>>

Init ==
    /\ area \in {"comments", "feedback", "recruitment", "reviews", "evidence",
                "resubmission", "talent", "desk", "import", "credentials", "addresses"}
    /\ CommentInit /\ FeedbackInit /\ ReviewInit /\ EvidenceInit /\ CredentialsInit
    /\ TalentInit /\ (area # "talent" => profile.version = 0)
    /\ DeskInit /\ ImportInit /\ (area # "import" => offered = {})
    /\ RecruitmentInit /\ (area # "recruitment" => row.status = "DRAFT")

Comments_Next ==
    /\ area = "comments" /\ CommentNext
    /\ UNCHANGED <<area, deskVars, importVars, contactVars, talentVars, feedbackVars, recruitmentVars, reviewVars, evidenceVars>>
Feedback_Next ==
    /\ area = "feedback" /\ FeedbackNext
    /\ UNCHANGED <<area, deskVars, importVars, contactVars, talentVars, commentVars, recruitmentVars, reviewVars, evidenceVars>>
Recruitment_Next ==
    /\ area = "recruitment" /\ RecruitmentNext
    /\ UNCHANGED <<area, deskVars, importVars, contactVars, talentVars, commentVars, feedbackVars, reviewVars, evidenceVars>>
Reviews_Next ==
    /\ area = "reviews" /\ ReviewNext
    /\ UNCHANGED <<area, deskVars, importVars, contactVars, talentVars, commentVars, feedbackVars, recruitmentVars, evidenceVars>>

\* The proofs are looked at twice: two checks of one submission, and one check
\* over two submissions.
Evidence_Next ==
    /\ area \in {"evidence", "resubmission"} /\ EvidenceNext
    /\ area = "evidence" => round' <= 1
    /\ area = "resubmission" => \E c \in Checks : \A d \in Checks \ {c} : check'[d].at = "NEW"
    /\ UNCHANGED <<area, deskVars, importVars, contactVars, talentVars, commentVars, feedbackVars, recruitmentVars, reviewVars>>

Talent_Next ==
    /\ area = "talent" /\ TalentNext
    /\ UNCHANGED <<area, deskVars, importVars, contactVars, commentVars, feedbackVars, recruitmentVars, reviewVars, evidenceVars>>
Desk_Next ==
    /\ area = "desk" /\ DeskNext
    /\ UNCHANGED <<area, commentVars, feedbackVars, recruitmentVars, reviewVars, evidenceVars,
                   talentVars, importVars, contactVars>>
Import_Next ==
    /\ area = "import" /\ ImportNext
    /\ UNCHANGED <<area, commentVars, feedbackVars, recruitmentVars, reviewVars, evidenceVars,
                   talentVars, deskVars, contactVars>>
\* Every kind of ticket with one request, and two requests about addresses.
Credentials_Next ==
    /\ area \in {"credentials", "addresses"} /\ CredentialsNext
    /\ area = "credentials" => \E d \in Spenders : \A e \in Spenders \ {d} : spender'[e] = AtRest
    /\ area = "addresses" =>
          /\ \A t \in Tickets : ticket'[t] \notin {NoTicket, Burnt} => ticket'[t].kind = "EMAIL"
          /\ \A d \in Spenders : spender'[d] # AtRest => spender'[d].act # "change"
          /\ \A u \in Owners : owner'[u].active
    /\ UNCHANGED <<area, commentVars, feedbackVars, recruitmentVars, reviewVars, evidenceVars,
                   talentVars, deskVars, importVars>>

Next == Comments_Next \/ Feedback_Next \/ Recruitment_Next \/ Reviews_Next \/ Evidence_Next
        \/ Talent_Next \/ Desk_Next \/ Import_Next \/ Credentials_Next

Spec == Init /\ [][Next]_vars

=============================================================================
