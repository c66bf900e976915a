--------------------------------- MODULE Access ---------------------------------
(***************************************************************************)
(* Who may call what.  Every endpoint declares a gate, one of the actor     *)
(* dependencies of identity/dependencies.py; the management routers add the *)
(* network guard of identity/admin_router.py.  One request is followed      *)
(* through the statements of its gate, each with a snapshot of its own,     *)
(* while administrators change the account and the network policy.          *)
(***************************************************************************)
EXTENDS FiniteSets, Integers

CONSTANTS
    MaxMoves,    \* bound on the changes made while a request is handled
    NoRequest

ASSUME AccessAssumption == MaxMoves \in Nat

VARIABLES
    caller,     \* the caller's account, its session included
    policy,     \* the stored management-network policy
    request,    \* the request being handled
    lived,      \* the states the account has had since the request arrived
    policies,   \* the policies that have been in force since then
    moves

accessVars == <<caller, policy, request, lived, policies, moves>>

-----------------------------------------------------------------------------
(* The endpoints, router by router: the gate, whether the network guard     *)
(* stands behind it, and what the handler lets the caller do:               *)
(* "open" needs no account, "self" and "own" concern the caller's account,  *)
(* "look" reads what is shared, "work" is a participant's, "enrol" sets up  *)
(* the second factor, "teach" and "govern" manage, "repair" edits settings. *)

All(names, gate, act) ==
    {[name |-> n, gate |-> gate, net |-> FALSE, act |-> act] : n \in names}
Guarded(names, act) ==
    {[name |-> n, gate |-> "admin", net |-> TRUE, act |-> act] : n \in names}

CommentRoutes ==
    All({"list_task_comments"}, "community", "look")
    \cup All({"create_task_comment", "edit_comment", "delete_own_comment", "cast_comment_vote"},
           "approved_community", "work")
FeedbackRoutes ==
    All({"toggle_comment_reaction", "file_comment_report"}, "approved_community", "work")
    \cup All({"put_task_rating"}, "approved_student", "work")
    \cup All({"list_moderation_comments"}, "management", "teach")
ModerationRoutes ==
    All({"list_task_reports", "dismiss_task_report", "handle_task_report",
         "moderate_delete_comment"}, "management", "teach")
IdentityRevealRoutes ==
    All({"hide_comment_subtree", "reveal_comment_identity"}, "admin", "govern")

UserListRoutes ==
    Guarded({"list_users", "read_user_panorama", "read_user_sessions", "kick_user"}, "govern")
UserPowerRoutes ==
    Guarded({"change_user_role", "issue_password_reset_link", "batch_status_action",
             "read_overview", "suspend_user", "ban_user", "reactivate_user"}, "govern")
ApprovalRoutes == Guarded({"approve_student", "reject_student"}, "govern")
InvitationRoutes ==
    Guarded({"create_staff_invitation", "list_staff_invitations", "revoke_staff_invitation",
             "resend_staff_invitation"}, "govern")

RegistrationRoutes ==
    All({"request_phone_challenge", "verify_phone_challenge", "register_student",
         "register_by_mobile_code"}, "none", "open")
LoginRoutes ==
    All({"login", "unified_challenge_request", "unified_challenge_verify"}, "none", "open")
SecondStepRoutes == All({"unified_challenge_totp", "unified_remembered_probe"}, "none", "open")
SessionRoutes ==
    All({"refresh", "logout", "request_password_reset", "spend_admin_reset_token",
         "confirm_password_reset"}, "none", "open")

DeviceRoutes == All({"list_own_devices", "revoke_own_devices"}, "staff", "own")
SelfRoutes ==
    All({"read_me"}, "actor", "self")
    \cup All({"change_nickname"}, "active", "own")
    \cup All({"upload_avatar", "delete_avatar"}, "not_pending", "own")
ContactRoutes ==
    All({"request_phone_change", "confirm_phone_change", "request_email_verification",
         "confirm_email_verification", "unbind_email", "change_password"}, "active", "own")
    \cup All({"request_phone_bind", "confirm_phone_bind"}, "staff", "own")
AvatarRoute == All({"get_user_avatar"}, "actor", "self")
StaffRoutes ==
    All({"accept_staff_invitation"}, "none", "open")
    \cup All({"begin_totp_setup", "confirm_totp_setup"}, "staff", "enrol")

PlatformRoutes ==
    All({"list_platforms"}, "active", "look")
    \cup All({"list_admin_platforms", "create_platform", "patch_platform"}, "admin", "govern")
TaskRoutes == All({"list_tasks", "download_submission_template", "get_task"}, "active", "look")
ClaimRoutes == All({"claim_task", "list_my_claims", "abandon_claim"}, "approved_student", "work")

TeacherTaskRoutes ==
    All({"list_teacher_tasks", "get_teacher_task", "create_task", "update_task"},
        "management", "teach")
TaskStateRoutes ==
    All({"publish_task", "pause_task", "resume_task", "close_task", "archive_task"},
        "management", "teach")
TaskTeamRoutes ==
    All({"preview_assignment_import", "confirm_assignment_import", "add_collaborator",
         "remove_collaborator", "get_task_statistics"}, "management", "teach")

UploadRoutes ==
    All({"create_upload_intent", "complete_upload", "get_submission_validation"},
        "approved_student", "work")
    \cup All({"download_submission"}, "student_or_management", "work")
ReviewRoutes ==
    All({"list_review_queue", "approve_submission", "require_revision", "invalidate_reward_lock"},
        "management", "teach")

RedeemRoutes ==
    All({"my_wallet", "list_rewards"}, "active_student", "look")
    \cup All({"redeem_reward"}, "approved_student", "work")
RedemptionRoutes ==
    All({"list_redemption_queue", "approve_redemption", "reject_redemption", "fulfill_redemption"},
        "reward_review", "teach")
RewardItemRoutes ==
    Guarded({"list_reward_items", "create_reward_item", "update_reward_item",
             "disable_reward_item"}, "govern")
RewardGrantRoutes ==
    Guarded({"list_reward_review_grants", "grant_reward_review", "revoke_reward_review",
             "adjust_user_points"}, "govern")
TemplateRoutes ==
    Guarded({"list_notification_templates", "create_notification_template",
             "update_notification_template", "enable_notification_template",
             "disable_notification_template"}, "govern")

RankingRoutes ==
    All({"daily_board", "monthly_board", "all_time_board", "around_me", "my_growth"},
        "browsing_student", "look")
InboxRoutes == All({"list_notifications", "mark_notification_read"}, "browsing_student", "own")
FailureRoute == Guarded({"list_notification_failures"}, "govern")
AuditRoutes ==
    Guarded({"list_audit_logs", "release_occupied_assignment", "force_fail_delivery"}, "govern")

TermRoutes ==
    All({"list_system_settings", "get_current_academic_term", "put_current_academic_term"},
        "admin", "repair")

SettingsRoutes ==
    All({"put_emoji_whitelist", "put_abandon_daily_limit", "put_management_network_enabled",
         "put_management_network_cidrs"}, "admin", "repair")

DraftRoutes ==
    All({"create_draft", "list_drafts", "read_draft", "update_draft"}, "approved_student", "work")
AchievementRoutes ==
    All({"create", "list_owned", "get_owned", "update"}, "approved_student", "work")
EvidenceRoutes ==
    All({"create", "list_owned", "complete", "remove", "content"}, "approved_student", "work")
AchievementReviewRoutes ==
    All({"workflow", "submit", "withdraw", "submit_update"}, "approved_student", "work")
ReviewerRoutes ==
    All({"queue", "claim", "conflict", "detail", "decision", "content"}, "approved_student", "work")
RecruitmentRoutes ==
    All({"create", "list_owned", "get_owned", "update", "publish", "close", "reopen",
         "confirm_active", "revoke_contact"}, "approved_student", "work")
TalentRoutes ==
    All({"read", "save", "publish", "hide", "revoke_contact", "suggest"},
        "approved_student", "work")
    \cup All({"tags"}, "active", "look")
TalentFileRoutes ==
    All({"create", "complete", "list_owned", "remove", "revoke", "content"},
        "approved_student", "work")
OwnerRoutes == All({"read_owner_profile", "save_owner_profile"}, "approved_student", "work")
QualificationRoutes ==
    All({"read_owned", "apply"}, "approved_student", "work")
    \cup Guarded({"queue", "reveal", "approve"}, "govern")
OperationsRoutes ==
    All({"capabilities"}, "approved_student", "work")
    \cup Guarded({"read_grant", "save_grant"}, "govern")
PublicAchievementRoutes == All({"list_visible", "detail"}, "active", "look")
PublicTalentRoutes == All({"list_visible", "detail", "contacts", "content"}, "active", "look")
PublicRecruitmentRoutes ==
    All({"list_recruitments", "get_recruitment", "get_contacts", "list_projects", "get_project"},
        "active", "look")

Routers ==
    {CommentRoutes, FeedbackRoutes, ModerationRoutes, IdentityRevealRoutes,
     UserListRoutes, UserPowerRoutes, ApprovalRoutes, InvitationRoutes,
     RegistrationRoutes, LoginRoutes, SecondStepRoutes, SessionRoutes, DeviceRoutes,
     SelfRoutes, ContactRoutes, AvatarRoute, StaffRoutes, TaskRoutes, PlatformRoutes, ClaimRoutes, TeacherTaskRoutes,
     TaskStateRoutes, TaskTeamRoutes, UploadRoutes, ReviewRoutes, RedeemRoutes, RedemptionRoutes,
     RewardItemRoutes, RewardGrantRoutes, TemplateRoutes, RankingRoutes, InboxRoutes, FailureRoute,
     AuditRoutes, TermRoutes, SettingsRoutes, DraftRoutes, AchievementRoutes, EvidenceRoutes,
     AchievementReviewRoutes, ReviewerRoutes, RecruitmentRoutes, TalentRoutes, TalentFileRoutes,
     OwnerRoutes, QualificationRoutes, OperationsRoutes, PublicAchievementRoutes,
     PublicTalentRoutes, PublicRecruitmentRoutes}

\* What tells two endpoints apart here.
Routes == {[gate |-> r.gate, net |-> r.net, act |-> r.act] : r \in UNION Routers}

-----------------------------------------------------------------------------
(* The gates.                                                               *)

Active(a) == a.status = "ACTIVE"
Pending(a) == a.status = "PENDING"
IsStudent(a) == a.role = "STUDENT"
IsStaff(a) == a.role \in {"TEACHER", "ADMIN"}
IsAdmin(a) == a.role = "ADMIN"

ActiveGate(a) == Active(a) \/ Pending(a)
ActiveStudentGate(a) == IsStudent(a) /\ Active(a)
ApprovedStudentGate(a) == IsStudent(a) /\ ~Pending(a) /\ Active(a)
CommunityGate(a) == a.role \in {"STUDENT", "TEACHER"} /\ Active(a)

ApprovedCommunityGate(a) ==
    /\ ~(IsStudent(a) /\ Pending(a))
    /\ a.role \in {"STUDENT", "TEACHER"} /\ Active(a)
BrowsingStudentGate(a) == IsStudent(a) /\ (Active(a) \/ Pending(a))
NotPendingGate(a) == ~(IsStudent(a) /\ Pending(a)) /\ Active(a)
StaffGate(a) == IsStaff(a) /\ Active(a)
AdminGate(a) == IsAdmin(a) /\ Active(a)

\* The row half of a gate, answered by the one join of account and live session.
RowPasses(gate, a) ==
    a.live /\ CASE gate = "actor" -> TRUE
                [] gate = "active" -> ActiveGate(a)
                [] gate = "active_student" -> ActiveStudentGate(a)
                [] gate = "approved_student" -> ApprovedStudentGate(a)
                [] gate = "community" -> CommunityGate(a)
                [] gate = "approved_community" -> ApprovedCommunityGate(a)
                [] gate = "browsing_student" -> BrowsingStudentGate(a)
                [] gate = "not_pending" -> NotPendingGate(a)
                [] gate = "staff" -> StaffGate(a)
                [] gate \in {"management", "reward_review"} -> StaffGate(a)
                [] gate = "admin" -> AdminGate(a)
                [] gate = "student_or_management" -> Active(a)

\* Gates that go on to read the second factor.
WantsTotp(gate, a) ==
    \/ gate \in {"management", "reward_review", "admin"}
    \/ gate = "student_or_management" /\ IsStaff(a)
WantsGrant(gate, a) == gate = "reward_review" /\ a.role = "TEACHER"

-----------------------------------------------------------------------------
(* The network policy: a switch and the networks it admits.                 *)

Networks == {"campus"}
Addresses == {"campus", "outside"}
Loadable(p) == p.on => p.nets # {}
Allows(p, address) == ~p.on \/ (p.nets # {} /\ address \in p.nets)

-----------------------------------------------------------------------------
(* One request.                                                             *)

AccessInit ==
    /\ caller \in
        [role : {"STUDENT"}, status : {"PENDING", "ACTIVE", "OFF"}, totp : {FALSE}, grant : {FALSE},
         live : BOOLEAN]
        \cup [role : {"TEACHER"}, status : {"ACTIVE", "OFF"}, totp : BOOLEAN, grant : BOOLEAN,
              live : BOOLEAN]
        \cup [role : {"ADMIN"}, status : {"ACTIVE", "OFF"}, totp : BOOLEAN, grant : {FALSE},
              live : BOOLEAN]
    /\ policy \in [on : BOOLEAN, nets : SUBSET Networks]
    /\ request = NoRequest /\ lived = {} /\ policies = {} /\ moves = 0

Arrive(route, address) ==
    /\ request = NoRequest
    /\ request' = [route |-> route, address |-> address, row |-> caller, on |-> FALSE,
                   stage |-> IF route.gate = "none" THEN "served" ELSE "row"]
    /\ lived' = {caller} /\ policies' = {policy}
    /\ UNCHANGED <<caller, policy, moves>>

AfterGate(route) == IF route.net THEN "switch" ELSE "served"
Answer(stage) ==
    /\ request' = [request EXCEPT !.stage = stage]
    /\ UNCHANGED <<caller, policy, lived, policies, moves>>

\* The join of the account and its live session; the gate decides on that row.
ReadRow ==
    /\ request # NoRequest /\ request.stage = "row"
    /\ request' = [request EXCEPT
                     !.row = caller,
                     !.stage = IF ~RowPasses(request.route.gate, caller) THEN "refused"
                               ELSE IF WantsTotp(request.route.gate, caller) THEN "totp"
                               ELSE AfterGate(request.route)]
    /\ UNCHANGED <<caller, policy, lived, policies, moves>>

ReadTotp ==
    /\ request # NoRequest /\ request.stage = "totp"
    /\ Answer(IF ~caller.totp THEN "refused"
              ELSE IF WantsGrant(request.route.gate, request.row) THEN "grant"
              ELSE AfterGate(request.route))

ReadGrant ==
    /\ request # NoRequest /\ request.stage = "grant"
    /\ Answer(IF caller.grant THEN "served" ELSE "refused")

\* The two settings rows are two statements.
ReadSwitch ==
    /\ request # NoRequest /\ request.stage = "switch"
    /\ request' = [request EXCEPT !.on = policy.on, !.stage = "networks"]
    /\ UNCHANGED <<caller, policy, lived, policies, moves>>

ReadNetworks ==
    /\ request # NoRequest /\ request.stage = "networks"
    /\ LET read == [on |-> request.on, nets |-> policy.nets]
       IN Answer(IF Loadable(read) /\ Allows(read, request.address) THEN "served" ELSE "refused")

Settled == request # NoRequest /\ request.stage \in {"served", "refused"}

-----------------------------------------------------------------------------
(* What others do meanwhile.                                                *)

Becomes(a) ==
    /\ request # NoRequest /\ ~Settled /\ moves < MaxMoves
    /\ caller' = a /\ lived' = lived \cup {a} /\ moves' = moves + 1
    /\ UNCHANGED <<policy, request, policies>>

StatusMoves(a) ==
    CASE a.status = "PENDING" -> {"ACTIVE", "OFF"}
      [] a.status = "ACTIVE" -> {"OFF"}
      [] a.status = "OFF" -> {"ACTIVE"}

ChangeStatus == \E s \in StatusMoves(caller) : Becomes([caller EXCEPT !.status = s])
ChangeRole ==
    /\ IsStaff(caller)
    /\ Becomes([caller EXCEPT !.role = IF @ = "ADMIN" THEN "TEACHER" ELSE "ADMIN"])
EndSession == caller.live /\ Becomes([caller EXCEPT !.live = FALSE])
ConfirmFactor ==
    /\ caller.live /\ StaffGate(caller) /\ ~caller.totp
    /\ Becomes([caller EXCEPT !.totp = TRUE])
MoveGrant == caller.role = "TEACHER" /\ Becomes([caller EXCEPT !.grant = ~@])

\* One key is written at a time, and only to a pair that can be loaded.
WritePolicy(p) ==
    /\ request # NoRequest /\ request.route.net /\ ~Settled /\ moves < MaxMoves
    /\ Loadable(p) /\ (p.on # policy.on) # (p.nets # policy.nets)
    /\ policy' = p /\ policies' = policies \cup {p} /\ moves' = moves + 1
    /\ UNCHANGED <<caller, request, lived>>

AccessNext ==
    \/ \E route \in Routes, address \in Addresses : Arrive(route, address)
    \/ ReadRow \/ ReadTotp \/ ReadGrant \/ ReadSwitch \/ ReadNetworks
    \/ ChangeStatus \/ ChangeRole \/ EndSession \/ ConfirmFactor \/ MoveGrant
    \/ \E p \in [on : BOOLEAN, nets : SUBSET Networks] : WritePolicy(p)

AccessSpec == AccessInit /\ [][AccessNext]_accessVars

-----------------------------------------------------------------------------
(* Properties.                                                              *)

\* Types: the account, the policy and the stage of the request; only students wait
\* for approval.
AccessTypeOK ==
    /\ IsStaff(caller) => ~Pending(caller)
    /\ caller \in [role : {"STUDENT", "TEACHER", "ADMIN"}, status : {"PENDING", "ACTIVE", "OFF"},
                   totp : BOOLEAN, grant : BOOLEAN, live : BOOLEAN]
    /\ policy \in [on : BOOLEAN, nets : SUBSET Networks]
    /\ moves \in 0..MaxMoves
    /\ request # NoRequest =>
           /\ request.route \in Routes
           /\ request.stage \in {"row", "totp", "grant", "switch", "networks", "served", "refused"}
           /\ caller \in lived /\ policy \in policies

Served == request # NoRequest /\ request.stage = "served"
Refused == request # NoRequest /\ request.stage = "refused"
Opens(act) == request.route.act \in act

\* A student who is not approved yet browses and tends the account, on whatever
\* endpoint of whatever router: no claim, upload, redemption, comment or project
\* is reached while the account stays pending (identity/dependencies.py:370-410).
PendingOnlyLooks ==
    Served /\ (\A a \in lived : IsStudent(a) /\ Pending(a))
        => Opens({"open", "self", "own", "look"})

\* An account that was suspended, banned or rejected all along, or whose session
\* had ended, reaches nothing that asks more than who is calling.
ShutOut ==
    /\ Served /\ (\A a \in lived : a.status = "OFF") => Opens({"open", "self"})
    /\ Served /\ (\A a \in lived : ~a.live) => Opens({"open"})

\* What manages is served only to staff in office, with the second factor
\* confirmed by then; what governs, to an administrator (identity/dependencies.py:516-593).
ManagedByConfirmedStaff ==
    Served /\ Opens({"teach", "govern", "repair"}) =>
        /\ \E a \in lived : a.live /\ StaffGate(a) /\ (Opens({"govern", "repair"}) => IsAdmin(a))
        /\ \E a \in lived : a.totp

\* Neither the way to the second factor nor the way to the settings that shut a
\* network out depends on what it repairs: staff in office set up the factor, and an
\* administrator with it reaches the settings from anywhere, under any stored policy.
NoTrap ==
    Refused =>
        /\ Opens({"enrol"}) => \E a \in lived : ~(a.live /\ StaffGate(a))
        /\ Opens({"repair"}) => \E a \in lived : ~(a.live /\ AdminGate(a) /\ a.totp)

\* A guarded endpoint is served only under a policy that was in force while the
\* request was handled and that admits the address; the two halves of the policy
\* are read by two statements and may come from different moments.
AdmittedByPolicy ==
    Served /\ request.route.net => \E p \in policies : Allows(p, request.address)

\* The gates of the routers, taken together: each serves whom it may, under the
\* policy in force, and shuts nobody out of the way back in.
AccessSound ==
    /\ AccessTypeOK
    /\ PendingOnlyLooks
    /\ ShutOut
    /\ ManagedByConfirmedStaff
    /\ NoTrap
    /\ AdmittedByPolicy

=============================================================================
