------------------------------- MODULE MCIdentity -------------------------------
(* Instances of the identity and admission modules for TLC.  They share no    *)
(* state; each behaviour is about one of them, the one that area names.       *)
EXTENDS Sessions, Otp, Staff, AdminRoles, Doors, Admission, Delegation

VARIABLE area

allVars == <<sessionVars, otpVars, staffVars, adminVars, doorVars, accessVars, settingVars, limitVars, delegationVars>>
vars == <<area, allVars>>

Init ==
    /\ area \in {"sessions", "otp", "staff", "roles", "doors", "access", "settings", "limits",
              "delegation"}
    /\ SessionInit /\ (area # "sessions" => account = "active")
    /\ OtpInit /\ StaffInit /\ SettingsInit /\ LimitInit /\ DelegationInit
    /\ AdminInit /\ (area # "roles" => \A m \in Members : ActiveAdmin(m))
    /\ DoorInit /\ (area # "doors" => who.role = "NONE")
    /\ AccessInit
    /\ area # "access" =>
           /\ caller = [role |-> "ADMIN", status |-> "ACTIVE", totp |-> TRUE, grant |-> FALSE, live |-> TRUE]
           /\ policy = [on |-> FALSE, nets |-> {}]

Sessions_Next ==
    /\ area = "sessions" /\ SessionNext
    /\ UNCHANGED <<area, otpVars, staffVars, adminVars, doorVars, accessVars, settingVars, limitVars, delegationVars>>
Otp_Next ==
    /\ area = "otp" /\ OtpNext
    /\ UNCHANGED <<area, sessionVars, staffVars, adminVars, doorVars, accessVars, settingVars, limitVars, delegationVars>>
Staff_Next ==
    /\ area = "staff" /\ StaffNext
    /\ UNCHANGED <<area, sessionVars, otpVars, adminVars, doorVars, accessVars, settingVars, limitVars, delegationVars>>
Roles_Next ==
    /\ area = "roles" /\ AdminNext
    /\ UNCHANGED <<area, sessionVars, otpVars, staffVars, doorVars, accessVars, settingVars, limitVars, delegationVars>>
Doors_Next ==
    /\ area = "doors" /\ DoorNext
    /\ UNCHANGED <<area, sessionVars, otpVars, staffVars, adminVars, accessVars, settingVars, limitVars, delegationVars>>
Access_Next ==
    /\ area = "access" /\ AccessNext
    /\ UNCHANGED <<area, sessionVars, otpVars, staffVars, adminVars, doorVars, settingVars, limitVars, delegationVars>>
Settings_Next ==
    /\ area = "settings" /\ SettingsNext
    /\ UNCHANGED <<area, sessionVars, otpVars, staffVars, adminVars, doorVars, accessVars, limitVars, delegationVars>>
Limits_Next ==
    /\ area = "limits" /\ LimitNext
    /\ UNCHANGED <<area, sessionVars, otpVars, staffVars, adminVars, doorVars, accessVars, settingVars, delegationVars>>
Delegation_Next ==
    /\ area = "delegation" /\ DelegationNext
    /\ UNCHANGED <<area, sessionVars, otpVars, staffVars, adminVars, doorVars, accessVars,
                   settingVars, limitVars>>

Next ==
    \/ Sessions_Next \/ Otp_Next \/ Staff_Next \/ Roles_Next \/ Doors_Next
    \/ Access_Next \/ Settings_Next \/ Limits_Next \/ Delegation_Next

Spec == Init /\ [][Next]_vars /\ OtpFairness

===============================================================================
