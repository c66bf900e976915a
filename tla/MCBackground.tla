------------------------------ MODULE MCBackground ------------------------------
(* Instances of the two background pipelines for TLC, the delivery of         *)
(* notifications and the cleanup of files.  They share no state; each         *)
(* behaviour is about the one that area names, under the fairness of that one. *)
EXTENDS Notifications, FileCleanup

CONSTANTS r1, r2, t1

MCPolicy   == [e \in {r1, r2} |-> IF e = r1 THEN {"SMS"} ELSE {"IN_APP"}]
MCLead     == [e \in {r1, r2} |-> IF e = r1 THEN 1 ELSE 0]
MCDelay    == <<1, 1>>

VARIABLE area

vars == <<area, notificationVars, fileVars>>

Init == area \in {"delivery", "texts", "cleanup"} /\ NotificationInit /\ CleanupInit

\* The deliveries are looked at twice: two workers and the first text of every
\* message, and one worker at a time while an administrator changes the texts.
Delivery_Next ==
    /\ area \in {"delivery", "texts"} /\ NotificationNext /\ UNCHANGED <<area, fileVars>>
    /\ area = "delivery" =>
           /\ \A e \in Events : canonical'[e] \in {Unrecorded, Seed}
           /\ \A d \in Deliveries : delivery'[d].text = Seed
    /\ area = "texts" => \E w \in Workers : \A v \in Workers \ {w} : worker'[v] = NoWork

Cleanup_Next  == area = "cleanup" /\ CleanupNext /\ UNCHANGED <<area, notificationVars>>

Next == Delivery_Next \/ Cleanup_Next

Fairness == \/ area \in {"delivery", "texts"} /\ NotificationFairness
            \/ area = "cleanup" /\ CleanupFairness

Spec == Init /\ [][Next]_vars /\ Fairness
=============================================================================
