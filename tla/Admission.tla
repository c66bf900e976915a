------------------------------ MODULE Admission ------------------------------
(* What stands between a request and its handler: the gates of the routers,  *)
(* the stored settings they read and the limiter, each a program of its own. *)
EXTENDS Access, Settings, RateLimit

AdmissionSpec == AccessSpec /\ SettingsSpec /\ LimitSpec

\* The gates serve whom they may (identity/dependencies.py:370-593), the pair of
\* the network policy is written together (system/service.py) and the
\* limiter admits what a window allows (integrations/rate_limit.py).
AdmissionSound == AccessSound /\ SettingsSound /\ LimitSound

=============================================================================
