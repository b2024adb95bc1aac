--------------------- MODULE MCEnvironmentProvisioning ---------------------
(* Small instances of provisioning: one manager that may crash and another *)
(* that makes the calls after it, or three managers of one call each.      *)
EXTENDS EnvironmentProvisioning, TLC

CONSTANTS o1, o2, o3, m1, m2, m3

Shared == (o1 :> m1) @@ (o2 :> m2) @@ (o3 :> m2)
Separate == (o1 :> m1) @@ (o2 :> m2) @@ (o3 :> m3)
=============================================================================
