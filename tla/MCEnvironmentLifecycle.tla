------------------------- MODULE MCEnvironmentLifecycle -------------------------
(* TLC instances of EnvironmentLifecycle: the bounds are in the cfg files.      *)
EXTENDS EnvironmentLifecycle, TLC

CONSTANTS a1, a2, e1, e2, e3

\* The first App has a default and a custom environment, the second a default one.
AppOfEnv == e1 :> a1 @@ e2 :> a1 @@ e3 :> a2

================================================================================
