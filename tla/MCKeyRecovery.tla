--------------------------- MODULE MCKeyRecovery ----------------------------
(* KeyRecovery with two sessions, one of which encrypts two events.        *)
EXTENDS KeyRecovery, TLC

CONSTANTS e1, e2, e3, s1, s2

MCSessionOf == (e1 :> s1) @@ (e2 :> s1) @@ (e3 :> s2)
=============================================================================
