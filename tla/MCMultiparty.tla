---------------------------- MODULE MCMultiparty ----------------------------
(* Instances of Multiparty for TLC. *)
EXTENDS MultipartyChat, TLC

CONSTANTS a, b, c, ka, kb, kc, ka2, m1, m2

\* Two participants; a may come back under a second key.
OwnerTwo == (ka :> a) @@ (ka2 :> a) @@ (kb :> b)

\* Three participants with one key each: buddy lists may differ.
OwnerThree == (ka :> a) @@ (kb :> b) @@ (kc :> c)
=============================================================================
