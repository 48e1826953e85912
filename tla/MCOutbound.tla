------------------------------ MODULE MCOutbound ------------------------------
(* Small instances of Outbound.                                              *)
EXTENDS Outbound, TLC

CONSTANTS r1, r2, h1, h2, s1, s2

\* One row; or two of s1, and one of s2 that came between them.
OneSku  == [i \in 1..NumRows |-> s1]
TwoSkus == [i \in 1..NumRows |-> IF i = 2 THEN s2 ELSE s1]

\* What each instance lets callers do.
Everything == AllKinds
Handling  == {"create", "approve", "start", "confirm", "ship", "cancel", "delete", "reserve"}

Symmetry == Permutations(Handlers) \cup Permutations(Requests \ Legacy)
==============================================================================
