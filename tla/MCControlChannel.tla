-------------------------- MODULE MCControlChannel --------------------------
(* Instances of ControlChannel for TLC. *)
EXTENDS ControlChannel, TLC

CONSTANTS t1, t2, p1, p2, p3, a1, a2

OneTunnel == [p \in Streams |-> t1]
\* p1 and p2 are for the first tunnel, p3 for the second.
TwoTunnels == [p \in Streams |-> IF p = p3 THEN t2 ELSE t1]
Symmetry == Permutations(Tasks) \union Permutations(Streams)
=============================================================================
