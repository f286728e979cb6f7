----------------------------- MODULE MCCdBlock -----------------------------
(* A small instance of CdBlock. *)
EXTENDS CdBlock, TLC

CONSTANTS b1, b2, b3, p1, p2, a

MCBuffers == {b1, b2, b3}
MCParts == {p1, p2}
MCKinds == {a}
MCFlagSets == {{"partitions"}, {"inputs"}, {"conditions", "trueConns", "falseConns"}}
MCConditions == {MCKinds, MCKinds \cup {Blank}}
AnyBuffer == Permutations(MCBuffers)
=============================================================================
