----------------------------- MODULE MCPseudoCon -----------------------------
(* PseudoCon for TLC: the controllers are interchangeable.                 *)
EXTENDS PseudoCon, TLC

Symmetry == Permutations(Controllers)
=============================================================================
