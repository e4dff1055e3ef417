------------------------- MODULE MCProcessRegistry -------------------------
(***************************************************************************)
(* The instance for TLC: three PIDs, of which a cap refuses one, two start  *)
(* tokens, and every mix of statuses and marks over two images.             *)
(***************************************************************************)
EXTENDS ProcessRegistry, TLC

MCThree == 1..3
MCTokenSymmetry == Permutations(Tokens)
=============================================================================
