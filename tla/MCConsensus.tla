------------------------------ MODULE MCConsensus ------------------------------
(****************************************************************************)
(* Four validators, of which one deviates.  The first epoch has, from its   *)
(* genesis g, the chain b1 <- b2 of consecutive rounds, the block e1 that   *)
(* competes with b1, and c3, which skips two rounds and can be voted for    *)
(* after a timeout of both.  b1 reconfigures: committed, it starts the      *)
(* second epoch, with genesis h.                                            *)
(****************************************************************************)
EXTENDS Consensus, TLC

CONSTANTS v1, v2, v3, byz, g, b1, b2, e1, c3, h

MCEpoch == [b \in Blocks |-> IF b = h THEN 2 ELSE 1]
MCRound == [b \in Blocks |-> IF b \in {b1, e1} THEN 1
                             ELSE IF b = b2 THEN 2 ELSE IF b = c3 THEN 3 ELSE 0]
MCParent == [b \in Blocks |-> IF b = b2 THEN b1 ELSE IF b = h THEN h ELSE g]
MCAncestors == [b \in Blocks |-> IF b = h THEN {h}
                                 ELSE IF b = b2 THEN {b2, b1, g} ELSE {b, g}]

\* Rounds are timed out in the first epoch only.
MCMaxRound == [e \in 1 .. 2 |-> IF e = 1 THEN 2 ELSE 0]

Symmetry == Permutations(Honest)
================================================================================
