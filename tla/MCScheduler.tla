---------------------------- MODULE MCScheduler ----------------------------
(* Instances of the scheduler for TLC. *)
EXTENDS Scheduler, TLC

\* Every transaction names the one below it: 0 <- 1 <- 2.
ChainHints == [t \in Txns |-> IF t = 0 THEN <<>> ELSE <<t - 1>>]

\* The first transaction has no estimate, so new() finds no slowest parent for
\* the second and sends it although it has a hint; the third waits for it.
Gas == [t \in Txns |-> IF t = 0 THEN 0 ELSE 1]

=============================================================================
