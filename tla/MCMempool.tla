------------------------------ MODULE MCMempool ------------------------------
(****************************************************************************)
(* Two accounts.  The first has four sequence numbers, one more than an     *)
(* account may hold, and a transaction that is sent again at a higher       *)
(* price; its second expires after the first and the third.  Three of its   *)
(* transactions and one of the second account's reach the number of the     *)
(* store alone, two of the second account's and one of the first's the      *)
(* bytes alone.                                                             *)
(****************************************************************************)
EXTENDS Mempool

T(a, s, p, e, q) == [sender |-> a, seq |-> s, price |-> p, exp |-> e, timeline_state |-> q]

MCIncoming ==
    {T(1, 0, 1, 1, "NotReady"), T(1, 0, 2, 1, "NotReady"), T(1, 1, 2, 2, "NotReady"),
     T(1, 2, 1, 1, "NonQualified"), T(1, 3, 1, 2, "NonQualified"),
     T(2, 0, 1, 1, "NotReady"), T(2, 1, 2, 2, "NonQualified")}

MCBucket == (1 :> 0) @@ (2 :> 1)
MCBytes == (1 :> 1) @@ (2 :> 3)
MCShard == (1 :> 0) @@ (2 :> 255)
MCMaxDb == (1 :> 2) @@ (2 :> 0)
=============================================================================
