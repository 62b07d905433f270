---------------------------- MODULE MCBlockBuilding ----------------------------
(****************************************************************************)
(* Twelve transactions of six senders in three batches; two state keys.    *)
(****************************************************************************)
EXTENDS BlockBuilding, TLC

MCSender == <<"a", "b", "a", "a", "c", "c", "d", "b", "e", "e", "f", "c">>
MCSequenceNumber == <<0, 0, 1, 2, 0, 1, 0, 1, 0, 1, 0, 2>>
MCBatches == 0 :> <<1, 2, 3, 4>> @@ 1 :> <<5, 6, 7, 8>> @@ 2 :> <<9, 10, 11, 12>>

P(r, w, g) == [reads |-> r, writes |-> w, gas |-> g]

\* Blind writes, reads and read-modify-writes, gas that rounds to 0, gas that does
\* not fit 16 bits (655370 counts as 1) and gas too high for one core (50).
Choices == <<
    {P({"x"}, {"x"}, 30), P({}, {"x"}, 5), P({"y"}, {"x", "y"}, 10)},
    {P({"x"}, {"x"}, 20), P({}, {"x"}, 10)},
    {P({"x"}, {"x"}, 30), P({"y"}, {"y"}, 655370)},
    {P({"x"}, {"x"}, 30), P({}, {}, 50)},
    {P({}, {}, 40), P({"y"}, {"x"}, 20)},
    {P({}, {}, 40), P({"x"}, {"y"}, 10)},
    {P({"x"}, {}, 30), P({"y"}, {"x"}, 10)},
    {P({"x"}, {}, 30), P({"x"}, {"y"}, 5)},
    {P({}, {}, 5)},
    {P({}, {"y"}, 5), P({"y"}, {}, 20)},
    {P({"x"}, {}, 30), P({}, {}, 10)},
    {P({"x"}, {"y"}, 30), P({}, {"y"}, 5)} >>

MCProfiles ==
    {<<p1, p2, p3, p4, p5, p6, p7, p8, p9, p10, p11, p12>> :
        p1 \in Choices[1], p2 \in Choices[2], p3 \in Choices[3], p4 \in Choices[4],
        p5 \in Choices[5], p6 \in Choices[6], p7 \in Choices[7], p8 \in Choices[8],
        p9 \in Choices[9], p10 \in Choices[10], p11 \in Choices[11], p12 \in Choices[12]}
=============================================================================
