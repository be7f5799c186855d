---------------------------- MODULE MCCoreCalls ----------------------------
(***************************************************************************)
(* Inputs around every boundary of the functions of src/core.              *)
(***************************************************************************)
EXTENDS CoreCalls

\* Exponents below, at and above the three bytes of the mantissa and the size of
\* a target, with every mantissa and both signs.
MCCompactTargets == [exponent : 0 .. Size + 3, low : 0 .. Power(Base, 3) - 1]

\* From quotients far beyond the top byte to quotients below one; with zero, a
\* negative number, infinity (1/0) and NaN (0/0).
MCDifficulties ==
    [num : {1, 2, 3, 5, 7, 16, 60}, den : {1, 2, 3, 64, 272, 273, 274, 1024, 4096}]
    \cup [num : {-1, 0}, den : {1}] \cup [num : {0, 1}, den : {0}]

\* Lengths around the end of a block and of the room for the length field.
MCMessages ==
    {m \in [length : {0, 1, 3, 54, 55, 56, 57, 63, 64, 65, 118, 119, 120, 127, 128, 129},
            cut : {0, 1, 55, 64, 128}] : m.cut <= m.length}

\* Fields whose digits all differ from their neighbours.
Text(n, start) == [k \in 1..n |-> (7 * k + start + (k \div 8)) % 16]
GoodJob == [coinb1 |-> Text(4, 1), coinb2 |-> Text(6, 2), version |-> Text(8, 3),
            prevhash |-> Text(64, 4), ntime |-> Text(8, 5), nbits |-> Text(8, 6)]

\* One field cut short, of odd length, or with a foreign character at an end.
Spoiled(text) ==
    {SubSeq(text, 1, Len(text) - 1), SubSeq(text, 1, Len(text) - 2),
     [text EXCEPT ![1] = NotHex], [text EXCEPT ![Len(text)] = NotHex]}
Fields == {"coinb1", "coinb2", "version", "prevhash", "ntime", "nbits"}
SpoiledJobs ==
    UNION {{[GoodJob EXCEPT ![f] = text] : text \in Spoiled(GoodJob[f])} : f \in Fields}

Txs(n) == [k \in 1..n |-> <<"tx", k>>]
MCBuilds ==
    [job : {GoodJob}, txs : {Txs(n) : n \in 0..5}, extranonce1 : {<<>>, Text(2, 9)},
     size : 0..2, counter : {0, 1, 255, 256, 65535, 66051}]
    \cup [job : SpoiledJobs, txs : {Txs(2)}, extranonce1 : {Text(2, 9), Text(4, 9)},
          size : {1}, counter : {7}]

MCGrindNonces == {0, 255, 256, 16909060}
=============================================================================
