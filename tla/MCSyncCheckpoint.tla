-------------------------- MODULE MCSyncCheckpoint --------------------------
(***************************************************************************)
(* After m the branch a1-a2-a3-a4 is heavier than b1-b2.  a2 and b2 use    *)
(* the same stake; a3 and a4 spend the same coin, so a4 is invalid.  The   *)
(* master names the blocks of branch b, or blocks that contradict.         *)
(***************************************************************************)
EXTENDS SyncCheckpoint, TLC

CONSTANTS bg, bm, ba1, ba2, ba3, bb1, bb2, ba4, xm, xa1, xa2, xa3, xb1, xb2, xa4, pay, pay2, sa, sb

MCBlocks == {bg, bm, ba1, ba2, ba3, bb1, bb2, ba4}
MCPrev   == bg :> None @@ bm :> bg @@ ba1 :> bm @@ ba2 :> ba1 @@ ba3 :> ba2 @@ bb1 :> bm @@ bb2 :> bb1 @@ ba4 :> ba3
MCAnc    == [b \in MCBlocks |->
               LET up[c \in MCBlocks] == IF c = bg THEN {bg} ELSE {c} \cup up[MCPrev[c]] IN up[b]]
MCHeight == [b \in MCBlocks |-> Cardinality(MCAnc[b]) - 1]
MCTrust  == bg :> 0 @@ bm :> 1 @@ ba1 :> 2 @@ ba2 :> 4 @@ ba3 :> 6 @@ bb1 :> 2 @@ bb2 :> 3 @@ ba4 :> 7
MCCoinBases  == {xm, xa1, xa2, xa3, xb1, xb2, xa4}
MCCoinStakes == {sa, sb}
MCTx     == MCCoinBases \cup MCCoinStakes \cup {pay, pay2}
MCvtx    == bg :> <<>> @@ bm :> <<xm>> @@ ba1 :> <<xa1>> @@ ba2 :> <<xa2, sa>> @@ ba3 :> <<xa3, pay>>
            @@ bb1 :> <<xb1, pay>> @@ bb2 :> <<xb2, sb>> @@ ba4 :> <<xa4, pay2>>
MCOutPoints == (MCTx \X {0}) \cup {<<xm, 1>>}
MCVin    == (pay :> {<<xm, 0>>} @@ pay2 :> {<<xm, 0>>} @@ sa :> {<<xm, 1>>} @@ sb :> {<<xm, 1>>})
            @@ [t1 \in MCTx |-> {}]
MCProof  == (ba2 :> <<<<xm, 1>>, 5>> @@ bb2 :> <<<<xm, 1>>, 5>>) @@ [b \in MCBlocks |-> None]

MCPlans  == {{bb1, bb2}, {bb1, bb2, ba3, ba4}}
=============================================================================
