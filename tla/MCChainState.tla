---------------------------- MODULE MCChainState ----------------------------
(***************************************************************************)
(* An instance of ChainState: the block m, a lighter branch a1-a2 with the *)
(* tips d and f, and a heavier one b1-b2-b3-x-e.  x is invalid; t and v    *)
(* spend the same coin, so d is invalid too; a2 and b2 use the same stake; *)
(* e stakes a coin of b3, which only a node on that branch can look up.    *)
(***************************************************************************)
EXTENDS ChainState, TLC

CONSTANTS g, m, a1, a2, d, b1, b2, b3, x, e, f,
          cm, ca1, ca2, cd, cb1, cb2, cb3, cx, ce, cf, t, u, v, w, s1, s2, s3

MCBlocks == {g, m, a1, a2, d, b1, b2, b3, x, e, f}
MCPrev == g :> None @@ m :> g @@ a1 :> m @@ a2 :> a1 @@ d :> a2
          @@ b1 :> m @@ b2 :> b1 @@ b3 :> b2 @@ x :> b3 @@ e :> x @@ f :> a2
MCAnc == [b \in MCBlocks |->
            LET up[c \in MCBlocks] == IF c = g THEN {g} ELSE {c} \cup up[MCPrev[c]]
            IN  up[b]]
MCHeight == [b \in MCBlocks |-> Cardinality(MCAnc[b]) - 1]
MCTrust == g :> 0 @@ m :> 1 @@ a1 :> 2 @@ a2 :> 3 @@ d :> 7
           @@ b1 :> 2 @@ b2 :> 3 @@ b3 :> 5 @@ x :> 6 @@ e :> 9 @@ f :> 8
MCTx == {cm, ca1, ca2, cd, cb1, cb2, cb3, cx, ce, cf, t, u, v, w, s1, s2, s3}
MCCoinBases == {cm, ca1, ca2, cd, cb1, cb2, cb3, cx, ce, cf}
MCCoinStakes == {s1, s2, s3}
MCvtx == g :> <<>> @@ m :> <<cm>>
         @@ a1 :> <<ca1, t>> @@ a2 :> <<ca2, s1, u>> @@ d :> <<cd, v>>
         @@ b1 :> <<cb1>> @@ b2 :> <<cb2, s2, v, w>> @@ b3 :> <<cb3>> @@ x :> <<cx>> @@ e :> <<ce, s3>> @@ f :> <<cf>>
MCOutPoints == (MCTx \X {0}) \cup {<<cm, 1>>}
Ins == t :> {<<cm, 0>>} @@ v :> {<<cm, 0>>} @@ u :> {<<t, 0>>} @@ w :> {<<v, 0>>}
       @@ s1 :> {<<cm, 1>>} @@ s2 :> {<<cm, 1>>} @@ s3 :> {<<cb3, 0>>}
MCVin == Ins @@ [z \in MCTx |-> {}]
MCProof == a2 :> <<<<cm, 1>>, 5>> @@ b2 :> <<<<cm, 1>>, 5>> @@ e :> <<<<cb3, 0>>, 9>> @@ [b \in MCBlocks |-> None]

OnHeaviest == \A b \in ValidBlocks : nChainTrust[b] <= nChainTrust[pindexBest]

\* A node that is never stopped ends up on the heaviest valid chain that exists
\* and stays there, although a block with a stake seen before is dropped, and a
\* stake of the other branch is not found (ProcessBlock, CheckProofOfStake).
ConvergesUnlessRestarted == <>[](restarts > 0 \/ OnHeaviest)

\* The node ends up on the heaviest valid chain that exists and stays there,
\* restarted or not: "pnext will only point forward to the longest branch"
\* (main.h).
Converges == <>[]OnHeaviest
=============================================================================
