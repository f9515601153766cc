------------------------------- MODULE MCMiner -------------------------------
(***************************************************************************)
(* An instance of Miner: two branches above m-n, a1 and b1-b2.  t and v    *)
(* spend the same coin, t in a1 and v in b1; u spends t, w spends the      *)
(* coinbase of n.                                                          *)
(***************************************************************************)
EXTENDS Miner, TLC

CONSTANTS g, m, n, a1, b1, b2, cm, cn, ca1, cb1, cb2, t, u, v, w

MCBlocks == {g, m, n, a1, b1, b2}
MCPrev == g :> None @@ m :> g @@ n :> m @@ a1 :> n @@ b1 :> n @@ b2 :> b1
MCAnc == [b \in MCBlocks |->
            LET up[c \in MCBlocks] == IF c = g THEN {g} ELSE {c} \cup up[MCPrev[c]]
            IN  up[b]]
MCHeight == [b \in MCBlocks |-> Cardinality(MCAnc[b]) - 1]
MCTrust == g :> 0 @@ m :> 1 @@ n :> 2 @@ a1 :> 3 @@ b1 :> 3 @@ b2 :> 4
MCTx == {cm, cn, ca1, cb1, cb2, t, u, v, w}
MCCoinBases == {cm, cn, ca1, cb1, cb2}
MCvtx == g :> <<>> @@ m :> <<cm>> @@ n :> <<cn>> @@ a1 :> <<ca1, t>>
         @@ b1 :> <<cb1, v>> @@ b2 :> <<cb2>>
MCOutPoints == MCTx \X {0}
Ins == t :> {<<cm, 0>>} @@ v :> {<<cm, 0>>} @@ u :> {<<t, 0>>} @@ w :> {<<cn, 0>>}
MCVin == Ins @@ [s \in MCTx |-> {}]
MCProof == [b \in MCBlocks |-> None]
=============================================================================
