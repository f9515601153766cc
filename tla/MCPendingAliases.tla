-------------------------- MODULE MCPendingAliases --------------------------
(***************************************************************************)
(* An instance of PendingAliases, and of Mempool: two branches above m-n,  *)
(* a1-a2 and b1-b2-b3, that take turns in being the best; x above b1 is    *)
(* invalid and holds t.  t and v spend the same coin, t in branch a and v  *)
(* in branch b; u spends t, w spends v and is in b3, and z spends outputs  *)
(* of u and of y, which is in b2.  t and u are operations on one alias, y  *)
(* sets the other.                                                         *)
(***************************************************************************)
EXTENDS PendingAliases, TLC

CONSTANTS g, m, n, a1, a2, b1, b2, b3, x, cm, cn, ca1, ca2, cb1, cb2, cb3, cx,
          t, u, v, w, y, z, name1, name2

MCBlocks == {g, m, n, a1, a2, b1, b2, b3, x}
MCPrev == g :> None @@ m :> g @@ n :> m @@ a1 :> n @@ a2 :> a1 @@ 
          b1 :> n @@ b2 :> b1 @@ b3 :> b2 @@ x :> b1
MCAnc == [b \in MCBlocks |->
            LET up[c \in MCBlocks] == IF c = g THEN {g} ELSE {c} \cup up[MCPrev[c]]
            IN  up[b]]
MCHeight == [b \in MCBlocks |-> Cardinality(MCAnc[b]) - 1]
MCTrust == g :> 0 @@ m :> 1 @@ n :> 2 @@ a1 :> 3 @@ a2 :> 5 @@ b1 :> 3 @@ b2 :> 4 @@ b3 :> 6 @@ x :> 7
MCTx == {cm, cn, ca1, ca2, cb1, cb2, cb3, cx, t, u, v, w, y, z}
MCCoinBases == {cm, cn, ca1, ca2, cb1, cb2, cb3, cx}
MCvtx == g :> <<>> @@ m :> <<cm>> @@ n :> <<cn>> @@ a1 :> <<ca1, t>> @@ a2 :> <<ca2>>
         @@ b1 :> <<cb1, v>> @@ b2 :> <<cb2, y>> @@ b3 :> <<cb3, w>> @@ x :> <<cx, t>>
MCOutPoints == (MCTx \X {0}) \cup {<<cm, 1>>}
Ins == t :> {<<cm, 0>>} @@ v :> {<<cm, 0>>} @@ u :> {<<t, 0>>} @@ w :> {<<v, 0>>}
       @@ y :> {<<cm, 1>>} @@ z :> {<<u, 0>>, <<y, 0>>}
MCVin == Ins @@ [s \in MCTx |-> {}]
MCProof == [b \in MCBlocks |-> None]
MCOp == t :> "other" @@ u :> "other" @@ y :> "set" @@ [s \in MCTx |-> "none"]
MCAliasOf == y :> name2 @@ [s \in MCTx |-> name1]
=============================================================================
