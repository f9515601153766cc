---------------------------- MODULE MCAliasIndex ----------------------------
(***************************************************************************)
(* An instance of AliasIndex: above g-m, a branch a1-a2-a3 and a branch    *)
(* b1-b2-b3 that overtakes it twice.  Alias p is set in m, relayed in a1   *)
(* and set again in a3, when it has just expired, or b1, when it has not;  *)
(* alias q is set in a1 and in b2, and relayed in b3.                      *)
(***************************************************************************)
EXTENDS AliasIndex, TLC

CONSTANTS g, m, a1, a2, a3, b1, b2, b3, cm, c2, c3, sp, rp, sp2, sp3, sq, sq2, rq, p, q

MCBlocks == {g, m, a1, a2, a3, b1, b2, b3}
MCPrev == g :> None @@ m :> g @@ a1 :> m @@ a2 :> a1 @@ a3 :> a2 @@ b1 :> m @@ b2 :> b1 @@ b3 :> b2
MCAnc == [b \in MCBlocks |->
            LET up[c \in MCBlocks] == IF c = g THEN {g} ELSE {c} \cup up[MCPrev[c]]
            IN  up[b]]
MCHeight == [b \in MCBlocks |-> Cardinality(MCAnc[b]) - 1]
MCTrust == g :> 0 @@ m :> 1 @@ a1 :> 3 @@ a2 :> 5 @@ a3 :> 8 @@ b1 :> 2 @@ b2 :> 4 @@ b3 :> 7
MCTx == {cm, c2, c3, sp, rp, sp2, sp3, sq, sq2, rq}
MCvtx == g :> <<>> @@ m :> <<cm, sp>> @@ a1 :> <<c2, rp, sq>> @@ a2 :> <<c3>> @@ a3 :> <<sp2>>
         @@ b1 :> <<c2, sp3>> @@ b2 :> <<sq2>> @@ b3 :> <<rq>>
MCOutPoints == (MCTx \X {0}) \cup ({cm} \X {1, 2, 3, 4, 5})
MCVin == sp :> {<<cm, 0>>} @@ rp :> {<<sp, 0>>} @@ sq :> {<<cm, 1>>} @@ sp2 :> {<<cm, 2>>}
         @@ sp3 :> {<<cm, 3>>} @@ sq2 :> {<<cm, 4>>} @@ rq :> {<<sq2, 0>>} @@ [t \in MCTx |-> {}]
MCOp == sp :> "set" @@ sp2 :> "set" @@ sp3 :> "set" @@ sq :> "set" @@ sq2 :> "set"
        @@ rp :> "relay" @@ rq :> "relay" @@ [t \in MCTx |-> "none"]
MCAliasOf == [t \in MCTx |-> IF t \in {sq, sq2, rq} THEN q ELSE p]
MCProof == [b \in MCBlocks |-> None]

ASSUME MCRelays == RelaysSpend
=============================================================================
