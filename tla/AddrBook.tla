------------------------------ MODULE AddrBook ------------------------------
(***************************************************************************)
(* What the address manager promises, without buckets, ids and counters:   *)
(* a book of hosts, some only heard of and some reached before.  A message *)
(* costs at most one host that was only heard of; a host that was reached  *)
(* is given up in two steps, first to the ones only heard of.  Starting    *)
(* again from what was dumped at the end changes nothing.                  *)
(***************************************************************************)
EXTENDS Naturals, FiniteSets

CONSTANTS Hosts, NewCapacity, TriedCapacity

VARIABLES new, tried

book == <<new, tried>>

AtMostOne(S) == {T \in SUBSET S : Cardinality(T) <= 1}

BookInit == new = {} /\ tried = {}

\* A host is heard of for the first time (Add_).
Learn(h) ==
    /\ h \notin new \cup tried
    /\ \E gone \in AtMostOne(new) : new' = (new \ gone) \cup {h}
    /\ Cardinality(new') <= NewCapacity
    /\ UNCHANGED tried

\* It is heard of again, and takes more room (Add_).
HearAgain(h) ==
    /\ h \in new
    /\ \E gone \in AtMostOne(new \ {h}) : new' = new \ gone
    /\ UNCHANGED tried

\* It is reached (Good_).
Reach(h) ==
    /\ h \in new
    /\ \E back \in AtMostOne(tried) :
          /\ tried' = (tried \ back) \cup {h}
          /\ new' = (new \ {h}) \cup back
    /\ Cardinality(tried') <= TriedCapacity

BookNext == \E h \in Hosts : Learn(h) \/ HearAgain(h) \/ Reach(h)

BookSpec == BookInit /\ [][BookNext]_book
=============================================================================
