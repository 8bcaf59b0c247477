-------------------------- MODULE MCMemoryPostings --------------------------
(***************************************************************************)
(* Small instances of MemoryPostings for TLC.  The first session is added  *)
(* twice, its events changed in between; two other sessions are ingested   *)
(* beside it.  Only the list of blue outgrows the limit.                   *)
(***************************************************************************)
EXTENDS MemoryPostings, TLC

CONSTANTS
    a1, a2, i1, i2, q1,     \* calls
    s1, s2, s3,             \* sessions
    e1, e2, e3, e4,         \* events
    Red, red, blue, green, the  \* words

E(eid, words, ts) == [eid |-> eid, words |-> words, ts |-> ts, text |-> TRUE]

MCLower   == [w \in Words |-> IF w = Red THEN red ELSE w]
MCSession == [t \in Writers |-> CASE t \in Adders -> s1 [] t = i1 -> s2 [] OTHER -> s3]
MCQuery   == [q \in Searchers |-> {Red, the}]
MCInput   == [t \in Writers |->
    CASE t = a1 -> <<E(e1, {Red, the}, 1), [E(e2, {}, 1) EXCEPT !.text = FALSE], E(e3, {the}, 1)>>
      [] t = a2 -> <<E(e1, {red, green}, 3)>>
      [] t = i1 -> <<E(e2, {red, blue}, 2)>>
      [] OTHER  -> <<E(e3, {blue}, 3), E(e3, {blue}, 3), E(e4, {blue}, 4)>>]

\* One event, given to every writer.
OneSession == [t \in Writers |-> s1]
OneEvent   == [t \in Writers |-> <<E(e1, {red}, 1)>>]
=============================================================================
