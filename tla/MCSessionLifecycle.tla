------------------------ MODULE MCSessionLifecycle -------------------------
(***************************************************************************)
(* Small instances of SessionLifecycle for TLC.  A session of its own for  *)
(* each kind of life: s1 and s2 are listed while they change, s3 is        *)
(* deleted under appends, s4 is created anew by another process.           *)
(***************************************************************************)
EXTENDS SessionLifecycle

CONSTANTS s1, s2, s3, s4, c1, c2, c3, c4, c5, d1, d2, d3, d4, d5, l1, l2, g1,
          a1, a2, a3, a4, a5, a6, p1, p2

SidOf(t) ==
    IF t = c2 THEN s2
    ELSE IF t \in {c3, d3, a2, a3} THEN s3
    ELSE IF t \in {c4, c5, d4, d5, g1, a4, a5, a6} THEN s4
    ELSE s1
Session     == [t \in OnSession |-> SidOf(t)]
OneProcess  == [t \in Tasks |-> p1]
Moves       == [t \in Tasks |-> IF t = c5 THEN p2 ELSE p1]
DeleteMoves == [t \in Tasks |-> IF t \in {c5, d4} THEN p2 ELSE p1]

Listed    == {c1, c2, d1, d2, l1, a1}
Deleted   == {c3, d3, a2, a3}
Recreated == {c4, c5, d4, d5, g1, a4, a5, a6}
Lives     == {Listed \ {d2}, Listed \ {c2}, Deleted, Recreated \ {d5}, Recreated \ {a6}}
Together  == {Tasks}
=============================================================================
