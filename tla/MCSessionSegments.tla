------------------------- MODULE MCSessionSegments -------------------------
(***************************************************************************)
(* Small instances of SessionSegments for TLC.  Events are 1, 2, ... in    *)
(* the order of their timestamps; a record holds entries of total size     *)
(* Capacity.                                                               *)
(***************************************************************************)
EXTENDS SessionSegments, FiniteSetsExt, TLC

CONSTANTS
    t1, t2, p1, p2,     \* tasks and processes
    Capacity,           \* max-record-size, in units of Size
    Sizes               \* Sizes[e]: size of event e

MCFits(S) == MapThenSumSet(LAMBDA k : Sizes[k[2]], S) <= Capacity

\* Placement of the tasks.
TwoProcesses == t1 :> p1 @@ t2 :> p2
OneProcess   == t1 :> p1 @@ t2 :> p1
OneTask      == t1 :> p1

\* Event timestamps, state deltas and sizes.
InTurn       == [e \in Events |-> e]
NoDelta      == [e \in Events |-> {}]
SecondHasDelta == [e \in Events |-> IF e = 2 THEN {"session"} ELSE {}]
AllDelta     == [e \in Events |-> {"session"}]
Unit         == [e \in Events |-> 1]
Two          == [e \in Events |-> 2]
SecondIsTwo  == [e \in Events |-> IF e = 2 THEN 2 ELSE 1]
ThirdIsTwo    == [e \in Events |-> IF e = 3 THEN 2 ELSE 1]
ThirdTooBig  == [e \in Events |-> IF e = 3 THEN 3 ELSE 2]
ThirdHasDelta == [e \in Events |-> IF e = 3 THEN {"session"} ELSE {}]
Unstamped    == [e \in Events |-> 0]
=============================================================================
