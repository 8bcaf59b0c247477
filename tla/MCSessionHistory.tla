-------------------------- MODULE MCSessionHistory --------------------------
(***************************************************************************)
(* Small instances of SessionHistory for TLC: one reader, in the process   *)
(* of the first writer, and the configs that tell the walks apart.         *)
(***************************************************************************)
EXTENDS SessionHistory, MCSessionSegments

CONSTANT r1             \* the reader

ReadsAtP1 == r1 :> p1

Config(n, a) == [recent |-> n, after |-> a]
PlainOnly   == {Config(None, None)}
AfterOne    == {Config(None, 1)}
EveryConfig == {Config(n, a) : n \in {None, 0, 1, 2}, a \in {None, 2, 3}}
LooseConfigs == {Config(None, None), Config(2, None)}
=============================================================================
