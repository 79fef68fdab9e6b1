------------------------- MODULE MCTokenResolution -------------------------
(***************************************************************************)
(* Small instances of TokenResolution: every registry over the definitions *)
(* below, visited in every order.                                          *)
(***************************************************************************)
EXTENDS TokenResolution, TLC

CONSTANTS s, t, u

Definitions(m, readable, outcomes) ==
  [mentions: m, reads: readable, outcome: outcomes]
Pairs == {m \in [1..2 -> {s, t, u}] : m[1] # m[2]}

\* Up to two mentions; all of them are read, or the first is not.
MixedDefinitions ==
  Definitions({<<>>}, {{}}, {"scalar", "composite", "error", "rejected_part"})
    \cup UNION {Definitions({<<a>>}, {{}, {a}}, {"scalar"}) : a \in {s, t, u}}
    \cup UNION {Definitions({m}, {{m[2]}, {m[1], m[2]}}, {"scalar"}) : m \in Pairs}

=============================================================================
