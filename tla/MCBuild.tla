------------------------------ MODULE MCBuild ------------------------------
(***************************************************************************)
(* Three sources, two of which have one output (one is a link).            *)
(***************************************************************************)
EXTENDS Build

CONSTANTS a, b, link, pageA, pageB

InOrder == <<a, b, link>>
Walks == {SelectSeq(InOrder, LAMBDA s : s \in S) : S \in SUBSET {a, b, link}}
Pages == [s \in {a, b, link} |-> IF s = b THEN pageB ELSE pageA]
=============================================================================
