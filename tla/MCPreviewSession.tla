-------------------------- MODULE MCPreviewSession --------------------------
(***************************************************************************)
(* Two documents in two versions, the second of which need not compile.    *)
(***************************************************************************)
EXTENDS PreviewSession

CONSTANTS d1, d2, data

SomeCompile == [d \in {d1, d2} |-> IF d = d1 THEN {1, 2} ELSE {1}]
=============================================================================
