---------------------------- MODULE MCLspServer ----------------------------
(***************************************************************************)
(* Small instances of LspServer: two documents that read a file in common,  *)
(* edited with and without ranges, several changes at a time.              *)
(***************************************************************************)
EXTENDS LspServer

CONSTANTS d1, d2, file, x, y

Whole(text) == [range |-> None, text |-> text]
Range1(from, to, text) == [range |-> <<from, to>>, text |-> text]

\* The second change of a list depends on the first; one range ends behind the
\* text.
SomeEdits ==
  {<<Whole(<<x, y>>)>>, <<Range1(0, 1, <<y>>), Range1(1, 3, <<x>>)>>}

BothRead == [d \in {d1, d2} |-> {file}]
=============================================================================
