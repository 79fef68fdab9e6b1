------------------------------ MODULE MCLoader ------------------------------
(***************************************************************************)
(* Small instances of Loader.  Every run explores every assignment of the  *)
(* texts below to the files, and every request below.                      *)
(***************************************************************************)
EXTENDS Loader, TLC

CONSTANTS e, a, b, c, x, y

Doc(includes, defines) ==
  [form |-> "ok", includes |-> includes, defines |-> defines, nodes |-> 1,
   errors |-> 0]
SeqsUpTo(S, n) == UNION {[1..k -> S] : k \in 0..n}
Request(texts, imports, shells) ==
  [source: texts, imports: imports, shell: shells]

\* Every include graph over three files with at most two includes each, the
\* self-loops included, and one document that is over the AST limit.  All of them
\* define x, and some y.
GraphDoc(includes) == Doc(includes, IF Len(includes) = 1 THEN {x, y} ELSE {x})
LargeDoc == [GraphDoc(<<a>>) EXCEPT !.nodes = MaxAstNodes + 1]
GraphTexts == {GraphDoc(s) : s \in SeqsUpTo({e, a, b}, 2)} \cup {LargeDoc}
GraphRequests ==
  Request({GraphDoc(s) : s \in {<<>>, <<b>>, <<a, b>>, <<b, b>>}}, {<<>>, <<a>>}, {None, b})

\* Broken includes and broken files, two nodes in one of them.
FaultyTexts ==
  {Doc(s, {x}) : s \in SeqsUpTo({b, c}, 1) \cup {<<b, Unresolved>>, <<Unquoted, a>>}}
    \cup {[Doc(<<a>>, {}) EXCEPT !.nodes = 3],
          [Doc(<<c>>, {x}) EXCEPT !.errors = 1],
          [Doc(<<>>, {}) EXCEPT !.form = "oversized"],
          [Doc(<<>>, {}) EXCEPT !.form = "invalid_utf8"]}
FaultyRequests ==
  Request({Doc(<<>>, {x}), Doc(<<b, Unresolved>>, {x}), [Doc(<<a>>, {}) EXCEPT !.nodes = 3]},
          {<<>>, <<a, b>>, <<Unresolved>>}, {None, c, Unresolved})
\* Nothing there includes the entry, so that one text stands for all that its own
\* path may have on the disk.
FaultyInit == Init /\ disk[e] = request.source
FaultySpec == FaultyInit /\ [][Next]_vars /\ WF_vars(LoadStep)

\* The files of the run that disagrees with what is documented.
SmallTexts == {Doc(s, {x}) : s \in SeqsUpTo({a, b}, 1) \cup {<<e>>}}
SmallRequests == Request(SmallTexts, {<<>>, <<a>>, <<a, b>>}, {None})
=============================================================================
