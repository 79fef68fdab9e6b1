---------------------------- MODULE MCOperators ----------------------------
(***************************************************************************)
(* The pure parts of the compiler and of the language server on bounded    *)
(* inputs.  A behaviour takes one input and ends; each property compares   *)
(* what the code computes for the inputs of its part with a reference.     *)
(***************************************************************************)
EXTENDS PureParts

CONSTANTS MaxInt, MaxDecimal, DiagnosticLimit

E == INSTANCE Expressions
X == INSTANCE Lexing
P == INSTANCE Parsing
L == INSTANCE Lists
-----------------------------------------------------------------------------
\* Expressions: up to two operators and a unary one; integers of three bits.
Leaves ==
  {E!Literal(E!IntegerOf(n)) : n \in {1, 2, MaxInt, MaxInt + 1}}
    \cup {E!Literal(v) : v \in {E!Bool(TRUE), E!Str(<<>>), E!Str(<<1>>), E!Decimal(3, 2)}}
    \cup {E!Path(p) : p \in {<<"low">>, <<"item", "x">>, <<"item", "y">>, <<"token", "size">>}}
Context ==
  [locals |-> [r \in {"item"} |-> E!Obj([f \in {"x"} |-> E!IntegerOf(-1)])],
   props |-> [r \in {"item", "low"} |-> IF r = "low" THEN E!IntegerOf(-MaxInt - 1) ELSE E!Null],
   tokens |-> [r \in {"size"} |-> E!Decimal(MaxDecimal, 1)],
   data |-> [r \in {"low", "token"} |-> E!Null]]
Leaf == {[node |-> "leaf", token |-> t] : t \in Leaves}
SomeOps == {"or", "and", "==", "<", "+", "-", "*", "/", "%"}
Binary(ops, ls, rs) ==
  {[node |-> "binary", op |-> o, left |-> l, right |-> r] : o \in ops, l \in ls, r \in rs}
UnaryOf(ts) == {[node |-> "unary", op |-> o, right |-> t] : o \in {"not", "-"}, t \in ts}
Small == Leaf \cup UnaryOf(Leaf) \cup Binary(UNION {E!Operators[k] : k \in 1..5}, Leaf, Leaf)
Pick == {l \in Leaf : l.token \in {E!Literal(E!IntegerOf(2)), E!Path(<<"item", "x">>),
                                   E!Path(<<"low">>), E!Literal(E!Bool(TRUE)),
                                   E!Path(<<"item", "y">>)}}
Medium == Binary(SomeOps, Pick, Pick)
Trees == Small \cup UnaryOf(Small) \cup Binary(SomeOps, Medium, Pick) \cup Binary(SomeOps, Pick, Medium)

Expressions == {[part |-> "expression", tree |-> t] : t \in Trees}

\* Every expression has the value the grammar gives it (expr.cpp:123-287).
ExpressionsEvaluate ==
  input.part = "expression" => E!EvaluatesAsWritten(input.tree, Context)

-----------------------------------------------------------------------------
\* Documents of up to three units; all texts of up to five characters.
Plainly(written, text) == X!Piece(written, "character", <<>>, <<>>, text)
LineEnd == Plainly(<<"\n">>, <<"\n">>)
Nothing(kind, written) == X!Piece(written, kind, <<>>, <<>>, <<>>)
Quoted == <<"\"", ")", "}", "\\", "\"", "\"">>
DocumentUnits ==
  {<<Plainly(<<c>>, <<c>>)>> : c \in {")", "/"}}
    \cup {<<Plainly(<<"@", c>>, t)>> : <<c, t>> \in {<<"@", <<"@">>>>, <<" ", <<"@", " ">>>>}}
    \cup {<<Nothing("line comment", <<"@", "/", "/", "@", "{">>), LineEnd>>,
          <<Nothing("block comment", <<"@", "*", "@", "{", "*", "@">>)>>}
    \cup {<<X!Piece(<<"@", "{">> \o t \o <<"}">>, "expression", <<>>, <<>>, t)>> :
            t \in {<<"a">>, <<"{">> \o Quoted \o <<"}">>}}
    \cup {<<X!Piece(<<"@", "A", "(">> \o t \o <<")">>, "open", <<"A">>, t, <<>>)>> :
            t \in {<<>>, <<"(">> \o Quoted \o <<")">>}}
    \cup {<<X!Piece(<<"@", "A", "a">>, "open", <<"A", "a">>, <<>>, <<>>)>>,
          <<X!Piece(<<"@", "P", ";">>, "self_closing", <<"P">>, <<>>, <<>>)>>,
          <<X!Piece(<<"@", "/", "A">>, "close", <<"A">>, <<>>, <<>>)>>,
          <<X!Piece(<<"@", "P">>, "open", <<"P">>, <<>>, <<>>),
            X!Piece(<<"@", "{", "@", "/", "A">>, "text", <<>>, <<>>, <<"@", "{", "@", "/", "A">>),
            X!Piece(<<"@", "/", "P">>, "close", <<"P">>, <<>>, <<>>)>>}
Characters == {"@", "/", "{", "}", "P", "(", ")", "*"}
SeqUpTo(S, n) == UNION {[1..k -> S] : k \in 0..n}

Documents == {[part |-> "document", units |-> u] : u \in SeqUpTo(DocumentUnits, 3)}
Texts == {[part |-> "text", text |-> t] : t \in SeqUpTo(Characters, 5)}

-----------------------------------------------------------------------------
\* Trees two constructs deep with definitions; the same with a token removed or
\* put in anywhere.
Word == <<[node |-> "text"]>>
Call(body, void) == <<[node |-> "call", name |-> "A", children |-> body, selfClosing |-> void]>>
Around(body) ==
  {Call(body, FALSE), <<[node |-> "fill", body |-> body]>>, <<[node |-> "for", body |-> body]>>,
   <<[node |-> "if", then |-> body, else |-> <<>>]>>,
   <<[node |-> "if", then |-> <<>>, else |-> body]>>}
Inner == {<<>>, Word, <<[node |-> "reference"]>>, Word \o Call(<<>>, TRUE)}
Outer == UNION {Around(body) : body \in Inner}
Deep == UNION {Around(body) : body \in Outer}
Bodies == Inner \cup Outer \cup Deep \cup {n \o m : n \in Outer, m \in {Word, <<[node |-> "include"]>>}}
Definitions ==
  {P!NoDefinitions}
    \cup {[components |-> ("A" :> [props |-> <<>>, slots |-> raw, template |-> <<body>>]),
           styles |-> ("B" :> raw), tokens |-> ("B" :> <<>>), media |-> <<raw>>] :
            raw \in {<<P!Text("ok")>>}, body \in {Word} \cup {n \in Outer : n[1].node = "if"}}
Nests == {[part |-> "nest", nodes |-> b, definitions |-> d] : b \in Bodies, d \in Definitions}

Originals ==
  {P!Written(b) : b \in Outer \cup Deep}
    \cup {P!WrittenDefinitions(d) \o P!Written(Word) : d \in Definitions}
Alphabet ==
  {P!Text("ok"), P!Open("A"), P!CloseOf("A"), P!Open("If"), P!CloseOf("If"), P!Open("Else"),
   P!CloseOf("Slot"), P!Void("Slot"), P!Void("Include"), P!Open("Template"), P!CloseOf("Template"),
   P!Open("Props"), P!CloseOf("DefineComponent")}
    \cup {P!Tok("open", "DefineComponent", name) : name \in {"B", "If", "lower", ""}}
Damaged ==
  UNION {{RemoveAt(o, i) : i \in DOMAIN o} : o \in Originals}
    \cup UNION {{InsertAt(o, i, t) : i \in 1..(Len(o) + 1), t \in Alphabet} : o \in Originals}
    \cup UNION {{ReplaceAt(o, i, t) : i \in DOMAIN o, t \in Alphabet} : o \in Originals}
Sequences == {[part |-> "tokens", tokens |-> t] : t \in Damaged}

-----------------------------------------------------------------------------
\* HTML of three pieces with rules for two classes, units of two sources, and
\* up to two media rules; style layers of two properties.
From(piece, origins) == [of |-> piece, origins |-> origins]
Rule(class, set) == [class |-> class, set |-> set]
Plain(rules) == [kind |-> "style", media |-> FALSE, rules |-> rules]
Tags ==
  {[kind |-> "tag", classes |-> c, style |-> s] :
     c \in {{}, {"x"}, {"x", "y"}}, s \in {<<>>, "color" :> "own"}}
Pieces ==
  {From(t, <<"a", "b">>) : t \in Tags}
    \cup {From([kind |-> "text"], o) : o \in {<<"a">>, <<"a", "b">>}}
    \cup {From([kind |-> "head"], <<"a", "a">>),
          From([kind |-> "style", media |-> TRUE, rules |-> <<>>], <<"b">>),
          From(Plain(<<Rule("x", "color" :> "first"), Rule("y", "color" :> "second")>>), <<"a", "b">>),
          From(Plain(<<Rule("y", "color" :> "third" @@ "margin" :> "0")>>), <<"a">>),
          From(Plain(<<Rule("x", "margin" :> "1")>>), <<"b">>)}
Pages ==
  {OfPage(s, m) :
     s \in SeqUpTo(Pieces, 3), m \in {<<>>, <<"m", "n">>}}
Sets == {<<>>, "color" :> "red", "color" :> "red" @@ "margin" :> "0"}
Layers ==
  {OfLayers([style |-> t], n, c, "one" :> s @@ "two" :> ("color" :> "blue")) :
     t \in Sets, n \in SeqUpTo({"one", "two", "none"}, 2), c \in Sets, s \in Sets}

-----------------------------------------------------------------------------
\* Texts of up to three characters, and of up to four bytes.
Lines == {OfCharacters(c, 2 * Len(c)) : c \in SeqUpTo(Character, 3)}
ByteTexts == {OfBytes(b) : b \in SeqUpTo(Byte \ {"newline"}, 4)}

-----------------------------------------------------------------------------
\* Two directories with a file of the same name in both, one too large, one with
\* another extension; links down, up and across; requests of up to four parts.
At(parts) == [absolute |-> TRUE, parts |-> parts]
Sized(size, contents) == [size |-> size, contents |-> contents]
Directories == {<<>>, <<"a">>, <<"b">>, <<"a", "c">>}
Files ==
  <<"a", "f.em">> :> Sized(1, "in a") @@ <<"b", "f.em">> :> Sized(MaximumBytes, "in b")
    @@ <<"a", "c", "g.em">> :> Sized(1, "in c") @@ <<"b", "g.em">> :> Sized(MaximumBytes + 1, "large")
    @@ <<"g.txt">> :> Sized(1, "no markup")
Links == {<<>>, <<"a", "l">> :> <<"b">>, <<"b", "l">> :> <<"a", "c">>, <<"l">> :> <<>>}
Disks == {[directories |-> Directories, files |-> Files, links |-> l] : l \in Links}
Open == {p \in DOMAIN Files : IsMarkup(p) /\ Files[p].size <= MaximumBytes}
Listed ==
  LET paths == SetToSeq(Open) IN
  [i \in DOMAIN paths |->
     [absolute |-> TRUE, size |-> Files[paths[i]].size, contents |-> Files[paths[i]].contents,
      parts |-> IF i = 1 THEN <<"b", "..">> \o paths[i] ELSE paths[i]]]
Requests ==
  {[absolute |-> abs, parts |-> d \o <<f>>] : abs \in BOOLEAN, f \in {"f.em", "g.em", "g.txt", "c"},
     d \in SeqUpTo({"..", "a", "c", "l"}, 2) \cup {<<"..", "l", "..">>, <<"..", "..", "l">>}}
Includes ==
  {OfInclude(d, Listed, Append(i, "f.em"), r, s, t) :
     d \in Disks, i \in {<<"a">>, <<"a", "c">>}, r \in Requests, s \in {<<>>, <<<<"b">>, <<"l">>>>},
     t \in {{}, {<<"b">>}, {<<"a", "..", "a">>, <<"l">>}}}

-----------------------------------------------------------------------------
\* Lists of up to three entries; strings and parentheses in their values.
Inside == {<<"v">>, <<"v", ",", "n", ":">>, <<"(", "v">>, <<")">>, <<"\\", "\"">>, <<"\\", "\\">>}
Values ==
  {<<"v">>} \cup {<<"\"">> \o t \o <<"\"">> : t \in Inside}
    \cup {<<"v", "(">> \o t \o <<")">> : t \in {<<>>, <<"v", ",", "\n", "v", ":", "v">>, <<"\"", ")", "\"">>}}
CssValues ==
  {<<"v">>, <<"v", ":", "v">>, <<"\"", ";", "(", "\"">>, <<"v", "(", ";", "(", ";", ")", ";", ")">>}
ASSUME CssValuesAreValues == \A v \in CssValues : IsValue(v)
Entries(names, values, n) == SeqUpTo([name : names, value : values], n)
Arguments ==
  {[part |-> "arguments", entries |-> e, mark |-> m] :
     e \in Entries({<<"n">>, <<"n", "m">>}, Values, 2), m \in {<<",">>, <<" ", "\n", " ">>}}
StyleTexts ==
  {OfDeclarations(e) :
     e \in Entries({<<"n">>, <<"N">>, <<"m", "n">>}, CssValues, 3)}

\* Documents and the arguments of their tags are cut into the pieces they were
\* written with, no two tokens overlap, the pieces nest as written, and nothing
\* that fails to is lost without a word (lexer.cpp:29-208, parser.cpp:36-382).
SyntaxAsWritten ==
  /\ input.part = "document" => X!LexesAsWritten(FlattenSeq(input.units))
  /\ input.part = "text" => X!RangesInOrder(input.text)
  /\ input.part = "nest" => P!ParsesAsWritten(input.nodes, input.definitions)
  /\ input.part = "tokens" => P!NothingLost(input.tokens)
  /\ input.part = "arguments" => L!ArgumentsAsWritten(input.entries, input.mark)

-----------------------------------------------------------------------------
Init ==
  \/ input \in Expressions \/ input \in Documents \/ input \in Texts
  \/ input \in Nests \/ input \in Sequences \/ input \in Pages \/ input \in Layers
  \/ input \in Lines \/ input \in ByteTexts \/ input \in Includes
  \/ input \in Arguments \/ input \in StyleTexts
Next == UNCHANGED input
Spec == Init /\ [][Next]_input
=============================================================================
