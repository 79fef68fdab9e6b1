------------------------------ MODULE Parsing ------------------------------
(***************************************************************************)
(* The parser: class Parser (email-markup-core/src/parser.cpp), from the   *)
(* tokens of the lexer to a document.                                      *)
(*                                                                         *)
(* A token has a kind, a name, and "given", what the parser asks of its    *)
(* parameters or text: "missing", "malformed", or else "ok" or the name    *)
(* that is defined, which may be the empty string; a text that is all      *)
(* blanks is "missing".  Nodes keep what they contain and no ranges.       *)
(***************************************************************************)
EXTENDS Integers, SequencesExt

CONSTANT DiagnosticLimit

\* Mutant: a slot needs a body.
BlockKeywordsWithSlot ==
  {"DefineComponent", "DefineStyle", "Props", "Slots", "Template", "Media", "If", "For", "Slot"}
BlockKeywords ==
  {"DefineComponent", "DefineStyle", "Props", "Slots", "Template", "Media", "If", "For"}
ReservedKeywords == BlockKeywords \cup {"DefineToken", "Else", "Slot", "Include"}
\* Of the names considered, the one that does not start with a capital letter.
Misspelt == {"lower"}

Tok(kind, name, given) == [kind |-> kind, name |-> name, given |-> given]
Text(given) == Tok("text", "", given)
Expression == Tok("expression", "", "ok")
Open(name) == Tok("open", name, "ok")
Void(name) == Tok("self_closing", name, "ok")
CloseOf(name) == Tok("close", name, "ok")
End == Tok("end", "", "ok")

\* The state of a parse: the tokens, the index, the diagnostics, the definitions
\* so far, and what the last call returned.
NoDefinitions == [components |-> <<>>, styles |-> <<>>, tokens |-> <<>>, media |-> <<>>]
Peek(p) == p.tokens[p.at]
IsTag(token) == token.kind \in {"open", "self_closing"}
Advance(p) == [p EXCEPT !.at = @ + 1]
Returning(p, result) == [p EXCEPT !.result = result]
Error(p, code) ==
  IF Len(p.codes) < DiagnosticLimit THEN [p EXCEPT !.codes = Append(@, code)] ELSE p
Unless(p, condition, code) == IF condition THEN p ELSE Error(p, code)
Given(token) == token.given \notin {"missing", "malformed", ""}
\* A definition replaces one of the same name.
Define(p, kind, token, definition) ==
  IF Given(token) THEN [p EXCEPT !.document[kind] = (token.given :> definition) @@ @] ELSE p

\* Without its closing tag a construct ends at the next tag that opens one, or
\* behind the closing tag if that comes first.
RECURSIVE Recover(_, _)
Recover(p, name) ==
  CASE Peek(p).kind = "end" \/ IsTag(Peek(p)) -> p
    [] Peek(p).kind = "close" /\ Peek(p).name = name -> Advance(p)
    [] OTHER -> Recover(Advance(p), name)
\* Mutant: any closing tag closes.
CloseAny(p, name) ==
  IF Peek(p).kind = "close" THEN Advance(p) ELSE Recover(Error(p, "EM0205"), name)
Close(p, name) ==
  IF Peek(p).kind = "close" /\ Peek(p).name = name THEN Advance(p)
  ELSE Recover(Error(p, "EM0205"), name)

-----------------------------------------------------------------------------
RECURSIVE Nodes(_, _, _, _), Tag(_, _), ComponentBody(_, _)

\* raw_body.
RawBody(p, name) ==
  LET has == Peek(p).kind = "text" IN
  Returning(Close(IF has THEN Advance(p) ELSE p, name), IF has THEN <<Peek(p)>> ELSE <<>>)

\* The nodes up to a closing tag or one of the stops, after those of "before".
Nodes(p, stops, top, before) ==
  LET token == Peek(p) IN
  CASE token.kind \in {"end", "close"} \/ (IsTag(token) /\ token.name \in stops) ->
         Returning(p, before)
    [] token.kind = "text" ->
         Nodes(Advance(p), stops, top,
               IF token.given = "missing" THEN before ELSE Append(before, [node |-> "text"]))
    [] token.kind = "expression" ->
         Nodes(Advance(p), stops, top, Append(before, [node |-> "expression"]))
    [] token.kind = "invalid" -> Nodes(Advance(p), stops, top, before)
    [] IsTag(token) /\ token.name \notin stops ->
         LET parsed == Tag(p, top) IN Nodes(parsed, stops, top, before \o parsed.result)

\* The body of a construct and its closing tag.
Body(p, name) == LET body == Nodes(p, {}, FALSE, <<>>) IN Close(body, name)

ParseIf(p, token) ==
  LET then == Nodes(Unless(p, token.given = "ok", "EM0220"), {"Else"}, FALSE, <<>>)
      has == IsTag(Peek(then)) /\ Peek(then).name = "Else"
      else == IF has THEN Nodes(Advance(then), {}, FALSE, <<>>) ELSE Returning(then, <<>>)
  IN Returning(Close(else, "If"),
               <<[node |-> "if", then |-> then.result, else |-> else.result]>>)

ParseFor(p, token) ==
  LET q == Body(Unless(p, token.given = "ok", "EM0221"), "For") IN
  Returning(q, <<[node |-> "for", body |-> q.result]>>)

ParseSlot(p, token) ==
  IF token.kind = "self_closing" THEN Returning(p, <<[node |-> "reference"]>>)
  ELSE LET q == Body(p, "Slot") IN Returning(q, <<[node |-> "fill", body |-> q.result]>>)

ParseInclude(p, token, top) ==
  Returning(Unless(p, top /\ token.kind = "self_closing", "EM0222"), <<[node |-> "include"]>>)

\* The parameters of a call have diagnostics of their own, without a limit.
ParseCall(p, token) ==
  LET q == IF token.given = "ok" THEN p ELSE [p EXCEPT !.codes = Append(@, "EM0202")]
      body == IF token.kind = "self_closing" THEN Returning(q, <<>>) ELSE Body(q, token.name)
  IN Returning(body, <<[node |-> "call", name |-> token.name, children |-> body.result,
                        selfClosing |-> token.kind = "self_closing"]>>)

\* definition_name: the name is left out or not a string.
Named(p, token) ==
  CASE token.given = "missing" -> Error(p, "EM0230")
    [] token.given = "malformed" -> Error(p, "EM0231")
    [] OTHER -> p

\* The blocks of a component definition, d so far; a block that comes twice is
\* replaced.
ComponentBody(p, d) ==
  LET token == Peek(p)  q == Advance(p) IN
  CASE token.kind = "end" \/ (token.kind = "close" /\ token.name = "DefineComponent") ->
         Returning(p, d)
    [] token.kind = "text" /\ token.given = "missing" -> ComponentBody(q, d)
    [] token.kind = "open" ->
         (CASE token.name = "Props" -> LET r == RawBody(q, "Props") IN
                 ComponentBody(r, [d EXCEPT !.props = r.result])
            [] token.name = "Slots" -> LET r == RawBody(q, "Slots") IN
                 ComponentBody(r, [d EXCEPT !.slots = r.result])
            [] token.name = "Template" -> LET r == Body(q, "Template") IN
                 ComponentBody(r, [d EXCEPT !.template = <<r.result>>])
            [] OTHER -> ComponentBody(Body(Error(q, "EM0235"), token.name), d))
    [] OTHER -> ComponentBody(Advance(Error(p, "EM0234")), d)

\* A name that is refused is defined all the same, unless it is empty.
ParseComponentDefinition(p, token, top) ==
  LET named == Unless(Named(Unless(p, top, "EM0232"), token),
                      Given(token) /\ token.given \notin Misspelt \cup ReservedKeywords, "EM0233")
      body == ComponentBody(named, [props |-> <<>>, slots |-> <<>>, template |-> <<>>])
      closed == Unless(Close(body, "DefineComponent"), body.result.template # <<>>, "EM0236")
  IN Returning(Define(closed, "components", token, body.result), <<>>)

ParseStyleDefinition(p, token, top) ==
  LET named == Named(Unless(p, top, "EM0240"), token)
      body == RawBody(named, "DefineStyle")
      checked == Unless(body, \A i \in DOMAIN body.result : body.result[i].given # "malformed",
                        "EM0241")
  IN Returning(Define(checked, "styles", token, body.result), <<>>)

ParseTokenDefinition(p, token, top) ==
  LET q == Unless(p, top /\ token.kind = "self_closing", "EM0242") IN
  Returning(Define(Unless(q, Given(token), "EM0243"), "tokens", token, <<>>), <<>>)

ParseMedia(p, token, top) ==
  LET q == Unless(Unless(p, top, "EM0250"), token.given = "ok", "EM0251")
      body == RawBody(q, "Media")
  IN Returning([body EXCEPT !.document.media = Append(@, body.result)], <<>>)

Tag(p0, top) ==
  LET token == Peek(p0)  p == Advance(p0) IN
  CASE token.name \in BlockKeywords /\ token.kind = "self_closing" ->
         Returning(Error(p, "EM0210"), <<>>)
    [] OTHER ->
       CASE token.name = "If" -> ParseIf(p, token)
         [] token.name = "For" -> ParseFor(p, token)
         [] token.name = "Slot" -> ParseSlot(p, token)
         [] token.name = "Include" -> ParseInclude(p, token, top)
         [] token.name = "DefineComponent" -> ParseComponentDefinition(p, token, top)
         [] token.name = "DefineStyle" -> ParseStyleDefinition(p, token, top)
         [] token.name = "DefineToken" -> ParseTokenDefinition(p, token, top)
         [] token.name = "Media" -> ParseMedia(p, token, top)
         [] token.name \in {"Else", "Props", "Slots", "Template"} ->
              Returning(Error(p, "EM0211"), <<>>)
         [] token.name \notin ReservedKeywords -> ParseCall(p, token)

\* Everything behind a closing tag that closes nothing is an unexpected one.
RECURSIVE Leftover(_)
Leftover(p) == IF Peek(p).kind = "end" THEN p ELSE Leftover(Advance(Error(p, "EM0204")))
Parse(tokens) ==
  LET p == Nodes([tokens |-> Append(tokens, End), at |-> 1, codes |-> <<>>,
                  document |-> NoDefinitions, result |-> <<>>], {}, TRUE, <<>>)
      q == Leftover(p)
  IN [nodes |-> p.result, definitions |-> q.document, codes |-> q.codes]

-----------------------------------------------------------------------------
(***************************************************************************)
(* The reference: documents as trees, and the tokens they are written as.  *)
(***************************************************************************)
Defining(name, given, body) == <<Tok("open", name, given)>> \o body \o <<CloseOf(name)>>
Around(name, body) == Defining(name, "ok", body)
RECURSIVE Written(_)
WrittenNode(n) ==
  CASE n.node = "text" -> <<Text("ok")>>
    [] n.node = "expression" -> <<Expression>>
    [] n.node = "reference" -> <<Void("Slot")>>
    [] n.node = "include" -> <<Void("Include")>>
    [] n.node = "fill" -> Around("Slot", Written(n.body))
    [] n.node = "for" -> Around("For", Written(n.body))
    [] n.node = "if" ->
         Around("If", Written(n.then) \o IF n.else = <<>> THEN <<>>
                                         ELSE <<Open("Else")>> \o Written(n.else))
    [] n.node = "call" ->
         IF n.selfClosing THEN <<Void(n.name)>> ELSE Around(n.name, Written(n.children))
Written(nodes) == FlattenSeq([i \in DOMAIN nodes |-> WrittenNode(nodes[i])])

WrittenEach(definitions, W(_)) ==
  LET names == SetToSeq(DOMAIN definitions) IN FlattenSeq([i \in DOMAIN names |-> W(names[i])])
WrittenDefinitions(ds) ==
  LET Component(name) ==
        LET d == ds.components[name] IN
        Defining("DefineComponent", name,
                 Around("Props", d.props) \o Around("Slots", d.slots)
                   \o Around("Template", Written(d.template[1])))
      Style(name) == Defining("DefineStyle", name, ds.styles[name])
      Token(name) == <<Tok("self_closing", "DefineToken", name)>>
  IN WrittenEach(ds.components, Component) \o WrittenEach(ds.styles, Style)
       \o WrittenEach(ds.tokens, Token)
       \o FlattenSeq([i \in DOMAIN ds.media |-> Around("Media", ds.media[i])])

\* A document is what it is written as: every construct closes with its own
\* tag, and nothing valid is reported (parser.cpp:116-382).
ParsesAsWritten(nodes, definitions) ==
  Parse(WrittenDefinitions(definitions) \o Written(nodes))
    = [nodes |-> nodes, definitions |-> definitions, codes |-> <<>>]

\* What may be left out of a document without a word: blanks, an empty block of
\* definitions, @Else.
Significant(token) ==
  /\ token.given # "missing" /\ token.kind # "invalid"
  /\ token.name \notin {"Else", "Props", "Slots"}
Count(tokens, token) == Cardinality({i \in DOMAIN tokens : tokens[i] = token})
Definer(token) ==
  IsTag(token) /\ token.name \in {"DefineComponent", "DefineStyle", "DefineToken", "Template"}
Repeats(tokens) ==
  \E i, j \in DOMAIN tokens : i # j /\ Definer(tokens[i]) /\ tokens[i] = tokens[j]

\* If the parser reports nothing, the document has every token of the text: no
\* recovery and no skipped token is silent (parser.cpp:118-150, 155-176, 305-341).
\* Not so for what is defined twice in one file: the second replaces the first;
\* nor for a style whose name is the empty string, which no input here has.
NothingLost(tokens) ==
  LET parsed == Parse(tokens)
      kept == WrittenDefinitions(parsed.definitions) \o Written(parsed.nodes)
  IN parsed.codes = <<>> /\ ~Repeats(tokens) =>
       \A token \in {tokens[i] : i \in DOMAIN tokens} \cup {kept[i] : i \in DOMAIN kept} :
         Significant(token) => Count(tokens, token) = Count(kept, token)
=============================================================================
