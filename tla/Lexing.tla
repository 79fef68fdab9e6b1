------------------------------- MODULE Lexing -------------------------------
(***************************************************************************)
(* The lexer: lex (email-markup-core/src/lexer.cpp).                       *)
(*                                                                         *)
(* A text is a sequence of characters.  A single letter stands for a name: *)
(* Raw for Props, Slots, DefineStyle and Media, whose bodies are not       *)
(* lexed, "E" for Engine, the other capitals for all other names.          *)
(***************************************************************************)
EXTENDS Integers, Sequences, SequencesExt

CONSTANT DiagnosticLimit

Raw == {<<"P">>}
NameStart == {"A", "E", "P"}
NameContinue == NameStart \cup {"a"}
Blank == {" ", "\n"}

CharAt(text, at) == IF at <= Len(text) THEN text[at] ELSE "none"

\* The first place from "at" where what is sought starts, or 0.
Find(text, sought, at) ==
  LET places == {i \in at..(Len(text) - Len(sought) + 1) :
                   SubSeq(text, i, i + Len(sought) - 1) = sought} IN
  IF places = {} THEN 0 ELSE CHOOSE i \in places : \A j \in places : i <= j
RECURSIVE NameEnd(_, _)
NameEnd(text, at) == IF CharAt(text, at) \in NameContinue THEN NameEnd(text, at + 1) ELSE at

\* delimited: what stands between the delimiter before "at" and the one that
\* closes it, and the position behind that, 0 if there is none.
RECURSIVE DelimitedFrom(_, _, _, _, _)
DelimitedFrom(text, at, pair, s, output) ==
  LET c == CharAt(text, at)
      Go(s1) == DelimitedFrom(text, at + 1, pair, s1, Append(output, c)) IN
  CASE c = "none" -> [end |-> 0, output |-> output]
    [] s.quoted /\ c # "none" ->
         Go([s EXCEPT !.quoted = c # "\"" \/ s.escaped, !.escaped = c = "\\" /\ ~s.escaped])
    [] OTHER ->
         CASE c = pair[2] /\ s.depth = 1 -> [end |-> at + 1, output |-> output]
           [] c = pair[2] /\ s.depth # 1 -> Go([s EXCEPT !.depth = @ - 1])
           [] c = pair[1] -> Go([s EXCEPT !.depth = @ + 1])
           [] OTHER -> Go([s EXCEPT !.quoted = c = "\""])
Delimited(text, at, pair) ==
  DelimitedFrom(text, at, pair, [depth |-> 1, quoted |-> FALSE, escaped |-> FALSE], <<>>)

Token(kind, name, parameters, text, start, end) ==
  [kind |-> kind, name |-> name, parameters |-> parameters, text |-> text,
   start |-> start, end |-> end]

-----------------------------------------------------------------------------
\* The state of the loop: position, the buffer and where it starts, the tokens
\* and the codes of the diagnostics.  One operator for each construct.
\* Mutant: the character that ends a text counts as part of it.
FlushLate(l) ==
  IF l.buffer = <<>> THEN l
  ELSE [l EXCEPT !.tokens = Append(@, Token("text", <<>>, <<>>, l.buffer, l.start, l.at + 1)),
                 !.buffer = <<>>]
Flush(l) ==
  IF l.buffer = <<>> THEN l
  ELSE [l EXCEPT !.tokens = Append(@, Token("text", <<>>, <<>>, l.buffer, l.start, l.at)),
                 !.buffer = <<>>]
Keep(l, c, width) ==
  [l EXCEPT !.at = @ + width, !.buffer = Append(@, c),
            !.start = IF l.buffer = <<>> THEN l.at ELSE @]
Move(l, at) == [l EXCEPT !.at = at]
Fail(l, code) ==
  IF Len(l.codes) < DiagnosticLimit THEN [l EXCEPT !.codes = Append(@, code)] ELSE l
Push(l, token) == [l EXCEPT !.tokens = Append(@, token), !.at = token.end]

\* Mutant: a comment swallows the end of its line.
LineCommentWithNewline(l, text) ==
  LET end == Find(text, <<"\n">>, l.at + 3) IN Move(l, IF end = 0 THEN Len(text) + 1 ELSE end + 1)
LineComment(l, text) ==
  LET end == Find(text, <<"\n">>, l.at + 3) IN Move(l, IF end = 0 THEN Len(text) + 1 ELSE end)

CloseTag(l0, text) ==
  LET l == Flush(l0)  end == NameEnd(text, l.at + 2) IN
  IF CharAt(text, l.at + 2) \notin NameStart THEN Fail(Move(l, l.at + 2), "EM0101")
  ELSE Push(l, Token("close", SubSeq(text, l.at + 2, end - 1), <<>>, <<>>, l.at, end))

Interpolation(l0, text) ==
  LET l == Flush(l0)
      found == Delimited(text, l.at + 2, <<"{", "}">>)
      empty == \A i \in DOMAIN found.output : found.output[i] \in Blank
  IN IF found.end = 0 THEN Fail(Move(l, Len(text) + 1), "EM0102")
     ELSE Push(IF empty THEN Fail(l, "EM0103") ELSE l,
               Token("expression", <<>>, <<>>, found.output, l.at, found.end))

BlockComment(l0, text) ==
  LET l == Flush(l0)  end == Find(text, <<"*", "@">>, l.at + 2) IN
  IF end = 0 THEN Fail(Move(l, Len(text) + 1), "EM0104") ELSE Move(l, end + 2)

Macro(l0, text) ==
  LET l == Flush(l0)  end == Find(text, <<"]">>, l.at + 2) IN
  Fail(Move(l, IF end = 0 THEN Len(text) + 1 ELSE end + 1), "EM0107")

\* The body up to the first closing tag that starts with the name.
RawBody(l, text, name) ==
  LET needle == <<"@", "/">> \o name
      end == Find(text, needle, l.at)
      body == IF end > l.at
              THEN Push(l, Token("text", <<>>, <<>>, SubSeq(text, l.at, end - 1), l.at, end))
              ELSE l
  IN IF end = 0 THEN Fail(Move(l, Len(text) + 1), "EM0106")
     ELSE Push(body, Token("close", name, <<>>, <<>>, end, end + Len(needle)))

Tag(l0, text) ==
  LET l == Flush(l0)
      nameEnd == NameEnd(text, l.at + 1)
      name == SubSeq(text, l.at + 1, nameEnd - 1)
      named == IF name = <<"E">> THEN Fail(l, "EM0108") ELSE l
      given == CharAt(text, nameEnd) = "("
      found == IF given THEN Delimited(text, nameEnd + 1, <<"(", ")">>)
               ELSE [end |-> nameEnd, output |-> <<>>]
      Tok(kind, end) == Token(kind, name, found.output, <<>>, l.at, end)
  IN CASE found.end = 0 -> Push(Fail(named, "EM0105"), Tok("invalid", Len(text) + 1))
       [] found.end # 0 /\ CharAt(text, found.end) = ";" ->
            Push(named, Tok("self_closing", found.end + 1))
       [] OTHER -> LET opened == Push(named, Tok("open", found.end)) IN
                   IF name \in Raw THEN RawBody(opened, text, name) ELSE opened

Construct(l, text) ==
  LET next == CharAt(text, l.at + 1) IN
  CASE text[l.at] # "@" -> Keep(l, text[l.at], 1)
    [] text[l.at] = "@" ->
         CASE next = "@" -> Keep(l, "@", 2)
           [] next = "/" -> IF CharAt(text, l.at + 2) = "/" THEN LineComment(l, text)
                            ELSE CloseTag(l, text)
           [] next = "{" -> Interpolation(l, text)
           [] next = "*" -> BlockComment(l, text)
           [] next = "[" -> Macro(l, text)
           [] next \in NameStart -> Tag(l, text)
           [] OTHER -> Keep(l, "@", 1)

RECURSIVE LexFrom(_, _)
LexFrom(l, text) ==
  IF l.at <= Len(text) THEN LexFrom(Construct(l, text), text)
  ELSE LET done == Flush(l) IN
       [tokens |-> Append(done.tokens, Token("end", <<>>, <<>>, <<>>, l.at, l.at)),
        codes |-> done.codes]
Lex(text) ==
  LexFrom([at |-> 1, buffer |-> <<>>, start |-> 1, tokens |-> <<>>, codes |-> <<>>], text)

-----------------------------------------------------------------------------
(***************************************************************************)
(* The reference: a document as a sequence of pieces, each with the way it *)
(* is written and what it means: a character, a token, or nothing.         *)
(***************************************************************************)
Piece(written, kind, name, parameters, text) ==
  [written |-> written, kind |-> kind, name |-> name, parameters |-> parameters, text |-> text]

Written(pieces) == FlattenSeq([i \in DOMAIN pieces |-> pieces[i].written])

\* Neighbouring characters are one text, which a line comment does not end.
RECURSIVE Meaning(_, _, _, _)
Meaning(pieces, at, start, text) ==
  LET rest == IF text = <<>> THEN <<>> ELSE <<Token("text", <<>>, <<>>, text, start, at)>>
      p == Head(pieces)
      end == at + Len(p.written) IN
  IF pieces = <<>> THEN rest \o <<Token("end", <<>>, <<>>, <<>>, at, at)>>
  ELSE CASE p.kind = "character" ->
              Meaning(Tail(pieces), end, IF text = <<>> THEN at ELSE start, text \o p.text)
         [] p.kind = "line comment" -> Meaning(Tail(pieces), end, start, text)
         [] p.kind = "block comment" -> rest \o Meaning(Tail(pieces), end, end, <<>>)
         [] OTHER -> rest \o <<Token(p.kind, p.name, p.parameters, p.text, at, end)>>
                          \o Meaning(Tail(pieces), end, end, <<>>)

\* A document is split into the tokens it is written with, each at its place:
\* quotes, nesting, escapes and comments hide exactly what they should
\* (lexer.cpp:29-55, 72-208).
LexesAsWritten(pieces) ==
  Lex(Written(pieces)) = [tokens |-> Meaning(pieces, 1, 1, <<>>), codes |-> <<>>]

\* Whatever the text, well formed or not, the tokens stand in it in order and
\* without overlap, the last one at its end (lexer.cpp:61-208): the parser's
\* ranges and the editor's underlines come from them.
RangesInOrder(text) ==
  LET tokens == Lex(text).tokens IN
  /\ tokens[Len(tokens)].end = Len(text) + 1
  /\ \A i \in DOMAIN tokens :
       /\ tokens[i].start <= tokens[i].end
       /\ i > 1 => tokens[i - 1].end <= tokens[i].start
=============================================================================
