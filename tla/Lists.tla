-------------------------------- MODULE Lists --------------------------------
(***************************************************************************)
(* The arguments of a tag (parameters of email-markup-core/src/parser.cpp),*)
(* in texts as Declarations has them.                                      *)
(***************************************************************************)
EXTENDS Integers, Declarations

Count(text, last, Counts(_)) == Cardinality({i \in 1..last : Counts(i)})

\* parameters: a list is cut at each comma or line end outside of strings and
\* parentheses.
Start == [quoted |-> FALSE, escaped |-> FALSE, depth |-> 0, part |-> <<>>, parts |-> <<>>]
\* Mutant: a backslash escapes also behind a backslash.
QuotedAlwaysEscaping(s, c) ==
  [s EXCEPT !.part = Append(@, c), !.quoted = c # "\"" \/ s.escaped, !.escaped = c = "\\"]
Quoted(s, c) ==
  [s EXCEPT !.part = Append(@, c),
            !.quoted = c # "\"" \/ s.escaped,
            !.escaped = c = "\\" /\ ~ s.escaped]
Scan(s, c) ==
  CASE s.quoted -> Quoted(s, c)
    [] ~ s.quoted /\ s.depth = 0 /\ c \in {",", "\n"} ->
         [s EXCEPT !.parts = Append(@, s.part), !.part = <<>>]
    [] OTHER ->
         [s EXCEPT !.part = Append(@, c), !.quoted = c = "\"",
                   !.depth = @ + (CASE c = "(" -> 1 [] c = ")" -> -1 [] OTHER -> 0)]
Parts(text) == LET s == FoldLeft(Scan, Start, text) IN Append(s.parts, s.part)

\* The first colon of a part outside of strings and parentheses, or 0.
Colon(part) ==
  LET Quote(i) == part[i] = "\"" /\ (i = 1 \/ part[i - 1] # "\\")
      InString(i) == Count(part, i, Quote) % 2 = 1
      Opens(i) == part[i] = "(" /\ ~ InString(i)
      Closes(i) == part[i] = ")" /\ ~ InString(i)
      colons == {i \in DOMAIN part : /\ part[i] = ":" /\ ~ InString(i)
                                     /\ Count(part, i, Opens) = Count(part, i, Closes)}
  IN IF colons = {} THEN 0 ELSE Min(colons)

Argument(part) ==
  [name |-> Trim(SubSeq(part, 1, Colon(part) - 1)),
   expression |-> Trim(SubSeq(part, Colon(part) + 1, Len(part)))]
Commit(r, written) ==
  LET part == Trim(written)
      a == Argument(part)
      Report(code) == [r EXCEPT !.codes = Append(@, code)]
  IN CASE part = <<>> -> r
       [] part # <<>> /\ Colon(part) = 0 -> Report("EM0201")
       [] part # <<>> /\ Colon(part) # 0 ->
            IF a.name = <<>> \/ ~ (\A i \in DOMAIN a.name : a.name[i] \in Letters)
               \/ a.expression = <<>> THEN Report("EM0202")
            ELSE IF \E i \in DOMAIN r.result : r.result[i].name = a.name THEN Report("EM0203")
            ELSE [r EXCEPT !.result = Append(@, a)]
Parameters(text) == FoldLeft(Commit, [result |-> <<>>, codes |-> <<>>], Parts(text))

-----------------------------------------------------------------------------
\* A list of entries [name, value], each followed by "mark".
ListOf(entries, mark) ==
  FlattenSeq([i \in DOMAIN entries |-> entries[i].name \o <<":", " ">> \o entries[i].value \o mark])

\* The arguments of a tag are those written, whatever their strings and
\* parentheses contain; of several for one name the first counts and each other
\* is reported (parser.cpp:36-95).
ArgumentsAsWritten(entries, mark) ==
  LET p == Parameters(ListOf(entries, mark))
      kept == {entries[i] : i \in {i \in DOMAIN entries :
                                     \A j \in 1..(i - 1) : entries[j].name # entries[i].name}}
  IN /\ {[name |-> a.name, value |-> a.expression] : a \in Range(p.result)} = kept
     /\ Len(p.result) = Cardinality({e.name : e \in kept})
     /\ Len(p.codes) = Len(entries) - Len(p.result)
     /\ Range(p.codes) \subseteq {"EM0203"}
=============================================================================
