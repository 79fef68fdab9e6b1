---------------------------- MODULE Declarations ----------------------------
(***************************************************************************)
(* The declarations of a style as a text (parse_declarations and           *)
(* serialize_declarations of email-markup-core/src/css.cpp), and what      *)
(* several layers of them say together.                                    *)
(*                                                                         *)
(* A text is a sequence of characters: "n" and "m" of names, "N" the       *)
(* capital of "n", "v" for any other of a value.  Declarations are a       *)
(* function from properties to values.                                     *)
(***************************************************************************)
EXTENDS Loops, SequencesExt, FiniteSetsExt, TLC

Letters == {"n", "m", "N"}
Blanks == {" ", "\n"}
Sign == Letters \cup Blanks \cup {"v", ":", ";", ",", "(", ")", "\"", "\\"}
Trim(text) ==
  LET solid == {i \in DOMAIN text : text[i] \notin Blanks} IN
  IF solid = {} THEN <<>> ELSE SubSeq(text, Min(solid), Max(solid))
LowerCase(name) == [i \in DOMAIN name |-> IF name[i] = "N" THEN "n" ELSE name[i]]
NoDeclarations == [q \in {} |-> q]
\* The declarations of both, for a property of both those on top.
Over(top, below) ==
  [q \in DOMAIN top \cup DOMAIN below |-> IF q \in DOMAIN top THEN top[q] ELSE below[q]]
OnlyOne(name, value) == [q \in {name} |-> value]

\* parse_declarations: its state, commit, and one character.
Reading(quoted, depth, current, result) ==
  [quoted |-> quoted, depth |-> depth, current |-> current, result |-> result]
Declare(s) ==
  LET colons == {i \in DOMAIN s.current : s.current[i] = ":"}
      name == LowerCase(Trim(SubSeq(s.current, 1, Min(colons) - 1)))
      value == Trim(SubSeq(s.current, Min(colons) + 1, Len(s.current)))
  IN Reading(s.quoted, s.depth, <<>>,
             IF colons # {} /\ name # <<>> /\ value # <<>>
             THEN Over(OnlyOne(name, value), s.result) ELSE s.result)
\* Mutant: parentheses do not keep what is within together.
ReadFlat(s, c) ==
  LET quoted == IF c = "\"" THEN ~ s.quoted ELSE s.quoted IN
  IF ~ quoted /\ c = ";" THEN Declare(s)
  ELSE Reading(quoted, 0, Append(s.current, c), s.result)
Read(s, c) ==
  LET quoted == IF c = "\"" THEN ~ s.quoted ELSE s.quoted
      depth == CASE ~ quoted /\ c = "(" -> s.depth + 1
                 [] ~ quoted /\ c = ")" /\ s.depth > 0 -> s.depth - 1
                 [] OTHER -> s.depth
  IN IF ~ quoted /\ depth = 0 /\ c = ";"
     THEN Declare(Reading(quoted, depth, s.current, s.result))
     ELSE Reading(quoted, depth, Append(s.current, c), s.result)
ParseDeclarations(text) ==
  LET Round(k, s) == Read(s, text[k]) IN
  Declare(Loop(Len(text), Reading(FALSE, 0, <<>>, NoDeclarations), Round)).result
Declaration(name, value) == name \o <<":", " ">> \o value \o <<";">>
SerializeDeclarations(declarations) ==
  LET names == SetToSeq(DOMAIN declarations)
      Round(k, text) == text \o (IF text = <<>> THEN <<>> ELSE <<" ">>)
                             \o Declaration(names[k], declarations[names[k]])
  IN Loop(Len(names), <<>>, Round)

-----------------------------------------------------------------------------
\* Whether the first k characters of a text leave a string open, and how many
\* parentheses.
Within(text) ==
  LET within[k \in 0..Len(text)] ==
        IF k = 0 THEN [quoted |-> FALSE, depth |-> 0]
        ELSE LET last == within[k - 1]
                 quoted == IF text[k] = "\"" THEN ~ last.quoted ELSE last.quoted
             IN [quoted |-> quoted,
                 depth |-> CASE ~ quoted /\ text[k] = "(" -> last.depth + 1
                             [] ~ quoted /\ text[k] = ")" -> last.depth - 1
                             [] OTHER -> last.depth]
  IN within
\* A value begins and ends with no blank; it closes its strings and its
\* parentheses, and a ";" of it is within one.
IsValue(text) ==
  /\ text # <<>> /\ text[1] \notin Blanks /\ Last(text) \notin Blanks
  /\ Within(text)[Len(text)] = [quoted |-> FALSE, depth |-> 0]
  /\ \A k \in DOMAIN text :
       /\ Within(text)[k].depth >= 0
       /\ text[k] = ";" => Within(text)[k].quoted \/ Within(text)[k].depth > 0

\* A declaration of the last of the layers that has one.
Cascaded(layers) ==
  [q \in UNION {DOMAIN layers[i] : i \in DOMAIN layers} |->
     LET i == CHOOSE j \in DOMAIN layers :
                /\ q \in DOMAIN layers[j]
                /\ \A k \in DOMAIN layers : k > j => q \notin DOMAIN layers[k]
     IN layers[i][q]]

\* Of the declarations of a style the last for each name counts, and a style
\* that was written into a tag says the same when it is read again, as
\* inline_css reads what apply_root_styles wrote (css.cpp:42-76).
DeclarationsKept(entries) ==
  LET text == FlattenSeq([i \in DOMAIN entries |-> Declaration(entries[i].name, entries[i].value)])
      parsed == ParseDeclarations(text)
  IN /\ parsed = Cascaded([i \in DOMAIN entries |-> OnlyOne(LowerCase(entries[i].name), entries[i].value)])
     /\ ParseDeclarations(SerializeDeclarations(parsed)) = parsed
=============================================================================
