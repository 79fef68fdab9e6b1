----------------------------- MODULE Positions -----------------------------
(***************************************************************************)
(* Places in a text: the language server's positions in UTF-16 units       *)
(* (email-markup-lsp/src/text/positions.cpp), the compiler's offsets in    *)
(* bytes and its check of the encoding (email-markup-core/src/source.cpp). *)
(*                                                                         *)
(* A text is a sequence of bytes: "a" or "newline" for one of ASCII, "two",*)
(* "three" or "four" for the first byte of a longer character, "c" for a   *)
(* byte that continues one and "x" for any other.  Which characters three  *)
(* or four bytes may encode (overlong forms, surrogates) is left out.      *)
(* Offsets count from 0.  A loop of the code is a recursive function of    *)
(* what it has in hand.                                                    *)
(***************************************************************************)
EXTENDS Integers, Sequences, FiniteSets

Ascii == {"a", "newline"}
Lead == {"two", "three", "four"}
Byte == Ascii \cup Lead \cup {"c", "x"}
ByteAt(text, offset) == text[offset + 1]
Smaller(a, b) == IF a < b THEN a ELSE b

\* utf8_width, and the UTF-16 units of codepoint_at: a character that is cut off
\* by the end of the text counts by its first byte.
Width(byte) ==
  CASE byte = "two" -> 2 [] byte = "three" -> 3 [] byte = "four" -> 4 [] byte \notin Lead -> 1
Units(text, offset) ==
  IF Width(ByteAt(text, offset)) = 4 /\ offset + 4 <= Len(text) THEN 2 ELSE 1

\* offset_at: first to the line, then along it, with what is left to pass.
Way == [offset : Nat, left : Int]
AtLine(text, at) == at.offset >= Len(text) \/ at.left = 0
PassByte(text, at) ==
  [offset |-> at.offset + 1,
   left |-> IF ByteAt(text, at.offset) = "newline" THEN at.left - 1 ELSE at.left]
ToLine(text) ==
  LET to[at \in Way] == IF AtLine(text, at) THEN at.offset ELSE to[PassByte(text, at)]
  IN to

\* Mutant: a position between the halves of a surrogate pair is behind it.
AtPlacePastHalf(text, at) ==
  at.offset >= Len(text) \/ at.left <= 0 \/ ByteAt(text, at.offset) = "newline"
AtPlace(text, at) ==
  at.offset >= Len(text) \/ at.left <= 0 \/ ByteAt(text, at.offset) = "newline"
    \/ Units(text, at.offset) > at.left
PassCharacter(text, at) ==
  [offset |-> at.offset + Width(ByteAt(text, at.offset)), left |-> at.left - Units(text, at.offset)]
Along(text) ==
  LET along[at \in Way] == IF AtPlace(text, at) THEN at.offset ELSE along[PassCharacter(text, at)]
  IN along
OffsetAt(text, line, character) ==
  Along(text)[[offset |-> ToLine(text)[[offset |-> 0, left |-> line]], left |-> character]]

\* position_at.
Reached == [offset : Nat, line : Nat, character : Nat]
Further(text, at) ==
  IF ByteAt(text, at.offset) = "newline"
  THEN [offset |-> at.offset + 1, line |-> at.line + 1, character |-> 0]
  ELSE [offset |-> at.offset + Width(ByteAt(text, at.offset)), line |-> at.line,
        character |-> at.character + Units(text, at.offset)]
PositionFrom(text, target) ==
  LET from[at \in Reached] ==
        IF at.offset >= Smaller(Len(text), target)
        THEN [line |-> at.line, character |-> at.character]
        ELSE from[Further(text, at)]
  IN from
PositionAt(text, target) ==
  PositionFrom(text, target)[[offset |-> 0, line |-> 0, character |-> 0]]

\* SourceManager::add and SourceFile::position.
LineStarts(text) == {0} \cup {o \in 1..Len(text) : ByteAt(text, o - 1) = "newline"}
SourcePosition(text, requested) ==
  LET offset == Smaller(requested, Len(text))
      behind == {start \in LineStarts(text) : start <= offset}
      begin == CHOOSE start \in behind : \A other \in behind : other <= start
  IN [line |-> Cardinality(behind) - 1, column |-> offset - begin]

\* is_valid_utf8, from an offset on.
\* Mutant: a character that the end of the text cuts off is accepted.
WholeOrCutOff(text, i) ==
  LET continuation == Width(ByteAt(text, i)) - 1 IN
  /\ ByteAt(text, i) \in Ascii \cup Lead
  /\ \A j \in 1..continuation : i + j < Len(text) => ByteAt(text, i + j) = "c"
Whole(text, i) ==
  LET continuation == Width(ByteAt(text, i)) - 1 IN
  /\ ByteAt(text, i) \in Ascii \cup Lead
  /\ i + continuation < Len(text)
  /\ \A j \in 1..continuation : ByteAt(text, i + j) = "c"
ValidFrom(text) ==
  LET valid[i \in Nat] ==
        i >= Len(text) \/ (Whole(text, i) /\ valid[i + Width(ByteAt(text, i))])
  IN valid
IsValidUtf8(text) == ValidFrom(text)[0]

-----------------------------------------------------------------------------
(***************************************************************************)
(* The reference: a text as a sequence of characters.                      *)
(***************************************************************************)
Encodings ==
  <<<<"a">>, <<"newline">>, <<"two", "c">>, <<"three", "c", "c">>, <<"four", "c", "c", "c">>>>
Character == 1..5
NewLine == 2
HighCharacter == 5
\* The bytes, and the UTF-16 units, of the first k characters.
EncodedUpTo(characters) ==
  LET bytes[k \in 0..Len(characters)] ==
        IF k = 0 THEN <<>> ELSE bytes[k - 1] \o Encodings[characters[k]]
  IN bytes
Encoded(characters) == EncodedUpTo(characters)[Len(characters)]
UnitsUpTo(characters) ==
  LET units[k \in 0..Len(characters)] ==
        IF k = 0 THEN 0 ELSE units[k - 1] + (IF characters[k] = HighCharacter THEN 2 ELSE 1)
  IN units
Breaks(characters, k) == {i \in 1..k : characters[i] = NewLine}
\* The number of characters up to the beginning of the line of the k-th.
LineBegin(characters, k) ==
  CHOOSE i \in {0} \cup Breaks(characters, k) : \A j \in Breaks(characters, k) : j <= i
\* The position behind the first k characters.
Place(characters, k) ==
  [line |-> Cardinality(Breaks(characters, k)),
   character |-> UnitsUpTo(characters)[k] - UnitsUpTo(characters)[LineBegin(characters, k)]]
\* The last place that a position stands for.
LastBefore(characters, line, character) ==
  LET before == {k \in 0..Len(characters) : /\ Place(characters, k).line = line
                                            /\ Place(characters, k).character <= character}
  IN CHOOSE k \in before : \A j \in before : j <= k

\* Offset and position say the same place: both ways for each place between two
\* characters, and a position between the halves of a surrogate pair or behind
\* the end of its line is the last place before it (positions.cpp:38-83); the
\* compiler's line and column are those of the same line (source.cpp:8-15).
\* "farthest" bounds the characters of the positions asked for.
PlacesAgree(characters, farthest) ==
  LET text == Encoded(characters)
      Offset(k) == Len(EncodedUpTo(characters)[k])
      places == 0..Len(characters)
  IN /\ \A k \in places : PositionAt(text, Offset(k)) = Place(characters, k)
     /\ \A line \in 0..Place(characters, Len(characters)).line, character \in 0..farthest :
          OffsetAt(text, line, character) = Offset(LastBefore(characters, line, character))
     /\ \A k \in places :
          SourcePosition(text, Offset(k))
            = [line |-> Place(characters, k).line,
               column |-> Offset(k) - Offset(LineBegin(characters, k))]

\* A text is accepted exactly if it is made of whole characters
\* (source.cpp:46-74): no byte is missing at its end, none is left over.
EncodingChecked(text) ==
  IsValidUtf8(text) <=>
    \E n \in 0..Len(text) : \E characters \in [1..n -> Character] : text = Encoded(characters)
=============================================================================
