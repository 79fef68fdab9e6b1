--------------------------- MODULE OperatorProofs ---------------------------
(***************************************************************************)
(* Positions in a text and the check of its encoding, for every text; the  *)
(* files that includes find, for every disk.                               *)
(***************************************************************************)
EXTENDS PureParts, SetInduction, FiniteSetTheorems, SequenceTheorems, TLAPS

-----------------------------------------------------------------------------
(***************************************************************************)
(* The recursive functions of the model are functions.                     *)
(***************************************************************************)
IsLoop(g, W, X, stop, result, next) ==
  g \in [W -> X] /\ g = [w \in W |-> IF w \in stop THEN result[w] ELSE g[next[w]]]

\* A loop, whatever it starts from, has a result: also one that would not end.
LEMMA LoopExists ==
  ASSUME NEW W, NEW X, NEW none \in X, NEW stop \in SUBSET W, NEW result \in [W -> X],
         NEW next \in [W -> W]
  PROVE  \E g : IsLoop(g, W, X, stop, result, next)
<1> DEFINE U == [m \in [W -> X] |-> [w \in W |-> IF w \in stop THEN result[w] ELSE m[next[w]]]]
<1>1. U \in [[W -> X] -> [W -> X]]
  OBVIOUS
<1>2. ASSUME NEW w \in W PROVE AsksForTwo(U, w, W, X, none)
  <2>1. AsksFor(U, w, next[w], next[w], W, X, none)
    BY DEF AsksFor
  <2>2. next[w] \in W
    OBVIOUS
  <2>3. QED
    BY <2>1, <2>2 DEF AsksForTwo
<1> HIDE DEF U
<1>3. PICK g : IsFixed(g, W, X, U)
  BY <1>1, <1>2, FixedPoint
<1>4. QED
  BY <1>3 DEF IsFixed, U, IsLoop

Text == Seq(Byte)

LEMMA WidthType ==
  ASSUME NEW text \in Text, NEW offset \in Nat, offset < Len(text)
  PROVE  /\ ByteAt(text, offset) \in Byte
         /\ Width(ByteAt(text, offset)) \in 1..4
         /\ Units(text, offset) \in 1..2
<1>1. ByteAt(text, offset) \in Byte
  BY DEF ByteAt, Text
<1>2. Width(ByteAt(text, offset)) \in 1..4
  BY <1>1 DEF Width, Byte, Lead, Ascii
<1>3. QED
  BY <1>1, <1>2 DEF Units

LEMMA ToLineUnfolds ==
  ASSUME NEW text \in Text, NEW at \in Way
  PROVE  ToLine(text)[at]
           = IF AtLine(text, at) THEN at.offset ELSE ToLine(text)[PassByte(text, at)]
<1> DEFINE stop == {w \in Way : AtLine(text, w)}
           result == [w \in Way |-> w.offset]
           next == [w \in Way |-> IF AtLine(text, w) THEN w ELSE PassByte(text, w)]
           F(g) == [w \in Way |-> IF AtLine(text, w) THEN w.offset ELSE g[PassByte(text, w)]]
<1>1. 0 \in Nat /\ stop \in SUBSET Way /\ result \in [Way -> Nat]
  BY DEF Way
<1>2. next \in [Way -> Way]
  BY DEF Way, PassByte, AtLine, Text
<1> HIDE DEF stop, result, next
<1>3. PICK g : IsLoop(g, Way, Nat, stop, result, next)
  BY <1>1, <1>2, LoopExists
<1>4. g = F(g)
  BY <1>3 DEF IsLoop, stop, result, next
<1>5. ToLine(text) = F(ToLine(text))
  BY <1>4 DEF ToLine
<1>6. QED
  BY <1>5

LEMMA AlongUnfolds ==
  ASSUME NEW text \in Text, NEW at \in Way
  PROVE  Along(text)[at]
           = IF AtPlace(text, at) THEN at.offset ELSE Along(text)[PassCharacter(text, at)]
<1> DEFINE stop == {w \in Way : AtPlace(text, w)}
           result == [w \in Way |-> w.offset]
           next == [w \in Way |-> IF AtPlace(text, w) THEN w ELSE PassCharacter(text, w)]
           F(g) == [w \in Way |-> IF AtPlace(text, w) THEN w.offset ELSE g[PassCharacter(text, w)]]
<1>1. 0 \in Nat /\ stop \in SUBSET Way /\ result \in [Way -> Nat]
  BY DEF Way
<1>2. next \in [Way -> Way]
  <2>1. ASSUME NEW w \in Way, ~AtPlace(text, w) PROVE PassCharacter(text, w) \in Way
    <3>1. w.offset \in Nat /\ w.left \in Int /\ w.offset < Len(text)
      BY <2>1 DEF Way, AtPlace, Text
    <3>2. Width(ByteAt(text, w.offset)) \in 1..4 /\ Units(text, w.offset) \in 1..2
      BY <3>1, WidthType
    <3>3. QED
      BY <3>1, <3>2 DEF PassCharacter, Way
  <2>2. QED
    BY <2>1
<1> HIDE DEF stop, result, next
<1>3. PICK g : IsLoop(g, Way, Nat, stop, result, next)
  BY <1>1, <1>2, LoopExists
<1>4. g = F(g)
  BY <1>3 DEF IsLoop, stop, result, next
<1>5. Along(text) = F(Along(text))
  BY <1>4 DEF Along
<1>6. QED
  BY <1>5

LEMMA PositionFromUnfolds ==
  ASSUME NEW text \in Text, NEW target \in Nat, NEW at \in Reached
  PROVE  PositionFrom(text, target)[at]
           = IF at.offset >= Smaller(Len(text), target)
             THEN [line |-> at.line, character |-> at.character]
             ELSE PositionFrom(text, target)[Further(text, at)]
<1> DEFINE There(w) == w.offset >= Smaller(Len(text), target)
           X == [line : Nat, character : Nat]
           stop == {w \in Reached : There(w)}
           result == [w \in Reached |-> [line |-> w.line, character |-> w.character]]
           next == [w \in Reached |-> IF There(w) THEN w ELSE Further(text, w)]
           F(g) == [w \in Reached |-> IF There(w) THEN [line |-> w.line, character |-> w.character]
                                      ELSE g[Further(text, w)]]
<1>1. [line |-> 0, character |-> 0] \in X /\ stop \in SUBSET Reached /\ result \in [Reached -> X]
  BY DEF Reached
<1>2. next \in [Reached -> Reached]
  <2>1. ASSUME NEW w \in Reached, ~There(w) PROVE Further(text, w) \in Reached
    <3>1. w.offset \in Nat /\ w.line \in Nat /\ w.character \in Nat /\ w.offset < Len(text)
      BY <2>1 DEF Reached, Smaller, Text
    <3>2. Width(ByteAt(text, w.offset)) \in 1..4 /\ Units(text, w.offset) \in 1..2
      BY <3>1, WidthType
    <3>3. QED
      BY <3>1, <3>2 DEF Further, Reached
  <2>2. QED
    BY <2>1
<1> HIDE DEF stop, result, next, X
<1>3. PICK g : IsLoop(g, Reached, X, stop, result, next)
  BY <1>1, <1>2, LoopExists
<1>4. g = F(g)
  BY <1>3 DEF IsLoop, stop, result, next
<1>5. PositionFrom(text, target) = F(PositionFrom(text, target))
  BY <1>4 DEF PositionFrom
<1>6. QED
  BY <1>5

LEMMA ValidFromUnfolds ==
  ASSUME NEW text \in Text
  PROVE  /\ ValidFrom(text) \in [Nat -> BOOLEAN]
         /\ \A i \in Nat : ValidFrom(text)[i]
              <=> i >= Len(text) \/ (Whole(text, i) /\ ValidFrom(text)[i + Width(ByteAt(text, i))])
<1> DEFINE Ends(i) == i >= Len(text) \/ ~Whole(text, i)
           stop == {i \in Nat : Ends(i)}
           result == [i \in Nat |-> i >= Len(text)]
           next == [i \in Nat |-> IF Ends(i) THEN i ELSE i + Width(ByteAt(text, i))]
           F(g) == [i \in Nat |->
                      i >= Len(text) \/ (Whole(text, i) /\ g[i + Width(ByteAt(text, i))])]
<1>1. FALSE \in BOOLEAN /\ stop \in SUBSET Nat /\ result \in [Nat -> BOOLEAN]
  OBVIOUS
<1>2. next \in [Nat -> Nat]
  <2>1. ASSUME NEW i \in Nat, ~Ends(i) PROVE i + Width(ByteAt(text, i)) \in Nat
    <3>1. i < Len(text)
      BY <2>1 DEF Text
    <3>2. Width(ByteAt(text, i)) \in 1..4
      BY <3>1, WidthType
    <3>3. QED
      BY <3>2
  <2>2. QED
    BY <2>1
<1> HIDE DEF stop, result, next
<1>3. PICK g : IsLoop(g, Nat, BOOLEAN, stop, result, next)
  BY <1>1, <1>2, LoopExists
<1>4. g = F(g)
  <2>1. ASSUME NEW i \in Nat
        PROVE  g[i] = (i >= Len(text) \/ (Whole(text, i) /\ g[i + Width(ByteAt(text, i))]))
    <3>1. CASE Ends(i)
      BY <1>3, <3>1 DEF IsLoop, stop, result, next
    <3>2. CASE ~Ends(i)
      <4>1. g[i] = g[next[i]] /\ next[i] = i + Width(ByteAt(text, i))
        BY <1>3, <3>2 DEF IsLoop, stop, next
      <4>2. next[i] \in Nat
        BY <1>2
      <4>3. g[next[i]] \in BOOLEAN
        BY <1>3, <4>2 DEF IsLoop
      <4>4. QED
        BY <3>2, <4>1, <4>3
    <3>3. QED
      BY <3>1, <3>2
  <2>2. QED
    BY <1>3, <2>1 DEF IsLoop
<1>5. ValidFrom(text) = F(ValidFrom(text))
  BY <1>4 DEF ValidFrom
<1>6. ValidFrom(text) \in [Nat -> BOOLEAN]
  BY <1>5
<1>7. QED
  BY <1>5, <1>6

-----------------------------------------------------------------------------
(***************************************************************************)
(* What the bytes of a text are at the place of a character.               *)
(***************************************************************************)
Characters == Seq(Character)
HalvesOf(c) == IF c = HighCharacter THEN 2 ELSE 1

LEMMA CharacterBytes ==
  ASSUME NEW c \in Character
  PROVE  /\ Encodings[c] \in Text /\ Len(Encodings[c]) \in 1..4
         /\ Encodings[c][1] = "newline" <=> c = NewLine
         /\ Encodings[c][1] \in Ascii \cup Lead
         /\ Width(Encodings[c][1]) = Len(Encodings[c])
         /\ Len(Encodings[c]) = 4 <=> c = HighCharacter
         /\ \A i \in 2..Len(Encodings[c]) : Encodings[c][i] = "c"
<1> USE DEF Encodings, Text, Byte, Ascii, Lead, Width, NewLine, HighCharacter
<1>1. CASE c = 1
  BY <1>1
<1>2. CASE c = 2
  BY <1>2
<1>3. CASE c = 3
  BY <1>3
<1>4. CASE c = 4
  BY <1>4
<1>5. CASE c = 5
  BY <1>5
<1>6. QED
  BY <1>1, <1>2, <1>3, <1>4, <1>5 DEF Character

LEMMA EncodedUpToUnfolds ==
  ASSUME NEW characters \in Characters
  PROVE  /\ EncodedUpTo(characters) \in [0..Len(characters) -> Text]
         /\ EncodedUpTo(characters)[0] = <<>>
         /\ \A k \in 0..(Len(characters) - 1) :
              EncodedUpTo(characters)[k + 1]
                = EncodedUpTo(characters)[k] \o Encodings[characters[k + 1]]
<1> DEFINE n == Len(characters)
           step == [p \in (1..n) \X Text |-> p[2] \o Encodings[characters[p[1]]]]
           F(g) == [k \in 0..n |-> IF k = 0 THEN <<>> ELSE g[k - 1] \o Encodings[characters[k]]]
<1>1. n \in Nat /\ \A k \in 1..n : characters[k] \in Character
  BY DEF Characters
<1>2. <<>> \in Text
  BY DEF Text
<1>3. step \in [(1..n) \X Text -> Text]
  <2>1. ASSUME NEW p \in (1..n) \X Text PROVE p[2] \o Encodings[characters[p[1]]] \in Text
    <3>1. Encodings[characters[p[1]]] \in Text /\ p[2] \in Text
      BY <1>1, CharacterBytes
    <3>2. QED
      BY <3>1 DEF Text
  <2>2. QED
    BY <2>1
<1> HIDE DEF step
<1>4. PICK g : IsRecursion(g, n, <<>>, step) /\ \A i \in 0..n : g[i] \in Text
  BY <1>1, <1>2, <1>3, TypedRecursion
<1>5. g = F(g)
  <2>1. ASSUME NEW k \in 0..n
        PROVE  g[k] = IF k = 0 THEN <<>> ELSE g[k - 1] \o Encodings[characters[k]]
    <3>1. k # 0 => <<k, g[k - 1]>> \in (1..n) \X Text
      BY <1>1, <1>4
    <3>2. QED
      BY <1>4, <3>1, Zenon DEF IsRecursion, step
  <2>2. QED
    BY <1>4, <2>1, SMTT(30) DEF IsRecursion
<1>6. EncodedUpTo(characters) = F(EncodedUpTo(characters))
  BY <1>5, Zenon DEF EncodedUpTo
<1> DEFINE f == EncodedUpTo(characters)
<1> HIDE DEF f
<1>7. f = F(f)
  BY <1>6 DEF f
<1> DEFINE S == {k \in Nat : f[k] \in Text}
<1>8. ASSUME NEW k \in 0..(n - 1) PROVE f[k + 1] = f[k] \o Encodings[characters[k + 1]]
  <2>1. k + 1 \in 0..n /\ k + 1 # 0 /\ (k + 1) - 1 = k
    BY <1>1
  <2>2. QED
    BY <1>7, <2>1
<1>9. f[0] = <<>>
  BY <1>1, <1>7
<1>10. ASSUME NEW k \in 0..(n - 1), k \in S PROVE k + 1 \in S
  <2>1. characters[k + 1] \in Character
    BY <1>1
  <2>2. Encodings[characters[k + 1]] \in Text
    BY <2>1, CharacterBytes
  <2>3. \A t, u \in Text : t \o u \in Text
    BY DEF Text
  <2>4. f[k + 1] \in Text
    BY <1>8, <1>10, <2>2, <2>3
  <2>5. QED
    BY <2>4
<1>11. 0 \in S
  BY <1>2, <1>9
<1> HIDE DEF S
<1>12. \A k \in 0..n : k \in S
  BY <1>1, <1>10, <1>11, Induction
<1>13. f \in [0..n -> Text]
  BY <1>7, <1>12 DEF S
<1>14. QED
  BY <1>8, <1>9, <1>13 DEF f

LEMMA UnitsUpToUnfolds ==
  ASSUME NEW characters \in Characters
  PROVE  /\ UnitsUpTo(characters) \in [0..Len(characters) -> Nat]
         /\ UnitsUpTo(characters)[0] = 0
         /\ \A k \in 0..(Len(characters) - 1) :
              UnitsUpTo(characters)[k + 1] = UnitsUpTo(characters)[k] + HalvesOf(characters[k + 1])
<1> DEFINE n == Len(characters)
           step == [p \in (1..n) \X Nat |-> p[2] + HalvesOf(characters[p[1]])]
           F(g) == [k \in 0..n |->
                      IF k = 0 THEN 0
                      ELSE g[k - 1] + (IF characters[k] = HighCharacter THEN 2 ELSE 1)]
<1>1. n \in Nat
  BY DEF Characters
<1>2. step \in [(1..n) \X Nat -> Nat]
  BY DEF HalvesOf
<1> HIDE DEF step
<1>3. PICK g : IsRecursion(g, n, 0, step) /\ \A i \in 0..n : g[i] \in Nat
  BY <1>1, <1>2, TypedRecursion
<1>4. g = F(g)
  <2>1. ASSUME NEW k \in 0..n
        PROVE  g[k] = IF k = 0 THEN 0
                      ELSE g[k - 1] + (IF characters[k] = HighCharacter THEN 2 ELSE 1)
    <3>1. k # 0 => <<k, g[k - 1]>> \in (1..n) \X Nat
      BY <1>1, <1>3
    <3>2. QED
      BY <1>3, <3>1 DEF IsRecursion, step, HalvesOf
  <2>2. QED
    BY <1>3, <2>1 DEF IsRecursion
<1>5. UnitsUpTo(characters) = F(UnitsUpTo(characters))
  BY <1>4 DEF UnitsUpTo
<1> DEFINE f == UnitsUpTo(characters)
<1> HIDE DEF f
<1>6. f = F(f)
  BY <1>5 DEF f
<1> DEFINE S == {k \in Nat : f[k] \in Nat}
<1>7. ASSUME NEW k \in 0..(n - 1) PROVE f[k + 1] = f[k] + HalvesOf(characters[k + 1])
  <2>1. k + 1 \in 0..n /\ k + 1 # 0 /\ (k + 1) - 1 = k
    BY <1>1
  <2>2. QED
    BY <1>6, <2>1 DEF HalvesOf
<1>8. 0 \in S /\ f[0] = 0
  BY <1>1, <1>6
<1>9. ASSUME NEW k \in 0..(n - 1), k \in S PROVE k + 1 \in S
  BY <1>7, <1>9 DEF HalvesOf
<1> HIDE DEF S
<1>10. \A k \in 0..n : k \in S
  BY <1>1, <1>8, <1>9, Induction
<1>11. f \in [0..n -> Nat]
  BY <1>6, <1>10 DEF S
<1>12. QED
  BY <1>7, <1>8, <1>11 DEF f

Begins(t, u) == Len(t) <= Len(u) /\ \A i \in 1..Len(t) : u[i] = t[i]

LEMMA Joined ==
  ASSUME NEW t \in Text, NEW u \in Text
  PROVE  /\ t \o u \in Text /\ Len(t) \in Nat /\ Len(u) \in Nat
         /\ Len(t \o u) = Len(t) + Len(u)
         /\ \A i \in 1..Len(t) : (t \o u)[i] = t[i]
         /\ \A i \in 1..Len(u) : (t \o u)[Len(t) + i] = u[i]
BY DEF Text

LEMMA EncodingsContinue ==
  ASSUME NEW characters \in Characters
  PROVE  \A m \in 0..Len(characters), k \in 0..Len(characters) :
           k <= m => Begins(EncodedUpTo(characters)[k], EncodedUpTo(characters)[m])
<1> DEFINE n == Len(characters)
           f == EncodedUpTo(characters)
           S == {m \in Nat : \A k \in 0..m : Begins(f[k], f[m])}
<1>1. n \in Nat /\ \A k \in 1..n : characters[k] \in Character
  BY DEF Characters
<1>2. /\ f \in [0..n -> Text] /\ f[0] = <<>>
      /\ \A k \in 0..(n - 1) : f[k + 1] = f[k] \o Encodings[characters[k + 1]]
  BY EncodedUpToUnfolds
<1> HIDE DEF f
<1>3. 0 \in S
  BY <1>2 DEF Begins
<1>4. ASSUME NEW m \in 0..(n - 1), m \in S PROVE m + 1 \in S
  <2>1. f[m] \in Text /\ f[m + 1] \in Text /\ characters[m + 1] \in Character
    BY <1>1, <1>2
  <2>2. Encodings[characters[m + 1]] \in Text
    BY <2>1, CharacterBytes
  <2>3. Begins(f[m], f[m + 1])
    <3> DEFINE t == f[m]
               e == Encodings[characters[m + 1]]
    <3>1. f[m + 1] = t \o e /\ t \in Text /\ e \in Text
      BY <1>2, <2>1, <2>2
    <3> HIDE DEF t, e
    <3>2. Begins(t, t \o e)
      BY <3>1, Joined DEF Begins
    <3>3. QED
      BY <3>1, <3>2 DEF t
  <2>4. ASSUME NEW k \in 0..(m + 1) PROVE Begins(f[k], f[m + 1])
    <3>1. CASE k = m + 1
      BY <2>1, <3>1 DEF Begins, Text
    <3>2. CASE k \in 0..m
      <4>1. Begins(f[k], f[m])
        BY <1>4, <3>2
      <4>2. Len(f[k]) \in Nat /\ Len(f[m]) \in Nat /\ Len(f[m + 1]) \in Nat
        BY <1>1, <1>2, <2>1, <3>2 DEF Text
      <4>3. QED
        BY <2>3, <4>1, <4>2 DEF Begins
    <3>3. QED
      BY <3>1, <3>2
  <2>5. QED
    BY <2>4
<1> HIDE DEF S
<1>5. \A m \in 0..n : m \in S
  BY <1>1, <1>3, <1>4, Induction
<1>6. QED
  BY <1>1, <1>5 DEF S, f

\* Where the characters of a text begin, and what is written there.
Spells(text, offset, characters) ==
  /\ text \in Text /\ characters \in Characters
  /\ offset \in [0..Len(characters) -> 0..Len(text)]
  /\ offset[0] = 0 /\ offset[Len(characters)] = Len(text)
  /\ \A k \in 0..(Len(characters) - 1) :
       /\ offset[k + 1] = offset[k] + Len(Encodings[characters[k + 1]])
       /\ \A i \in 1..Len(Encodings[characters[k + 1]]) :
            text[offset[k] + i] = Encodings[characters[k + 1]][i]

OffsetsOf(characters) == [k \in 0..Len(characters) |-> Len(EncodedUpTo(characters)[k])]

LEMMA EncodedSpells ==
  ASSUME NEW characters \in Characters
  PROVE  Spells(Encoded(characters), OffsetsOf(characters), characters)
<1> DEFINE n == Len(characters)
           f == EncodedUpTo(characters)
           offset == OffsetsOf(characters)
<1>1. n \in Nat /\ \A k \in 1..n : characters[k] \in Character
  BY DEF Characters
<1>2. /\ f \in [0..n -> Text] /\ f[0] = <<>>
      /\ \A k \in 0..(n - 1) : f[k + 1] = f[k] \o Encodings[characters[k + 1]]
  BY EncodedUpToUnfolds
<1>3. \A k \in 0..n : Begins(f[k], f[n])
  BY <1>1, EncodingsContinue
<1>4. offset = [k \in 0..n |-> Len(f[k])] /\ Encoded(characters) = f[n]
  BY DEF OffsetsOf, Encoded
<1> HIDE DEF f, offset
<1>5. f[n] \in Text /\ \A k \in 0..n : Len(f[k]) \in Nat
  BY <1>1, <1>2 DEF Text
<1>6. offset \in [0..n -> 0..Len(f[n])]
  BY <1>1, <1>3, <1>4, <1>5 DEF Begins
<1>7. offset[0] = 0 /\ offset[n] = Len(f[n])
  BY <1>1, <1>2, <1>4
<1>8. ASSUME NEW k \in 0..(n - 1)
      PROVE  /\ offset[k + 1] = offset[k] + Len(Encodings[characters[k + 1]])
             /\ \A i \in 1..Len(Encodings[characters[k + 1]]) :
                  f[n][offset[k] + i] = Encodings[characters[k + 1]][i]
  <2> DEFINE e == Encodings[characters[k + 1]]
  <2>1. characters[k + 1] \in Character /\ k \in 0..n /\ k + 1 \in 0..n
    BY <1>1
  <2>2. e \in Text
    BY <2>1, CharacterBytes
  <2> HIDE DEF e
  <2>3. f[k] \in Text /\ f[k + 1] = f[k] \o e
    BY <1>2, <2>1 DEF e
  <2>4. /\ Len(f[k + 1]) = Len(f[k]) + Len(e)
        /\ \A i \in 1..Len(e) : f[k + 1][Len(f[k]) + i] = e[i]
    BY <2>2, <2>3, Joined
  <2>5. Begins(f[k + 1], f[n])
    BY <1>3, <2>1
  <2>6. \A i \in 1..Len(e) : f[n][Len(f[k]) + i] = e[i]
    <3>1. ASSUME NEW i \in 1..Len(e) PROVE Len(f[k]) + i \in 1..Len(f[k + 1])
      BY <2>2, <2>3, Joined
    <3>2. QED
      BY <2>4, <2>5, <3>1 DEF Begins
  <2>7. offset[k] = Len(f[k]) /\ offset[k + 1] = Len(f[k + 1])
    BY <1>4, <2>1
  <2>8. QED
    BY <2>4, <2>6, <2>7 DEF e
<1>9. QED
  <2>1. /\ offset \in [0..Len(characters) -> 0..Len(f[n])]
        /\ offset[0] = 0 /\ offset[Len(characters)] = Len(f[n])
        /\ \A k \in 0..(Len(characters) - 1) :
             /\ offset[k + 1] = offset[k] + Len(Encodings[characters[k + 1]])
             /\ \A i \in 1..Len(Encodings[characters[k + 1]]) :
                  f[n][offset[k] + i] = Encodings[characters[k + 1]][i]
    BY <1>6, <1>7, <1>8
  <2>2. Spells(f[n], offset, characters)
    BY <1>5, <2>1 DEF Spells
  <2>3. QED
    BY <1>4, <2>2 DEF offset

\* What the code reads at the beginning of a character.
LEMMA AtCharacter ==
  ASSUME NEW text, NEW offset, NEW characters, Spells(text, offset, characters),
         NEW k \in 0..(Len(characters) - 1)
  PROVE  /\ offset[k] \in Nat /\ offset[k] < Len(text) /\ characters[k + 1] \in Character
         /\ offset[k + 1] = offset[k] + Width(ByteAt(text, offset[k])) /\ offset[k + 1] <= Len(text)
         /\ Width(ByteAt(text, offset[k])) = Len(Encodings[characters[k + 1]])
         /\ ByteAt(text, offset[k]) = "newline" <=> characters[k + 1] = NewLine
         /\ ByteAt(text, offset[k]) \in Ascii \cup Lead
         /\ Units(text, offset[k]) = HalvesOf(characters[k + 1])
         /\ \A i \in 1..(Width(ByteAt(text, offset[k])) - 1) : ByteAt(text, offset[k] + i) = "c"
<1> DEFINE c == characters[k + 1]
           e == Encodings[c]
<1>1. Len(text) \in Nat /\ Len(characters) \in Nat
  BY DEF Spells, Text, Characters
<1>2. c \in Character /\ offset[k] \in 0..Len(text) /\ offset[k + 1] \in 0..Len(text)
  <2>1. k + 1 \in 1..Len(characters) /\ k \in 0..Len(characters) /\ k + 1 \in 0..Len(characters)
    BY <1>1
  <2>2. /\ characters \in Seq(Character)
        /\ offset \in [0..Len(characters) -> 0..Len(text)]
    BY DEF Spells, Characters
  <2>3. QED
    BY <2>1, <2>2
<1>3. /\ offset[k + 1] = offset[k] + Len(e)
      /\ \A i \in 1..Len(e) : text[offset[k] + i] = e[i]
  BY DEF Spells
<1> HIDE DEF c
<1>4. /\ e \in Text /\ Len(e) \in 1..4 /\ (e[1] = "newline" <=> c = NewLine)
      /\ e[1] \in Ascii \cup Lead /\ Width(e[1]) = Len(e) /\ (Len(e) = 4 <=> c = HighCharacter)
      /\ \A i \in 2..Len(e) : e[i] = "c"
  BY <1>2, CharacterBytes
<1> HIDE DEF e
<1>5. ByteAt(text, offset[k]) = e[1]
  BY <1>2, <1>3, <1>4 DEF ByteAt
<1>6. ASSUME NEW i \in 1..(Len(e) - 1) PROVE ByteAt(text, offset[k] + i) = "c"
  <2>1. i + 1 \in 2..Len(e) /\ i + 1 \in 1..Len(e)
    BY <1>4
  <2>2. offset[k] \in Int /\ i \in Int
    BY <1>1, <1>2, <1>4
  <2>3. (offset[k] + i) + 1 = offset[k] + (i + 1)
    BY <2>2
  <2>4. QED
    BY <1>3, <1>4, <2>1, <2>3 DEF ByteAt
<1>7. Units(text, offset[k]) = HalvesOf(c)
  <2>1. Units(text, offset[k]) = IF Len(e) = 4 /\ offset[k] + 4 <= Len(text) THEN 2 ELSE 1
    BY <1>4, <1>5 DEF Units
  <2>2. Len(e) = 4 => offset[k] + 4 <= Len(text)
    BY <1>1, <1>2, <1>3
  <2>3. QED
    BY <1>4, <2>1, <2>2 DEF HalvesOf
<1>8. QED
  BY <1>1, <1>2, <1>3, <1>4, <1>5, <1>6, <1>7 DEF c, e

-----------------------------------------------------------------------------
(***************************************************************************)
(* The check of the encoding.                                              *)
(***************************************************************************)
LEMMA EncodedAppend ==
  ASSUME NEW characters \in Characters, NEW c \in Character
  PROVE  /\ Append(characters, c) \in Characters
         /\ Encoded(Append(characters, c)) = Encoded(characters) \o Encodings[c]
<1> DEFINE n == Len(characters)
           more == Append(characters, c)
           f == EncodedUpTo(characters)
           g == EncodedUpTo(more)
           S == {k \in Nat : g[k] = f[k]}
<1>1. /\ n \in Nat /\ more \in Characters /\ Len(more) = n + 1 /\ more[n + 1] = c
      /\ \A k \in 1..n : more[k] = characters[k]
  BY DEF Characters
<1> HIDE DEF more
<1>2. f[0] = <<>> /\ \A k \in 0..(n - 1) : f[k + 1] = f[k] \o Encodings[characters[k + 1]]
  BY EncodedUpToUnfolds
<1>3. g[0] = <<>> /\ \A k \in 0..n : g[k + 1] = g[k] \o Encodings[more[k + 1]]
  <2>1. g[0] = <<>> /\ \A k \in 0..(Len(more) - 1) : g[k + 1] = g[k] \o Encodings[more[k + 1]]
    BY <1>1, EncodedUpToUnfolds
  <2>2. Len(more) - 1 = n
    BY <1>1
  <2>3. QED
    BY <2>1, <2>2
<1> HIDE DEF f, g
<1>4. 0 \in S
  BY <1>2, <1>3
<1>5. ASSUME NEW k \in 0..(n - 1), k \in S PROVE k + 1 \in S
  <2>1. k \in 0..n /\ k + 1 \in 1..n
    BY <1>1
  <2>2. g[k + 1] = g[k] \o Encodings[more[k + 1]] /\ f[k + 1] = f[k] \o Encodings[characters[k + 1]]
    BY <1>2, <1>3, <2>1
  <2>3. more[k + 1] = characters[k + 1]
    BY <1>1, <2>1
  <2>4. g[k] = f[k] /\ k + 1 \in Nat
    BY <1>5
  <2>5. g[k + 1] = f[k + 1]
    BY <2>2, <2>3, <2>4
  <2>6. QED
    BY <2>4, <2>5
<1> HIDE DEF S
<1>6. \A k \in 0..n : k \in S
  BY <1>1, <1>4, <1>5, Induction
<1>7. g[n] = f[n]
  BY <1>1, <1>6 DEF S
<1>8. g[n + 1] = f[n] \o Encodings[c]
  <2>1. n \in 0..n
    BY <1>1
  <2>2. g[n + 1] = g[n] \o Encodings[more[n + 1]]
    BY <1>3, <2>1
  <2>3. QED
    BY <1>1, <1>7, <2>2
<1>9. QED
  BY <1>1, <1>8 DEF Encoded, f, g, more

\* A character that is whole is one of the five.
LEMMA WholeIsCharacter ==
  ASSUME NEW text \in Text, NEW i \in Nat, i < Len(text), Whole(text, i)
  PROVE  \E c \in Character :
           /\ Len(Encodings[c]) = Width(ByteAt(text, i))
           /\ i + Len(Encodings[c]) <= Len(text)
           /\ \A j \in 1..Len(Encodings[c]) : text[i + j] = Encodings[c][j]
<1> DEFINE b == ByteAt(text, i)
<1>1. /\ b \in Ascii \cup Lead /\ i + (Width(b) - 1) < Len(text)
      /\ \A j \in 1..(Width(b) - 1) : ByteAt(text, i + j) = "c"
  BY DEF Whole
<1>2. text[i + 1] = b
  BY DEF ByteAt
<1> HIDE DEF b
<1>3. PICK c \in Character : Encodings[c][1] = b
  <2>1. b \in {"a", "newline", "two", "three", "four"}
    BY <1>1 DEF Ascii, Lead
  <2>2. /\ Encodings[1][1] = "a" /\ Encodings[2][1] = "newline" /\ Encodings[3][1] = "two"
        /\ Encodings[4][1] = "three" /\ Encodings[5][1] = "four"
    BY DEF Encodings
  <2>3. 1 \in Character /\ 2 \in Character /\ 3 \in Character /\ 4 \in Character /\ 5 \in Character
    BY DEF Character
  <2>4. QED
    BY <2>1, <2>2, <2>3
<1> DEFINE e == Encodings[c]
<1>4. Len(e) \in 1..4 /\ Width(b) = Len(e) /\ \A j \in 2..Len(e) : e[j] = "c"
  BY <1>3, CharacterBytes
<1>5. e[1] = b
  BY <1>3
<1> HIDE DEF e
<1>6. Len(text) \in Nat
  BY DEF Text
<1>7. ASSUME NEW j \in 1..Len(e) PROVE text[i + j] = e[j]
  <2>1. CASE j = 1
    BY <1>2, <1>5, <2>1
  <2>2. CASE j # 1
    <3>1. j \in 2..Len(e) /\ j - 1 \in 1..(Width(b) - 1)
      BY <1>4, <2>2
    <3>2. ByteAt(text, i + (j - 1)) = "c"
      BY <1>1, <3>1
    <3>3. (i + (j - 1)) + 1 = i + j
      BY <3>1
    <3>4. QED
      BY <1>4, <3>1, <3>2, <3>3 DEF ByteAt
  <2>3. QED
    BY <2>1, <2>2
<1>8. i + Len(e) <= Len(text)
  BY <1>1, <1>4, <1>6
<1>9. QED
  BY <1>4, <1>7, <1>8 DEF b, e

LEMMA EncodedIsValid ==
  ASSUME NEW characters \in Characters
  PROVE  IsValidUtf8(Encoded(characters))
<1> DEFINE text == Encoded(characters)
           offset == OffsetsOf(characters)
           n == Len(characters)
           valid == ValidFrom(text)
           S == {j \in Nat : valid[offset[n - j]]}
<1>1. Spells(text, offset, characters)
  BY EncodedSpells
<1>2. text \in Text /\ n \in Nat /\ Len(text) \in Nat /\ offset[0] = 0 /\ offset[n] = Len(text)
  BY <1>1 DEF Spells, Text, Characters
<1>3. \A i \in Nat : valid[i] <=> i >= Len(text) \/ (Whole(text, i) /\ valid[i + Width(ByteAt(text, i))])
  BY <1>2, ValidFromUnfolds
<1>4. ASSUME NEW k \in 0..(n - 1), valid[offset[k + 1]] PROVE valid[offset[k]]
  <2>1. /\ offset[k] \in Nat /\ offset[k] < Len(text)
        /\ offset[k + 1] = offset[k] + Width(ByteAt(text, offset[k])) /\ offset[k + 1] <= Len(text)
        /\ ByteAt(text, offset[k]) \in Ascii \cup Lead
        /\ \A i \in 1..(Width(ByteAt(text, offset[k])) - 1) : ByteAt(text, offset[k] + i) = "c"
    BY <1>1, AtCharacter
  <2>2. Width(ByteAt(text, offset[k])) \in 1..4
    BY <1>2, <2>1, WidthType
  <2>3. Whole(text, offset[k])
    BY <1>2, <2>1, <2>2 DEF Whole
  <2>4. QED
    BY <1>3, <1>4, <2>1, <2>3
<1> HIDE DEF text, offset, valid
<1>5. 0 \in S
  <2>1. valid[offset[n]]
    BY <1>2, <1>3
  <2>2. n - 0 = n
    BY <1>2
  <2>3. QED
    BY <2>1, <2>2
<1>6. ASSUME NEW j \in 0..(n - 1), j \in S PROVE j + 1 \in S
  <2>1. n - (j + 1) \in 0..(n - 1) /\ (n - (j + 1)) + 1 = n - j /\ j + 1 \in Nat
    BY <1>2
  <2>2. valid[offset[n - (j + 1)]]
    BY <1>4, <1>6, <2>1
  <2>3. QED
    BY <2>1, <2>2
<1> HIDE DEF S
<1>7. \A j \in 0..n : j \in S
  BY <1>2, <1>5, <1>6, Induction
<1>8. valid[0]
  <2>1. n \in S /\ n - n = 0
    BY <1>2, <1>7
  <2>2. QED
    BY <1>2, <2>1 DEF S
<1>9. QED
  BY <1>8 DEF IsValidUtf8, valid, text

LEMMA ValidIsEncoded ==
  ASSUME NEW text \in Text, IsValidUtf8(text)
  PROVE  \E characters \in Characters : text = Encoded(characters)
<1> DEFINE valid == ValidFrom(text)
           T == {i \in 0..Len(text) :
                   valid[i] /\ \E characters \in Characters : Encoded(characters) = SubSeq(text, 1, i)}
<1>1. Len(text) \in Nat
  BY DEF Text
<1>2. \A i \in Nat : valid[i] <=> i >= Len(text) \/ (Whole(text, i) /\ valid[i + Width(ByteAt(text, i))])
  BY ValidFromUnfolds
<1>3. valid[0]
  BY DEF IsValidUtf8
<1> HIDE DEF valid, T
<1>4. 0 \in T
  <2>1. <<>> \in Characters
    BY DEF Characters
  <2>2. Encoded(<<>>) = <<>>
    BY <2>1, EncodedUpToUnfolds DEF Encoded
  <2>3. SubSeq(text, 1, 0) = <<>>
    BY DEF Text
  <2>4. 0 \in 0..Len(text)
    BY <1>1
  <2>5. Encoded(<<>>) = SubSeq(text, 1, 0)
    BY <2>2, <2>3, Zenon
  <2>6. QED
    BY <1>3, <2>1, <2>4, <2>5 DEF T
<1>5. PICK m \in T : \A i \in T : i <= m
  <2>1. T \subseteq 0..Len(text)
    BY DEF T
  <2>2. QED
    BY <1>1, <1>4, <2>1, Greatest
<1>6. PICK characters \in Characters : Encoded(characters) = SubSeq(text, 1, m)
  BY <1>5 DEF T
<1>7. m \in 0..Len(text) /\ valid[m]
  BY <1>5 DEF T
<1>8. m = Len(text)
  <2> SUFFICES ASSUME m < Len(text) PROVE FALSE
    BY <1>1, <1>7
  <2>1. m \in Nat /\ Whole(text, m) /\ valid[m + Width(ByteAt(text, m))]
    BY <1>1, <1>2, <1>7
  <2>2. PICK c \in Character :
          /\ Len(Encodings[c]) = Width(ByteAt(text, m))
          /\ m + Len(Encodings[c]) <= Len(text)
          /\ \A j \in 1..Len(Encodings[c]) : text[m + j] = Encodings[c][j]
    BY <2>1, WholeIsCharacter
  <2> DEFINE e == Encodings[c]
             more == Append(characters, c)
             longer == SubSeq(text, 1, m + Len(e))
  <2>3. e \in Text /\ Len(e) \in 1..4
    BY CharacterBytes
  <2>4. more \in Characters /\ Encoded(more) = SubSeq(text, 1, m) \o e
    BY <1>6, EncodedAppend
  <2>5. SubSeq(text, 1, m) \in Text /\ Len(SubSeq(text, 1, m)) = m
        /\ \A j \in 1..m : SubSeq(text, 1, m)[j] = text[j]
    BY <1>1, <1>7 DEF Text
  <2> HIDE DEF e, more
  <2>6. m + Len(e) \in 0..Len(text)
    BY <1>1, <1>7, <2>2, <2>3 DEF e
  <2>7. longer \in Text /\ Len(longer) = m + Len(e) /\ \A j \in 1..(m + Len(e)) : longer[j] = text[j]
    BY <1>1, <2>6 DEF Text
  <2> HIDE DEF longer
  <2>8. SubSeq(text, 1, m) \o e = longer
    <3> DEFINE s == SubSeq(text, 1, m)
    <3>1. /\ s \in Text /\ Len(s) = m /\ \A j \in 1..m : s[j] = text[j]
      BY <2>5
    <3> HIDE DEF s
    <3>2. /\ s \o e \in Text /\ Len(s \o e) = m + Len(e)
          /\ \A j \in 1..m : (s \o e)[j] = s[j]
          /\ \A j \in 1..Len(e) : (s \o e)[m + j] = e[j]
      BY <2>3, <3>1, Joined
    <3>3. ASSUME NEW j \in 1..(m + Len(e)) PROVE (s \o e)[j] = longer[j]
      <4>1. CASE j \in 1..m
        BY <2>7, <3>1, <3>2, <4>1
      <4>2. CASE j \notin 1..m
        <5>1. j - m \in 1..Len(e) /\ m + (j - m) = j
          BY <1>7, <2>3, <4>2
        <5>2. (s \o e)[j] = e[j - m] /\ text[j] = e[j - m]
          BY <2>2, <3>2, <5>1 DEF e
        <5>3. QED
          BY <2>7, <5>2
      <4>3. QED
        BY <4>1, <4>2
    <3>4. s \o e = longer
      <4>1. s \o e \in Seq(Byte) /\ longer \in Seq(Byte) /\ Len(s \o e) = Len(longer)
        BY <2>7, <3>2 DEF Text
      <4>2. QED
        BY <2>7, <3>2, <3>3, <4>1, SeqEqual
    <3>5. QED
      BY <3>4 DEF s
  <2>9. m + Len(e) \in T
    <3>1. valid[m + Len(e)]
      BY <2>1, <2>2 DEF e
    <3>2. more \in Characters /\ Encoded(more) = SubSeq(text, 1, m + Len(e))
      BY <2>4, <2>8 DEF longer
    <3>3. QED
      BY <2>6, <3>1, <3>2 DEF T
  <2>10. m + Len(e) <= m
    BY <1>5, <2>9
  <2> DEFINE l == Len(e)
  <2>11. l \in 1..4
    BY <2>3
  <2> HIDE DEF l
  <2>12. m \in Int
    BY <1>1, <1>7
  <2>13. l \in Int /\ l >= 1
    BY <2>11
  <2>14. QED
    BY <2>10, <2>12, <2>13 DEF l
<1>9. SubSeq(text, 1, Len(text)) = text
  BY <1>1 DEF Text
<1>10. QED
  BY <1>6, <1>8, <1>9

LEMMA NoMoreThanBytes ==
  ASSUME NEW text, NEW offset, NEW characters, Spells(text, offset, characters)
  PROVE  Len(characters) <= Len(text)
<1> DEFINE n == Len(characters)
           S == {k \in Nat : k <= offset[k]}
<1>1. n \in Nat /\ text \in Text /\ offset[0] = 0 /\ offset[n] = Len(text)
  BY DEF Spells, Characters
<1>2. 0 \in S
  BY <1>1
<1>3. ASSUME NEW k \in 0..(n - 1), k \in S PROVE k + 1 \in S
  <2>1. /\ offset[k] \in Nat /\ offset[k] < Len(text)
        /\ offset[k + 1] = offset[k] + Width(ByteAt(text, offset[k]))
    BY AtCharacter
  <2>2. Width(ByteAt(text, offset[k])) \in 1..4
    BY <1>1, <2>1, WidthType
  <2>3. k <= offset[k] /\ k \in Nat
    BY <1>3
  <2>4. k + 1 <= offset[k + 1]
    BY <2>1, <2>2, <2>3
  <2>5. QED
    BY <2>3, <2>4
<1> HIDE DEF S
<1>4. \A k \in 0..n : k \in S
  BY <1>1, <1>2, <1>3, Induction
<1>5. QED
  BY <1>1, <1>4 DEF S

\* Of all texts, the check of the encoding lets in exactly those that are made of
\* whole characters (is_valid_utf8, source.cpp:46-74).
THEOREM EncodingIsChecked == \A text \in Text : EncodingChecked(text)
<1>1. TAKE text \in Text
<1>2. ASSUME IsValidUtf8(text)
      PROVE  \E n \in 0..Len(text) : \E characters \in [1..n -> Character] : text = Encoded(characters)
  <2>1. PICK characters \in Characters : text = Encoded(characters)
    BY <1>2, ValidIsEncoded
  <2>2. Len(characters) <= Len(text)
    BY <2>1, EncodedSpells, NoMoreThanBytes
  <2>3. /\ Len(characters) \in 0..Len(text)
        /\ characters \in [1..Len(characters) -> Character]
    BY <2>2 DEF Characters, Text
  <2>4. QED
    BY <2>1, <2>3
<1>3. ASSUME NEW n \in 0..Len(text), NEW characters \in [1..n -> Character],
             text = Encoded(characters)
      PROVE  IsValidUtf8(text)
  <2>1. n \in Nat
    BY DEF Text
  <2>2. characters \in Characters
    BY <2>1 DEF Characters
  <2>3. QED
    BY <1>3, <2>2, EncodedIsValid
<1>4. QED
  BY <1>2, <1>3 DEF EncodingChecked

-----------------------------------------------------------------------------
(***************************************************************************)
(* Places, character by character.                                         *)
(***************************************************************************)
LEMMA BreaksUnfold ==
  ASSUME NEW characters \in Characters, NEW k \in 0..(Len(characters) - 1)
  PROVE  Breaks(characters, k + 1)
           = IF characters[k + 1] = NewLine THEN Breaks(characters, k) \cup {k + 1}
             ELSE Breaks(characters, k)
<1>1. Len(characters) \in Nat
  BY DEF Characters
<1>2. 1..(k + 1) = (1..k) \cup {k + 1}
  BY <1>1
<1>3. QED
  BY <1>2 DEF Breaks

LEMMA BreaksType ==
  ASSUME NEW characters \in Characters, NEW k \in 0..Len(characters)
  PROVE  /\ Breaks(characters, k) \subseteq 1..k /\ IsFiniteSet(Breaks(characters, k))
         /\ Cardinality(Breaks(characters, k)) \in Nat
<1>1. k \in Int /\ Breaks(characters, k) \subseteq 1..k
  BY DEF Breaks, Characters
<1>2. IsFiniteSet(1..k)
  BY <1>1, FS_Interval
<1>3. IsFiniteSet(Breaks(characters, k))
  BY <1>1, <1>2, FS_Subset
<1>4. QED
  BY <1>1, <1>3, FS_CardinalityType

LEMMA LineBeginUnfolds ==
  ASSUME NEW characters \in Characters
  PROVE  /\ LineBegin(characters, 0) = 0
         /\ \A k \in 0..(Len(characters) - 1) :
              LineBegin(characters, k + 1)
                = IF characters[k + 1] = NewLine THEN k + 1 ELSE LineBegin(characters, k)
<1>1. Len(characters) \in Nat
  BY DEF Characters
<1>2. LineBegin(characters, 0) = 0
  BY DEF LineBegin, Breaks
<1>3. ASSUME NEW k \in 0..(Len(characters) - 1)
      PROVE  LineBegin(characters, k + 1)
               = IF characters[k + 1] = NewLine THEN k + 1 ELSE LineBegin(characters, k)
  <2> DEFINE B == Breaks(characters, k + 1)
  <2>1. CASE characters[k + 1] = NewLine
    <3>1. k + 1 \in 0..Len(characters) /\ k + 1 \in Nat
      BY <1>1
    <3>2. k + 1 \in B /\ B \subseteq 1..(k + 1) /\ k + 1 \in Nat
      BY <2>1, <3>1, BreaksUnfold, BreaksType
    <3> HIDE DEF B
    <3>3. k + 1 \in {0} \cup B /\ \A j \in B : j <= k + 1
      BY <3>2
    <3>4. \A i \in {0} \cup B : (\A j \in B : j <= i) => i = k + 1
      BY <3>2
    <3>5. (CHOOSE i \in {0} \cup B : \A j \in B : j <= i) = k + 1
      BY <3>3, <3>4
    <3>6. QED
      BY <2>1, <3>5 DEF LineBegin, B
  <2>2. CASE characters[k + 1] # NewLine
    <3> DEFINE last(S) == CHOOSE i \in {0} \cup S : \A j \in S : j <= i
    <3>1. B = Breaks(characters, k)
      BY <2>2, BreaksUnfold
    <3>2. LineBegin(characters, k + 1) = last(B) /\ LineBegin(characters, k) = last(Breaks(characters, k))
      BY DEF LineBegin
    <3> HIDE DEF last
    <3>3. QED
      BY <2>2, <3>1, <3>2
  <2>3. QED
    BY <2>1, <2>2
<1>4. QED
  BY <1>2, <1>3

LEMMA LineBeginType ==
  ASSUME NEW characters \in Characters, NEW k \in 0..Len(characters)
  PROVE  LineBegin(characters, k) \in 0..k
<1> DEFINE n == Len(characters)
           S == {j \in Nat : LineBegin(characters, j) \in 0..j}
<1>1. n \in Nat
  BY DEF Characters
<1>2. 0 \in S
  BY LineBeginUnfolds
<1>3. ASSUME NEW j \in 0..(n - 1), j \in S PROVE j + 1 \in S
  BY <1>1, <1>3, LineBeginUnfolds
<1> HIDE DEF S
<1>4. \A j \in 0..n : j \in S
  BY <1>1, <1>2, <1>3, Induction
<1>5. QED
  BY <1>4 DEF S

PlaceType == [line : Nat, character : Nat]

LEMMA PlaceUnfolds ==
  ASSUME NEW characters \in Characters
  PROVE  /\ Place(characters, 0) = [line |-> 0, character |-> 0]
         /\ \A k \in 0..(Len(characters) - 1) :
              /\ characters[k + 1] = NewLine =>
                   Place(characters, k + 1)
                     = [line |-> Place(characters, k).line + 1, character |-> 0]
              /\ characters[k + 1] # NewLine =>
                   Place(characters, k + 1)
                     = [line |-> Place(characters, k).line,
                        character |-> Place(characters, k).character + HalvesOf(characters[k + 1])]
<1> DEFINE n == Len(characters)
           U == UnitsUpTo(characters)
           B(k) == Breaks(characters, k)
           L(k) == LineBegin(characters, k)
<1>1. n \in Nat
  BY DEF Characters
<1>2. U \in [0..n -> Nat] /\ U[0] = 0 /\ \A k \in 0..(n - 1) : U[k + 1] = U[k] + HalvesOf(characters[k + 1])
  BY UnitsUpToUnfolds
<1>3. Place(characters, 0) = [line |-> 0, character |-> 0]
  <2>1. B(0) = {} /\ L(0) = 0
    BY LineBeginUnfolds DEF Breaks
  <2>2. Cardinality(B(0)) = 0
    BY <2>1, FS_EmptySet
  <2>3. QED
    BY <1>2, <2>1, <2>2 DEF Place
<1>4. ASSUME NEW k \in 0..(n - 1)
      PROVE  /\ characters[k + 1] = NewLine =>
                  Place(characters, k + 1)
                    = [line |-> Place(characters, k).line + 1, character |-> 0]
             /\ characters[k + 1] # NewLine =>
                  Place(characters, k + 1)
                    = [line |-> Place(characters, k).line,
                       character |-> Place(characters, k).character + HalvesOf(characters[k + 1])]
  <2>1. k \in 0..n /\ k + 1 \in 0..n
    BY <1>1
  <2>2. U[k] \in Nat /\ U[k + 1] \in Nat /\ U[k + 1] = U[k] + HalvesOf(characters[k + 1])
    BY <1>2, <2>1
  <2>3. L(k) \in 0..n
    <3>1. L(k) \in 0..k
      BY <2>1, LineBeginType
    <3>2. QED
      BY <1>1, <2>1, <3>1
  <2>4. U[L(k)] \in Nat /\ HalvesOf(characters[k + 1]) \in Nat
    BY <1>2, <2>3 DEF HalvesOf
  <2>5. CASE characters[k + 1] = NewLine
    <3>1. L(k + 1) = k + 1 /\ B(k + 1) = B(k) \cup {k + 1}
      BY <2>5, LineBeginUnfolds, BreaksUnfold
    <3>2. IsFiniteSet(B(k)) /\ B(k) \subseteq 1..k
      BY <2>1, BreaksType
    <3>3. k + 1 \notin B(k)
      BY <1>1, <3>2
    <3>4. Cardinality(B(k + 1)) = Cardinality(B(k)) + 1
      BY <3>1, <3>2, <3>3, FS_AddElement
    <3>5. QED
      BY <2>2, <2>5, <3>1, <3>4 DEF Place
  <2>6. CASE characters[k + 1] # NewLine
    <3>1. L(k + 1) = L(k) /\ B(k + 1) = B(k)
      BY <2>6, LineBeginUnfolds, BreaksUnfold
    <3>2. U[k + 1] - U[L(k)] = (U[k] - U[L(k)]) + HalvesOf(characters[k + 1])
      BY <2>2, <2>4
    <3>3. QED
      BY <2>6, <3>1, <3>2 DEF Place
  <2>7. QED
    BY <2>5, <2>6
<1>5. QED
  BY <1>3, <1>4

LEMMA PlaceTyped ==
  ASSUME NEW characters \in Characters
  PROVE  \A k \in 0..Len(characters) : Place(characters, k) \in PlaceType
<1> DEFINE n == Len(characters)
           S == {j \in Nat : Place(characters, j) \in PlaceType}
<1>1. n \in Nat
  BY DEF Characters
<1>2. 0 \in S
  BY PlaceUnfolds DEF PlaceType
<1>3. ASSUME NEW j \in 0..(n - 1), j \in S PROVE j + 1 \in S
  <2> DEFINE p == Place(characters, j)
             q == Place(characters, j + 1)
  <2>1. /\ characters[j + 1] = NewLine => q = [line |-> p.line + 1, character |-> 0]
        /\ characters[j + 1] # NewLine =>
             q = [line |-> p.line, character |-> p.character + HalvesOf(characters[j + 1])]
    BY PlaceUnfolds
  <2>2. p.line \in Nat /\ p.character \in Nat
    BY <1>3 DEF PlaceType
  <2> HIDE DEF p, q
  <2>3. q \in PlaceType
    BY <2>1, <2>2 DEF PlaceType, HalvesOf
  <2>4. QED
    BY <2>3 DEF q
<1> HIDE DEF S
<1>4. \A j \in 0..n : j \in S
  BY <1>1, <1>2, <1>3, Induction
<1>5. QED
  BY <1>4 DEF S

\* Within a line the characters grow, and lines never go back.
LEMMA PlacesGrow ==
  ASSUME NEW characters \in Characters, NEW j \in 0..Len(characters)
  PROVE  \A k \in 0..Len(characters) :
           k >= j => /\ Place(characters, j).line <= Place(characters, k).line
                     /\ Place(characters, j).line = Place(characters, k).line
                          => Place(characters, j).character <= Place(characters, k).character
<1> DEFINE n == Len(characters)
           p(k) == Place(characters, k)
           After(k) == /\ p(j).line <= p(k).line
                       /\ p(j).line = p(k).line => p(j).character <= p(k).character
           S == {k \in Nat : k >= j => After(k)}
<1>1. n \in Nat /\ j \in Nat
  BY DEF Characters
<1>2. \A k \in 0..n : p(k).line \in Nat /\ p(k).character \in Nat
  BY PlaceTyped DEF PlaceType
<1>3. After(j)
  BY <1>2
<1>4. 0 \in S
  BY <1>1, <1>3
<1>5. ASSUME NEW k \in 0..(n - 1), k \in S PROVE k + 1 \in S
  <2>1. k \in 0..n /\ k + 1 \in 0..n /\ k + 1 \in Nat /\ k \in Nat
    BY <1>1
  <2>2. /\ characters[k + 1] = NewLine => p(k + 1) = [line |-> p(k).line + 1, character |-> 0]
        /\ characters[k + 1] # NewLine =>
             p(k + 1) = [line |-> p(k).line, character |-> p(k).character + HalvesOf(characters[k + 1])]
    BY PlaceUnfolds
  <2>3. k >= j => After(k)
    BY <1>5
  <2>4. p(j).line \in Nat /\ p(j).character \in Nat /\ p(k).line \in Nat /\ p(k).character \in Nat
    BY <1>2, <2>1
  <2> HIDE DEF p
  <2>5. k >= j => After(k + 1)
    BY <2>2, <2>3, <2>4 DEF HalvesOf
  <2>6. k + 1 >= j => k >= j \/ k + 1 = j
    BY <1>1, <2>1
  <2>7. k + 1 >= j => After(k + 1)
    BY <1>3, <2>5, <2>6
  <2>8. QED
    BY <2>1, <2>7
<1> HIDE DEF S
<1>6. \A k \in 0..n : k \in S
  BY <1>1, <1>4, <1>5, Induction
<1>7. QED
  BY <1>6 DEF S

LEMMA OffsetsGrow ==
  ASSUME NEW text, NEW offset, NEW characters, Spells(text, offset, characters),
         NEW j \in 0..Len(characters)
  PROVE  \A k \in 0..Len(characters) : k > j => offset[j] < offset[k]
<1> DEFINE n == Len(characters)
           S == {k \in Nat : k > j => offset[j] < offset[k]}
<1>1. n \in Nat /\ j \in Nat /\ Len(text) \in Nat
  BY DEF Spells, Characters, Text
<1>2. \A k \in 0..n : offset[k] \in Nat
  BY <1>1 DEF Spells
<1>3. 0 \in S
  BY <1>1
<1>4. ASSUME NEW k \in 0..(n - 1), k \in S PROVE k + 1 \in S
  <2>1. k \in 0..n /\ k + 1 \in 0..n /\ k + 1 \in Nat /\ k \in Nat
    BY <1>1
  <2>2. offset[k] \in Nat /\ offset[k] < Len(text) /\ offset[k + 1] = offset[k] + Width(ByteAt(text, offset[k]))
    BY AtCharacter
  <2>3. Width(ByteAt(text, offset[k])) \in 1..4
    BY <2>2, WidthType DEF Spells
  <2>4. offset[k] < offset[k + 1] /\ offset[j] \in Nat
    BY <1>2, <2>2, <2>3
  <2>5. k > j => offset[j] < offset[k]
    BY <1>4
  <2>6. k + 1 > j => k > j \/ k = j
    BY <1>1, <2>1
  <2>7. k + 1 > j => offset[j] < offset[k + 1]
    BY <1>2, <2>1, <2>4, <2>5, <2>6
  <2>8. QED
    BY <2>1, <2>7
<1> HIDE DEF S
<1>5. \A k \in 0..n : k \in S
  BY <1>1, <1>3, <1>4, Induction
<1>6. QED
  BY <1>5 DEF S

-----------------------------------------------------------------------------
(***************************************************************************)
(* From an offset to the position, and back.                               *)
(***************************************************************************)
LEMMA PositionOfPlace ==
  ASSUME NEW text, NEW offset, NEW characters, Spells(text, offset, characters),
         NEW k \in 0..Len(characters)
  PROVE  PositionAt(text, offset[k]) = Place(characters, k)
<1> DEFINE n == Len(characters)
           p(j) == Place(characters, j)
           from == PositionFrom(text, offset[k])
           at(j) == [offset |-> offset[j], line |-> p(j).line, character |-> p(j).character]
           S == {j \in Nat : j <= k => from[at(j)] = from[at(0)]}
<1>1. n \in Nat /\ text \in Text /\ Len(text) \in Nat /\ k \in Nat /\ characters \in Characters
  BY DEF Spells, Characters, Text
<1>2. offset[0] = 0 /\ \A j \in 0..n : offset[j] \in Nat /\ offset[j] <= Len(text)
  <2>1. offset \in [0..n -> 0..Len(text)] /\ offset[0] = 0
    BY DEF Spells
  <2>2. QED
    BY <1>1, <2>1
<1>3. Smaller(Len(text), offset[k]) = offset[k]
  BY <1>1, <1>2 DEF Smaller
<1>4. \A j \in 0..n : p(j) \in PlaceType
  BY <1>1, PlaceTyped
<1>5. \A w \in Reached : from[w] = IF w.offset >= offset[k]
                                   THEN [line |-> w.line, character |-> w.character]
                                   ELSE from[Further(text, w)]
  BY <1>1, <1>2, <1>3, PositionFromUnfolds
<1>6. ASSUME NEW j \in 0..n PROVE at(j) \in Reached
  BY <1>2, <1>4 DEF Reached, PlaceType
<1>7. ASSUME NEW j \in 0..(n - 1), j < k PROVE from[at(j)] = from[at(j + 1)]
  <2>1. j \in 0..n /\ j + 1 \in 0..n
    BY <1>1
  <2>2. offset[j] < offset[k]
    BY <1>7, <2>1, OffsetsGrow
  <2>3. from[at(j)] = from[Further(text, at(j))]
    <3>1. at(j) \in Reached /\ at(j).offset = offset[j] /\ ~(offset[j] >= offset[k])
      BY <1>2, <1>6, <2>1, <2>2
    <3> HIDE DEF from, at
    <3>2. QED
      BY <1>5, <3>1
  <2>4. /\ offset[j + 1] = offset[j] + Width(ByteAt(text, offset[j]))
        /\ ByteAt(text, offset[j]) = "newline" <=> characters[j + 1] = NewLine
        /\ Units(text, offset[j]) = HalvesOf(characters[j + 1])
    BY AtCharacter
  <2>5. Further(text, at(j)) = at(j + 1)
    <3>1. CASE characters[j + 1] = NewLine
      <4>1. p(j + 1) = [line |-> p(j).line + 1, character |-> 0]
        BY <1>1, <3>1, PlaceUnfolds
      <4>2. offset[j + 1] = offset[j] + 1
        BY <2>4, <3>1 DEF Width, Lead
      <4>3. QED
        BY <2>4, <3>1, <4>1, <4>2 DEF Further
    <3>2. CASE characters[j + 1] # NewLine
      <4>1. p(j + 1) = [line |-> p(j).line, character |-> p(j).character + HalvesOf(characters[j + 1])]
        BY <1>1, <3>2, PlaceUnfolds
      <4>2. QED
        BY <2>4, <3>2, <4>1 DEF Further
    <3>3. QED
      BY <3>1, <3>2
  <2>6. QED
    BY <2>3, <2>5
<1>8. from[at(k)] = p(k)
  <2>1. at(k) \in Reached /\ at(k).offset = offset[k] /\ offset[k] \in Nat
    BY <1>2, <1>6
  <2>2. from[at(k)] = [line |-> at(k).line, character |-> at(k).character]
    BY <1>5, <2>1
  <2>3. p(k) \in PlaceType
    BY <1>4
  <2>4. QED
    BY <2>2, <2>3 DEF PlaceType
<1>9. PositionAt(text, offset[k]) = from[at(0)]
  BY <1>1, <1>2, PlaceUnfolds DEF PositionAt
<1> HIDE DEF from, at, p
<1>10. 0 \in S
  OBVIOUS
<1>11. ASSUME NEW j \in 0..(n - 1), j \in S PROVE j + 1 \in S
  BY <1>1, <1>7, <1>11
<1> HIDE DEF S
<1>12. \A j \in 0..n : j \in S
  BY <1>1, <1>10, <1>11, Induction
<1>13. from[at(k)] = from[at(0)]
  BY <1>1, <1>12 DEF S
<1>14. QED
  BY <1>8, <1>9, <1>13 DEF p

InOneLine(text, begin, d) == \A i \in 0..(d - 1) : ByteAt(text, begin + i) # "newline"

\* Bytes without a newline leave the line as it is.
LEMMA BytesPassed ==
  ASSUME NEW text \in Text, NEW begin \in Nat, NEW left \in Int, left # 0, NEW d \in Nat,
         begin + d <= Len(text), InOneLine(text, begin, d)
  PROVE  ToLine(text)[[offset |-> begin + d, left |-> left]]
           = ToLine(text)[[offset |-> begin, left |-> left]]
<1> DEFINE to == ToLine(text)
           at(e) == [offset |-> begin + e, left |-> left]
           S == {e \in Nat : to[at(e)] = to[at(0)]}
<1>1. Len(text) \in Nat
  BY DEF Text
<1>2. ASSUME NEW e \in 0..(d - 1) PROVE to[at(e + 1)] = to[at(e)]
  <2>1. at(e) \in Way /\ ~AtLine(text, at(e))
    BY <1>1 DEF Way, AtLine
  <2>2. ByteAt(text, begin + e) # "newline" /\ (begin + e) + 1 = begin + (e + 1)
    BY DEF InOneLine
  <2>3. PassByte(text, at(e)) = at(e + 1)
    BY <2>2 DEF PassByte
  <2> HIDE DEF at
  <2>4. QED
    BY <2>1, <2>3, ToLineUnfolds
<1> HIDE DEF to, at
<1>3. 0 \in S
  OBVIOUS
<1>4. ASSUME NEW e \in 0..(d - 1), e \in S PROVE e + 1 \in S
  BY <1>2, <1>4
<1> HIDE DEF S
<1>5. \A e \in 0..d : e \in S
  BY <1>3, <1>4, Induction
<1>6. to[at(d)] = to[at(0)]
  BY <1>5 DEF S
<1>7. begin + 0 = begin
  OBVIOUS
<1>8. QED
  BY <1>6, <1>7 DEF to, at

LEMMA LinePassesCharacter ==
  ASSUME NEW text, NEW offset, NEW characters, Spells(text, offset, characters),
         NEW k \in 0..(Len(characters) - 1), NEW left \in Int, left # 0
  PROVE  ToLine(text)[[offset |-> offset[k], left |-> left]]
           = ToLine(text)[[offset |-> offset[k + 1],
                           left |-> IF characters[k + 1] = NewLine THEN left - 1 ELSE left]]
<1> DEFINE o == offset[k]
           w == Width(ByteAt(text, o))
           later == IF characters[k + 1] = NewLine THEN left - 1 ELSE left
           first == [offset |-> o, left |-> left]
<1>1. text \in Text /\ Len(text) \in Nat
  BY DEF Spells, Text
<1>2. /\ o \in Nat /\ o < Len(text) /\ offset[k + 1] = o + w /\ offset[k + 1] <= Len(text)
      /\ ByteAt(text, o) = "newline" <=> characters[k + 1] = NewLine
      /\ \A i \in 1..(w - 1) : ByteAt(text, o + i) = "c"
  BY AtCharacter
<1>3. w \in 1..4
  BY <1>1, <1>2, WidthType
<1>4. first \in Way /\ ~AtLine(text, first)
  BY <1>1, <1>2 DEF Way, AtLine
<1>5. PassByte(text, first) = [offset |-> o + 1, left |-> later]
  BY <1>2 DEF PassByte
<1>6. ToLine(text)[first] = ToLine(text)[[offset |-> o + 1, left |-> later]]
  BY <1>1, <1>4, <1>5, ToLineUnfolds
<1>7. CASE characters[k + 1] = NewLine
  <2>1. w = 1
    BY <1>2, <1>7 DEF Width, Lead
  <2>2. QED
    BY <1>2, <1>6, <2>1
<1>8. CASE characters[k + 1] # NewLine
  <2> DEFINE d == w - 1
             begin == o + 1
  <2>1. begin \in Nat /\ d \in Nat /\ begin + d = offset[k + 1]
    BY <1>2, <1>3
  <2>2. ASSUME NEW i \in 0..(d - 1) PROVE ByteAt(text, begin + i) # "newline"
    <3>1. i + 1 \in 1..(w - 1) /\ begin + i = o + (i + 1)
      BY <1>2, <1>3
    <3>2. ByteAt(text, o + (i + 1)) = "c"
      BY <1>2, <3>1
    <3>3. QED
      BY <3>1, <3>2
  <2> HIDE DEF d, begin
  <2>3. begin + d <= Len(text)
    BY <1>2, <2>1
  <2>4. ToLine(text)[[offset |-> begin + d, left |-> left]]
          = ToLine(text)[[offset |-> begin, left |-> left]]
    <3>1. InOneLine(text, begin, d)
      BY <2>2 DEF InOneLine
    <3>2. QED
      BY <1>1, <2>1, <2>3, <3>1, BytesPassed
  <2>5. QED
    BY <1>6, <1>8, <2>1, <2>4 DEF begin
<1>9. QED
  BY <1>7, <1>8

IsLineStart(characters, k, line) ==
  /\ k \in 0..Len(characters) /\ Place(characters, k) = [line |-> line, character |-> 0]
  /\ \A j \in 0..Len(characters) : j < k => Place(characters, j).line < line

LEMMA LineStarted ==
  ASSUME NEW characters \in Characters,
         NEW line \in 0..Place(characters, Len(characters)).line
  PROVE  \E k : IsLineStart(characters, k, line)
<1> DEFINE n == Len(characters)
           p(k) == Place(characters, k)
           T == {k \in 0..n : p(k).line >= line}
<1>1. n \in Nat /\ \A k \in 0..n : p(k).line \in Nat /\ p(k).character \in Nat
  BY PlaceTyped DEF PlaceType, Characters
<1>2. n \in T /\ T \subseteq Nat
  BY <1>1
<1>3. \A k \in T : k \in 0..n /\ p(k).line >= line
  OBVIOUS
<1>4. \A k \in 0..n : k \notin T => ~(p(k).line >= line)
  OBVIOUS
<1> HIDE DEF T
<1>5. PICK k \in T : \A j \in T : k <= j
  <2>1. T # {} /\ T \subseteq Nat
    BY <1>2
  <2>2. QED
    BY <2>1, Least
<1>6. k \in 0..n /\ p(k).line >= line /\ line \in Nat
  BY <1>1, <1>3, <1>5
<1>7. ASSUME NEW j \in 0..n, j < k PROVE p(j).line < line
  <2>1. j \notin T
    BY <1>1, <1>5, <1>6, <1>7
  <2>2. p(j).line \in Nat
    BY <1>1
  <2> HIDE DEF p
  <2>3. QED
    BY <1>4, <1>6, <2>1, <2>2
<1>8. p(k) = [line |-> line, character |-> 0]
  <2>1. CASE k = 0
    <3>1. p(0) = [line |-> 0, character |-> 0]
      BY PlaceUnfolds
    <3> HIDE DEF p
    <3>2. QED
      BY <1>6, <2>1, <3>1
  <2>2. CASE k # 0
    <3> DEFINE j == k - 1
    <3>1. j \in 0..(n - 1) /\ j \in 0..n /\ j < k /\ j + 1 = k
      BY <1>1, <1>6, <2>2
    <3> HIDE DEF j
    <3>2. /\ characters[j + 1] = NewLine => p(j + 1) = [line |-> p(j).line + 1, character |-> 0]
          /\ characters[j + 1] # NewLine =>
               p(j + 1) = [line |-> p(j).line,
                           character |-> p(j).character + HalvesOf(characters[j + 1])]
      BY <3>1, PlaceUnfolds
    <3>3. p(j).line < line /\ p(j).line \in Nat
      BY <1>1, <1>7, <3>1
    <3> HIDE DEF p
    <3>4. characters[j + 1] = NewLine
      BY <1>6, <3>1, <3>2, <3>3
    <3>5. p(k) = [line |-> p(j).line + 1, character |-> 0]
      BY <3>1, <3>2, <3>4
    <3>6. p(j).line + 1 = line
      BY <1>6, <3>3, <3>5
    <3>7. QED
      BY <3>5, <3>6
  <2>3. QED
    BY <2>1, <2>2
<1>9. QED
  BY <1>6, <1>7, <1>8 DEF IsLineStart

LEMMA LineReached ==
  ASSUME NEW text, NEW offset, NEW characters, Spells(text, offset, characters),
         NEW line \in Nat, NEW k, IsLineStart(characters, k, line)
  PROVE  ToLine(text)[[offset |-> 0, left |-> line]] = offset[k]
<1> DEFINE n == Len(characters)
           p(j) == Place(characters, j)
           to == ToLine(text)
           at(j) == [offset |-> offset[j], left |-> line - p(j).line]
           S == {j \in Nat : j <= k => to[at(j)] = to[at(0)]}
<1>1. n \in Nat /\ text \in Text /\ Len(text) \in Nat /\ k \in 0..n /\ characters \in Characters
  BY DEF Spells, Characters, Text, IsLineStart
<1>2. offset[0] = 0 /\ \A j \in 0..n : offset[j] \in Nat
  BY <1>1 DEF Spells
<1>3. \A j \in 0..n : p(j).line \in Nat
  BY <1>1, PlaceTyped DEF PlaceType
<1>4. ASSUME NEW j \in 0..(n - 1), j < k PROVE to[at(j + 1)] = to[at(j)]
  <2> DEFINE left == line - p(j).line
  <2>1. j \in 0..n /\ j + 1 \in 0..n
    BY <1>1
  <2>2. p(j).line < line
    BY <1>4, <2>1 DEF IsLineStart
  <2>3. left \in Int /\ left # 0
    BY <1>3, <2>1, <2>2
  <2> HIDE DEF left
  <2>4. to[[offset |-> offset[j], left |-> left]]
          = to[[offset |-> offset[j + 1],
                left |-> IF characters[j + 1] = NewLine THEN left - 1 ELSE left]]
    BY <2>3, LinePassesCharacter
  <2>5. p(j + 1).line = IF characters[j + 1] = NewLine THEN p(j).line + 1 ELSE p(j).line
    <3>1. /\ characters[j + 1] = NewLine => p(j + 1) = [line |-> p(j).line + 1, character |-> 0]
          /\ characters[j + 1] # NewLine =>
               p(j + 1) = [line |-> p(j).line,
                           character |-> p(j).character + HalvesOf(characters[j + 1])]
      BY <1>1, PlaceUnfolds
    <3> HIDE DEF p
    <3>2. QED
      BY <3>1
  <2>6. (IF characters[j + 1] = NewLine THEN left - 1 ELSE left) = line - p(j + 1).line
    <3>1. p(j).line \in Nat
      BY <1>3, <2>1
    <3> HIDE DEF p
    <3>2. QED
      BY <2>5, <3>1 DEF left
  <2>7. QED
    BY <2>4, <2>6 DEF left
<1>5. to[at(k)] = offset[k]
  <2>1. p(k).line = line
    BY DEF IsLineStart
  <2>2. at(k) = [offset |-> offset[k], left |-> 0]
    BY <1>1, <2>1
  <2>3. [offset |-> offset[k], left |-> 0] \in Way
    BY <1>1, <1>2 DEF Way
  <2>4. AtLine(text, [offset |-> offset[k], left |-> 0])
    BY DEF AtLine
  <2>5. to[[offset |-> offset[k], left |-> 0]] = offset[k]
    BY <1>1, <2>3, <2>4, ToLineUnfolds
  <2>6. QED
    BY <2>2, <2>5
<1>6. at(0) = [offset |-> 0, left |-> line]
  BY <1>1, <1>2, PlaceUnfolds
<1> HIDE DEF to, at, p
<1>7. 0 \in S
  OBVIOUS
<1>8. ASSUME NEW j \in 0..(n - 1), j \in S PROVE j + 1 \in S
  BY <1>1, <1>4, <1>8
<1> HIDE DEF S
<1>9. \A j \in 0..n : j \in S
  BY <1>1, <1>7, <1>8, Induction
<1>10. to[at(k)] = to[at(0)]
  BY <1>1, <1>9 DEF S
<1>11. QED
  BY <1>5, <1>6, <1>10 DEF to

StandsFor(characters, k, line, character) ==
  /\ k \in 0..Len(characters)
  /\ Place(characters, k).line = line /\ Place(characters, k).character <= character

LEMMA LastBeforeIsLast ==
  ASSUME NEW characters \in Characters, NEW line \in Nat, NEW character \in Nat,
         NEW first, IsLineStart(characters, first, line)
  PROVE  LET m == LastBefore(characters, line, character) IN
         /\ StandsFor(characters, m, line, character)
         /\ \A j : StandsFor(characters, j, line, character) => j <= m
<1> DEFINE n == Len(characters)
           before == {k \in 0..n : /\ Place(characters, k).line = line
                                   /\ Place(characters, k).character <= character}
           m == CHOOSE k \in before : \A j \in before : j <= k
<1>1. n \in Nat
  BY DEF Characters
<1>2. \A k : k \in before <=> StandsFor(characters, k, line, character)
  BY DEF StandsFor
<1>3. first \in before
  BY DEF IsLineStart
<1>4. before \subseteq 0..n
  OBVIOUS
<1>5. LastBefore(characters, line, character) = m
  BY DEF LastBefore
<1> HIDE DEF before
<1>6. \E k \in before : \A j \in before : j <= k
  <2>1. before # {}
    BY <1>3
  <2>2. QED
    BY <1>1, <1>4, <2>1, Greatest
<1>7. m \in before /\ \A j \in before : j <= m
  BY <1>6
<1> HIDE DEF m
<1>8. QED
  BY <1>2, <1>5, <1>7

LEMMA PlaceReached ==
  ASSUME NEW text, NEW offset, NEW characters, Spells(text, offset, characters),
         NEW line \in Nat, NEW character \in Nat, NEW first, IsLineStart(characters, first, line)
  PROVE  Along(text)[[offset |-> offset[first], left |-> character]]
           = offset[LastBefore(characters, line, character)]
<1> DEFINE n == Len(characters)
           p(j) == Place(characters, j)
           m == LastBefore(characters, line, character)
           along == Along(text)
           at(j) == [offset |-> offset[j], left |-> character - p(j).character]
           S == {j \in Nat : first <= j /\ j <= m => along[at(j)] = along[at(first)]}
<1>1. n \in Nat /\ text \in Text /\ Len(text) \in Nat /\ first \in 0..n /\ characters \in Characters
  BY DEF Spells, Characters, Text, IsLineStart
<1>2. /\ \A j \in 0..n : offset[j] \in Nat
      /\ offset[n] = Len(text)
  <2>1. offset \in [0..n -> 0..Len(text)] /\ offset[n] = Len(text)
    BY DEF Spells
  <2>2. QED
    BY <1>1, <2>1
<1>3. \A j \in 0..n : p(j).line \in Nat /\ p(j).character \in Nat
  BY <1>1, PlaceTyped DEF PlaceType
<1>4. /\ m \in 0..n /\ p(m).line = line /\ p(m).character <= character
      /\ \A j \in 0..n : p(j).line = line /\ p(j).character <= character => j <= m
  BY <1>1, LastBeforeIsLast DEF StandsFor
<1>5. p(first) = [line |-> line, character |-> 0]
  BY DEF IsLineStart
<1>6. first <= m
  BY <1>1, <1>4, <1>5
<1> HIDE DEF m
<1>7. ASSUME NEW j \in 0..n, first <= j, j <= m
      PROVE  p(j).line = line /\ p(j).character <= p(m).character
  <2>1. p(first).line <= p(j).line /\ p(j).line <= p(m).line
        /\ (p(j).line = p(m).line => p(j).character <= p(m).character)
    BY <1>1, <1>4, <1>7, PlacesGrow
  <2>2. p(first).line = line /\ p(m).line = line /\ p(j).line \in Nat
    BY <1>3, <1>4, <1>5
  <2> HIDE DEF p
  <2>3. QED
    BY <2>1, <2>2
<1>8. ASSUME NEW j \in 0..(n - 1)
      PROVE  /\ characters[j + 1] = NewLine => p(j + 1) = [line |-> p(j).line + 1, character |-> 0]
             /\ characters[j + 1] # NewLine =>
                  p(j + 1) = [line |-> p(j).line,
                              character |-> p(j).character + HalvesOf(characters[j + 1])]
  BY <1>1, PlaceUnfolds
<1>9. ASSUME NEW j \in 0..n PROVE at(j) \in Way
  BY <1>2, <1>3 DEF Way
<1>10. ASSUME NEW j \in 0..(n - 1), first <= j, j < m PROVE along[at(j)] = along[at(j + 1)]
  <2> DEFINE c == characters[j + 1]
             left == character - p(j).character
  <2>1. j \in 0..n /\ j + 1 \in 0..n /\ j <= m /\ j + 1 <= m /\ first <= j + 1
    BY <1>1, <1>4, <1>10
  <2>2. p(j).line = line /\ p(j + 1).line = line /\ p(j + 1).character <= p(m).character
    BY <1>7, <1>10, <2>1
  <2>3. p(j).character \in Nat /\ p(j + 1).character \in Nat /\ p(m).character \in Nat
    BY <1>3, <1>4, <2>1
  <2>4. /\ offset[j] \in Nat /\ offset[j] < Len(text)
        /\ offset[j + 1] = offset[j] + Width(ByteAt(text, offset[j]))
        /\ ByteAt(text, offset[j]) = "newline" <=> c = NewLine
        /\ Units(text, offset[j]) = HalvesOf(c)
    BY AtCharacter
  <2>5. c # NewLine /\ p(j + 1).character = p(j).character + HalvesOf(c)
    <3> HIDE DEF p, c
    <3>1. /\ c = NewLine => p(j + 1) = [line |-> p(j).line + 1, character |-> 0]
          /\ c # NewLine => p(j + 1) = [line |-> p(j).line, character |-> p(j).character + HalvesOf(c)]
      BY <1>8 DEF c
    <3>2. QED
      BY <2>2, <3>1
  <2>6. /\ left \in Int /\ left > 0 /\ HalvesOf(c) <= left
        /\ left - HalvesOf(c) = character - p(j + 1).character
    <3> DEFINE here == p(j).character
               next == p(j + 1).character
               units == HalvesOf(c)
    <3>1. units \in Int /\ units >= 1
      BY DEF HalvesOf
    <3>2. p(m).character <= character /\ next <= p(m).character /\ p(m).character \in Int
      BY <1>4, <2>2, <2>3
    <3>3. here \in Int /\ next \in Int /\ next = here + units
      BY <2>3, <2>5
    <3> HIDE DEF here, next, units
    <3>4. next <= character
      BY <3>2, <3>3
    <3>5. /\ character - here \in Int /\ character - here > 0 /\ units <= character - here
          /\ (character - here) - units = character - next
      BY <3>1, <3>3, <3>4
    <3>6. QED
      BY <3>5 DEF here, next, units
  <2>7. ~AtPlace(text, at(j))
    <3> HIDE DEF c
    <3>1. ~(offset[j] >= Len(text)) /\ ~(left <= 0) /\ ~(HalvesOf(c) > left)
      BY <1>1, <2>4, <2>6 DEF HalvesOf
    <3>2. QED
      BY <2>4, <2>5, <3>1 DEF AtPlace
  <2>8. PassCharacter(text, at(j)) = at(j + 1)
    <3> HIDE DEF c
    <3>1. QED
      BY <2>4, <2>6 DEF PassCharacter
  <2>9. at(j) \in Way
    BY <1>9, <2>1
  <2> HIDE DEF at
  <2>10. QED
    BY <1>1, <2>7, <2>8, <2>9, AlongUnfolds
<1>11. AtPlace(text, at(m))
  <2> DEFINE left == character - p(m).character
  <2>1. CASE m = n
    BY <1>1, <1>2, <2>1 DEF AtPlace
  <2>2. CASE m # n
    <3> DEFINE c == characters[m + 1]
    <3>1. m \in 0..(n - 1) /\ m + 1 \in 0..n /\ ~(m + 1 <= m)
      BY <1>1, <1>4, <2>2
    <3>2. /\ ByteAt(text, offset[m]) = "newline" <=> c = NewLine
          /\ Units(text, offset[m]) = HalvesOf(c)
      BY <3>1, AtCharacter
    <3>3. CASE c = NewLine
      BY <3>2, <3>3 DEF AtPlace
    <3>4. CASE c # NewLine
      <4>1. p(m + 1) = [line |-> p(m).line, character |-> p(m).character + HalvesOf(c)]
        BY <1>8, <3>1, <3>4
      <4>2. p(m).character \in Nat /\ HalvesOf(c) \in Nat
        BY <1>3, <1>4 DEF HalvesOf
      <4>3. ~(p(m + 1).line = line /\ p(m + 1).character <= character)
        BY <1>4, <3>1
      <4>4. HalvesOf(c) > left
        <5> HIDE DEF p, c
        <5>1. QED
          BY <1>4, <4>1, <4>2, <4>3
      <4>5. QED
        <5> HIDE DEF c
        <5>1. QED
          BY <3>2, <4>4 DEF AtPlace
    <3>5. QED
      BY <3>3, <3>4
  <2>3. QED
    BY <2>1, <2>2
<1>12. along[at(m)] = offset[m]
  <2>1. at(m) \in Way /\ at(m).offset = offset[m]
    BY <1>4, <1>9
  <2> HIDE DEF at
  <2>2. QED
    BY <1>1, <1>11, <2>1, AlongUnfolds
<1>13. at(first) = [offset |-> offset[first], left |-> character]
  BY <1>5
<1> HIDE DEF along, at, p
<1>14. 0 \in S
  <2>1. first <= 0 => first = 0
    BY <1>1
  <2>2. QED
    BY <2>1
<1>15. ASSUME NEW j \in 0..(n - 1), j \in S PROVE j + 1 \in S
  <2>1. j + 1 \in Nat /\ (first <= j + 1 => first <= j \/ first = j + 1) /\ (j + 1 <= m => j < m /\ j <= m)
    BY <1>1, <1>4
  <2>2. first <= j /\ j <= m => along[at(j)] = along[at(first)]
    BY <1>15
  <2>3. first <= j /\ j < m => along[at(j)] = along[at(j + 1)]
    BY <1>10
  <2>4. first <= j + 1 /\ j + 1 <= m => along[at(j + 1)] = along[at(first)]
    BY <2>1, <2>2, <2>3
  <2>5. QED
    BY <2>1, <2>4
<1> HIDE DEF S
<1>16. \A j \in 0..n : j \in S
  BY <1>1, <1>14, <1>15, Induction
<1>17. along[at(m)] = along[at(first)]
  <2>1. m \in S /\ m <= m
    BY <1>4, <1>16
  <2>2. QED
    BY <1>6, <2>1 DEF S
<1>18. QED
  BY <1>12, <1>13, <1>17 DEF along, m

LEMMA OffsetOfPosition ==
  ASSUME NEW text, NEW offset, NEW characters, Spells(text, offset, characters),
         NEW line \in 0..Place(characters, Len(characters)).line, NEW character \in Nat
  PROVE  OffsetAt(text, line, character) = offset[LastBefore(characters, line, character)]
<1>1. characters \in Characters /\ line \in Nat
  <2>1. characters \in Characters
    BY DEF Spells
  <2>2. Len(characters) \in 0..Len(characters)
    BY <2>1 DEF Characters
  <2>3. Place(characters, Len(characters)).line \in Nat
    BY <2>1, <2>2, PlaceTyped DEF PlaceType
  <2>4. QED
    BY <2>1, <2>3
<1>2. PICK first : IsLineStart(characters, first, line)
  BY <1>1, LineStarted
<1>3. ToLine(text)[[offset |-> 0, left |-> line]] = offset[first]
  BY <1>1, <1>2, LineReached
<1>4. Along(text)[[offset |-> offset[first], left |-> character]]
        = offset[LastBefore(characters, line, character)]
  BY <1>1, <1>2, PlaceReached
<1>5. QED
  BY <1>3, <1>4 DEF OffsetAt

-----------------------------------------------------------------------------
(***************************************************************************)
(* The compiler's lines and columns.                                       *)
(***************************************************************************)
StartsUpTo(text, offset) == {start \in LineStarts(text) : start <= offset}

\* The line starts up to a place are one more than the newlines before it, and
\* the last of them is where its line begins.
LEMMA StartsAtPlace ==
  ASSUME NEW text, NEW offset, NEW characters, Spells(text, offset, characters)
  PROVE  \A k \in 0..Len(characters) :
           LET starts == StartsUpTo(text, offset[k]) IN
           /\ IsFiniteSet(starts) /\ Cardinality(starts) = Place(characters, k).line + 1
           /\ offset[LineBegin(characters, k)] \in starts
           /\ \A other \in starts : other <= offset[LineBegin(characters, k)]
<1> DEFINE n == Len(characters)
           p(k) == Place(characters, k)
           b(k) == offset[LineBegin(characters, k)]
           starts(k) == StartsUpTo(text, offset[k])
           Right(k) == /\ IsFiniteSet(starts(k)) /\ Cardinality(starts(k)) = p(k).line + 1
                       /\ b(k) \in starts(k) /\ \A other \in starts(k) : other <= b(k)
           S == {k \in Nat : Right(k)}
<1>1. n \in Nat /\ text \in Text /\ Len(text) \in Nat /\ characters \in Characters
  BY DEF Spells, Characters, Text
<1>2. offset[0] = 0 /\ \A k \in 0..n : offset[k] \in Nat
  <2>1. offset \in [0..n -> 0..Len(text)] /\ offset[0] = 0
    BY DEF Spells
  <2>2. QED
    BY <1>1, <2>1
<1>3. \A k \in 0..n : p(k).line \in Nat
  BY <1>1, PlaceTyped DEF PlaceType
<1>4. Right(0)
  <2>1. starts(0) = {0}
    BY <1>1, <1>2 DEF StartsUpTo, LineStarts
  <2>2. b(0) = 0 /\ p(0).line = 0
    BY <1>1, <1>2, LineBeginUnfolds, PlaceUnfolds
  <2>3. IsFiniteSet({0}) /\ Cardinality({0}) = 1
    BY FS_Singleton
  <2> HIDE DEF starts, b, p
  <2>4. QED
    BY <2>1, <2>2, <2>3
<1>5. ASSUME NEW k \in 0..(n - 1), Right(k) PROVE Right(k + 1)
  <2> DEFINE c == characters[k + 1]
             o == offset[k]
             w == Width(ByteAt(text, o))
  <2>1. /\ o \in Nat /\ o < Len(text) /\ offset[k + 1] = o + w /\ o + w <= Len(text)
        /\ ByteAt(text, o) = "newline" <=> c = NewLine
        /\ \A i \in 1..(w - 1) : ByteAt(text, o + i) = "c"
    BY AtCharacter
  <2>2. w \in 1..4
    BY <1>1, <2>1, WidthType
  <2>3. k \in 0..n /\ k + 1 \in 0..n
    BY <1>1
  <2>4. c = NewLine => w = 1
    BY <2>1 DEF Width, Lead
  <2> HIDE DEF w, o, c
  <2>5. CASE c = NewLine
    <3>1. offset[k + 1] = o + 1 /\ w = 1 /\ ByteAt(text, o) = "newline"
      BY <2>1, <2>4, <2>5
    <3>2. o + 1 \in LineStarts(text)
      <4>1. o + 1 \in 1..Len(text) /\ (o + 1) - 1 = o
        BY <1>1, <2>1
      <4>2. QED
        BY <3>1, <4>1 DEF LineStarts
    <3>3. \A start \in LineStarts(text) : start \in Nat
      BY <1>1 DEF LineStarts
    <3>4. starts(k + 1) = starts(k) \cup {o + 1}
      <4>1. \A start \in LineStarts(text) : start <= o + 1 <=> start <= o \/ start = o + 1
        BY <2>1, <3>3
      <4>2. starts(k) = {start \in LineStarts(text) : start <= o}
            /\ starts(k + 1) = {start \in LineStarts(text) : start <= o + 1}
        BY <3>1 DEF StartsUpTo, o
      <4> HIDE DEF starts
      <4>3. QED
        BY <3>2, <4>1, <4>2
    <3>5. o + 1 \notin starts(k)
      BY <2>1 DEF StartsUpTo, o
    <3>6. b(k + 1) = o + 1
      BY <1>1, <2>5, <3>1, LineBeginUnfolds DEF c
    <3>7. p(k + 1).line = p(k).line + 1
      <4>1. p(k + 1) = [line |-> p(k).line + 1, character |-> 0]
        BY <1>1, <2>5, PlaceUnfolds DEF c
      <4> HIDE DEF p
      <4>2. QED
        BY <4>1
    <3>8. \A other \in starts(k) : other <= o + 1
      <4>1. \A other \in starts(k) : other \in Nat /\ other <= o
        BY <3>3 DEF StartsUpTo, o
      <4> HIDE DEF starts
      <4>2. QED
        BY <2>1, <4>1
    <3>9. IsFiniteSet(starts(k)) /\ Cardinality(starts(k)) = p(k).line + 1
      BY <1>5
    <3> HIDE DEF starts, b, p
    <3>10. IsFiniteSet(starts(k + 1)) /\ Cardinality(starts(k + 1)) = p(k + 1).line + 1
      BY <3>4, <3>5, <3>7, <3>9, FS_AddElement
    <3>11. b(k + 1) \in starts(k + 1) /\ \A other \in starts(k + 1) : other <= b(k + 1)
      BY <2>1, <3>4, <3>6, <3>8
    <3>12. QED
      BY <3>10, <3>11
  <2>6. CASE c # NewLine
    <3>1. ASSUME NEW start \in LineStarts(text), start <= o + w PROVE start <= o
      <4> SUFFICES ASSUME start > o PROVE FALSE
        BY <1>1, <2>1 DEF LineStarts
      <4>1. start \in 1..Len(text) /\ ByteAt(text, start - 1) = "newline"
        BY <1>1, <2>1 DEF LineStarts
      <4> DEFINE i == (start - 1) - o
      <4>2. i \in 0..(w - 1) /\ start - 1 = o + i
        BY <1>1, <2>1, <2>2, <3>1, <4>1
      <4> HIDE DEF i
      <4>3. CASE i = 0
        BY <2>1, <2>6, <4>1, <4>2, <4>3
      <4>4. CASE i # 0
        <5>1. i \in 1..(w - 1)
          BY <2>2, <4>2, <4>4
        <5>2. QED
          BY <2>1, <4>1, <4>2, <5>1
      <4>5. QED
        BY <4>3, <4>4
    <3>2. \A start \in LineStarts(text) : start <= o + w <=> start <= o
      <4>1. \A start \in LineStarts(text) : start \in Nat
        BY <1>1 DEF LineStarts
      <4>2. QED
        BY <2>1, <2>2, <3>1, <4>1
    <3>3. starts(k + 1) = starts(k)
      <4>1. starts(k) = {start \in LineStarts(text) : start <= o}
            /\ starts(k + 1) = {start \in LineStarts(text) : start <= o + w}
        BY <2>1 DEF StartsUpTo, o
      <4> HIDE DEF starts
      <4>2. QED
        BY <3>2, <4>1
    <3>4. b(k + 1) = b(k)
      BY <1>1, <2>6, LineBeginUnfolds DEF c
    <3>5. p(k + 1).line = p(k).line
      <4>1. p(k + 1) = [line |-> p(k).line, character |-> p(k).character + HalvesOf(c)]
        BY <1>1, <2>6, PlaceUnfolds DEF c
      <4> HIDE DEF p
      <4>2. QED
        BY <4>1
    <3>6. Right(k)
      BY <1>5
    <3> HIDE DEF starts, b, p
    <3>7. QED
      BY <3>3, <3>4, <3>5, <3>6
  <2>7. QED
    BY <2>5, <2>6
<1> HIDE DEF Right
<1>6. 0 \in S
  BY <1>4
<1>7. ASSUME NEW k \in 0..(n - 1), k \in S PROVE k + 1 \in S
  BY <1>5, <1>7
<1> HIDE DEF S
<1>8. \A k \in 0..n : k \in S
  BY <1>1, <1>6, <1>7, Induction
<1>9. \A k \in 0..n : Right(k)
  BY <1>8 DEF S
<1>10. QED
  BY <1>9 DEF Right

LEMMA SourcePositionOfPlace ==
  ASSUME NEW text, NEW offset, NEW characters, Spells(text, offset, characters),
         NEW k \in 0..Len(characters)
  PROVE  SourcePosition(text, offset[k])
           = [line |-> Place(characters, k).line,
              column |-> offset[k] - offset[LineBegin(characters, k)]]
<1> DEFINE starts == StartsUpTo(text, offset[k])
           b == offset[LineBegin(characters, k)]
           begin == CHOOSE start \in starts : \A other \in starts : other <= start
<1>1. text \in Text /\ Len(text) \in Nat /\ characters \in Characters
      /\ offset[k] \in Nat /\ offset[k] <= Len(text)
  <2>1. offset \in [0..Len(characters) -> 0..Len(text)] /\ text \in Text /\ Len(text) \in Nat
        /\ characters \in Characters
    BY DEF Spells, Text
  <2>2. QED
    BY <2>1
<1>2. Smaller(offset[k], Len(text)) = offset[k]
  BY <1>1 DEF Smaller
<1>3. /\ Cardinality(starts) = Place(characters, k).line + 1
      /\ b \in starts /\ \A other \in starts : other <= b
  BY StartsAtPlace
<1>4. \A start \in starts : start \in Nat
  BY <1>1 DEF StartsUpTo, LineStarts
<1>5. SourcePosition(text, offset[k])
        = [line |-> Cardinality(starts) - 1, column |-> offset[k] - begin]
  BY <1>2 DEF SourcePosition, StartsUpTo
<1>6. Place(characters, k).line \in Nat
  BY <1>1, PlaceTyped DEF PlaceType
<1> HIDE DEF starts, b
<1>7. begin = b
  <2>1. \A start \in starts : (\A other \in starts : other <= start) => start = b
    BY <1>3, <1>4
  <2>2. QED
    BY <1>3, <2>1
<1>8. Cardinality(starts) - 1 = Place(characters, k).line
  BY <1>3, <1>6
<1>9. QED
  BY <1>5, <1>7, <1>8 DEF b

\* In every text of whole characters the server's offsets and positions say the
\* same places, both ways, a position between two places is the last before it,
\* and the compiler finds the same lines (positions.cpp:38-83, source.cpp:8-30).
THEOREM PlacesHaveOnePosition ==
  \A characters \in Characters, farthest \in Nat : PlacesAgree(characters, farthest)
<1>1. TAKE characters \in Characters, farthest \in Nat
<1> DEFINE text == Encoded(characters)
           offset == OffsetsOf(characters)
           Offset(k) == Len(EncodedUpTo(characters)[k])
           places == 0..Len(characters)
<1>2. Spells(text, offset, characters)
  BY EncodedSpells
<1>3. \A k \in places : offset[k] = Offset(k)
  BY DEF OffsetsOf
<1>4. \A k \in places : LineBegin(characters, k) \in places
  <2>1. TAKE k \in places
  <2>2. LineBegin(characters, k) \in 0..k
    BY LineBeginType
  <2>3. QED
    BY <2>2 DEF Characters
<1> HIDE DEF text, offset
<1>5. \A k \in places : PositionAt(text, Offset(k)) = Place(characters, k)
  BY <1>2, <1>3, PositionOfPlace
<1>6. ASSUME NEW line \in 0..Place(characters, Len(characters)).line, NEW character \in 0..farthest
      PROVE  OffsetAt(text, line, character) = Offset(LastBefore(characters, line, character))
  <2> DEFINE m == LastBefore(characters, line, character)
  <2>1. character \in Nat
    OBVIOUS
  <2>2. OffsetAt(text, line, character) = offset[m]
    BY <1>2, <2>1, OffsetOfPosition
  <2>3. m \in places
    <3>1. PICK first : IsLineStart(characters, first, line)
      BY LineStarted
    <3>2. line \in Nat
      <4>1. Len(characters) \in places
        BY DEF Characters
      <4>2. Place(characters, Len(characters)).line \in Nat
        BY <4>1, PlaceTyped DEF PlaceType
      <4>3. QED
        BY <4>2
    <3>3. QED
      BY <2>1, <3>1, <3>2, LastBeforeIsLast DEF StandsFor
  <2> HIDE DEF m
  <2>4. QED
    BY <1>3, <2>2, <2>3 DEF m
<1>7. \A k \in places :
        SourcePosition(text, Offset(k))
          = [line |-> Place(characters, k).line,
             column |-> Offset(k) - Offset(LineBegin(characters, k))]
  <2>1. TAKE k \in places
  <2> DEFINE b == LineBegin(characters, k)
  <2>2. SourcePosition(text, offset[k])
          = [line |-> Place(characters, k).line, column |-> offset[k] - offset[b]]
    BY <1>2, SourcePositionOfPlace
  <2>3. offset[k] = Offset(k) /\ offset[b] = Offset(b)
    BY <1>3, <1>4
  <2>4. QED
    BY <2>2, <2>3
<1>8. QED
  BY <1>5, <1>6, <1>7 DEF PlacesAgree, text

\* Both hold of every text there is: offsets, positions and lines say the same
\* places (positions.cpp:38-83, source.cpp:8-30), and the check of the encoding
\* lets in whole characters only (source.cpp:46-74).
THEOREM PositionsOfEveryText == AnySpec => []PositionsAgree
<1>1. ASSUME input \in AnyInput PROVE PositionsAgree
  <2>1. CASE input \in AnyCharacters
    <3>1. PICK characters \in Seq(Character), farthest \in Nat : input = OfCharacters(characters, farthest)
      BY <2>1 DEF AnyCharacters
    <3>2. PlacesAgree(characters, farthest)
      BY PlacesHaveOnePosition DEF Characters
    <3>3. input.part = "characters" /\ input.characters = characters /\ input.farthest = farthest
      BY <3>1 DEF OfCharacters
    <3>4. QED
      BY <3>2, <3>3 DEF PositionsAgree
  <2>2. CASE input \in AnyBytes
    <3>1. PICK bytes \in Seq(Byte) : input = OfBytes(bytes)
      BY <2>2 DEF AnyBytes
    <3>2. EncodingChecked(bytes)
      BY EncodingIsChecked DEF Text
    <3>3. input.part = "bytes" /\ input.bytes = bytes
      BY <3>1 DEF OfBytes
    <3>4. QED
      BY <3>2, <3>3 DEF PositionsAgree
  <2>3. CASE input.part \in {"include", "page", "layers", "declarations"}
    BY <2>3 DEF PositionsAgree
  <2>4. CASE input \in AnyInclude
    BY <2>3, <2>4 DEF AnyInclude, OfInclude
  <2>5. CASE input \in AnyPage
    BY <2>3, <2>5 DEF AnyPage, OfPage
  <2>6. CASE input \in AnyLayers
    BY <2>3, <2>6 DEF AnyLayers, OfLayers
  <2>7. CASE input \in AnyDeclarations
    BY <2>3, <2>7 DEF AnyDeclarations, OfDeclarations
  <2>8. QED
    BY <1>1, <2>1, <2>2, <2>4, <2>5, <2>6, <2>7 DEF AnyInput
<1>2. PositionsAgree /\ UNCHANGED input => PositionsAgree'
  BY DEF PositionsAgree
<1>3. QED
  BY <1>1, <1>2, PTL DEF AnySpec

-----------------------------------------------------------------------------
(***************************************************************************)
(* Paths and what they reach.                                              *)
(***************************************************************************)
PathOrNone == Path \cup {NoPath}

LEMMA NoPathIsNone == NoPath \notin Path
<1> DEFINE path == NoPath
<1>1. Len(path) = 1
  BY DEF NoPath
<1>2. path[1] = "no path"
  BY DEF NoPath
<1> HIDE DEF path
<1>3. ASSUME path \in Seq(Name) PROVE FALSE
  <2>1. path \in [1..Len(path) -> Name]
    BY <1>3, LenProperties
  <2>2. path[1] \in Name
    BY <1>1, <2>1
  <2>3. QED
    BY <1>2, <2>2, NamesAreNames
<1>4. QED
  BY <1>3 DEF path, Path

LEMMA ParentType ==
  ASSUME NEW S, NEW path \in Seq(S)
  PROVE  /\ Parent(path) \in Seq(S)
         /\ path # <<>> => /\ Len(path) \in Nat \ {0} /\ Len(Parent(path)) = Len(path) - 1
                           /\ Parent(path) = SubSeq(path, 1, Len(path) - 1)
<1>1. CASE path = <<>>
  BY <1>1, EmptySeq DEF Parent
<1>2. CASE path # <<>>
  <2>1. Len(path) \in Nat \ {0}
    BY <1>2, EmptySeq
  <2> DEFINE n == Len(path) - 1
  <2>2. n \in Nat /\ n + 1 = Len(path) /\ \A i \in 1..n : path[i] \in S
    BY <2>1, ElementOfSeq
  <2> HIDE DEF n
  <2>3. SubSeq(path, 1, n) \in Seq(S) /\ Len(SubSeq(path, 1, n)) = n
    BY <2>2, SubSeqProperties
  <2>4. QED
    BY <1>2, <2>1, <2>3 DEF Parent, Front, n
<1>3. QED
  BY <1>1, <1>2

LEMMA StepType ==
  ASSUME NEW path \in Path, NEW part \in Part
  PROVE  Step(path, part) \in Path
<1>1. Parent(path) \in Path
  BY ParentType DEF Path
<1>2. part # ".." => Append(path, part) \in Path
  BY DEF Path, Part
<1>3. QED
  BY <1>1, <1>2 DEF Step

LEMMA OnwardType ==
  ASSUME NEW disk \in Disk, NEW path \in PathOrNone, NEW part \in Part
  PROVE  /\ Onward(disk, path, part) \in PathOrNone
         /\ Onward(disk, path, part) # NoPath =>
              /\ path \in disk.directories
              /\ Onward(disk, path, part) \in disk.directories \cup DOMAIN disk.files
<1>1. disk.directories \in SUBSET Path /\ disk.links \in Table(Path) /\ IsDisk(disk)
  BY DEF Disk
<1>2. \A link \in DOMAIN disk.links : disk.links[link] \in disk.directories
  BY <1>1 DEF IsDisk
<1>3. path \in disk.directories => Step(path, part) \in Path
  BY <1>1, StepType
<1>4. QED
  BY <1>1, <1>2, <1>3 DEF Onward, PathOrNone

LEMMA NormalUnfolds ==
  ASSUME NEW parts \in Seq(Part)
  PROVE  /\ NormalUpTo(parts)[0] = <<>>
         /\ \A k \in 1..Len(parts) : NormalUpTo(parts)[k] = Step(NormalUpTo(parts)[k - 1], parts[k])
         /\ \A k \in 0..Len(parts) : NormalUpTo(parts)[k] \in Path
<1> DEFINE n == Len(parts)
           step == [iv \in (1..n) \X Path |-> Step(iv[2], parts[iv[1]])]
           F(g) == [k \in 0..n |-> IF k = 0 THEN <<>> ELSE Step(g[k - 1], parts[k])]
<1>1. n \in Nat /\ <<>> \in Path
  BY EmptySeq DEF Path
<1>2. step \in [(1..n) \X Path -> Path]
  BY StepType, ElementOfSeq
<1>3. \A k \in 1..n, path \in Path : step[<<k, path>>] = Step(path, parts[k])
  OBVIOUS
<1> HIDE DEF step
<1>4. PICK f : IsRecursion(f, n, <<>>, step) /\ \A i \in 0..n : f[i] \in Path
  BY <1>1, <1>2, TypedRecursion
<1>5. f = F(f)
  <2>1. ASSUME NEW k \in 0..n PROVE f[k] = IF k = 0 THEN <<>> ELSE Step(f[k - 1], parts[k])
    <3>1. k # 0 => k \in 1..n /\ f[k - 1] \in Path
      BY <1>1, <1>4
    <3>2. QED
      BY <1>3, <1>4, <3>1 DEF IsRecursion
  <2>2. QED
    BY <1>4, <2>1 DEF IsRecursion
<1>6. NormalUpTo(parts) = F(NormalUpTo(parts))
  BY <1>5 DEF NormalUpTo
<1> DEFINE normal == NormalUpTo(parts)
<1>7. normal[0] = <<>> /\ \A k \in 1..n : normal[k] = Step(normal[k - 1], parts[k])
  BY <1>1, <1>6
<1> HIDE DEF normal
<1> DEFINE S == {k \in 0..n : normal[k] \in Path}
<1>8. 0 \in S
  BY <1>1, <1>7
<1>9. ASSUME NEW k \in 0..(n - 1), k \in S PROVE k + 1 \in S
  <2>1. k + 1 \in 1..n /\ parts[k + 1] \in Part
    BY <1>1, ElementOfSeq
  <2>2. normal[k + 1] = Step(normal[k], parts[k + 1])
    BY <1>7, <2>1
  <2>3. QED
    BY <1>9, <2>1, <2>2, StepType
<1> HIDE DEF S
<1>10. \A k \in 0..n : k \in S
  BY <1>1, <1>8, <1>9, Induction
<1>11. QED
  BY <1>7, <1>10 DEF S, normal

LEMMA WalkUnfolds ==
  ASSUME NEW disk \in Disk, NEW parts \in Seq(Part)
  PROVE  /\ WalkUpTo(disk, parts)[0] = <<>>
         /\ \A k \in 1..Len(parts) :
              WalkUpTo(disk, parts)[k] = Onward(disk, WalkUpTo(disk, parts)[k - 1], parts[k])
         /\ \A k \in 0..Len(parts) : WalkUpTo(disk, parts)[k] \in PathOrNone
<1> DEFINE n == Len(parts)
           step == [iv \in (1..n) \X PathOrNone |-> Onward(disk, iv[2], parts[iv[1]])]
           F(g) == [k \in 0..n |-> IF k = 0 THEN <<>> ELSE Onward(disk, g[k - 1], parts[k])]
<1>1. n \in Nat /\ <<>> \in PathOrNone
  BY EmptySeq DEF Path, PathOrNone
<1>2. step \in [(1..n) \X PathOrNone -> PathOrNone]
  BY OnwardType, ElementOfSeq
<1>3. \A k \in 1..n, path \in PathOrNone : step[<<k, path>>] = Onward(disk, path, parts[k])
  OBVIOUS
<1> HIDE DEF step
<1>4. PICK f : IsRecursion(f, n, <<>>, step) /\ \A i \in 0..n : f[i] \in PathOrNone
  BY <1>1, <1>2, TypedRecursion
<1>5. f = F(f)
  <2>1. ASSUME NEW k \in 0..n PROVE f[k] = IF k = 0 THEN <<>> ELSE Onward(disk, f[k - 1], parts[k])
    <3>1. k # 0 => k \in 1..n /\ f[k - 1] \in PathOrNone
      BY <1>1, <1>4
    <3>2. QED
      BY <1>3, <1>4, <3>1 DEF IsRecursion
  <2>2. QED
    BY <1>4, <2>1 DEF IsRecursion
<1>6. WalkUpTo(disk, parts) = F(WalkUpTo(disk, parts))
  BY <1>5 DEF WalkUpTo
<1> DEFINE walk == WalkUpTo(disk, parts)
<1>7. walk[0] = <<>> /\ \A k \in 1..n : walk[k] = Onward(disk, walk[k - 1], parts[k])
  BY <1>1, <1>6
<1> HIDE DEF walk
<1> DEFINE S == {k \in 0..n : walk[k] \in PathOrNone}
<1>8. 0 \in S
  BY <1>1, <1>7
<1>9. ASSUME NEW k \in 0..(n - 1), k \in S PROVE k + 1 \in S
  <2>1. k + 1 \in 1..n /\ parts[k + 1] \in Part
    BY <1>1, ElementOfSeq
  <2>2. walk[k + 1] = Onward(disk, walk[k], parts[k + 1])
    BY <1>7, <2>1
  <2>3. QED
    BY <1>9, <2>1, <2>2, OnwardType
<1> HIDE DEF S
<1>10. \A k \in 0..n : k \in S
  BY <1>1, <1>8, <1>9, Induction
<1>11. QED
  BY <1>7, <1>10 DEF S, walk

LEMMA VirtualUnfolds ==
  ASSUME NEW parts \in Seq(Part)
  PROVE  /\ VirtualUpTo(parts)[0] = <<>>
         /\ \A k \in 1..Len(parts) :
              VirtualUpTo(parts)[k] = VirtualStep(VirtualUpTo(parts)[k - 1], parts[k])
<1> DEFINE n == Len(parts)
           step == [iv \in (1..n) \X PathOrNone |-> VirtualStep(iv[2], parts[iv[1]])]
           F(g) == [k \in 0..n |-> IF k = 0 THEN <<>> ELSE VirtualStep(g[k - 1], parts[k])]
<1>1. n \in Nat /\ <<>> \in PathOrNone
  BY EmptySeq DEF Path, PathOrNone
<1>2. step \in [(1..n) \X PathOrNone -> PathOrNone]
  BY StepType, ElementOfSeq DEF VirtualStep, PathOrNone
<1>3. \A k \in 1..n, path \in PathOrNone : step[<<k, path>>] = VirtualStep(path, parts[k])
  OBVIOUS
<1> HIDE DEF step
<1>4. PICK f : IsRecursion(f, n, <<>>, step) /\ \A i \in 0..n : f[i] \in PathOrNone
  BY <1>1, <1>2, TypedRecursion
<1>5. f = F(f)
  <2>1. ASSUME NEW k \in 0..n PROVE f[k] = IF k = 0 THEN <<>> ELSE VirtualStep(f[k - 1], parts[k])
    <3>1. k # 0 => k \in 1..n /\ f[k - 1] \in PathOrNone
      BY <1>1, <1>4
    <3>2. QED
      BY <1>3, <1>4, <3>1 DEF IsRecursion
  <2>2. QED
    BY <1>4, <2>1 DEF IsRecursion
<1>6. VirtualUpTo(parts) = F(VirtualUpTo(parts))
  BY <1>5 DEF VirtualUpTo
<1>7. QED
  BY <1>1, <1>6

\* The walk along the first parts of a path, and along the places of the disk.
LEMMA WalkOfPrefix ==
  ASSUME NEW disk \in Disk, NEW parts \in Seq(Part), NEW k \in 0..Len(parts)
  PROVE  /\ SubSeq(parts, 1, k) \in Seq(Part)
         /\ Len(SubSeq(parts, 1, k)) = k
         /\ Walk(disk, SubSeq(parts, 1, k)) = WalkUpTo(disk, parts)[k]
<1> DEFINE some == SubSeq(parts, 1, k)
           short == WalkUpTo(disk, some)
           long == WalkUpTo(disk, parts)
<1>1. k \in Nat /\ Len(parts) \in Nat /\ k <= Len(parts) /\ \A i \in 1..k : parts[i] \in Part
  BY ElementOfSeq
<1>2. some \in Seq(Part) /\ Len(some) = k /\ \A i \in 1..k : some[i] = parts[i]
  BY <1>1, SubSeqProperties
<1> HIDE DEF some
<1>3. short[0] = <<>> /\ \A i \in 1..k : short[i] = Onward(disk, short[i - 1], some[i])
  BY <1>2, WalkUnfolds
<1>4. long[0] = <<>> /\ \A i \in 1..Len(parts) : long[i] = Onward(disk, long[i - 1], parts[i])
  BY WalkUnfolds
<1> HIDE DEF short, long
<1> DEFINE S == {i \in 0..k : short[i] = long[i]}
<1>5. 0 \in S
  BY <1>1, <1>3, <1>4
<1>6. ASSUME NEW i \in 0..(k - 1), i \in S PROVE i + 1 \in S
  <2>1. i + 1 \in 1..k /\ i + 1 \in 1..Len(parts) /\ (i + 1) - 1 = i
    BY <1>1
  <2>2. short[i + 1] = Onward(disk, short[i], some[i + 1])
    BY <1>3, <2>1
  <2>3. long[i + 1] = Onward(disk, long[i], parts[i + 1])
    BY <1>4, <2>1
  <2>4. QED
    BY <1>2, <1>6, <2>1, <2>2, <2>3
<1> HIDE DEF S
<1>7. \A i \in 0..k : i \in S
  BY <1>1, <1>5, <1>6, Induction
<1>8. QED
  BY <1>1, <1>2, <1>7 DEF S, some, short, long, Walk

LEMMA WalkPasses ==
  ASSUME NEW disk \in Disk, NEW parts \in Seq(Part), NEW k \in 0..Len(parts),
         WalkUpTo(disk, parts)[k] # NoPath
  PROVE  /\ WalkUpTo(disk, parts)[k] \in disk.directories \cup DOMAIN disk.files
         /\ WalkUpTo(disk, parts)[k] \in Path
         /\ \A j \in 0..k : WalkUpTo(disk, parts)[j] # NoPath
<1> DEFINE n == Len(parts)
           walk == WalkUpTo(disk, parts)
<1>1. n \in Nat /\ k \in Nat /\ k <= n
  OBVIOUS
<1>2. /\ walk[0] = <<>> /\ \A i \in 1..n : walk[i] = Onward(disk, walk[i - 1], parts[i])
      /\ \A i \in 0..n : walk[i] \in PathOrNone
  BY WalkUnfolds
<1>3. walk[k] # NoPath
  OBVIOUS
<1>4. NoPath \notin disk.directories /\ <<>> \in disk.directories
  BY NoPathIsNone DEF Disk, IsDisk
<1> HIDE DEF walk, n
<1>5. ASSUME NEW i \in 1..n, walk[i] # NoPath
      PROVE  walk[i - 1] # NoPath /\ walk[i] \in disk.directories \cup DOMAIN disk.files
  <2>1. i - 1 \in 0..n /\ parts[i] \in Part
    BY <1>1, ElementOfSeq DEF n
  <2>2. QED
    BY <1>2, <1>4, <1>5, <2>1, OnwardType
<1> DEFINE S == {i \in 0..k : walk[k - i] # NoPath}
<1>6. 0 \in S
  BY <1>1, <1>3
<1>7. ASSUME NEW i \in 0..(k - 1), i \in S PROVE i + 1 \in S
  <2>1. k - i \in 1..n /\ (k - i) - 1 = k - (i + 1) /\ i + 1 \in 0..k
    BY <1>1
  <2>2. QED
    BY <1>5, <1>7, <2>1
<1> HIDE DEF S
<1>8. \A i \in 0..k : i \in S
  BY <1>1, <1>6, <1>7, Induction
<1>9. ASSUME NEW j \in 0..k PROVE walk[j] # NoPath
  <2>1. k - j \in 0..k /\ k - (k - j) = j
    BY <1>1
  <2>2. QED
    BY <1>8, <2>1 DEF S
<1>10. walk[k] \in disk.directories \cup DOMAIN disk.files
  BY <1>1, <1>2, <1>3, <1>4, <1>5
<1>11. QED
  BY <1>1, <1>2, <1>3, <1>9, <1>10 DEF walk, PathOrNone, n

LEMMA OneMore ==
  ASSUME NEW S, NEW path \in Seq(S), NEW i \in 0..(Len(path) - 1)
  PROVE  SubSeq(path, 1, i + 1) = Append(SubSeq(path, 1, i), path[i + 1])
<1> DEFINE k == i + 1
           s == SubSeq(path, 1, k)
           t == SubSeq(path, 1, i)
<1>1. i \in Nat /\ k \in Nat /\ k = i + 1 /\ k <= Len(path) /\ \A l \in 1..k : path[l] \in S
  BY ElementOfSeq
<1> HIDE DEF k
<1>2. s \in Seq(S) /\ Len(s) = k /\ \A l \in 1..k : s[l] = path[l]
  BY <1>1, SubSeqProperties
<1>3. t \in Seq(S) /\ Len(t) = i /\ \A l \in 1..i : t[l] = path[l]
  BY <1>1, SubSeqProperties
<1> HIDE DEF s, t
<1>4. /\ Append(t, path[k]) \in Seq(S) /\ Len(Append(t, path[k])) = k
      /\ \A l \in 1..k : Append(t, path[k])[l] = path[l]
  BY <1>1, <1>3
<1>5. s = Append(t, path[k])
  BY <1>2, <1>4, SeqEqual
<1>6. QED
  BY <1>5 DEF s, t, k

LEMMA WalkOfPlace ==
  ASSUME NEW disk \in Disk, NEW path \in disk.directories \cup DOMAIN disk.files
  PROVE  path \in Path /\ path \in Seq(Part) /\ Walk(disk, path) = path
<1> DEFINE n == Len(path)
           walk == WalkUpTo(disk, path)
           there == disk.directories \cup DOMAIN disk.files
<1>1. disk.directories \subseteq Path /\ DOMAIN disk.files \subseteq Path
  BY DEF Disk, Table
<1>2. /\ <<>> \in disk.directories
      /\ \A k \in 0..(n - 1) : SubSeq(path, 1, k) \in disk.directories
      /\ DOMAIN disk.links \cap there = {}
  BY DEF Disk, IsDisk
<1>3. path \in Path /\ path \in Seq(Part) /\ n \in Nat /\ \A i \in 1..n : path[i] \in Name
  BY <1>1, SeqMonotonic, ElementOfSeq DEF Path, Part
<1>4. walk[0] = <<>> /\ \A i \in 1..n : walk[i] = Onward(disk, walk[i - 1], path[i])
  BY <1>3, WalkUnfolds
<1>5. SubSeq(path, 1, n) = path /\ SubSeq(path, 1, 0) = <<>>
  BY <1>3, SubSeqFull, SubSeqEmpty
<1>6. ASSUME NEW i \in 0..(n - 1)
      PROVE  SubSeq(path, 1, i + 1) = Append(SubSeq(path, 1, i), path[i + 1])
  BY <1>3, OneMore DEF Path
<1> DEFINE upTo(i) == SubSeq(path, 1, i)
<1>7. walk[0] = upTo(0) /\ 0 \in 0..n
  BY <1>3, <1>4, <1>5
<1> HIDE DEF walk, n, upTo
<1> DEFINE S == {i \in 0..n : walk[i] = upTo(i)}
<1>8. 0 \in S
  BY <1>7
<1>9. ASSUME NEW i \in 0..(n - 1), i \in S PROVE i + 1 \in S
  <2>1. i + 1 \in 1..n /\ (i + 1) - 1 = i
    BY <1>3
  <2>2. walk[i] = SubSeq(path, 1, i) /\ walk[i] \in disk.directories
    BY <1>2, <1>9 DEF upTo
  <2>3. walk[i + 1] = Onward(disk, walk[i], path[i + 1])
    BY <1>4, <2>1
  <2>4. Step(walk[i], path[i + 1]) = SubSeq(path, 1, i + 1)
    BY <1>3, <1>6, <2>1, <2>2, NamesAreNames DEF Step
  <2>5. SubSeq(path, 1, i + 1) \in there
    <3>1. CASE i + 1 = n
      BY <3>1, <1>5
    <3>2. CASE i + 1 # n
      BY <3>2, <1>2, <1>3
    <3>3. QED
      BY <3>1, <3>2
  <2>6. walk[i + 1] = SubSeq(path, 1, i + 1)
    BY <1>2, <2>2, <2>3, <2>4, <2>5 DEF Onward
  <2>7. QED
    BY <2>1, <2>6 DEF upTo
<1> HIDE DEF S
<1>10. \A i \in 0..n : i \in S
  BY <1>3, <1>8, <1>9, Induction
<1>11. QED
  BY <1>3, <1>5, <1>10 DEF S, upTo, walk, n, Walk

LEMMA JoinedParts ==
  ASSUME NEW path \in Path, NEW rest \in Seq(Part)
  PROVE  /\ path \in Seq(Part) /\ path \o rest \in Seq(Part)
         /\ Len(path) \in Nat /\ Len(rest) \in Nat
         /\ Len(path \o rest) = Len(path) + Len(rest)
         /\ \A i \in 1..Len(path) : (path \o rest)[i] = path[i] /\ path[i] \in Name
         /\ \A i \in 1..Len(rest) : (path \o rest)[Len(path) + i] = rest[i] /\ rest[i] \in Part
<1>1. path \in Seq(Part)
  BY SeqMonotonic DEF Path, Part
<1>2. Len(path) \in Nat /\ Len(rest) \in Nat
  BY DEF Path
<1>3. /\ path \o rest \in Seq(Part)
      /\ Len(path \o rest) = Len(path) + Len(rest)
      /\ \A i \in 1..(Len(path) + Len(rest)) :
           (path \o rest)[i] = IF i <= Len(path) THEN path[i] ELSE rest[i - Len(path)]
  BY <1>1, ConcatProperties
<1>4. \A i \in 1..Len(path) : path[i] \in Name
  BY ElementOfSeq DEF Path
<1>5. \A i \in 1..Len(rest) : rest[i] \in Part
  BY ElementOfSeq
<1> DEFINE both == path \o rest
           n == Len(path)
           m == Len(rest)
<1> HIDE DEF both, n, m
<1>6. \A i \in 1..n : both[i] = path[i]
  BY <1>2, <1>3 DEF both, n, m
<1>7. \A i \in 1..m : both[n + i] = rest[i]
  <2>1. ASSUME NEW i \in 1..m PROVE both[n + i] = rest[i]
    <3>1. n + i \in 1..(n + m) /\ ~(n + i <= n) /\ (n + i) - n = i
      BY <1>2 DEF n, m
    <3>2. QED
      BY <1>3, <3>1 DEF both, n, m
  <2>2. QED
    BY <2>1
<1>8. QED
  BY <1>1, <1>2, <1>3, <1>4, <1>5, <1>6, <1>7 DEF both, n, m

\* A path of names is normal, and what comes behind it is normalised from there.
LEMMA NormalFrom ==
  ASSUME NEW path \in Path, NEW rest \in Seq(Part)
  PROVE  /\ NormalUpTo(path \o rest)[Len(path)] = path
         /\ \A i \in 1..Len(rest) :
              NormalUpTo(path \o rest)[Len(path) + i]
                = Step(NormalUpTo(path \o rest)[Len(path) + i - 1], rest[i])
         /\ LexicallyNormal(path \o rest) = NormalUpTo(path \o rest)[Len(path) + Len(rest)]
<1> DEFINE both == path \o rest
           n == Len(path)
           m == Len(rest)
           normal == NormalUpTo(both)
           upTo(i) == SubSeq(path, 1, i)
<1>1. /\ both \in Seq(Part) /\ n \in Nat /\ m \in Nat /\ Len(both) = n + m
      /\ \A i \in 1..n : both[i] = path[i] /\ path[i] \in Name
      /\ \A i \in 1..m : both[n + i] = rest[i]
  BY JoinedParts
<1>2. normal[0] = <<>> /\ \A k \in 1..(n + m) : normal[k] = Step(normal[k - 1], both[k])
  BY <1>1, NormalUnfolds
<1>3. upTo(0) = <<>> /\ upTo(n) = path
  BY SubSeqFull, SubSeqEmpty DEF Path
<1>4. ASSUME NEW i \in 0..(n - 1) PROVE upTo(i + 1) = Step(upTo(i), path[i + 1])
  <2>1. upTo(i + 1) = Append(upTo(i), path[i + 1])
    BY OneMore DEF Path
  <2>2. i + 1 \in 1..n
    BY <1>1
  <2>3. path[i + 1] \in Name
    BY <1>1, <2>2
  <2>4. path[i + 1] # ".."
    BY <2>3, NamesAreNames
  <2>5. QED
    BY <2>1, <2>4 DEF Step
<1> HIDE DEF both, n, m, normal, upTo
<1> DEFINE S == {i \in 0..n : normal[i] = upTo(i)}
<1>5. 0 \in S
  BY <1>1, <1>2, <1>3
<1>6. ASSUME NEW i \in 0..(n - 1), i \in S PROVE i + 1 \in S
  <2>1. i + 1 \in 1..n /\ i + 1 \in 1..(n + m) /\ (i + 1) - 1 = i
    BY <1>1
  <2>2. normal[i + 1] = Step(normal[i], path[i + 1])
    BY <1>1, <1>2, <2>1
  <2>3. QED
    BY <1>4, <1>6, <2>1, <2>2
<1> HIDE DEF S
<1>7. \A i \in 0..n : i \in S
  BY <1>1, <1>5, <1>6, Induction
<1>8. normal[n] = path
  BY <1>1, <1>3, <1>7 DEF S
<1>9. ASSUME NEW i \in 1..m PROVE normal[n + i] = Step(normal[n + i - 1], rest[i])
  <2>1. n + i \in 1..(n + m)
    BY <1>1
  <2>2. QED
    BY <1>1, <1>2, <2>1, SMTT(30)
<1>10. LexicallyNormal(both) = normal[n + m]
  BY <1>1 DEF LexicallyNormal, normal
<1>11. QED
  BY <1>8, <1>9, <1>10 DEF both, n, m, normal

LEMMA NormalOfPath ==
  ASSUME NEW path \in Path
  PROVE  LexicallyNormal(path \o <<>>) = path /\ LexicallyNormal(path) = path
<1> DEFINE rest == <<>>
<1>1. Len(path) \in Nat /\ rest \in Seq(Part) /\ Len(rest) = 0 /\ path \o rest = path
  BY EmptySeq, ConcatEmptySeq DEF Path
<1> HIDE DEF rest
<1>2. /\ NormalUpTo(path \o rest)[Len(path)] = path
      /\ LexicallyNormal(path \o rest) = NormalUpTo(path \o rest)[Len(path) + Len(rest)]
  BY <1>1, NormalFrom
<1>3. Len(path) + Len(rest) = Len(path)
  BY <1>1
<1>4. LexicallyNormal(path \o rest) = path
  BY <1>2, <1>3
<1>5. QED
  BY <1>1, <1>4 DEF rest

\* weakly_canonical walks as far as it can and normalises the rest.
LEMMA CanonicalUnfolds ==
  ASSUME NEW disk \in Disk, NEW parts \in Seq(Part)
  PROVE  \E known \in 0..Len(parts) :
           /\ WalkUpTo(disk, parts)[known] # NoPath
           /\ known < Len(parts) => WalkUpTo(disk, parts)[known + 1] = NoPath
           /\ WeaklyCanonical(disk, parts)
                = LexicallyNormal(WalkUpTo(disk, parts)[known]
                                    \o SubSeq(parts, known + 1, Len(parts)))
<1> DEFINE n == Len(parts)
           walk == WalkUpTo(disk, parts)
           T == {k \in 0..n : walk[k] # NoPath}
           Known(k) == /\ \A j \in 0..k : Exists(disk, SubSeq(parts, 1, j))
                       /\ k < n => ~ Exists(disk, SubSeq(parts, 1, k + 1))
           known == CHOOSE k \in 0..n : Known(k)
<1>1. n \in Nat /\ walk[0] = <<>>
  BY WalkUnfolds
<1>2. <<>> # NoPath
  BY DEF NoPath
<1>3. \A j \in 0..n : Exists(disk, SubSeq(parts, 1, j)) <=> walk[j] # NoPath
  BY WalkOfPrefix DEF Exists
<1>4. \A k \in 0..n : walk[k] # NoPath => \A j \in 0..k : walk[j] # NoPath
  BY WalkPasses
<1> HIDE DEF n, walk
<1>5. PICK m \in T : \A k \in T : k <= m
  <2>1. T \subseteq 0..n /\ T # {}
    BY <1>1, <1>2
  <2> HIDE DEF T
  <2>2. QED
    BY <1>1, <2>1, Greatest
<1>6. Known(m)
  <2>1. m \in 0..n /\ walk[m] # NoPath
    BY <1>5
  <2>2. \A j \in 0..m : j \in 0..n /\ walk[j] # NoPath
    BY <1>1, <1>4, <2>1
  <2>3. m < n => m + 1 \in 0..n /\ walk[m + 1] = NoPath
    BY <1>1, <1>5, <2>1
  <2>4. QED
    BY <1>3, <2>2, <2>3
<1>7. known \in 0..n /\ Known(known)
  BY <1>5, <1>6
<1> HIDE DEF known
<1>8. known \in 0..known /\ (known < n => known + 1 \in 0..n)
  BY <1>1, <1>7
<1>9. walk[known] # NoPath /\ (known < n => walk[known + 1] = NoPath)
  BY <1>3, <1>7, <1>8
<1>10. Walk(disk, SubSeq(parts, 1, known)) = walk[known]
  BY <1>7, WalkOfPrefix DEF n, walk
<1>11. WeaklyCanonical(disk, parts)
         = LexicallyNormal(Walk(disk, SubSeq(parts, 1, known)) \o SubSeq(parts, known + 1, n))
  BY DEF WeaklyCanonical, known, n
<1>12. QED
  BY <1>7, <1>9, <1>10, <1>11 DEF n, walk

LEMMA CanonicalOfExisting ==
  ASSUME NEW disk \in Disk, NEW parts \in Seq(Part), Exists(disk, parts)
  PROVE  /\ WeaklyCanonical(disk, parts) = Walk(disk, parts)
         /\ Walk(disk, parts) \in disk.directories \cup DOMAIN disk.files
         /\ Walk(disk, parts) \in Path
         /\ Walk(disk, Walk(disk, parts)) = Walk(disk, parts)
<1> DEFINE n == Len(parts)
           walk == WalkUpTo(disk, parts)
<1>1. PICK known \in 0..n :
        /\ walk[known] # NoPath
        /\ known < n => walk[known + 1] = NoPath
        /\ WeaklyCanonical(disk, parts) = LexicallyNormal(walk[known] \o SubSeq(parts, known + 1, n))
  BY CanonicalUnfolds
<1>2. n \in Nat /\ Walk(disk, parts) = walk[n]
  BY DEF Walk
<1>3. /\ walk[n] # NoPath /\ walk[n] \in disk.directories \cup DOMAIN disk.files
      /\ walk[n] \in Path /\ \A j \in 0..n : walk[j] # NoPath
  BY <1>2, WalkPasses DEF Exists
<1> HIDE DEF n, walk
<1>4. known = n
  BY <1>1, <1>2, <1>3
<1>5. SubSeq(parts, n + 1, n) = <<>>
  BY <1>2, SubSeqEmpty
<1>6. LexicallyNormal(walk[n] \o <<>>) = walk[n]
  BY <1>3, NormalOfPath DEF Path
<1>7. WeaklyCanonical(disk, parts) = walk[n]
  BY <1>1, <1>4, <1>5, <1>6
<1>8. QED
  BY <1>2, <1>3, <1>7, WalkOfPlace

LEMMA DiskFacts ==
  ASSUME NEW disk \in Disk
  PROVE  /\ disk.directories \subseteq Path /\ DOMAIN disk.files \subseteq Path
         /\ NoPath \notin disk.directories \cup DOMAIN disk.files
         /\ <<>> \in disk.directories /\ disk.directories \cap DOMAIN disk.files = {}
         /\ \A path \in disk.directories \cup DOMAIN disk.files :
              \A k \in 0..(Len(path) - 1) : SubSeq(path, 1, k) \in disk.directories
         /\ DOMAIN disk.links \cap (disk.directories \cup DOMAIN disk.files) = {}
         /\ \A link \in DOMAIN disk.links : disk.links[link] \in disk.directories
<1>1. disk.directories \subseteq Path /\ DOMAIN disk.files \subseteq Path
  BY DEF Disk, Table
<1>2. IsDisk(disk)
  BY DEF Disk
<1>3. QED
  BY <1>1, <1>2, NoPathIsNone DEF IsDisk

LEMMA ParentIsDirectory ==
  ASSUME NEW disk \in Disk, NEW path \in disk.directories \cup DOMAIN disk.files
  PROVE  Parent(path) \in disk.directories
<1>1. path \in Seq(Name)
  BY DiskFacts DEF Path
<1>2. CASE path = <<>>
  BY <1>2, DiskFacts DEF Parent
<1>3. CASE path # <<>>
  <2>1. Len(path) \in Nat \ {0} /\ Parent(path) = SubSeq(path, 1, Len(path) - 1)
    BY <1>1, <1>3, ParentType
  <2>2. Len(path) - 1 \in 0..(Len(path) - 1)
    BY <2>1
  <2>3. QED
    BY <2>1, <2>2, DiskFacts
<1>4. QED
  BY <1>2, <1>3

LEMMA WalkAppend ==
  ASSUME NEW disk \in Disk, NEW path \in disk.directories \cup DOMAIN disk.files,
         NEW name \in Name
  PROVE  /\ Append(path, name) \in Path /\ Append(path, name) \in Seq(Part)
         /\ Walk(disk, Append(path, name)) = Onward(disk, path, name)
<1> DEFINE n == Len(path)
           more == Append(path, name)
           walk == WalkUpTo(disk, more)
<1>1. path \in Path /\ path \in Seq(Part) /\ Walk(disk, path) = path /\ n \in Nat
  BY WalkOfPlace DEF Path
<1>2. /\ more \in Path /\ more \in Seq(Part) /\ Len(more) = n + 1
      /\ more[n + 1] = name /\ \A i \in 1..n : more[i] = path[i]
  BY <1>1 DEF Path, Part
<1>3. SubSeq(more, 1, n) = path
  <2> DEFINE s == SubSeq(more, 1, n)
  <2>1. \A i \in 1..n : more[i] \in Name
    BY <1>1, <1>2, ElementOfSeq DEF Path
  <2>2. s \in Seq(Name) /\ Len(s) = n /\ \A i \in 1..n : s[i] = more[i]
    BY <1>1, <2>1, SubSeqProperties
  <2> HIDE DEF s, more
  <2>3. s = path
    BY <1>1, <1>2, <2>2, SeqEqual DEF Path
  <2>4. QED
    BY <2>3 DEF s
<1> HIDE DEF more, n
<1>4. walk[n] = path
  <2>1. n \in 0..Len(more)
    BY <1>1, <1>2
  <2>2. QED
    BY <1>1, <1>2, <1>3, <2>1, WalkOfPrefix
<1>5. walk[n + 1] = Onward(disk, walk[n], more[n + 1])
  <2>1. n + 1 \in 1..Len(more) /\ (n + 1) - 1 = n
    BY <1>1, <1>2
  <2>2. QED
    BY <1>2, <2>1, WalkUnfolds
<1>6. QED
  BY <1>2, <1>4, <1>5 DEF Walk, more

\* A path whose last part only is missing gets this part, and no file is there.
LEMMA CanonicalOfMissing ==
  ASSUME NEW disk \in Disk, NEW parts \in Seq(Part), parts # <<>>,
         ~ Exists(disk, parts), Exists(disk, Parent(parts))
  PROVE  /\ Walk(disk, WeaklyCanonical(disk, parts)) \notin DOMAIN disk.files
         /\ Walk(disk, Parent(parts)) \in disk.directories =>
              /\ WeaklyCanonical(disk, parts) \in Path
              /\ WeaklyCanonical(disk, parts) \notin disk.directories \cup DOMAIN disk.files
<1> DEFINE n == Len(parts)
           walk == WalkUpTo(disk, parts)
           at == Walk(disk, Parent(parts))
           part == parts[n]
           canonical == WeaklyCanonical(disk, parts)
           there == disk.directories \cup DOMAIN disk.files
<1>1. n \in Nat \ {0} /\ Parent(parts) = SubSeq(parts, 1, n - 1) /\ part \in Part
  BY ParentType, ElementOfSeq
<1>2. n - 1 \in 0..n /\ n \in 0..n /\ n \in 1..n
  BY <1>1
<1>3. at = walk[n - 1] /\ at # NoPath /\ walk[n] = NoPath
  BY <1>1, <1>2, WalkOfPrefix DEF Exists, Walk
<1>4. at \in there /\ at \in Path /\ \A j \in 0..(n - 1) : walk[j] # NoPath
  BY <1>2, <1>3, WalkPasses
<1>5. walk[n] = Onward(disk, at, part)
  BY <1>2, <1>3, WalkUnfolds
<1>6. PICK known \in 0..n :
        /\ walk[known] # NoPath
        /\ known < n => walk[known + 1] = NoPath
        /\ canonical = LexicallyNormal(walk[known] \o SubSeq(parts, known + 1, n))
  BY CanonicalUnfolds
<1> HIDE DEF n, walk, at, part, canonical
<1>7. known = n - 1
  <2>1. known # n
    BY <1>3, <1>6
  <2>2. known + 1 \notin 0..(n - 1)
    BY <1>1, <1>4, <1>6, <2>1
  <2>3. QED
    BY <1>1, <2>1, <2>2
<1>8. canonical = Step(at, part)
  <2> DEFINE rest == <<part>>
  <2>1. rest \in Seq(Part) /\ Len(rest) = 1 /\ rest[1] = part
    BY <1>1
  <2>2. SubSeq(parts, known + 1, n) = rest
    <3> DEFINE s == SubSeq(parts, known + 1, n)
    <3>1. known + 1 = n /\ known + 1 \in Int /\ n \in Int
      BY <1>1, <1>7
    <3>2. \A i \in (known + 1)..n : parts[i] \in Part
      BY <1>1, <3>1 DEF part
    <3>3. s \in Seq(Part) /\ Len(s) = 1 /\ s[1] = part
      BY <3>1, <3>2, SubSeqProperties DEF part
    <3> HIDE DEF s, rest
    <3>4. s = rest
      BY <2>1, <3>3, SeqEqual
    <3>5. QED
      BY <3>4 DEF s
  <2> HIDE DEF rest
  <2>3. canonical = LexicallyNormal(at \o rest)
    BY <1>3, <1>6, <1>7, <2>2
  <2>4. 1 \in 1..Len(rest) /\ Len(at) \in Nat
    BY <1>4, <2>1 DEF Path
  <2>5. Len(at) + 1 - 1 = Len(at) /\ Len(at) + Len(rest) = Len(at) + 1
    BY <2>1, <2>4
  <2>6. /\ NormalUpTo(at \o rest)[Len(at)] = at
        /\ NormalUpTo(at \o rest)[Len(at) + 1] = Step(NormalUpTo(at \o rest)[Len(at) + 1 - 1], rest[1])
        /\ LexicallyNormal(at \o rest) = NormalUpTo(at \o rest)[Len(at) + Len(rest)]
    BY <1>4, <2>1, <2>4, NormalFrom, ZenonT(40)
  <2>7. QED
    BY <2>1, <2>3, <2>5, <2>6
<1>9. NoPath \notin there /\ Parent(at) \in disk.directories
  BY <1>4, DiskFacts, ParentIsDirectory
<1>10. CASE part = ".."
  <2>1. canonical = Parent(at) /\ Step(at, part) = Parent(at)
    BY <1>8, <1>10 DEF Step
  <2>2. at \notin disk.directories
    <3>1. Parent(at) \notin DOMAIN disk.links
      BY <1>9, DiskFacts
    <3>2. QED
      BY <1>3, <1>5, <1>9, <2>1, <3>1 DEF Onward
  <2>3. Walk(disk, canonical) = Parent(at) /\ Parent(at) \notin DOMAIN disk.files
    BY <1>9, <2>1, WalkOfPlace, DiskFacts
  <2>4. QED
    BY <2>2, <2>3 DEF at, canonical
<1>11. CASE part # ".."
  <2>1. part \in Name
    BY <1>1, <1>11 DEF Part
  <2>2. canonical = Append(at, part) /\ Step(at, part) = canonical
    BY <1>8, <1>11 DEF Step
  <2>3. canonical \in Path /\ Walk(disk, canonical) = NoPath
    BY <1>3, <1>4, <1>5, <2>1, <2>2, WalkAppend
  <2>4. at \in disk.directories => canonical \notin there
    <3>1. SUFFICES ASSUME at \in disk.directories, canonical \in there PROVE FALSE
      OBVIOUS
    <3>2. canonical \notin DOMAIN disk.links
      BY <3>1, DiskFacts
    <3>3. Onward(disk, at, part) = canonical
      BY <2>2, <3>1, <3>2 DEF Onward
    <3>4. QED
      BY <1>3, <1>5, <1>9, <3>1, <3>3
  <2>5. QED
    BY <1>9, <2>3, <2>4 DEF at, canonical
<1>12. QED
  BY <1>10, <1>11

\* What lies beneath a root: only a root that exists has anything beneath it.
LEMMA RootAllows ==
  ASSUME NEW disk \in Disk, NEW file \in DOMAIN disk.files, NEW root \in Seq(Part),
         Walk(disk, Parent(root)) \in disk.directories
  PROVE  Beneath(file, WeaklyCanonical(disk, root))
           <=> Exists(disk, root) /\ Beneath(file, Walk(disk, root))
<1>1. CASE Exists(disk, root)
  BY <1>1, CanonicalOfExisting
<1>2. CASE ~ Exists(disk, root)
  <2> DEFINE c == WeaklyCanonical(disk, root)
  <2>1. Exists(disk, Parent(root))
    BY DiskFacts DEF Exists
  <2>2. root # <<>>
    BY <1>2, <2>1 DEF Parent
  <2>3. c \in Path /\ c \notin disk.directories \cup DOMAIN disk.files
    BY <1>2, <2>1, <2>2, CanonicalOfMissing
  <2>4. ASSUME Beneath(file, c) PROVE FALSE
    <3> HIDE DEF c
    <3>1. /\ Len(c) \in Nat /\ Len(file) \in Nat /\ file \in Seq(Name) /\ c \in Seq(Name)
      BY <2>3, DiskFacts DEF Path
    <3>2. Len(c) <= Len(file) /\ SubSeq(c, 1, Len(c)) = SubSeq(file, 1, Len(c))
      BY <2>4 DEF Beneath, IsPrefix
    <3>3. c = SubSeq(file, 1, Len(c))
      BY <3>1, <3>2, SubSeqFull
    <3>4. CASE Len(c) = Len(file)
      BY <2>3, <3>1, <3>3, <3>4, SubSeqFull
    <3>5. CASE Len(c) # Len(file)
      <4>1. Len(c) \in 0..(Len(file) - 1)
        BY <3>1, <3>2, <3>5
      <4>2. QED
        BY <2>3, <3>3, <4>1, DiskFacts
    <3>6. QED
      BY <3>4, <3>5
  <2>5. QED
    BY <1>2, <2>4
<1>3. QED
  BY <1>1, <1>2

\* The file that a request behind one base opens (OneName's Opens).
Opened(disk, file, roots) ==
  /\ file \in DOMAIN disk.files
  /\ IsMarkup(file)
  /\ disk.files[file].size <= MaximumBytes
  /\ roots = {} \/ \E root \in roots : Exists(disk, root) /\ Beneath(file, Walk(disk, root))

LEMMA OnDiskOfRequest ==
  ASSUME NEW disk \in Disk, NEW parts \in Seq(Part), NEW roots \in SUBSET Seq(Part),
         Exists(disk, Parent(parts)),
         \A root \in roots : Walk(disk, Parent(root)) \in disk.directories
  PROVE  OnDisk(disk, WeaklyCanonical(disk, parts), roots)
           = IF Opened(disk, Walk(disk, parts), roots)
             THEN [path |-> Walk(disk, parts),
                   contents |-> disk.files[Walk(disk, parts)].contents]
             ELSE NotFound
<1> DEFINE c == WeaklyCanonical(disk, parts)
           file == Walk(disk, parts)
           canonicalRoots == {WeaklyCanonical(disk, root) : root \in roots}
<1>1. CASE ~ Exists(disk, parts)
  <2>1. file \notin DOMAIN disk.files
    BY <1>1, DiskFacts DEF Exists
  <2>2. parts # <<>>
    BY <1>1 DEF Parent
  <2>3. Walk(disk, c) \notin DOMAIN disk.files
    BY <1>1, <2>2, CanonicalOfMissing
  <2>4. QED
    BY <2>1, <2>3 DEF OnDisk, Opened
<1>2. CASE Exists(disk, parts)
  <2>1. c = file /\ Walk(disk, file) = file
    BY <1>2, CanonicalOfExisting
  <2>2. ASSUME file \in DOMAIN disk.files
        PROVE  Allowed(file, canonicalRoots)
                 <=> roots = {} \/ \E root \in roots :
                       Exists(disk, root) /\ Beneath(file, Walk(disk, root))
    <3>1. \A root \in roots : Beneath(file, WeaklyCanonical(disk, root))
                                <=> Exists(disk, root) /\ Beneath(file, Walk(disk, root))
      BY <2>2, RootAllows
    <3> HIDE DEF file
    <3>2. QED
      BY <3>1 DEF Allowed
  <2> HIDE DEF c, file, canonicalRoots
  <2>3. OnDisk(disk, c, roots)
          = IF /\ file \in DOMAIN disk.files /\ IsMarkup(file)
               /\ Allowed(file, canonicalRoots)
               /\ disk.files[file].size <= MaximumBytes
            THEN [path |-> file, contents |-> disk.files[file].contents] ELSE NotFound
    BY <2>1 DEF OnDisk, canonicalRoots
  <2>4. QED
    BY <2>2, <2>3 DEF Opened, c, file
<1>3. QED
  BY <1>1, <1>2

LEMMA FirstFound ==
  ASSUME NEW n \in Nat, NEW bases, DOMAIN bases = 1..n, NEW found
  PROVE  \/ First(bases, found) = NotFound /\ \A i \in 1..n : found[i] = NotFound
         \/ \E i \in 1..n : /\ First(bases, found) = found[i] /\ found[i] # NotFound
                            /\ \A j \in 1..(i - 1) : found[j] = NotFound
<1> DEFINE good == {i \in 1..n : found[i] # NotFound}
           least == CHOOSE i \in good : \A j \in good : i <= j
<1>1. First(bases, found) = IF good = {} THEN NotFound ELSE found[least]
  BY DEF First
<1>2. CASE good = {}
  BY <1>1, <1>2
<1>3. CASE good # {}
  <2>1. good \subseteq Nat
    OBVIOUS
  <2>2. \E i \in good : \A j \in good : i <= j
    <3> HIDE DEF good
    <3>1. QED
      BY <1>3, <2>1, Least
  <2>3. least \in good /\ \A j \in good : least <= j
    BY <2>2
  <2> HIDE DEF least
  <2>4. \A j \in 1..(least - 1) : j \in 1..n /\ ~(least <= j)
    BY <2>3
  <2>5. \A j \in 1..(least - 1) : found[j] = NotFound
    BY <2>3, <2>4
  <2>6. QED
    BY <1>1, <1>3, <2>3, <2>5
<1>4. QED
  BY <1>2, <1>3

LEMMA BasesType ==
  ASSUME NEW including \in Path, NEW search \in Seq(Seq(Part)), NEW request \in Request
  PROVE  /\ Len(<<Parent(including)>> \o search) \in Nat \ {0}
         /\ DOMAIN (<<Parent(including)>> \o search) = 1..Len(<<Parent(including)>> \o search)
         /\ \A i \in DOMAIN (<<Parent(including)>> \o search) :
              Written((<<Parent(including)>> \o search)[i], request) \in Seq(Part)
<1> DEFINE own == <<Parent(including)>>
           bases == own \o search
<1>1. Parent(including) \in Seq(Part)
  <2>1. including \in Seq(Part)
    BY SeqMonotonic DEF Path, Part
  <2>2. QED
    BY <2>1, ParentType
<1>2. own \in Seq(Seq(Part)) /\ Len(own) = 1
  BY <1>1
<1> HIDE DEF own
<1>3. bases \in Seq(Seq(Part)) /\ Len(bases) = 1 + Len(search) /\ Len(search) \in Nat
  BY <1>2, ConcatProperties, LenProperties, ZenonT(40)
<1> HIDE DEF bases
<1>4. DOMAIN bases = 1..Len(bases) /\ \A i \in 1..Len(bases) : bases[i] \in Seq(Part)
  BY <1>3, LenProperties, ElementOfSeq
<1>5. request.parts \in Seq(Part)
  BY DEF Request
<1>6. ASSUME NEW i \in 1..Len(bases) PROVE Written(bases[i], request) \in Seq(Part)
  <2>1. bases[i] \in Seq(Part)
    BY <1>4
  <2>2. QED
    BY <1>5, <2>1, ConcatProperties DEF Written
<1>7. QED
  BY <1>3, <1>4, <1>6 DEF own, bases

\* A file that a request reaches has one name, whatever the disk and the request
\* (include.cpp:66-96).
THEOREM FilesHaveOneName ==
  ASSUME NEW disk \in Disk, NEW including \in Path, NEW request \in Request,
         NEW search \in Seq(Seq(Part)), NEW roots \in SUBSET Seq(Part)
  PROVE  OneName(disk, including, request, search, roots)
<1> DEFINE bases == <<Parent(including)>> \o search
           n == Len(bases)
           Reaches(i) == Walk(disk, Written(bases[i], request))
           found == [i \in DOMAIN bases |->
                       OnDisk(disk, WeaklyCanonical(disk, Written(bases[i], request)), roots)]
           result == DiskResolve(disk, including, request, search, roots)
<1>1. /\ n \in Nat /\ DOMAIN bases = 1..n
      /\ \A i \in DOMAIN bases : Written(bases[i], request) \in Seq(Part)
  BY BasesType
<1>2. result = First(bases, found)
  BY DEF DiskResolve
<1>3. SUFFICES ASSUME \A i \in DOMAIN bases : Exists(disk, Parent(Written(bases[i], request))),
                      \A root \in roots : Walk(disk, Parent(root)) \in disk.directories
               PROVE  IF \E i \in DOMAIN bases : Opened(disk, Reaches(i), roots)
                      THEN \E i \in DOMAIN bases :
                             /\ Opened(disk, Reaches(i), roots) /\ result.path = Reaches(i)
                             /\ \A j \in 1..(i - 1) : ~ Opened(disk, Reaches(j), roots)
                             /\ result.contents = disk.files[Reaches(i)].contents
                      ELSE result = NotFound
  BY DEF OneName, Opened
<1> HIDE DEF bases, n, result
<1>4. ASSUME NEW i \in 1..n
      PROVE  /\ Opened(disk, Reaches(i), roots) =>
                  found[i] = [path |-> Reaches(i), contents |-> disk.files[Reaches(i)].contents]
             /\ ~ Opened(disk, Reaches(i), roots) => found[i] = NotFound
  BY <1>1, <1>3, OnDiskOfRequest
<1>5. ASSUME NEW i \in 1..n, Opened(disk, Reaches(i), roots) PROVE found[i] # NotFound
  <2>1. Reaches(i) # NoPath
    BY <1>5, DiskFacts DEF Opened
  <2> DEFINE place == Reaches(i)
             text == disk.files[place].contents
             none == NoPath
  <2>2. found[i] = [path |-> place, contents |-> text]
    BY <1>4, <1>5
  <2>3. NotFound.path = none
    BY DEF NotFound
  <2> HIDE DEF place, text, none
  <2>4. QED
    BY <2>1, <2>2, <2>3 DEF place, none
<1> HIDE DEF found, Reaches
<1>6. CASE First(bases, found) = NotFound /\ \A i \in 1..n : found[i] = NotFound
  BY <1>1, <1>2, <1>5, <1>6
<1>7. CASE \E i \in 1..n : /\ First(bases, found) = found[i] /\ found[i] # NotFound
                           /\ \A j \in 1..(i - 1) : found[j] = NotFound
  <2>1. PICK i \in 1..n : /\ First(bases, found) = found[i] /\ found[i] # NotFound
                          /\ \A j \in 1..(i - 1) : found[j] = NotFound
    BY <1>7
  <2>2. Opened(disk, Reaches(i), roots)
    BY <1>4, <2>1
  <2>3. \A j \in 1..(i - 1) : ~ Opened(disk, Reaches(j), roots)
    <3>1. \A j \in 1..(i - 1) : j \in 1..n
      BY <1>1
    <3>2. QED
      BY <1>5, <2>1, <3>1
  <2>4. result = [path |-> Reaches(i), contents |-> disk.files[Reaches(i)].contents]
    BY <1>2, <1>4, <2>1, <2>2
  <2>5. result.path = Reaches(i) /\ result.contents = disk.files[Reaches(i)].contents
    BY <2>4
  <2>6. QED
    BY <1>1, <2>2, <2>3, <2>5
<1>8. QED
  BY <1>1, <1>6, <1>7, FirstFound

-----------------------------------------------------------------------------
(***************************************************************************)
(* Memory and disk.                                                        *)
(***************************************************************************)
LEMMA VirtualIsNormal ==
  ASSUME NEW parts \in Seq(Part), NormalizeVirtualPath(parts) # NoPath
  PROVE  NormalizeVirtualPath(parts) = LexicallyNormal(parts) /\ LexicallyNormal(parts) \in Path
<1> DEFINE n == Len(parts)
           virtual == VirtualUpTo(parts)
           normal == NormalUpTo(parts)
<1>1. n \in Nat /\ virtual[n] # NoPath /\ virtual[n] = NormalizeVirtualPath(parts)
      /\ normal[n] = LexicallyNormal(parts)
  BY DEF NormalizeVirtualPath, LexicallyNormal
<1>2. virtual[0] = <<>> /\ \A k \in 1..n : virtual[k] = VirtualStep(virtual[k - 1], parts[k])
  BY VirtualUnfolds
<1>3. /\ normal[0] = <<>> /\ \A k \in 1..n : normal[k] = Step(normal[k - 1], parts[k])
      /\ normal[n] \in Path
  BY <1>1, NormalUnfolds
<1> HIDE DEF n, virtual, normal
<1> DEFINE S == {k \in 0..n : virtual[k] # NoPath => virtual[k] = normal[k]}
<1>4. 0 \in S
  BY <1>1, <1>2, <1>3
<1>5. ASSUME NEW k \in 0..(n - 1), k \in S PROVE k + 1 \in S
  <2>1. k + 1 \in 1..n /\ (k + 1) - 1 = k
    BY <1>1
  <2>2. virtual[k + 1] = VirtualStep(virtual[k], parts[k + 1])
        /\ normal[k + 1] = Step(normal[k], parts[k + 1])
    BY <1>2, <1>3, <2>1
  <2>3. QED
    BY <1>5, <2>1, <2>2 DEF VirtualStep
<1> HIDE DEF S
<1>6. \A k \in 0..n : k \in S
  BY <1>1, <1>4, <1>5, Induction
<1>7. QED
  BY <1>1, <1>3, <1>6 DEF S

\* Without links a walk does not leave what is written.
LEMMA WalkWithoutLinks ==
  ASSUME NEW disk \in Disk, disk.links = <<>>, NEW parts \in Seq(Part)
  PROVE  \A k \in 0..Len(parts) :
           WalkUpTo(disk, parts)[k] # NoPath => WalkUpTo(disk, parts)[k] = NormalUpTo(parts)[k]
<1> DEFINE n == Len(parts)
           walk == WalkUpTo(disk, parts)
           normal == NormalUpTo(parts)
<1>1. n \in Nat /\ DOMAIN disk.links = {}
  OBVIOUS
<1>2. /\ walk[0] = <<>> /\ \A k \in 1..n : walk[k] = Onward(disk, walk[k - 1], parts[k])
      /\ \A k \in 0..n : walk[k] \in PathOrNone
  BY WalkUnfolds
<1>3. normal[0] = <<>> /\ \A k \in 1..n : normal[k] = Step(normal[k - 1], parts[k])
  BY NormalUnfolds
<1>4. \A k \in 0..n : walk[k] # NoPath => \A j \in 0..k : walk[j] # NoPath
  BY WalkPasses
<1> HIDE DEF n, walk, normal
<1> DEFINE S == {k \in 0..n : walk[k] # NoPath => walk[k] = normal[k]}
<1>5. 0 \in S
  BY <1>1, <1>2, <1>3
<1>6. ASSUME NEW k \in 0..(n - 1), k \in S PROVE k + 1 \in S
  <2>1. k + 1 \in 0..n /\ k + 1 \in 1..n /\ (k + 1) - 1 = k /\ k \in 0..(k + 1)
    BY <1>1
  <2>2. walk[k + 1] = Onward(disk, walk[k], parts[k + 1])
        /\ normal[k + 1] = Step(normal[k], parts[k + 1])
    BY <1>2, <1>3, <2>1
  <2>3. walk[k + 1] # NoPath => walk[k + 1] = Step(walk[k], parts[k + 1])
    BY <1>1, <2>2 DEF Onward
  <2>4. walk[k + 1] # NoPath => walk[k] = normal[k]
    BY <1>4, <1>6, <2>1
  <2>5. QED
    BY <2>1, <2>2, <2>3, <2>4
<1> HIDE DEF S
<1>7. \A k \in 0..n : k \in S
  BY <1>1, <1>5, <1>6, Induction
<1>8. QED
  BY <1>7 DEF S, n, walk, normal

LEMMA LastParts ==
  ASSUME NEW S, NEW s \in Seq(S), NEW first \in Nat, NEW m \in Nat, first >= 1,
         first + m = Len(s) + 1
  PROVE  /\ SubSeq(s, first, Len(s)) \in Seq(S) /\ Len(SubSeq(s, first, Len(s))) = m
         /\ \A i \in 1..m : SubSeq(s, first, Len(s))[i] = s[first + i - 1]
<1> DEFINE n == Len(s)
<1>1. n \in Nat /\ n - first + 1 = m /\ (~(first <= n) => m = 0)
  OBVIOUS
<1>2. \A i \in first..n : s[i] \in S
  OBVIOUS
<1> HIDE DEF n
<1>3. /\ SubSeq(s, first, n) \in Seq(S)
      /\ Len(SubSeq(s, first, n)) = IF first <= n THEN n - first + 1 ELSE 0
      /\ \A i \in 1..(n - first + 1) : SubSeq(s, first, n)[i] = s[first + i - 1]
  BY <1>1, <1>2, SubSeqProperties
<1>4. QED
  BY <1>1, <1>3 DEF n

LEMMA CanonicalWithoutLinks ==
  ASSUME NEW disk \in Disk, disk.links = <<>>, NEW parts \in Seq(Part)
  PROVE  WeaklyCanonical(disk, parts) = LexicallyNormal(parts)
<1> DEFINE n == Len(parts)
           walk == WalkUpTo(disk, parts)
           normal == NormalUpTo(parts)
<1>1. PICK known \in 0..n :
        /\ walk[known] # NoPath
        /\ WeaklyCanonical(disk, parts) = LexicallyNormal(walk[known] \o SubSeq(parts, known + 1, n))
  BY CanonicalUnfolds
<1> DEFINE path == walk[known]
           rest == SubSeq(parts, known + 1, n)
           m == n - known
           both == NormalUpTo(path \o rest)
           at == Len(path)
<1>2. n \in Nat /\ known \in Nat /\ m \in Nat /\ known + m = n
      /\ \A i \in (known + 1)..n : parts[i] \in Part
  BY ElementOfSeq
<1>3. path = normal[known] /\ path \in Path /\ at \in Nat
  BY <1>1, WalkWithoutLinks, WalkPasses DEF Path
<1>4. \A k \in 1..n : normal[k] = Step(normal[k - 1], parts[k])
  BY NormalUnfolds
<1>5. rest \in Seq(Part) /\ Len(rest) = m /\ \A i \in 1..m : rest[i] = parts[known + i]
  <2> DEFINE first == known + 1
  <2>1. first \in Nat /\ first >= 1 /\ first + m = n + 1 /\ \A i \in 1..m : first + i - 1 = known + i
    BY <1>2
  <2> HIDE DEF first, m
  <2>2. /\ SubSeq(parts, first, n) \in Seq(Part) /\ Len(SubSeq(parts, first, n)) = m
        /\ \A i \in 1..m : SubSeq(parts, first, n)[i] = parts[first + i - 1]
    BY <1>2, <2>1, LastParts
  <2>3. \A i \in 1..m : SubSeq(parts, first, n)[i] = parts[known + i]
    BY <2>1, <2>2
  <2>4. QED
    BY <2>2, <2>3 DEF first
<1> HIDE DEF path, rest, m
<1>6. /\ both[at] = path
      /\ \A i \in 1..m : both[at + i] = Step(both[at + i - 1], rest[i])
      /\ LexicallyNormal(path \o rest) = both[at + m]
  BY <1>3, <1>5, NormalFrom
<1> HIDE DEF n, walk, normal, both, at
<1> DEFINE S == {i \in 0..m : both[at + i] = normal[known + i]}
<1>7. 0 \in S
  BY <1>2, <1>3, <1>6
<1>8. ASSUME NEW i \in 0..(m - 1), i \in S PROVE i + 1 \in S
  <2>1. i + 1 \in 1..m /\ at + (i + 1) - 1 = at + i /\ known + (i + 1) \in 1..n
        /\ known + (i + 1) - 1 = known + i
    BY <1>2, <1>3
  <2>2. both[at + (i + 1)] = Step(both[at + i], parts[known + (i + 1)])
    BY <1>5, <1>6, <2>1
  <2>3. normal[known + (i + 1)] = Step(normal[known + i], parts[known + (i + 1)])
    BY <1>4, <2>1
  <2>4. QED
    BY <1>8, <2>1, <2>2, <2>3
<1> HIDE DEF S
<1>9. \A i \in 0..m : i \in S
  BY <1>2, <1>7, <1>8, Induction
<1>10. m \in S
  BY <1>2, <1>9
<1>11. LexicallyNormal(path \o rest) = normal[n]
  BY <1>2, <1>6, <1>10 DEF S
<1>12. QED
  BY <1>1, <1>11 DEF path, rest, normal, n, LexicallyNormal

\* Both resolvers then take the same path and compare it with the same roots.
SameAnswer(disk, path, roots) ==
  IF /\ path \in DOMAIN disk.files /\ IsMarkup(path)
     /\ disk.files[path].size <= MaximumBytes
     /\ Allowed(path, {NormalizeVirtualPath(root) : root \in roots})
  THEN [path |-> path, contents |-> disk.files[path].contents] ELSE NotFound

LEMMA OnDiskWithoutLinks ==
  ASSUME NEW disk \in Disk, disk.links = <<>>, NEW parts \in Seq(Part),
         NEW roots \in SUBSET Seq(Part), NormalizeVirtualPath(parts) # NoPath,
         \A root \in roots : NormalizeVirtualPath(root) # NoPath
  PROVE  OnDisk(disk, WeaklyCanonical(disk, parts), roots)
           = SameAnswer(disk, NormalizeVirtualPath(parts), roots)
<1> DEFINE path == NormalizeVirtualPath(parts)
           n == Len(path)
<1>1. WeaklyCanonical(disk, parts) = path /\ path \in Path
  BY VirtualIsNormal, CanonicalWithoutLinks
<1>2. {WeaklyCanonical(disk, root) : root \in roots} = {NormalizeVirtualPath(root) : root \in roots}
  BY VirtualIsNormal, CanonicalWithoutLinks
<1> HIDE DEF path
<1>3. path \in Seq(Part) /\ n \in Nat
  BY <1>1, SeqMonotonic DEF Path, Part
<1>4. Walk(disk, path) \in DOMAIN disk.files <=> path \in DOMAIN disk.files
  <2>1. ASSUME Walk(disk, path) \in DOMAIN disk.files PROVE Walk(disk, path) = path
    <3>1. Walk(disk, path) # NoPath
      BY <2>1, DiskFacts
    <3>2. Walk(disk, path) = LexicallyNormal(path)
      BY <1>3, <3>1, WalkWithoutLinks DEF Walk, LexicallyNormal
    <3>3. QED
      BY <1>1, <3>2, NormalOfPath
  <2>2. QED
    BY <2>1, WalkOfPlace
<1>5. path \in DOMAIN disk.files => Walk(disk, path) = path
  BY WalkOfPlace
<1>6. OnDisk(disk, path, roots) = SameAnswer(disk, path, roots)
  BY <1>1, <1>2, <1>4, <1>5 DEF OnDisk, SameAnswer
<1>7. QED
  BY <1>1, <1>6 DEF path

LEMMA InMemoryWithFiles ==
  ASSUME NEW disk \in Disk, NEW listed, NEW path, NEW roots, SameFiles(disk, listed)
  PROVE  InMemory(listed, path, roots) = SameAnswer(disk, path, roots)
<1> DEFINE kept == {i \in DOMAIN listed : NormalizeVirtualPath(listed[i].parts) = path}
           open == {p \in DOMAIN disk.files :
                      IsMarkup(p) /\ disk.files[p].size <= MaximumBytes}
           Entry(i) == <<NormalizeVirtualPath(listed[i].parts), listed[i].contents>>
<1>1. {Entry(i) : i \in DOMAIN listed} = {<<p, disk.files[p].contents>> : p \in open}
  BY DEF SameFiles
<1>2. ASSUME NEW i \in kept PROVE path \in open /\ listed[i].contents = disk.files[path].contents
  <2>1. Entry(i) \in {<<p, disk.files[p].contents>> : p \in open}
    BY <1>1
  <2>2. PICK p \in open : Entry(i) = <<p, disk.files[p].contents>>
    BY <2>1
  <2> HIDE DEF open
  <2>3. NormalizeVirtualPath(listed[i].parts) = p /\ listed[i].contents = disk.files[p].contents
    BY <2>2
  <2>4. QED
    BY <1>2, <2>3
<1>3. ASSUME path \in open PROVE kept # {}
  <2> HIDE DEF open, Entry
  <2>1. PICK i \in DOMAIN listed : Entry(i) = <<path, disk.files[path].contents>>
    BY <1>1, <1>3
  <2>2. NormalizeVirtualPath(listed[i].parts) = path
    BY <2>1 DEF Entry
  <2>3. QED
    BY <2>2
<1> DEFINE chosen == CHOOSE i \in kept : TRUE
<1>4. kept # {} => chosen \in kept
  OBVIOUS
<1>5. InMemory(listed, path, roots)
        = IF kept # {} /\ IsMarkup(path) /\ Allowed(path, {NormalizeVirtualPath(root) : root \in roots})
          THEN [path |-> path, contents |-> listed[chosen].contents] ELSE NotFound
  BY DEF InMemory
<1> HIDE DEF kept, chosen
<1>6. QED
  BY <1>2, <1>3, <1>4, <1>5 DEF SameAnswer

\* From memory a document gets the files it gets from a disk without links
\* (include.cpp:66-96 and 125-160).
THEOREM MemoryIsLikeDisk ==
  ASSUME NEW disk \in Disk, NEW listed, NEW including \in Path, NEW request \in Request,
         NEW search \in Seq(Seq(Part)), NEW roots \in SUBSET Seq(Part)
  PROVE  SameFromMemory(disk, listed, including, request, search, roots)
<1> DEFINE bases == <<Parent(including)>> \o search
           n == Len(bases)
           memory == MemoryBases(including, request, search)
           Asked(base) == Written(base, request)
           onDisk == [i \in DOMAIN bases |->
                        OnDisk(disk, WeaklyCanonical(disk, Asked(bases[i])), roots)]
           inMemory == [i \in DOMAIN memory |->
                          InMemory(listed, NormalizeVirtualPath(Asked(memory[i])), roots)]
<1>1. /\ n \in Nat \ {0} /\ DOMAIN bases = 1..n
      /\ \A i \in DOMAIN bases : Asked(bases[i]) \in Seq(Part)
  BY BasesType
<1>2. SUFFICES ASSUME disk.links = <<>>,
                      \A i \in DOMAIN bases : NormalizeVirtualPath(Asked(bases[i])) # NoPath,
                      \A root \in roots : NormalizeVirtualPath(root) # NoPath,
                      SameFiles(disk, listed)
               PROVE  First(memory, inMemory) = First(bases, onDisk)
  BY DEF SameFromMemory, MemoryResolve, DiskResolve
<1>3. \A i \in DOMAIN bases :
        onDisk[i] = SameAnswer(disk, NormalizeVirtualPath(Asked(bases[i])), roots)
  BY <1>1, <1>2, OnDiskWithoutLinks
<1>4. \A i \in DOMAIN memory :
        inMemory[i] = SameAnswer(disk, NormalizeVirtualPath(Asked(memory[i])), roots)
  BY <1>2, InMemoryWithFiles
<1>5. CASE ~ request.absolute
  <2>1. memory = bases
    BY <1>5 DEF MemoryBases
  <2>2. \A i \in DOMAIN bases : inMemory[i] = onDisk[i]
    BY <1>3, <1>4, <2>1
  <2>3. inMemory = onDisk
    BY <2>1, <2>2
  <2>4. QED
    BY <2>1, <2>3
<1>6. CASE request.absolute
  <2> DEFINE answer == SameAnswer(disk, NormalizeVirtualPath(request.parts), roots)
  <2>1. memory = <<<<>>>> /\ \A base : Asked(base) = request.parts
    BY <1>6 DEF MemoryBases, Written
  <2>2. \A i \in 1..n : onDisk[i] = answer
    BY <1>1, <1>3, <2>1
  <2>3. DOMAIN memory = 1..1
    BY <2>1
  <2>4. \A i \in 1..1 : inMemory[i] = answer
    BY <1>4, <2>1, <2>3
  <2> HIDE DEF memory, bases, n, answer, onDisk, inMemory
  <2>5. First(bases, onDisk) = answer
    <3>1. 1 \in 1..n
      BY <1>1
    <3>2. QED
      BY <1>1, <2>2, <3>1, FirstFound
  <2>6. First(memory, inMemory) = answer
    <3> DEFINE one == 1
    <3>1. /\ one \in Nat /\ one \in 1..one /\ DOMAIN memory = 1..one
          /\ \A i \in 1..one : inMemory[i] = answer
      BY <2>3, <2>4
    <3> HIDE DEF one
    <3>2. QED
      BY <3>1, FirstFound
  <2>7. QED
    BY <2>5, <2>6
<1>7. QED
  BY <1>5, <1>6

\* Both hold for every disk, listing and request (include.cpp:63-160).
THEOREM PathsOfEveryDisk == AnySpec => []PathsAgree
<1>1. ASSUME input \in AnyInput PROVE PathsAgree
  <2>1. SUFFICES ASSUME input.part = "include"
                 PROVE  /\ OneName(input.disk, input.including, input.request, input.search,
                                   input.roots)
                        /\ SameFromMemory(input.disk, input.listed, input.including,
                                          input.request, input.search, input.roots)
    BY DEF PathsAgree
  <2>2. CASE input \in AnyInclude
    <3>1. PICK disk \in Disk, listed \in Listing, including \in Path, request \in Request,
               search \in Seq(Seq(Part)), roots \in SUBSET Seq(Part) :
                 input = OfInclude(disk, listed, including, request, search, roots)
      BY <2>2 DEF AnyInclude
    <3>2. /\ input.disk = disk /\ input.listed = listed /\ input.including = including
          /\ input.request = request /\ input.search = search /\ input.roots = roots
      BY <3>1 DEF OfInclude
    <3>3. QED
      BY <3>2, FilesHaveOneName, MemoryIsLikeDisk
  <2>3. input \notin AnyCharacters
    BY <2>1 DEF AnyCharacters, OfCharacters
  <2>4. input \notin AnyBytes
    BY <2>1 DEF AnyBytes, OfBytes
  <2>5. input \notin AnyPage
    BY <2>1 DEF AnyPage, OfPage
  <2>6. input \notin AnyLayers
    BY <2>1 DEF AnyLayers, OfLayers
  <2>7. input \notin AnyDeclarations
    BY <2>1 DEF AnyDeclarations, OfDeclarations
  <2>8. QED
    BY <1>1, <2>2, <2>3, <2>4, <2>5, <2>6, <2>7 DEF AnyInput
<1>2. PathsAgree /\ UNCHANGED input => PathsAgree'
  BY DEF PathsAgree
<1>3. QED
  BY <1>1, <1>2, PTL DEF AnySpec

-----------------------------------------------------------------------------
(***************************************************************************)
(* Layers of styles: what is declared on top wins.                         *)
(***************************************************************************)
\* A loop has a result, and what each round keeps holds of it.
LEMMA RoundsExist ==
  ASSUME NEW n \in Nat, NEW I, NEW a \in I[0], NEW step,
         \A k \in 1..n : \A x \in I[k - 1] : step[<<k, x>>] \in I[k]
  PROVE  \E f : IsRecursion(f, n, a, step) /\ \A k \in 0..n : f[k] \in I[k]
<1>1. PICK f : IsRecursion(f, n, a, step)
  BY RecursionExists
<1> DEFINE S == {k \in 0..n : f[k] \in I[k]}
<1>2. 0 \in S
  BY <1>1 DEF IsRecursion
<1>3. ASSUME NEW k \in 0..(n - 1), k \in S PROVE k + 1 \in S
  <2>1. k + 1 \in 1..n /\ (k + 1) - 1 = k /\ f[k] \in I[k]
    BY <1>3
  <2>2. f[k + 1] = step[<<k + 1, f[k]>>]
    BY <1>1, <2>1 DEF IsRecursion
  <2> DEFINE j == k + 1
  <2>3. j \in 1..n /\ j - 1 = k
    BY <2>1
  <2> HIDE DEF j
  <2>4. step[<<j, f[k]>>] \in I[j]
    BY <2>1, <2>3
  <2>5. QED
    BY <2>1, <2>2, <2>4 DEF j
<1> HIDE DEF S
<1>4. \A k \in 0..n : k \in S
  BY <1>2, <1>3, Induction
<1>5. QED
  BY <1>1, <1>4 DEF S

\* What each round keeps holds after every round.
LEMMA RoundsKeep ==
  ASSUME NEW n \in Nat, NEW I, NEW g, g[0] \in I[0],
         \A k \in 1..n : g[k - 1] \in I[k - 1] => g[k] \in I[k]
  PROVE  \A k \in 0..n : g[k] \in I[k]
<1> DEFINE S == {k \in 0..n : g[k] \in I[k]}
<1>1. 0 \in S
  OBVIOUS
<1>2. ASSUME NEW k \in 0..(n - 1), k \in S PROVE k + 1 \in S
  <2> DEFINE j == k + 1
  <2>1. j \in 1..n /\ j - 1 = k /\ g[k] \in I[k]
    BY <1>2
  <2> HIDE DEF j
  <2>2. g[j] \in I[j]
    BY <2>1
  <2>3. QED
    BY <2>1, <2>2 DEF j
<1> HIDE DEF S
<1>3. \A k \in 0..n : k \in S
  BY <1>1, <1>2, Induction
<1>4. QED
  BY <1>3 DEF S

\* What the layers say together, without a choice.
IsCascade(d, layers) ==
  /\ d = [q \in UNION {DOMAIN layers[i] : i \in DOMAIN layers} |-> d[q]]
  /\ \A q \in DOMAIN d : \E j \in DOMAIN layers :
       /\ q \in DOMAIN layers[j] /\ d[q] = layers[j][q]
       /\ \A k \in DOMAIN layers : k > j => q \notin DOMAIN layers[k]

\* There is one such style, the one Cascaded chooses.
LEMMA CascadeUnique ==
  ASSUME NEW layers, DOMAIN layers \subseteq Int, NEW d, IsCascade(d, layers)
  PROVE  d = Cascaded(layers)
<1> DEFINE all == UNION {DOMAIN layers[i] : i \in DOMAIN layers}
           IsLast(q, j) == /\ q \in DOMAIN layers[j]
                           /\ \A k \in DOMAIN layers : k > j => q \notin DOMAIN layers[k]
           Says(q) == layers[CHOOSE j \in DOMAIN layers : IsLast(q, j)][q]
<1>1. d = [q \in all |-> d[q]]
  BY DEF IsCascade
<1>2. Cascaded(layers) = [q \in all |-> Says(q)]
  BY DEF Cascaded
<1> HIDE DEF all
<1>3. ASSUME NEW q \in all PROVE d[q] = Says(q)
  <2>1. PICK j \in DOMAIN layers : IsLast(q, j) /\ d[q] = layers[j][q]
    BY <1>1, <1>3 DEF IsCascade
  <2>2. \A i \in DOMAIN layers : IsLast(q, i) => i = j
    BY <2>1
  <2>3. (CHOOSE i \in DOMAIN layers : IsLast(q, i)) = j
    <3> HIDE DEF IsLast
    <3>1. QED
      BY <2>1, <2>2
  <2>4. QED
    BY <2>1, <2>3
<1> HIDE DEF Says
<1>4. QED
  BY <1>1, <1>2, <1>3

\* No layers declare nothing.
LEMMA CascadeOfNone == IsCascade(NoDeclarations, <<>>)
BY DEF IsCascade, NoDeclarations

\* One more layer on top wins over those below.
LEMMA CascadeGrows ==
  ASSUME NEW X, NEW layers \in Seq(X), NEW more \in X, NEW d, IsCascade(d, layers),
         more = [q \in DOMAIN more |-> more[q]]
  PROVE  IsCascade(Over(more, d), Append(layers, more))
<1> DEFINE n == Len(layers)
           all == Append(layers, more)
           new == Over(more, d)
<1>1. n \in Nat /\ DOMAIN layers = 1..n /\ DOMAIN all = 1..(n + 1)
  OBVIOUS
<1>2. \A i \in 1..n : all[i] = layers[i]
  OBVIOUS
<1>3. all[n + 1] = more
  OBVIOUS
<1>4. DOMAIN new = DOMAIN more \cup DOMAIN d /\ new = [q \in DOMAIN more \cup DOMAIN d |-> new[q]]
  BY DEF Over
<1>5. \A q \in DOMAIN more : new[q] = more[q]
  BY DEF Over
<1>6. \A q \in DOMAIN d : q \notin DOMAIN more => new[q] = d[q]
  BY DEF Over
<1>7. DOMAIN d = UNION {DOMAIN layers[i] : i \in 1..n}
  BY <1>1 DEF IsCascade
<1> HIDE DEF n, all, new
<1>8. UNION {DOMAIN all[i] : i \in DOMAIN all} = DOMAIN more \cup DOMAIN d
  <2>1. ASSUME NEW q \in DOMAIN more \cup DOMAIN d PROVE \E i \in 1..(n + 1) : q \in DOMAIN all[i]
    <3>1. CASE q \in DOMAIN more
      BY <1>1, <1>3, <3>1
    <3>2. CASE q \in DOMAIN d
      <4>1. PICK i \in 1..n : q \in DOMAIN layers[i]
        BY <1>7, <3>2
      <4>2. i \in 1..(n + 1) /\ all[i] = layers[i]
        BY <1>1, <1>2
      <4>3. QED
        BY <4>1, <4>2
    <3>3. QED
      BY <2>1, <3>1, <3>2
  <2>2. ASSUME NEW i \in 1..(n + 1), NEW q \in DOMAIN all[i] PROVE q \in DOMAIN more \cup DOMAIN d
    <3>1. CASE i = n + 1
      BY <1>3, <2>2, <3>1
    <3>2. CASE i # n + 1
      <4>1. i \in 1..n
        BY <1>1, <3>2
      <4>2. q \in DOMAIN layers[i]
        BY <1>2, <2>2, <4>1
      <4>3. QED
        BY <1>7, <4>1, <4>2
    <3>3. QED
      BY <3>1, <3>2
  <2>3. QED
    BY <1>1, <2>1, <2>2
<1>9. ASSUME NEW q \in DOMAIN new
      PROVE  \E j \in DOMAIN all : /\ q \in DOMAIN all[j] /\ new[q] = all[j][q]
                                   /\ \A k \in DOMAIN all : k > j => q \notin DOMAIN all[k]
  <2>1. CASE q \in DOMAIN more
    <3>1. n + 1 \in DOMAIN all /\ \A k \in DOMAIN all : ~ (k > n + 1)
      BY <1>1
    <3>2. QED
      BY <1>3, <1>5, <2>1, <3>1
  <2>2. CASE q \notin DOMAIN more
    <3>1. q \in DOMAIN d
      BY <1>4, <1>9, <2>2
    <3>2. PICK j \in 1..n : /\ q \in DOMAIN layers[j] /\ d[q] = layers[j][q]
                            /\ \A k \in 1..n : k > j => q \notin DOMAIN layers[k]
      BY <1>1, <3>1 DEF IsCascade
    <3>3. j \in DOMAIN all /\ all[j] = layers[j] /\ new[q] = d[q]
      BY <1>1, <1>2, <1>6, <2>2, <3>1
    <3>4. ASSUME NEW k \in DOMAIN all, k > j PROVE q \notin DOMAIN all[k]
      <4>1. CASE k = n + 1
        BY <1>3, <2>2, <4>1
      <4>2. CASE k # n + 1
        <5>1. k \in 1..n
          BY <1>1, <4>2
        <5>2. QED
          BY <1>2, <3>2, <3>4, <5>1
      <4>3. QED
        BY <4>1, <4>2
    <3>5. QED
      BY <3>2, <3>3, <3>4
  <2>3. QED
    BY <2>1, <2>2
<1>10. QED
  BY <1>4, <1>8, <1>9 DEF IsCascade, all, new

\* Styles are functions.
LEMMA StyleFacts ==
  ASSUME NEW d \in Style
  PROVE  /\ d = [q \in DOMAIN d |-> d[q]]
         /\ DOMAIN d \subseteq Property
         /\ Over(NoDeclarations, d) = d /\ Over(d, NoDeclarations) = d
<1>1. PICK D \in SUBSET Property : d \in [D -> Value]
  BY DEF Style
<1>2. d = [q \in D |-> d[q]] /\ DOMAIN d = D
  BY <1>1
<1>3. DOMAIN NoDeclarations = {}
  BY DEF NoDeclarations
<1>4. Over(NoDeclarations, d) = [q \in D |-> d[q]]
  BY <1>2, <1>3 DEF Over
<1>5. Over(d, NoDeclarations) = [q \in D |-> d[q]]
  BY <1>2, <1>3 DEF Over
<1>6. QED
  BY <1>2, <1>4, <1>5

\* No declarations are a style.
LEMMA NoStyle == NoDeclarations \in Style
<1>1. NoDeclarations \in [{} -> Value]
  BY DEF NoDeclarations
<1>2. QED
  BY <1>1 DEF Style

\* Two styles over each other are a style.
LEMMA OverStyle ==
  ASSUME NEW d \in Style, NEW e \in Style
  PROVE  Over(d, e) \in Style
<1>1. PICK D \in SUBSET Property : d \in [D -> Value]
  BY DEF Style
<1>2. PICK E \in SUBSET Property : e \in [E -> Value]
  BY DEF Style
<1>3. Over(d, e) = [q \in D \cup E |-> IF q \in D THEN d[q] ELSE e[q]]
  BY <1>1, <1>2 DEF Over
<1>4. Over(d, e) \in [D \cup E -> Value]
  BY <1>1, <1>2, <1>3
<1>5. QED
  BY <1>4 DEF Style

\* A layer on top of layers of styles.
LEMMA LayerOnTop ==
  ASSUME NEW layers \in Seq(Style), NEW k \in 0..(Len(layers) - 1), NEW d,
         IsCascade(d, SubSeq(layers, 1, k))
  PROVE  IsCascade(Over(layers[k + 1], d), SubSeq(layers, 1, k + 1))
<1>1. SubSeq(layers, 1, k + 1) = Append(SubSeq(layers, 1, k), layers[k + 1])
  BY OneMore
<1> DEFINE more == layers[k + 1]  below == SubSeq(layers, 1, k)
<1>2. more \in Style
  OBVIOUS
<1>3. below \in Seq(Style)
  BY SubSeqProperties
<1> HIDE DEF more, below
<1>4. more = [q \in DOMAIN more |-> more[q]]
  BY <1>2, StyleFacts
<1>5. IsCascade(d, below)
  BY DEF below
<1>6. IsCascade(Over(more, d), Append(below, more))
  BY <1>2, <1>3, <1>4, <1>5, CascadeGrows
<1>7. QED
  BY <1>1, <1>6 DEF more, below

\* What inline_css merges for a tag is what CSS says: the rules of its classes in
\* the order of the document, and its own style before them (css.cpp:231-248).
THEOREM MergedCascades ==
  ASSUME NEW tag, tag.style \in Style, NEW classes \in Seq(ClassRule)
  PROVE  /\ Merged(tag, classes) = StyleOf(tag, classes)
         /\ Merged(tag, classes) \in Style
         /\ tag.classes = {} \/ classes = <<>> => Merged(tag, classes) = tag.style
<1> DEFINE n == Len(classes)
           Layer(i) == IF classes[i].class \in tag.classes THEN classes[i].set ELSE NoDeclarations
           layers == [i \in 1..n |-> Layer(i)]
           Round(k, merged) ==
             IF classes[k].class \in tag.classes THEN Over(classes[k].set, merged) ELSE merged
           None(d) == tag.classes = {} => d = NoDeclarations
           I == [k \in 0..n |-> {d \in Style : IsCascade(d, SubSeq(layers, 1, k)) /\ None(d)}]
           step == [p \in (1..n) \X Style |-> Round(p[1], p[2])]
           F(f) == [k \in 0..n |-> IF k = 0 THEN NoDeclarations ELSE Round(k, f[k - 1])]
<1>1. n \in Nat /\ DOMAIN classes = 1..n
  OBVIOUS
<1>2. \A k \in 1..n : classes[k] \in ClassRule /\ classes[k].set \in Style
  <2>1. \A k \in 1..n : classes[k] \in ClassRule
    BY ElementOfSeq
  <2>2. QED
    BY <2>1 DEF ClassRule
<1> HIDE DEF n
<1>3. \A k \in 1..n : Layer(k) \in Style
  BY <1>2, NoStyle
<1>4. layers \in Seq(Style) /\ Len(layers) = n /\ \A k \in 1..n : layers[k] = Layer(k)
  BY <1>1, <1>3
<1> HIDE DEF layers
<1>5. NoDeclarations \in I[0]
  <2>1. SubSeq(layers, 1, 0) = <<>>
    BY <1>4, SubSeqEmpty
  <2>2. IsCascade(NoDeclarations, SubSeq(layers, 1, 0)) /\ None(NoDeclarations)
    BY <2>1, CascadeOfNone
  <2> HIDE DEF None
  <2>3. QED
    BY <1>1, <2>2, NoStyle
<1>6. ASSUME NEW k \in 1..n, NEW d \in I[k - 1] PROVE Round(k, d) \in I[k]
  <2> DEFINE j == k - 1
  <2>1. j \in 0..n /\ j \in 0..(n - 1) /\ j + 1 = k /\ k \in 0..n
    BY <1>1
  <2> HIDE DEF j
  <2>2. d \in Style /\ IsCascade(d, SubSeq(layers, 1, j)) /\ None(d)
    BY <1>6, <2>1 DEF j
  <2>3. IsCascade(Over(layers[k], d), SubSeq(layers, 1, k))
    BY <1>4, <2>1, <2>2, LayerOnTop
  <2>4. Round(k, d) = Over(Layer(k), d)
    BY <2>2, StyleFacts
  <2>5. Round(k, d) \in Style
    BY <1>3, <2>2, <2>4, OverStyle
  <2>6. None(Round(k, d))
    BY <2>2
  <2>7. IsCascade(Round(k, d), SubSeq(layers, 1, k))
    BY <1>4, <2>3, <2>4
  <2> HIDE DEF Round, None
  <2>8. QED
    BY <2>1, <2>5, <2>6, <2>7
<1>7. ASSUME NEW k \in 1..n, NEW d \in I[k - 1] PROVE d \in Style
  <2>1. k - 1 \in 0..n
    BY <1>1
  <2>2. QED
    BY <1>7, <2>1
<1> HIDE DEF I
<1>8. \A k \in 1..n : \A d \in I[k - 1] : step[<<k, d>>] = Round(k, d)
  BY <1>7
<1> HIDE DEF step, Round
<1>9. PICK f : IsRecursion(f, n, NoDeclarations, step) /\ \A k \in 0..n : f[k] \in I[k]
  <2>1. \A k \in 1..n : \A d \in I[k - 1] : step[<<k, d>>] \in I[k]
    BY <1>6, <1>8
  <2>2. QED
    BY <1>1, <1>5, <2>1, RoundsExist
<1>10. f = F(f)
  <2>1. ASSUME NEW k \in 0..n PROVE f[k] = IF k = 0 THEN NoDeclarations ELSE Round(k, f[k - 1])
    <3>1. k # 0 => k \in 1..n /\ k - 1 \in 0..n
      BY <1>1
    <3>2. QED
      BY <1>8, <1>9, <3>1 DEF IsRecursion
  <2>2. QED
    BY <1>9, <2>1 DEF IsRecursion
<1> DEFINE g == CHOOSE h : h = F(h)
<1>11. g = F(g)
  BY <1>10
<1>12. Merged(tag, classes) = Over(tag.style, g[n])
  BY DEF Merged, Loop, Round, n
<1> HIDE DEF g
<1>13. g[0] = NoDeclarations /\ \A k \in 1..n : g[k] = Round(k, g[k - 1])
  BY <1>1, <1>11
<1>14. \A k \in 0..n : g[k] \in I[k]
  BY <1>1, <1>5, <1>6, <1>13, RoundsKeep
<1> DEFINE merged == g[n]
<1>15. merged \in Style /\ IsCascade(merged, SubSeq(layers, 1, n)) /\ None(merged)
  BY <1>1, <1>14 DEF I
<1>16. classes = <<>> => merged = NoDeclarations
  BY <1>13 DEF n
<1> HIDE DEF merged, None
<1>17. SubSeq(layers, 1, n) = layers
  BY <1>4, SubSeqFull
<1>18. IsCascade(Over(tag.style, merged), Append(layers, tag.style))
  BY <1>4, <1>15, <1>17, CascadeGrows, StyleFacts
<1>19. DOMAIN Append(layers, tag.style) \subseteq Int
  BY <1>1, <1>4
<1>20. Over(tag.style, merged) = Cascaded(Append(layers, tag.style))
  BY <1>18, <1>19, CascadeUnique
<1>21. StyleOf(tag, classes) = Cascaded(layers \o <<tag.style>>)
  BY <1>1 DEF StyleOf, layers
<1>22. layers \o <<tag.style>> = Append(layers, tag.style)
  BY <1>4
<1>23. Merged(tag, classes) = Over(tag.style, merged)
  BY <1>12 DEF merged
<1>24. Over(tag.style, merged) \in Style
  BY <1>15, OverStyle
<1>25. tag.classes = {} \/ classes = <<>> => Over(tag.style, merged) = tag.style
  BY <1>15, <1>16, StyleFacts DEF None
<1>26. QED
  BY <1>20, <1>21, <1>22, <1>23, <1>24, <1>25

\* Putting styles over each other is associative.
LEMMA OverOver ==
  ASSUME NEW d \in Style, NEW e \in Style, NEW f \in Style
  PROVE  Over(Over(d, e), f) = Over(d, Over(e, f))
<1>1. DOMAIN Over(d, e) = DOMAIN d \cup DOMAIN e
  BY DEF Over
<1>2. DOMAIN Over(e, f) = DOMAIN e \cup DOMAIN f
  BY DEF Over
<1>3. \A q \in DOMAIN d \cup DOMAIN e : Over(d, e)[q] = IF q \in DOMAIN d THEN d[q] ELSE e[q]
  BY DEF Over
<1>4. \A q \in DOMAIN e \cup DOMAIN f : Over(e, f)[q] = IF q \in DOMAIN e THEN e[q] ELSE f[q]
  BY DEF Over
<1> DEFINE all == DOMAIN d \cup DOMAIN e \cup DOMAIN f
           left == Over(d, e)  right == Over(e, f)
<1> HIDE DEF left, right
<1>5. Over(left, f) = [q \in all |-> IF q \in DOMAIN left THEN left[q] ELSE f[q]]
  BY <1>1 DEF Over, left
<1>6. Over(d, right) = [q \in all |-> IF q \in DOMAIN d THEN d[q] ELSE right[q]]
  BY <1>2 DEF Over, right
<1>7. ASSUME NEW q \in all
      PROVE  (IF q \in DOMAIN left THEN left[q] ELSE f[q])
                = IF q \in DOMAIN d THEN d[q] ELSE right[q]
  BY <1>1, <1>2, <1>3, <1>4 DEF left, right
<1>8. QED
  BY <1>5, <1>6, <1>7 DEF left, right

\* A component's root gets the style of its bundles in the order of their names, the
\* call's on top and its own below, and an unknown bundle is always reported
\* (styles.cpp:36-60, css.cpp:78-95).
THEOREM LayersInOrder ==
  ASSUME NEW tag \in [style : Style], NEW names \in Seq(Bundle), NEW call \in Style,
         NEW styles \in UNION {[D -> Style] : D \in SUBSET Bundle}
  PROVE  LayersCascade(tag, names, call, styles)
<1> DEFINE n == Len(names)
           own == tag.style
           Known(name) == name \in DOMAIN styles
           Layer(name) == IF name \in DOMAIN styles THEN styles[name] ELSE NoDeclarations
           bundles == [i \in DOMAIN names |-> Layer(names[i])]
           layers == <<own>> \o bundles \o <<call>>
           R == [declarations : Style, codes : Seq({"EM0502"})]
           start == [declarations |-> NoDeclarations, codes |-> <<>>]
           Round(k, r) ==
             IF names[k] \in DOMAIN styles
             THEN [r EXCEPT !.declarations = Over(styles[names[k]], @)]
             ELSE [r EXCEPT !.codes = Append(@, "EM0502")]
           Reported(k, r) == r.codes = <<>> <=> \A i \in 1..k : Known(names[i])
           I == [k \in 0..n |->
                   {r \in R : /\ IsCascade(Over(r.declarations, own), SubSeq(layers, 1, k + 1))
                              /\ Reported(k, r)}]
           step == [p \in (1..n) \X R |-> Round(p[1], p[2])]
           F(f) == [k \in 0..n |-> IF k = 0 THEN start ELSE Round(k, f[k - 1])]
<1>1. n \in Nat /\ DOMAIN names = 1..n /\ own \in Style
  OBVIOUS
<1>2. \A name : Layer(name) \in Style
  BY NoStyle
<1> HIDE DEF n, own, Layer
<1>3. bundles \in Seq(Style) /\ Len(bundles) = n /\ \A k \in 1..n : bundles[k] = Layer(names[k])
  BY <1>1, <1>2
<1> HIDE DEF bundles
<1>4. layers \in Seq(Style) /\ Len(layers) = n + 2
  BY <1>1, <1>3
<1>5. layers[1] = own /\ layers[n + 2] = call /\ \A k \in 1..n : layers[k + 1] = Layer(names[k])
  BY <1>1, <1>3
<1> HIDE DEF layers
<1>6. start \in I[0]
  <2>1. start \in R
    BY NoStyle
  <2>2. SubSeq(layers, 1, 1) = <<own>>
    <3> DEFINE z == 0
    <3>1. z \in 0..(Len(layers) - 1) /\ z + 1 = 1 /\ z < 1
      BY <1>1, <1>4
    <3>2. SubSeq(layers, 1, z) = <<>>
      BY SubSeqEmpty
    <3> HIDE DEF z
    <3>3. SubSeq(layers, 1, z + 1) = Append(SubSeq(layers, 1, z), layers[z + 1])
      BY <1>4, <3>1, OneMore
    <3>4. SubSeq(layers, 1, 1) = Append(<<>>, layers[1])
      BY <3>1, <3>2, <3>3
    <3>5. QED
      BY <1>5, <3>4
  <2>3. IsCascade(Over(own, NoDeclarations), Append(<<>>, own))
    <3> DEFINE none == <<>>
    <3>1. none \in Seq(Style) /\ IsCascade(NoDeclarations, none) /\
              own = [q \in DOMAIN own |-> own[q]]
      BY <1>1, StyleFacts, CascadeOfNone
    <3> HIDE DEF none
    <3>2. IsCascade(Over(own, NoDeclarations), Append(none, own))
      BY <1>1, <3>1, CascadeGrows
    <3>3. QED
      BY <3>2 DEF none
  <2>4. IsCascade(Over(NoDeclarations, own), SubSeq(layers, 1, 1))
    <3>1. Over(NoDeclarations, own) = own /\ Over(own, NoDeclarations) = own
      BY <1>1, StyleFacts
    <3>2. Append(<<>>, own) = <<own>>
      OBVIOUS
    <3>3. QED
      BY <2>2, <2>3, <3>1, <3>2
  <2>5. Reported(0, start)
    OBVIOUS
  <2> DEFINE s == start
  <2>6. s \in R /\ Reported(0, s) /\
            IsCascade(Over(s.declarations, own), SubSeq(layers, 1, 0 + 1))
    BY <2>1, <2>4, <2>5
  <2> HIDE DEF s, Reported, R
  <2>7. s \in I[0]
    BY <1>1, <2>6
  <2>8. QED
    BY <2>7 DEF s
<1>7. ASSUME NEW k \in 1..n, NEW r \in I[k - 1] PROVE Round(k, r) \in I[k] /\ r \in R
  <2> DEFINE j == k - 1
  <2>1. j \in 0..n /\ j + 1 = k /\ k \in 0..n /\ k \in 0..(Len(layers) - 1) /\ names[k] \in Bundle
    BY <1>1, <1>4, ElementOfSeq
  <2> HIDE DEF j
  <2>2. r \in R /\ IsCascade(Over(r.declarations, own), SubSeq(layers, 1, k)) /\ Reported(j, r)
    BY <1>7, <2>1 DEF j
  <2> DEFINE d == r.declarations
  <2>3. d \in Style /\ r.codes \in Seq({"EM0502"})
    BY <2>2
  <2>4. IsCascade(Over(Layer(names[k]), Over(d, own)), SubSeq(layers, 1, k + 1))
    BY <1>4, <1>5, <2>1, <2>2, LayerOnTop
  <2> DEFINE new == Round(k, r)
  <2>5. new \in R /\ new.declarations = Over(Layer(names[k]), d)
    <3>1. CASE names[k] \in DOMAIN styles
      <4>1. new = [r EXCEPT !.declarations = Over(styles[names[k]], d)] /\
                Layer(names[k]) = styles[names[k]]
        BY <3>1 DEF Layer
      <4>2. Over(Layer(names[k]), d) \in Style
        BY <1>2, <2>3, OverStyle
      <4>3. QED
        BY <2>2, <4>1, <4>2
    <3>2. CASE names[k] \notin DOMAIN styles
      <4>1. new = [r EXCEPT !.codes = Append(r.codes, "EM0502")] /\
                Layer(names[k]) = NoDeclarations
        BY <3>2 DEF Layer
      <4>2. Append(r.codes, "EM0502") \in Seq({"EM0502"})
        BY <2>3
      <4>3. Over(NoDeclarations, d) = d
        BY <2>3, StyleFacts
      <4>4. QED
        BY <2>2, <4>1, <4>2, <4>3
    <3>3. QED
      BY <3>1, <3>2
  <2>6. new.codes = <<>> <=> r.codes = <<>> /\ Known(names[k])
    <3>1. CASE names[k] \in DOMAIN styles
      BY <2>2, <3>1
    <3>2. CASE names[k] \notin DOMAIN styles
      <4>1. new.codes = Append(r.codes, "EM0502")
        BY <2>2, <3>2
      <4>2. Len(Append(r.codes, "EM0502")) = Len(r.codes) + 1 /\ Len(r.codes) \in Nat
        BY <2>3
      <4> DEFINE longer == Append(r.codes, "EM0502")
      <4>3. Len(longer) # 0
        BY <4>2
      <4> HIDE DEF longer
      <4>4. longer # <<>>
        BY <4>3
      <4>5. QED
        BY <3>2, <4>1, <4>4 DEF longer
    <3>3. QED
      BY <3>1, <3>2
  <2> HIDE DEF new
  <2>7. Reported(k, new)
    <3>1. 1..k = (1..j) \cup {k}
      BY <2>1
    <3> HIDE DEF Known
    <3>2. QED
      BY <2>2, <2>6, <3>1
  <2>8. IsCascade(Over(new.declarations, own), SubSeq(layers, 1, k + 1))
    BY <1>1, <1>2, <2>3, <2>4, <2>5, OverOver
  <2> HIDE DEF Reported, R
  <2>9. QED
    BY <2>1, <2>2, <2>5, <2>7, <2>8 DEF new
<1> HIDE DEF I, Round, R
<1>8. \A k \in 1..n : \A r \in I[k - 1] : step[<<k, r>>] = Round(k, r) /\ Round(k, r) \in I[k]
  BY <1>7
<1> HIDE DEF step, start
<1>9. PICK f : IsRecursion(f, n, start, step) /\ \A k \in 0..n : f[k] \in I[k]
  <2>1. \A k \in 1..n : \A r \in I[k - 1] : step[<<k, r>>] \in I[k]
    BY <1>8
  <2>2. QED
    BY <1>1, <1>6, <2>1, RoundsExist
<1>10. f = F(f)
  <2>1. ASSUME NEW k \in 0..n PROVE f[k] = IF k = 0 THEN start ELSE Round(k, f[k - 1])
    <3>1. k # 0 => k \in 1..n /\ k - 1 \in 0..n
      BY <1>1
    <3>2. QED
      BY <1>8, <1>9, <3>1 DEF IsRecursion
  <2>2. QED
    BY <1>9, <2>1 DEF IsRecursion
<1> DEFINE g == CHOOSE h : h = F(h)
<1>11. g = F(g)
  BY <1>10
<1>12. ResolveStyleLayers(names, call, styles) = [g[n] EXCEPT !.declarations = Over(call, @)]
  BY DEF ResolveStyleLayers, Loop, Round, n, start
<1> HIDE DEF g
<1>13. g[0] = start /\ \A k \in 1..n : g[k] = Round(k, g[k - 1])
  BY <1>1, <1>11
<1>14. \A k \in 0..n : g[k] \in I[k]
  <2>1. \A k \in 1..n : g[k - 1] \in I[k - 1] => g[k] \in I[k]
    BY <1>8, <1>13
  <2>2. g[0] \in I[0]
    BY <1>6, <1>13
  <2>3. QED
    BY <1>1, <2>1, <2>2, RoundsKeep
<1> DEFINE r == g[n]  d == r.declarations
<1>15. /\ r \in R /\ IsCascade(Over(d, own), SubSeq(layers, 1, n + 1)) /\ Reported(n, r)
  BY <1>1, <1>14 DEF I
<1> HIDE DEF r
<1>16. d \in Style
  BY <1>15 DEF R
<1>17. IsCascade(Over(call, Over(d, own)), SubSeq(layers, 1, n + 2))
  <2> DEFINE m == n + 1
  <2>1. m \in 0..(Len(layers) - 1) /\ m + 1 = n + 2 /\ layers[m + 1] = call
    BY <1>1, <1>4, <1>5
  <2>2. IsCascade(Over(d, own), SubSeq(layers, 1, m))
    BY <1>15
  <2> HIDE DEF m
  <2>3. IsCascade(Over(layers[m + 1], Over(d, own)), SubSeq(layers, 1, m + 1))
    BY <1>4, <2>1, <2>2, LayerOnTop
  <2>4. QED
    BY <2>1, <2>3
<1>18. Over(Over(call, d), own) = Cascaded(layers)
  <2>1. SubSeq(layers, 1, n + 2) = layers
    BY <1>4, SubSeqFull
  <2>2. DOMAIN layers \subseteq Int
    BY <1>4
  <2>3. QED
    BY <1>1, <1>16, <1>17, <2>1, <2>2, OverOver, CascadeUnique, ZenonT(40)
<1> DEFINE resolved == ResolveStyleLayers(names, call, styles)
<1>19. resolved.declarations = Over(call, d) /\ resolved.codes = r.codes
  BY <1>12, <1>15 DEF r, R
<1> HIDE DEF resolved
<1>20. ApplyRootStyles(tag, resolved.declarations).style = Cascaded(layers)
  BY <1>18, <1>19 DEF ApplyRootStyles, own
<1>21. resolved.codes = <<>> <=> \A i \in DOMAIN names : names[i] \in DOMAIN styles
  BY <1>1, <1>15, <1>19
<1>22. QED
  BY <1>20, <1>21 DEF LayersCascade, resolved, layers, bundles, own, Layer

-----------------------------------------------------------------------------
(***************************************************************************)
(* HTML and its segments: append, insert and append_slice.                 *)
(***************************************************************************)
\* HTML with its segments, as GeneratedHtml has them.
Origin == Source \cup {NoOrigin}
Unit == [of : Piece, part : Nat, parts : Nat]
Stretch == [start : Nat, end : Nat, origin : Origin]
Html == [html : Seq(Unit), segments : Seq(Stretch)]

EndOf(segments, k) == IF k = 0 THEN 0 ELSE segments[k].end

\* The segments cover the first n units without a gap, and tell where each is from.
Tell(segments, n, origins) ==
  /\ segments \in Seq(Stretch)
  /\ n = EndOf(segments, Len(segments))
  /\ \A i \in 1..Len(segments) :
       /\ segments[i].start = EndOf(segments, i - 1)
       /\ segments[i].start < segments[i].end
       /\ segments[i].end <= n
       /\ \A u \in (segments[i].start + 1)..segments[i].end : origins[u] = segments[i].origin

\* The HTML has these units, and knows their origins.
Is(g, html, origins) ==
  /\ g \in Html /\ g.html = html
  /\ origins \in Seq(Origin) /\ Len(origins) = Len(html)
  /\ Tell(g.segments, Len(html), origins)

\* Segments cover a number of units.
LEMMA TellNat ==
  ASSUME NEW segments, NEW n, NEW origins, Tell(segments, n, origins)
  PROVE  n \in Nat
<1>1. segments \in Seq(Stretch) /\ Len(segments) \in Nat
  BY DEF Tell
<1>2. CASE Len(segments) = 0
  BY <1>1, <1>2 DEF Tell, EndOf
<1>3. CASE Len(segments) # 0
  <2> DEFINE k == Len(segments)
  <2>1. k \in 1..Len(segments)
    BY <1>1, <1>3
  <2>2. segments[k] \in Stretch
    BY <1>1, <2>1, ElementOfSeq
  <2>3. n = segments[k].end
    BY <1>3 DEF Tell, EndOf
  <2> HIDE DEF k
  <2>4. QED
    BY <2>2, <2>3 DEF Stretch
<1>4. QED
  BY <1>2, <1>3

\* push_segment keeps the segments in order and without a gap, also when the last
\* one grows (provenance.cpp:9-20).
LEMMA PushTells ==
  ASSUME NEW segments, NEW n, NEW origins, Tell(segments, n, origins),
         NEW m \in Nat, n <= m, NEW from \in Origin,
         \A u \in (n + 1)..m : origins[u] = from
  PROVE  Tell(PushSegment(segments, Segment(n, m, from)), m, origins)
<1> DEFINE s == Segment(n, m, from)
           k == Len(segments)
           pushed == PushSegment(segments, s)
<1>1. n \in Nat
  BY TellNat
<1>2. s \in Stretch /\ s.start = n /\ s.end = m /\ s.origin = from
  BY <1>1 DEF Segment, Stretch
<1>3. segments \in Seq(Stretch) /\ k \in Nat /\ n = EndOf(segments, k)
  BY DEF Tell
<1>4. \A i \in 1..k : /\ segments[i] \in Stretch
                      /\ segments[i].start = EndOf(segments, i - 1)
                      /\ segments[i].start < segments[i].end
                      /\ segments[i].end <= n
                      /\ \A u \in (segments[i].start + 1)..segments[i].end :
                             origins[u] = segments[i].origin
  BY <1>3, ElementOfSeq DEF Tell
<1>5. segments # <<>> <=> k # 0
  BY <1>3, EmptySeq
<1> HIDE DEF s, k
<1>6. CASE n = m
  <2>1. pushed = segments
    BY <1>2, <1>6 DEF PushSegment
  <2>2. QED
    BY <1>6, <2>1 DEF s
<1>7. CASE n # m /\ k # 0 /\ segments[k].origin = from
  <2>1. pushed = [segments EXCEPT ![k] = [segments[k] EXCEPT !.end = m]]
    <3>1. Last(segments) = segments[k]
      BY DEF Last, k
    <3>2. segments[k].end = n
      BY <1>3, <1>7 DEF EndOf
    <3>3. QED
      BY <1>2, <1>5, <1>7, <3>1, <3>2 DEF PushSegment, k
  <2> DEFINE longer == [segments[k] EXCEPT !.end = m]
  <2>2. longer \in Stretch /\ longer.start = segments[k].start /\ longer.end = m /\
            longer.origin = from
    <3>1. segments[k] \in Stretch /\ segments[k].origin = from
      BY <1>3, <1>4, <1>7
    <3> DEFINE s1 == segments[k]
    <3> HIDE DEF s1
    <3>2. s1 \in Stretch /\ s1.origin = from
      BY <3>1 DEF s1
    <3>3. [s1 EXCEPT !.end = m] \in Stretch
      BY <3>2 DEF Stretch
    <3>4. QED
      BY <3>2, <3>3 DEF s1, Stretch
  <2> HIDE DEF longer, pushed
  <2>3. pushed \in Seq(Stretch) /\ Len(pushed) = k /\ pushed[k] = longer
    BY <1>3, <1>7, <2>1, <2>2, ExceptSeq DEF longer, k
  <2>4. \A i \in 1..k : i # k => pushed[i] = segments[i]
    BY <1>3, <2>1 DEF k
  <2>5. EndOf(pushed, k) = m
    BY <1>7, <2>2, <2>3 DEF EndOf
  <2>6. ASSUME NEW i \in 1..k
        PROVE  /\ pushed[i].start = EndOf(pushed, i - 1)
               /\ pushed[i].start < pushed[i].end
               /\ pushed[i].end <= m
               /\ \A u \in (pushed[i].start + 1)..pushed[i].end : origins[u] = pushed[i].origin
    <3>1. EndOf(pushed, i - 1) = EndOf(segments, i - 1)
      <4>1. i = 1 \/ (i - 1 \in 1..k /\ i - 1 # k)
        BY <1>3
      <4> DEFINE j == i - 1
      <4>2. j = 0 \/ (j \in 1..k /\ j # k)
        BY <4>1
      <4> HIDE DEF j
      <4>3. EndOf(pushed, j) = EndOf(segments, j)
        BY <2>4, <4>2 DEF EndOf
      <4>4. QED
        BY <4>3 DEF j
    <3>2. CASE i = k
      <4>1. pushed[i].start = segments[i].start /\ pushed[i].end = m /\ pushed[i].origin = from
        BY <2>2, <2>3, <3>2
      <4>2. segments[i].start < segments[i].end /\ segments[i].end = n
        BY <1>3, <1>4, <1>7, <3>2 DEF EndOf
      <4>3. segments[i].start \in Nat
        BY <1>4 DEF Stretch
      <4>4. ASSUME NEW u \in (segments[i].start + 1)..m PROVE origins[u] = from
        <5>1. u \in (segments[i].start + 1)..segments[i].end \/ u \in (n + 1)..m
          BY <1>1, <4>2, <4>3
        <5>2. QED
          BY <1>4, <1>7, <3>2, <5>1
      <4>5. QED
        BY <1>1, <1>4, <3>1, <4>1, <4>2, <4>3, <4>4
    <3>3. CASE i # k
      <4>1. pushed[i] = segments[i]
        BY <2>4, <3>3
      <4>2. segments[i].end \in Nat
        BY <1>4 DEF Stretch
      <4>3. QED
        BY <1>1, <1>4, <3>1, <4>1, <4>2
    <3>4. QED
      BY <3>2, <3>3
  <2>7. Tell(pushed, m, origins)
    BY <2>3, <2>5, <2>6 DEF Tell
  <2>8. QED
    BY <2>7 DEF pushed, s
<1>8. CASE n # m /\ ~(k # 0 /\ segments[k].origin = from)
  <2>1. pushed = Append(segments, s)
    <3>1. k # 0 => Last(segments) = segments[k]
      BY DEF Last, k
    <3>2. QED
      BY <1>2, <1>5, <1>8, <3>1 DEF PushSegment
  <2> HIDE DEF pushed
  <2>2. pushed \in Seq(Stretch) /\ Len(pushed) = k + 1 /\ pushed[k + 1] = s
    BY <1>2, <1>3, <2>1 DEF k
  <2>3. \A i \in 1..k : pushed[i] = segments[i]
    BY <1>2, <1>3, <2>1 DEF k
  <2>4. EndOf(pushed, k + 1) = m
    BY <1>2, <1>3, <2>2 DEF EndOf
  <2>5. ASSUME NEW i \in 1..(k + 1)
        PROVE  /\ pushed[i].start = EndOf(pushed, i - 1)
               /\ pushed[i].start < pushed[i].end
               /\ pushed[i].end <= m
               /\ \A u \in (pushed[i].start + 1)..pushed[i].end : origins[u] = pushed[i].origin
    <3>1. EndOf(pushed, i - 1) = EndOf(segments, i - 1)
      <4> DEFINE j == i - 1
      <4>1. j = 0 \/ j \in 1..k
        BY <1>3
      <4> HIDE DEF j
      <4>2. EndOf(pushed, j) = EndOf(segments, j)
        BY <2>3, <4>1 DEF EndOf
      <4>3. QED
        BY <4>2 DEF j
    <3>2. CASE i = k + 1
      <4>1. pushed[i] = s /\ i - 1 = k
        BY <1>3, <2>2, <3>2
      <4>2. QED
        BY <1>1, <1>2, <1>3, <1>8, <3>1, <4>1
    <3>3. CASE i # k + 1
      <4>1. i \in 1..k
        BY <1>3, <3>3
      <4>2. pushed[i] = segments[i]
        BY <2>3, <4>1
      <4>3. segments[i].end \in Nat
        BY <1>4, <4>1 DEF Stretch
      <4>4. QED
        BY <1>1, <1>4, <3>1, <4>1, <4>2, <4>3
    <3>4. QED
      BY <3>2, <3>3
  <2>6. Tell(pushed, m, origins)
    BY <2>2, <2>4, <2>5 DEF Tell
  <2>7. QED
    BY <2>6 DEF pushed, s
<1>9. QED
  BY <1>6, <1>7, <1>8

\* Segments tell what they cover.
LEMMA TellSame ==
  ASSUME NEW segments, NEW n, NEW origins, Tell(segments, n, origins),
         NEW others, \A u \in 1..n : others[u] = origins[u]
  PROVE  Tell(segments, n, others)
<1>1. n \in Nat /\ segments \in Seq(Stretch)
  BY TellNat, ZenonT(40) DEF Tell
<1>2. ASSUME NEW i \in 1..Len(segments), NEW u \in (segments[i].start + 1)..segments[i].end
      PROVE  others[u] = segments[i].origin
  <2>1. segments[i] \in Stretch
    BY <1>1, ElementOfSeq
  <2>2. segments[i].start \in Nat /\ segments[i].end \in Nat /\ segments[i].end <= n
    BY <2>1 DEF Tell, Stretch
  <2>3. u \in 1..n
    BY <1>1, <2>2
  <2>4. origins[u] = segments[i].origin
    BY DEF Tell
  <2>5. QED
    BY <2>3, <2>4
<1>3. QED
  BY <1>2 DEF Tell

\* The same origin n times.
Uniform(n, origin) == [k \in 1..n |-> origin]

\* These are n origins.
LEMMA UniformType ==
  ASSUME NEW n \in Nat, NEW origin \in Origin
  PROVE  Uniform(n, origin) \in Seq(Origin) /\ Len(Uniform(n, origin)) = n
BY DEF Uniform

\* GeneratedHtml::append adds units of one origin (provenance.cpp:22-30).
LEMMA AppendIs ==
  ASSUME NEW g, NEW html, NEW origins, Is(g, html, origins), NEW units \in Seq(Unit),
         NEW origin \in Origin
  PROVE  Is(AppendHtml(g, units, origin), html \o units, origins \o Uniform(Len(units), origin))
<1> DEFINE n == Len(html)  size == Len(units)  m == n + size
           more == origins \o Uniform(size, origin)
           s == Segment(n, m, origin)
           segments == PushSegment(g.segments, s)
<1>1. /\ g \in Html /\ g.html = html /\ html \in Seq(Unit) /\ n \in Nat /\ size \in Nat
      /\ origins \in Seq(Origin) /\ Len(origins) = n /\ Tell(g.segments, n, origins)
  BY DEF Is, Html
<1>2. Uniform(size, origin) \in Seq(Origin) /\ Len(Uniform(size, origin)) = size
  BY <1>1, UniformType
<1> HIDE DEF n, size
<1>3. \A k \in 1..size : Uniform(size, origin)[k] = origin
  BY DEF Uniform
<1>4. /\ more \in Seq(Origin) /\ Len(more) = m /\ m \in Nat /\ n <= m
      /\ \A u \in 1..m : more[u] = IF u <= n THEN origins[u] ELSE Uniform(size, origin)[u - n]
  BY <1>1, <1>2, ConcatProperties
<1>5. \A u \in 1..n : more[u] = origins[u]
  BY <1>1, <1>4
<1>6. ASSUME NEW u \in (n + 1)..m PROVE more[u] = origin
  <2>1. u \in 1..m /\ ~(u <= n) /\ u - n \in 1..size
    BY <1>1, <1>4
  <2>2. QED
    BY <1>3, <1>4, <2>1
<1> HIDE DEF more
<1>7. Tell(g.segments, n, more)
  BY <1>1, <1>5, TellSame
<1>8. Tell(segments, m, more)
  BY <1>4, <1>6, <1>7, PushTells
<1>9. segments \in Seq(Stretch)
  BY <1>8 DEF Tell
<1>10. html \o units \in Seq(Unit) /\ Len(html \o units) = m
  BY <1>1, ConcatProperties DEF n, size
<1>11. AppendHtml(g, units, origin) = [html |-> html \o units, segments |-> segments]
  BY <1>1 DEF AppendHtml, n, size
<1> HIDE DEF segments
<1>12. AppendHtml(g, units, origin) \in Html
  BY <1>9, <1>10, <1>11 DEF Html
<1>13. QED
  BY <1>4, <1>8, <1>10, <1>11, <1>12 DEF Is, more, n, size

\* Empty HTML has nothing to tell.
LEMMA NoHtmlIs == Is(NoHtml, <<>>, <<>>)
<1>1. NoHtml \in Html
  BY DEF NoHtml, Html
<1>2. Tell(<<>>, 0, <<>>)
  BY DEF Tell, EndOf
<1>3. QED
  BY <1>1, <1>2 DEF Is, NoHtml

\* segment_at finds the origin of each unit.
LEMMA SegmentFound ==
  ASSUME NEW g, NEW html, NEW origins, Is(g, html, origins), NEW u \in 1..Len(html)
  PROVE  SegmentAt(g, u - 1) = origins[u]
<1> DEFINE segments == g.segments
           n == Len(html)
           k == Len(segments)
           at == {i \in DOMAIN segments : u - 1 \in segments[i].start..(segments[i].end - 1)}
           behind == {i \in 1..k : u <= segments[i].end}
<1>1. /\ segments \in Seq(Stretch) /\ k \in Nat /\ DOMAIN segments = 1..k /\ n \in Nat
      /\ Tell(segments, n, origins)
  BY DEF Is, Html
<1>2. SegmentAt(g, u - 1) = IF at = {} THEN NoOrigin ELSE segments[Min(at)].origin
  BY DEF SegmentAt
<1> HIDE DEF segments, k, n
<1>3. \A i \in 1..k : /\ segments[i].start \in Nat /\ segments[i].end \in Nat
                      /\ segments[i].start = EndOf(segments, i - 1)
                      /\ \A v \in (segments[i].start + 1)..segments[i].end :
                             origins[v] = segments[i].origin
  <2>1. \A i \in 1..k : segments[i] \in Stretch
    BY <1>1, ElementOfSeq DEF k
  <2>2. \A i \in 1..k : segments[i].start \in Nat /\ segments[i].end \in Nat
    BY <2>1 DEF Stretch
  <2>3. QED
    BY <1>1, <2>2 DEF Tell, k
<1>4. k # 0 /\ segments[k].end = n
  <2>1. n = EndOf(segments, k)
    BY <1>1 DEF Tell, k
  <2>2. u \in 1..n
    BY DEF n
  <2>3. QED
    BY <2>1, <2>2 DEF EndOf
<1>5. u \in 1..n
  BY DEF n
<1>6. k \in behind
  BY <1>1, <1>4, <1>5
<1>7. PICK i \in behind : \A j \in behind : i <= j
  <2>1. behind \subseteq Nat
    OBVIOUS
  <2> HIDE DEF behind
  <2>2. QED
    BY <1>6, <2>1, Least
<1>8. i \in at
  <2>1. i \in 1..k /\ u <= segments[i].end
    BY <1>7
  <2>2. segments[i].start <= u - 1
    <3>1. CASE i = 1
      BY <1>3, <1>5, <2>1, <3>1 DEF EndOf
    <3>2. CASE i # 1
      <4> DEFINE j == i - 1
      <4>1. j \in 1..k /\ ~(i <= j) /\ j # 0
        BY <1>1, <2>1, <3>2
      <4>2. j \notin behind
        BY <1>7, <4>1
      <4> HIDE DEF j
      <4>3. ~(u <= segments[j].end) /\ segments[j].end \in Nat
        BY <1>3, <4>1, <4>2
      <4>4. segments[i].start = segments[j].end
        BY <1>3, <2>1, <4>1 DEF EndOf, j
      <4>5. QED
        BY <1>1, <1>5, <4>3, <4>4
    <3>3. QED
      BY <3>1, <3>2
  <2>3. u - 1 \in segments[i].start..(segments[i].end - 1)
    BY <1>1, <1>3, <1>5, <2>1, <2>2
  <2>4. QED
    BY <1>1, <2>1, <2>3
<1>9. ASSUME NEW j \in at PROVE segments[j].origin = origins[u]
  <2>1. j \in 1..k /\ u - 1 \in segments[j].start..(segments[j].end - 1)
    BY <1>1
  <2>2. u \in (segments[j].start + 1)..segments[j].end
    BY <1>1, <1>3, <1>5, <2>1
  <2>3. QED
    BY <1>3, <2>1, <2>2
<1>10. Min(at) \in at
  <2>1. at \subseteq Nat
    BY <1>1
  <2> HIDE DEF at
  <2>2. PICK l \in at : \A j \in at : l <= j
    BY <1>8, <2>1, Least
  <2>3. QED
    BY <2>2 DEF Min
<1> HIDE DEF at
<1>11. QED
  BY <1>2, <1>8, <1>9, <1>10

\* The part of a sequence between two offsets.
LEMMA PartType ==
  ASSUME NEW S, NEW s \in Seq(S), NEW a \in Nat, NEW b \in Nat, a <= b, b <= Len(s)
  PROVE  /\ SubSeq(s, a + 1, b) \in Seq(S) /\ Len(SubSeq(s, a + 1, b)) = b - a
         /\ \A i \in 1..(b - a) : SubSeq(s, a + 1, b)[i] = s[a + i]
<1> DEFINE m == a + 1
<1>1. m \in Int /\ b \in Int /\ b - m + 1 = b - a /\ (m <= b <=> b - a # 0)
  OBVIOUS
<1>2. \A i \in m..b : s[i] \in S
  <2>1. \A i \in m..b : i \in 1..Len(s)
    OBVIOUS
  <2>2. QED
    BY <2>1, ElementOfSeq
<1>3. \A i \in 1..(b - a) : m + i - 1 = a + i
  OBVIOUS
<1> HIDE DEF m
<1>4. /\ SubSeq(s, m, b) \in Seq(S)
      /\ Len(SubSeq(s, m, b)) = IF m <= b THEN b - m + 1 ELSE 0
      /\ \A i \in 1..(b - m + 1) : SubSeq(s, m, b)[i] = s[m + i - 1]
  BY <1>1, <1>2, SubSeqProperties
<1>5. QED
  BY <1>1, <1>3, <1>4 DEF m

\* A sequence followed by the part of another between two offsets.
With(h, s, a, b) == h \o SubSeq(s, a + 1, b)

\* Its length is the sum of both.
LEMMA WithType ==
  ASSUME NEW S, NEW h \in Seq(S), NEW s \in Seq(S), NEW a \in Nat, NEW b \in Nat, a <= b,
         b <= Len(s)
  PROVE  With(h, s, a, b) \in Seq(S) /\ Len(With(h, s, a, b)) = Len(h) + (b - a)
<1> DEFINE x == SubSeq(s, a + 1, b)
<1>1. x \in Seq(S) /\ Len(x) = b - a
  BY PartType
<1> HIDE DEF x
<1>2. h \o x \in Seq(S) /\ Len(h \o x) = Len(h) + Len(x)
  BY <1>1, ConcatProperties, ZenonT(40)
<1>3. QED
  BY <1>1, <1>2 DEF With, x

\* An empty part adds nothing.
LEMMA WithNone ==
  ASSUME NEW S, NEW h \in Seq(S), NEW s, NEW a \in Nat
  PROVE  With(h, s, a, a) = h
<1>1. SubSeq(s, a + 1, a) = <<>>
  BY SubSeqEmpty
<1>2. h \o <<>> = h
  BY ConcatEmptySeq
<1>3. QED
  BY <1>1, <1>2 DEF With

\* Concatenation, as an operator the provers leave alone.
Cat(s, t) == s \o t

\* Concatenation is associative.
LEMMA CatTwice ==
  ASSUME NEW S, NEW h \in Seq(S), NEW s \in Seq(S), NEW t \in Seq(S)
  PROVE  Cat(Cat(h, s), t) = Cat(h, Cat(s, t))
<1>1. (h \o s) \o t = h \o (s \o t)
  BY ConcatAssociative
<1>2. QED
  BY <1>1 DEF Cat

\* Two parts in a row are one part.
LEMMA WithMore ==
  ASSUME NEW S, NEW h \in Seq(S), NEW s \in Seq(S),
         NEW a \in Nat, NEW b \in Nat, NEW c \in Nat, a <= b, b <= c, c <= Len(s)
  PROVE  With(With(h, s, a, b), s, b, c) = With(h, s, a, c)
<1> DEFINE m == a + 1  x == SubSeq(s, m, b)  y == SubSeq(s, b + 1, c)
<1>1. Len(s) \in Nat /\ b <= Len(s)
  OBVIOUS
<1>2. x \in Seq(S)
  BY <1>1, PartType
<1>3. y \in Seq(S)
  BY PartType
<1>4. m \in 1..(Len(s) + 1) /\ b \in (m - 1)..Len(s) /\ c \in b..Len(s)
  BY <1>1
<1> HIDE DEF m
<1>5. x \o y = SubSeq(s, m, c)
  BY <1>4, ConcatAdjacentSubSeq
<1>6. Cat(x, y) = SubSeq(s, m, c)
  BY <1>5 DEF Cat
<1> HIDE DEF x, y
<1>7. Cat(Cat(h, x), y) = Cat(h, Cat(x, y))
  BY <1>2, <1>3, CatTwice
<1>8. Cat(Cat(h, x), y) = Cat(h, SubSeq(s, m, c))
  BY <1>6, <1>7
<1>9. QED
  BY <1>8 DEF With, x, y, m, Cat

\* append_slice takes a part over with its origins.
THEOREM SliceIs ==
  ASSUME NEW out, NEW h, NEW o, Is(out, h, o), NEW g, NEW html, NEW origins, Is(g, html, origins),
         NEW start \in Nat, NEW end \in Nat, start <= end, end <= Len(html)
  PROVE  Is(AppendSlice(out, g, start, end),
            With(h, html, start, end), With(o, origins, start, end))
<1> DEFINE segments == g.segments
           n == Len(segments)
           Within1(v) == IF v < start THEN start ELSE IF v > end THEN end ELSE v
           Bound(k) == Within1(EndOf(segments, k))
           Round(k, x) ==
             LET s == segments[k]  from == Later(start, s.start)  to == Earlier(end, s.end) IN
             IF from >= to THEN x ELSE AppendHtml(x, SubSeq(g.html, from + 1, to), s.origin)
           Taken(k, x) ==
             Is(x, With(h, html, start, Bound(k)), With(o, origins, start, Bound(k)))
           I == [k \in 0..n |-> {x \in Html : Taken(k, x)}]
           step == [p \in (1..n) \X Html |-> Round(p[1], p[2])]
           F(f) == [k \in 0..n |-> IF k = 0 THEN out ELSE Round(k, f[k - 1])]
<1>1. /\ segments \in Seq(Stretch) /\ n \in Nat /\ html \in Seq(Unit) /\ origins \in Seq(Origin)
      /\ Len(origins) = Len(html) /\ Len(html) \in Nat /\ g.html = html
      /\ Tell(segments, Len(html), origins)
  BY DEF Is, Html
<1>2. out \in Html /\ h \in Seq(Unit) /\ o \in Seq(Origin)
  BY DEF Is, Html
<1> HIDE DEF segments, n
<1>3. \A k \in 1..n : segments[k] \in Stretch
  BY <1>1, ElementOfSeq DEF n
<1>4. \A k \in 1..n : /\ segments[k].start \in Nat /\ segments[k].end \in Nat
                      /\ segments[k].origin \in Origin
  BY <1>3 DEF Stretch
<1>5. \A k \in 1..n : /\ segments[k].start = EndOf(segments, k - 1)
                      /\ segments[k].start < segments[k].end /\ segments[k].end <= Len(html)
                      /\ \A u \in (segments[k].start + 1)..segments[k].end :
                           origins[u] = segments[k].origin
  BY <1>1 DEF Tell, n
<1>6. \A k \in 0..n : EndOf(segments, k) \in Nat
  BY <1>1, <1>4 DEF EndOf
<1>7. \A k \in 0..n : Bound(k) \in Nat /\ start <= Bound(k) /\ Bound(k) <= end
  BY <1>6
<1>8. out \in I[0]
  <2>1. Bound(0) = start
    BY DEF EndOf
  <2>2. With(h, html, start, start) = h /\ With(o, origins, start, start) = o
    BY <1>2, WithNone
  <2>3. Taken(0, out)
    BY <2>1, <2>2
  <2> HIDE DEF Taken
  <2>4. QED
    BY <1>1, <1>2, <2>3
<1>9. ASSUME NEW k \in 1..n, NEW x \in I[k - 1] PROVE x \in Html /\ Round(k, x) \in I[k]
  <2> DEFINE j == k - 1  s == segments[k]  from == Later(start, s.start)
             to == Earlier(end, s.end)
             a == Bound(j)  b == Bound(k)
  <2>1. j \in 0..n /\ k \in 0..n
    BY <1>1
  <2>2. x \in Html /\ Taken(j, x)
    <3> HIDE DEF Taken
    <3>1. QED
      BY <1>9, <2>1
  <2>3. /\ s.start \in Nat /\ s.end \in Nat /\ s.start < s.end /\ s.end <= Len(html)
        /\ s.start = EndOf(segments, j) /\ s.end = EndOf(segments, k) /\ s.origin \in Origin
        /\ \A u \in (s.start + 1)..s.end : origins[u] = s.origin
    <3>1. s.start = EndOf(segments, j) /\ s.origin \in Origin /\ s.start \in Nat /\ s.end \in Nat
      BY <1>4, <1>5
    <3>2. s.start < s.end /\ s.end <= Len(html)
      BY <1>5
    <3>3. \A u \in (s.start + 1)..s.end : origins[u] = s.origin
      BY <1>5
    <3>4. s.end = EndOf(segments, k)
      BY <1>1 DEF EndOf
    <3>5. QED
      BY <3>1, <3>2, <3>3, <3>4
  <2>4. a = Within1(s.start) /\ b = Within1(s.end)
    BY <2>3
  <2> HIDE DEF s, j
  <2>5. CASE from >= to
    <3>1. Round(k, x) = x
      BY <2>5 DEF s
    <3>2. a = b
      BY <2>3, <2>4, <2>5 DEF Later, Earlier
    <3>3. Taken(k, x)
      BY <2>2, <3>2
    <3> HIDE DEF Taken, Round
    <3>4. QED
      BY <2>1, <2>2, <3>1, <3>3
  <2>6. CASE ~(from >= to)
    <3>1. from = a /\ to = b /\ a < b
      BY <2>3, <2>4, <2>6 DEF Later, Earlier
    <3>2. a \in Nat /\ b \in Nat /\ start <= a /\ b <= end /\ s.start <= a /\ b <= s.end /\
              b <= Len(html)
      BY <1>7, <2>1, <2>3, <2>4, <2>6, <3>1 DEF Later, Earlier
    <3> DEFINE units == SubSeq(html, a + 1, b)
               parts == SubSeq(origins, a + 1, b)
               y == AppendHtml(x, units, s.origin)
    <3>3. Round(k, x) = y
      BY <1>1, <2>6, <3>1 DEF s
    <3> HIDE DEF a, b, from, to, Round
    <3>4. units \in Seq(Unit) /\ Len(units) = b - a
      BY <1>1, <3>1, <3>2, PartType
    <3>5. /\ parts \in Seq(Origin) /\ Len(parts) = b - a
          /\ \A i \in 1..(b - a) : parts[i] = origins[a + i]
      BY <1>1, <3>1, <3>2, PartType
    <3>6. Uniform(b - a, s.origin) = parts
      <4>1. b - a \in Nat
        BY <3>1, <3>2
      <4> DEFINE size == b - a
      <4>2. \A i \in 1..size : a + i \in (s.start + 1)..s.end
        BY <2>3, <3>1, <3>2
      <4> HIDE DEF parts, size
      <4>3. \A i \in 1..size : parts[i] = s.origin
        BY <2>3, <3>5, <4>2 DEF size
      <4>4. Uniform(size, s.origin) \in Seq(Origin) /\ Len(Uniform(size, s.origin)) = size
        BY <2>3, <4>1, UniformType DEF size
      <4>5. \A i \in 1..size : Uniform(size, s.origin)[i] = parts[i]
        BY <4>3 DEF Uniform
      <4>6. QED
        BY <3>5, <4>4, <4>5, SeqEqual DEF size
    <3> HIDE DEF units, parts, y
    <3> DEFINE h1 == With(h, html, start, a)  o1 == With(o, origins, start, a)
    <3>7. Is(x, h1, o1)
      BY <2>2 DEF a, j
    <3> HIDE DEF h1, o1
    <3>8. Is(y, h1 \o units, o1 \o Uniform(b - a, s.origin))
      BY <2>3, <3>4, <3>7, AppendIs DEF y
    <3>9. h1 \o units = With(h1, html, a, b) /\ o1 \o parts = With(o1, origins, a, b)
      BY DEF With, units, parts
    <3>10. With(h1, html, a, b) = With(h, html, start, b) /\
               With(o1, origins, a, b) = With(o, origins, start, b)
      <4>1. a <= b /\ b <= Len(html) /\ b <= Len(origins)
        BY <1>1, <3>1, <3>2
      <4>2. QED
        BY <1>1, <1>2, <3>2, <4>1, WithMore DEF h1, o1
    <3>11. Is(y, With(h, html, start, b), With(o, origins, start, b))
      BY <3>6, <3>8, <3>9, <3>10
    <3>12. Taken(k, y) /\ y \in Html
      BY <3>11 DEF b, Is
    <3> HIDE DEF Taken
    <3>13. QED
      BY <2>1, <2>2, <3>3, <3>12
  <2>7. QED
    BY <2>5, <2>6
<1> HIDE DEF I
<1>10. \A k \in 1..n : \A x \in I[k - 1] : step[<<k, x>>] = Round(k, x) /\ Round(k, x) \in I[k]
  <2> HIDE DEF Round
  <2>1. QED
    BY <1>9
<1> HIDE DEF step
<1>11. PICK f : IsRecursion(f, n, out, step) /\ \A k \in 0..n : f[k] \in I[k]
  <2>1. \A k \in 1..n : \A x \in I[k - 1] : step[<<k, x>>] \in I[k]
    <3> HIDE DEF Round
    <3>1. QED
      BY <1>10
  <2>2. QED
    BY <1>1, <1>8, <2>1, RoundsExist
<1>12. f = F(f)
  <2> HIDE DEF Round
  <2>1. ASSUME NEW k \in 0..n PROVE f[k] = IF k = 0 THEN out ELSE Round(k, f[k - 1])
    <3>1. k # 0 => k \in 1..n /\ k - 1 \in 0..n
      BY <1>1
    <3>2. QED
      BY <1>10, <1>11, <3>1 DEF IsRecursion
  <2>2. QED
    BY <1>11, <2>1 DEF IsRecursion
<1> DEFINE r == CHOOSE q : q = F(q)
<1>13. r = F(r)
  <2> HIDE DEF Round
  <2>1. QED
    BY <1>12
<1>14. AppendSlice(out, g, start, end) = r[n]
  BY DEF AppendSlice, Loop, n, segments
<1> HIDE DEF r, Round
<1>15. \A k \in 0..n : r[k] \in I[k]
  <2>1. r[0] = out /\ \A k \in 1..n : r[k] = Round(k, r[k - 1])
    BY <1>1, <1>13
  <2>2. \A k \in 1..n : r[k - 1] \in I[k - 1] => r[k] \in I[k]
    BY <1>10, <2>1
  <2>3. r[0] \in I[0]
    BY <1>8, <2>1
  <2>4. QED
    BY <1>1, <2>2, <2>3, RoundsKeep
<1>16. Taken(n, r[n])
  <2> HIDE DEF Taken
  <2>1. QED
    BY <1>1, <1>15 DEF I
<1>17. Bound(n) = end
  <2>1. EndOf(segments, n) = Len(html)
    BY <1>1 DEF Tell, n
  <2>2. QED
    BY <1>1, <2>1
<1> HIDE DEF Bound
<1>18. QED
  BY <1>14, <1>16, <1>17

\* A sequence with another put in at an offset.
Spliced(s, a, t) == SubSeq(s, 1, a) \o t \o SubSeq(s, a + 1, Len(s))

\* The elements of a concatenation.
LEMMA CatType ==
  ASSUME NEW S, NEW s \in Seq(S), NEW t \in Seq(S)
  PROVE  /\ Cat(s, t) \in Seq(S) /\ Len(Cat(s, t)) = Len(s) + Len(t)
         /\ \A i \in 1..(Len(s) + Len(t)) :
              Cat(s, t)[i] = IF i <= Len(s) THEN s[i] ELSE t[i - Len(s)]
BY ConcatProperties DEF Cat

\* The elements of a spliced sequence.
LEMMA SplicedType ==
  ASSUME NEW S, NEW s \in Seq(S), NEW a \in Nat, a <= Len(s), NEW t \in Seq(S)
  PROVE  /\ Spliced(s, a, t) \in Seq(S) /\ Len(Spliced(s, a, t)) = Len(s) + Len(t)
         /\ \A i \in 1..a : Spliced(s, a, t)[i] = s[i]
         /\ \A i \in (a + 1)..(a + Len(t)) : Spliced(s, a, t)[i] = t[i - a]
         /\ \A i \in (a + Len(t) + 1)..(Len(s) + Len(t)) : Spliced(s, a, t)[i] = s[i - Len(t)]
<1> DEFINE z == 0  n == Len(s)  m == Len(t)
           left == SubSeq(s, z + 1, a)  right == SubSeq(s, a + 1, n)
           half == Cat(left, t)  all == Cat(half, right)
<1>1. n \in Nat /\ m \in Nat /\ a <= n /\ z \in Nat /\ z <= a
  OBVIOUS
<1>2. left \in Seq(S) /\ Len(left) = a - z /\ \A i \in 1..(a - z) : left[i] = s[z + i]
  <2> HIDE DEF z
  <2>1. QED
    BY <1>1, PartType
<1>3. right \in Seq(S) /\ Len(right) = n - a /\ \A i \in 1..(n - a) : right[i] = s[a + i]
  BY <1>1, PartType
<1>4. left \in Seq(S) /\ Len(left) = a /\ \A i \in 1..a : left[i] = s[i]
  BY <1>2
<1> HIDE DEF left, right, n, m
<1>5. /\ half \in Seq(S) /\ Len(half) = a + m
      /\ \A i \in 1..(a + m) : half[i] = IF i <= a THEN left[i] ELSE t[i - a]
  BY <1>4, CatType DEF m
<1> HIDE DEF half
<1>6. /\ all \in Seq(S) /\ Len(all) = Len(half) + Len(right)
      /\ \A i \in 1..(Len(half) + Len(right)) :
           all[i] = IF i <= Len(half) THEN half[i] ELSE right[i - Len(half)]
  <2>1. half \in Seq(S) /\ right \in Seq(S)
    BY <1>3, <1>5
  <2>2. QED
    BY <2>1, CatType
<1>61. /\ all \in Seq(S) /\ Len(all) = a + m + (n - a)
      /\ \A i \in 1..(a + m + (n - a)) :
             all[i] = IF i <= a + m THEN half[i] ELSE right[i - (a + m)]
  BY <1>3, <1>5, <1>6
<1>7. Spliced(s, a, t) = all
  BY DEF Spliced, Cat, all, half, left, right, n, z
<1> HIDE DEF all
<1>8. a + m + (n - a) = n + m
  BY <1>1
<1>9. ASSUME NEW i \in 1..a PROVE all[i] = s[i]
  <2>1. i \in 1..(a + m) /\ i <= a /\ i \in 1..(a + m + (n - a)) /\ i <= a + m
    BY <1>1
  <2>2. QED
    BY <1>4, <1>5, <1>61, <2>1
<1>10. ASSUME NEW i \in (a + 1)..(a + m) PROVE all[i] = t[i - a]
  <2>1. i \in 1..(a + m) /\ ~(i <= a) /\ i \in 1..(a + m + (n - a)) /\ i <= a + m
    BY <1>1
  <2>2. QED
    BY <1>5, <1>61, <2>1
<1>11. ASSUME NEW i \in (a + m + 1)..(n + m) PROVE all[i] = s[i - m]
  <2>1. i \in 1..(a + m + (n - a)) /\ ~(i <= a + m) /\ i - (a + m) \in 1..(n - a) /\
            a + (i - (a + m)) = i - m
    BY <1>1
  <2>2. all[i] = right[i - (a + m)]
    BY <1>61, <2>1
  <2> DEFINE j == i - (a + m)
  <2> HIDE DEF j
  <2>3. right[j] = s[a + j]
    BY <1>3, <2>1 DEF j
  <2>4. QED
    BY <2>1, <2>2, <2>3 DEF j
<1>12. QED
  BY <1>61, <1>7, <1>8, <1>9, <1>10, <1>11 DEF n, m

\* Origins with one origin put in a number of times.
LEMMA SplicedOrigins ==
  ASSUME NEW origins \in Seq(Origin), NEW offset \in Nat, offset <= Len(origins),
         NEW size \in Nat, NEW from \in Origin
  PROVE  /\ Spliced(origins, offset, Uniform(size, from)) \in Seq(Origin)
         /\ Len(Spliced(origins, offset, Uniform(size, from))) = Len(origins) + size
         /\ \A i \in 1..offset : Spliced(origins, offset, Uniform(size, from))[i] = origins[i]
         /\ \A i \in (offset + 1)..(offset + size) :
              Spliced(origins, offset, Uniform(size, from))[i] = from
         /\ \A i \in (offset + size + 1)..(Len(origins) + size) :
              Spliced(origins, offset, Uniform(size, from))[i] = origins[i - size]
<1> DEFINE uni == Uniform(size, from)
           new == Spliced(origins, offset, uni)
<1>1. uni \in Seq(Origin) /\ Len(uni) = size
  BY UniformType
<1>2. \A i \in 1..size : uni[i] = from
  BY DEF Uniform
<1> HIDE DEF uni
<1>20. uni \in Seq(Origin)
  BY <1>1
<1>3. new \in Seq(Origin)
  BY <1>20, SplicedType
<1>4. Len(new) = Len(origins) + Len(uni)
  BY <1>20, SplicedType
<1>5. \A i \in 1..offset : new[i] = origins[i]
  BY <1>20, SplicedType, SMTT(30)
<1>6. \A i \in (offset + 1)..(offset + Len(uni)) : new[i] = uni[i - offset]
  BY <1>20, SplicedType
<1>7. \A i \in (offset + Len(uni) + 1)..(Len(origins) + Len(uni)) : new[i] = origins[i - Len(uni)]
  BY <1>20, SplicedType
<1> HIDE DEF new
<1>8. \A i \in (offset + 1)..(offset + size) : i - offset \in 1..size
  OBVIOUS
<1>9. QED
  BY <1>1, <1>2, <1>3, <1>4, <1>5, <1>6, <1>7, <1>8 DEF new, uni

\* The state of the loop of GeneratedHtml::insert.
Insertion == [updated : Seq(Stretch), inserted : BOOLEAN]

\* Its step that takes a segment over.
LEMMA PushedTells ==
  ASSUME NEW s \in Insertion, NEW n, NEW origins, Tell(s.updated, n, origins),
         NEW m \in Nat, n <= m, NEW from \in Origin, \A u \in (n + 1)..m : origins[u] = from
  PROVE  /\ Pushed(s, n, m, from) \in Insertion
         /\ Pushed(s, n, m, from).inserted <=> s.inserted
         /\ Tell(Pushed(s, n, m, from).updated, m, origins)
<1> DEFINE more == PushSegment(s.updated, Segment(n, m, from))
<1>1. Tell(more, m, origins)
  BY PushTells
<1> HIDE DEF more
<1>2. more \in Seq(Stretch)
  BY <1>1 DEF Tell
<1>3. Pushed(s, n, m, from) = [s EXCEPT !.updated = more]
  BY DEF Pushed, more
<1>4. QED
  BY <1>1, <1>2, <1>3 DEF Insertion

\* Its step that adds the segment of what is inserted, once.
LEMMA AddedTells ==
  ASSUME NEW s \in Insertion, NEW n, NEW origins, Tell(s.updated, n, origins),
         NEW offset \in Nat, NEW size \in Nat, NEW from \in Origin, s.inserted \/ n = offset,
         \A u \in (offset + 1)..(offset + size) : origins[u] = from
  PROVE  /\ AddInserted(s, offset, size, from) \in Insertion
         /\ AddInserted(s, offset, size, from).inserted
         /\ Tell(AddInserted(s, offset, size, from).updated,
                 IF s.inserted THEN n ELSE offset + size, origins)
<1>1. CASE s.inserted
  BY <1>1 DEF AddInserted
<1>2. CASE ~ s.inserted
  <2> DEFINE m == offset + size
             t == Pushed(s, offset, m, from)
  <2>1. n = offset /\ m \in Nat /\ offset <= m
    BY <1>2
  <2>2. t \in Insertion /\ Tell(t.updated, m, origins)
    <3> HIDE DEF t
    <3>1. \A u \in (offset + 1)..m : origins[u] = from
      OBVIOUS
    <3> HIDE DEF m
    <3>2. Tell(s.updated, offset, origins)
      BY <2>1
    <3>3. QED
      BY <2>1, <3>1, <3>2, PushedTells DEF t
  <2> HIDE DEF t
  <2>3. AddInserted(s, offset, size, from) = [t EXCEPT !.inserted = TRUE]
    BY <1>2 DEF AddInserted, t
  <2>4. [t EXCEPT !.inserted = TRUE].updated = t.updated /\ [t EXCEPT !.inserted = TRUE].inserted
        /\ [t EXCEPT !.inserted = TRUE] \in Insertion
    BY <2>2 DEF Insertion
  <2>5. QED
    BY <1>2, <2>2, <2>3, <2>4
<1>3. QED
  BY <1>1, <1>2

\* GeneratedHtml::insert puts units in and tells the origin of every unit, also of
\* those that were one segment before (provenance.cpp:32-72).
THEOREM InsertIs ==
  ASSUME NEW g, NEW html, NEW origins, Is(g, html, origins), NEW offset \in Nat,
         offset <= Len(html),
         NEW units \in Seq(Unit), NEW from \in Origin
  PROVE  Is(InsertHtml(g, offset, units, from),
            Spliced(html, offset, units), Spliced(origins, offset, Uniform(Len(units), from)))
<1> DEFINE segments == g.segments
           n == Len(segments)
           size == Len(units)
           length == Len(html)
           new == Spliced(origins, offset, Uniform(size, from))
           start == [updated |-> <<>>, inserted |-> FALSE]
           Behind(old, put, begin) == Pushed(AddInserted(put, offset, size, from),
                                             begin + size, old.end + size, old.origin)
           Round(k, s) ==
             LET old == segments[k]
                 left == Pushed(s, old.start, offset, old.origin)
             IN IF old.end <= offset THEN Pushed(s, old.start, old.end, old.origin)
                ELSE IF old.start >= offset THEN Behind(old, s, old.start)
                    ELSE Behind(old, left, offset)
           Told(k, s) ==
             LET end == EndOf(segments, k) IN
             /\ s.inserted <=> end > offset
             /\ Tell(s.updated, IF s.inserted THEN end + size ELSE end, new)
           I == [k \in 0..n |-> {s \in Insertion : Told(k, s)}]
           step == [p \in (1..n) \X Insertion |-> Round(p[1], p[2])]
           F(f) == [k \in 0..n |-> IF k = 0 THEN start ELSE Round(k, f[k - 1])]
<1>1. /\ segments \in Seq(Stretch) /\ n \in Nat /\ html \in Seq(Unit) /\ origins \in Seq(Origin)
      /\ Len(origins) = length /\ length \in Nat /\ g.html = html /\ size \in Nat
      /\ Tell(segments, length, origins) /\ offset <= length
  BY DEF Is, Html
<1> HIDE DEF segments, n, size, length
<1>2. /\ new \in Seq(Origin) /\ Len(new) = length + size
      /\ \A i \in 1..offset : new[i] = origins[i]
      /\ \A i \in (offset + size + 1)..(length + size) : new[i] = origins[i - size]
  <2>1. offset <= Len(origins) /\ origins \in Seq(Origin) /\ size \in Nat
    BY <1>1
  <2>2. new \in Seq(Origin)
    BY <2>1, SplicedOrigins
  <2>6. Len(new) = Len(origins) + size
    BY <2>1, SplicedOrigins, ZenonT(40)
  <2>3. \A i \in 1..offset : new[i] = origins[i]
    BY <2>1, SplicedOrigins
  <2>4. \A i \in (offset + size + 1)..(Len(origins) + size) : new[i] = origins[i - size]
    BY <2>1, SplicedOrigins
  <2>5. QED
    BY <1>1, <2>2, <2>3, <2>4, <2>6
<1>4. \A i \in (offset + 1)..(offset + size) : new[i] = from
  BY <1>1, SplicedOrigins, ZenonT(40)
<1> HIDE DEF new
<1>5. \A k \in 1..n : segments[k] \in Stretch
  BY <1>1, ElementOfSeq DEF n
<1>6. \A k \in 1..n : /\ segments[k].start \in Nat /\ segments[k].end \in Nat
                      /\ segments[k].origin \in Origin
  BY <1>5 DEF Stretch
<1>7. \A k \in 1..n : /\ segments[k].start = EndOf(segments, k - 1)
                      /\ segments[k].start < segments[k].end /\ segments[k].end <= length
                      /\ \A u \in (segments[k].start + 1)..segments[k].end :
                           origins[u] = segments[k].origin
  BY <1>1 DEF Tell, n
<1>8. start \in I[0]
  <2>1. start \in Insertion
    BY DEF Insertion
  <2>2. EndOf(segments, 0) = 0 /\ Tell(<<>>, 0, new)
    BY DEF EndOf, Tell
  <2>3. Told(0, start)
    BY <2>2
  <2> HIDE DEF Told, start
  <2>4. QED
    BY <1>1, <2>1, <2>3
<1>9. ASSUME NEW k \in 1..n, NEW s \in I[k - 1] PROVE s \in Insertion /\ Round(k, s) \in I[k]
  <2> DEFINE j == k - 1  old == segments[k]  begin == old.start  end == old.end  t == Round(k, s)
  <2>1. j \in 0..n /\ k \in 0..n
    BY <1>1
  <2>2. s \in Insertion /\ Told(j, s)
    <3> HIDE DEF Told
    <3>1. QED
      BY <1>9, <2>1
  <2>3. begin = EndOf(segments, j) /\ begin \in Nat /\ end \in Nat /\ old.origin \in Origin
    BY <1>6, <1>7
  <2>4. begin < end /\ end <= length
    BY <1>7
  <2>5. \A u \in (begin + 1)..end : origins[u] = old.origin
    BY <1>7
  <2>6. end = EndOf(segments, k)
    BY <1>1 DEF EndOf
  <2>7. /\ s.inserted <=> begin > offset
        /\ Tell(s.updated, IF s.inserted THEN begin + size ELSE begin, new)
    BY <2>2, <2>3
  <2> HIDE DEF j, begin, end
  <2>8. CASE end <= offset
    <3>1. t = Pushed(s, begin, end, old.origin)
      BY <2>8 DEF begin, end
    <3>2. ~ s.inserted /\ Tell(s.updated, begin, new) /\ ~(end > offset)
      BY <2>3, <2>4, <2>7, <2>8
    <3>3. \A u \in (begin + 1)..end : new[u] = old.origin
      BY <1>2, <2>3, <2>5, <2>8
    <3> DEFINE where == old.origin
    <3>4. t \in Insertion /\ ~ t.inserted /\ Tell(t.updated, end, new)
      <4>1. begin <= end /\ begin \in Nat /\ end \in Nat /\ where \in Origin
        BY <2>3, <2>4
      <4>2. t = Pushed(s, begin, end, where) /\ \A u \in (begin + 1)..end : new[u] = where
        BY <3>1, <3>3
      <4> HIDE DEF where, t
      <4>3. Pushed(s, begin, end, where) \in Insertion
        BY <2>2, <3>2, <4>1, <4>2, PushedTells
      <4>4. ~ Pushed(s, begin, end, where).inserted
        BY <2>2, <3>2, <4>1, <4>2, PushedTells
      <4>5. Tell(Pushed(s, begin, end, where).updated, end, new)
        BY <2>2, <3>2, <4>1, <4>2, PushedTells
      <4>6. QED
        BY <4>2, <4>3, <4>4, <4>5
    <3> HIDE DEF t
    <3>5. Told(k, t)
      BY <2>6, <3>2, <3>4
    <3> HIDE DEF Told
    <3>6. QED
      BY <2>1, <2>2, <3>4, <3>5 DEF t
  <2>9. ASSUME NEW put \in Insertion, NEW from1 \in Nat, offset <= from1, begin <= from1,
               from1 < end,
               t = Behind(old, put, from1),
               Tell(put.updated, IF put.inserted THEN from1 + size ELSE from1, new),
               put.inserted \/ from1 = offset
        PROVE  t \in Insertion /\ t.inserted /\ Tell(t.updated, end + size, new)
    <3> DEFINE added == AddInserted(put, offset, size, from)  m == from1 + size
               at == IF put.inserted THEN m ELSE from1
    <3>1. Tell(put.updated, at, new) /\ (put.inserted \/ at = offset)
      BY <2>9
    <3> HIDE DEF at
    <3>2. /\ added \in Insertion /\ added.inserted
          /\ Tell(added.updated, IF put.inserted THEN at ELSE offset + size, new)
      BY <1>1, <1>4, <3>1, AddedTells
    <3>3. (IF put.inserted THEN at ELSE offset + size) = m
      BY <2>9 DEF at
    <3>4. Tell(added.updated, m, new)
      BY <3>2, <3>3
    <3> HIDE DEF added, t
    <3>5. m \in Nat /\ end + size \in Nat /\ m <= end + size
      BY <1>1, <2>3, <2>9
    <3>6. ASSUME NEW u \in (m + 1)..(end + size) PROVE new[u] = old.origin
      <4>1. u \in (offset + size + 1)..(length + size) /\ u - size \in (begin + 1)..end
        BY <1>1, <2>3, <2>4, <2>9, SMTT(30)
      <4>2. new[u] = origins[u - size]
        BY <1>2, <4>1
      <4>3. QED
        BY <2>5, <4>1, <4>2
    <3> DEFINE last == end + size
    <3>7. t = Pushed(added, m, last, old.origin)
      BY <2>9 DEF added, end
    <3> HIDE DEF m, last, old
    <3>8. t \in Insertion /\ (t.inserted <=> added.inserted) /\ Tell(t.updated, last, new)
      BY <2>3, <3>2, <3>4, <3>5, <3>6, <3>7, PushedTells DEF last
    <3>9. QED
      BY <3>2, <3>8 DEF last
  <2>10. CASE ~(end <= offset) /\ begin >= offset
    <3>1. t = Behind(old, s, begin)
      BY <2>10 DEF begin, end
    <3>2. s.inserted \/ begin = offset
      BY <2>3, <2>7, <2>10
    <3> HIDE DEF t, Behind, old
    <3>3. t \in Insertion /\ t.inserted /\ Tell(t.updated, end + size, new)
      BY <2>2, <2>3, <2>4, <2>7, <2>9, <2>10, <3>1, <3>2
    <3>4. Told(k, t)
      BY <2>3, <2>6, <2>10, <3>3
    <3> HIDE DEF Told
    <3>5. QED
      BY <2>1, <2>2, <3>3, <3>4 DEF t
  <2>11. CASE ~(end <= offset) /\ ~(begin >= offset)
    <3> DEFINE left == Pushed(s, begin, offset, old.origin)
    <3>1. t = Behind(old, left, offset)
      BY <2>11 DEF begin, end
    <3>2. ~ s.inserted /\ Tell(s.updated, begin, new) /\ begin <= offset /\ offset < end
      BY <2>3, <2>7, <2>11
    <3>3. \A u \in (begin + 1)..offset : new[u] = old.origin
      BY <1>2, <2>3, <2>5, <2>11
    <3> DEFINE where == old.origin
    <3>4. left \in Insertion /\ ~ left.inserted /\ Tell(left.updated, offset, new)
      <4>1. begin <= offset /\ begin \in Nat /\ where \in Origin
        BY <2>3, <3>2
      <4>2. left = Pushed(s, begin, offset, where) /\
            (\A u \in (begin + 1)..offset : new[u] = where)
        BY <3>3
      <4> HIDE DEF where, left
      <4>3. Pushed(s, begin, offset, where) \in Insertion
        BY <2>2, <3>2, <4>1, <4>2, PushedTells
      <4>4. ~ Pushed(s, begin, offset, where).inserted
        BY <2>2, <3>2, <4>1, <4>2, PushedTells
      <4>5. Tell(Pushed(s, begin, offset, where).updated, offset, new)
        BY <2>2, <3>2, <4>1, <4>2, PushedTells
      <4>6. QED
        BY <4>2, <4>3, <4>4, <4>5
    <3> HIDE DEF old, Behind, t
    <3> HIDE DEF left
    <3>5. t \in Insertion /\ t.inserted /\ Tell(t.updated, end + size, new)
      BY <2>9, <3>1, <3>2, <3>4
    <3>6. Told(k, t)
      BY <2>3, <2>6, <2>11, <3>5
    <3> HIDE DEF Told
    <3>7. QED
      BY <2>1, <2>2, <3>5, <3>6 DEF t
  <2>12. QED
    BY <2>8, <2>10, <2>11
<1> HIDE DEF I, Round, start
<1>10. \A k \in 1..n : \A s \in I[k - 1] : step[<<k, s>>] = Round(k, s) /\ Round(k, s) \in I[k]
  BY <1>9
<1> HIDE DEF step
<1>11. PICK f : IsRecursion(f, n, start, step) /\ \A k \in 0..n : f[k] \in I[k]
  <2>1. \A k \in 1..n : \A s \in I[k - 1] : step[<<k, s>>] \in I[k]
    BY <1>10
  <2>2. QED
    BY <1>1, <1>8, <2>1, RoundsExist
<1>12. f = F(f)
  <2>1. ASSUME NEW k \in 0..n PROVE f[k] = IF k = 0 THEN start ELSE Round(k, f[k - 1])
    <3>1. k # 0 => k \in 1..n /\ k - 1 \in 0..n
      BY <1>1
    <3>2. QED
      BY <1>10, <1>11, <3>1 DEF IsRecursion
  <2>2. QED
    BY <1>11, <2>1 DEF IsRecursion
<1> DEFINE r == CHOOSE q : q = F(q)
           done == AddInserted(r[n], offset, size, from)
<1>13. r = F(r)
  BY <1>12
<1>14. InsertHtml(g, offset, units, from)
         = [html |-> Spliced(html, offset, units), segments |-> done.updated]
  BY <1>1 DEF InsertHtml, Inserted, Loop, Spliced, Round, n, segments, size, start
<1> HIDE DEF r
<1>15. \A k \in 0..n : r[k] \in I[k]
  <2>1. r[0] = start /\ \A k \in 1..n : r[k] = Round(k, r[k - 1])
    BY <1>1, <1>13
  <2>2. \A k \in 1..n : r[k - 1] \in I[k - 1] => r[k] \in I[k]
    BY <1>10, <2>1
  <2>3. r[0] \in I[0]
    BY <1>8, <2>1
  <2>4. QED
    BY <1>1, <2>2, <2>3, RoundsKeep
<1> DEFINE s == r[n]
<1>16. s \in Insertion /\ Told(n, s)
  <2> HIDE DEF Told
  <2>1. QED
    BY <1>1, <1>15 DEF I
<1>17. EndOf(segments, n) = length
  BY <1>1 DEF Tell, n
<1> HIDE DEF s
<1> DEFINE at == IF s.inserted THEN length + size ELSE length
<1>18. Tell(s.updated, at, new) /\ (s.inserted \/ at = offset)
  BY <1>1, <1>16, <1>17
<1>19. (IF s.inserted THEN at ELSE offset + size) = length + size
  BY <1>1, <1>18
<1> HIDE DEF at
<1>20. done \in Insertion /\ Tell(done.updated, length + size, new)
  <2>1. /\ AddInserted(s, offset, size, from) \in Insertion
        /\ Tell(AddInserted(s, offset, size, from).updated,
                IF s.inserted THEN at ELSE offset + size, new)
    BY <1>1, <1>4, <1>16, <1>18, AddedTells
  <2>2. QED
    BY <1>19, <2>1 DEF s
<1> HIDE DEF done
<1>21. Spliced(html, offset, units) \in Seq(Unit) /\
           Len(Spliced(html, offset, units)) = length + size
  <2>1. html \in Seq(Unit) /\ offset <= Len(html)
    BY <1>1 DEF length
  <2>2. Spliced(html, offset, units) \in Seq(Unit)
    BY <2>1, SplicedType
  <2>3. Len(Spliced(html, offset, units)) = Len(html) + Len(units)
    BY <2>1, SplicedType
  <2>4. QED
    BY <2>2, <2>3 DEF length, size
<1>22. done.updated \in Seq(Stretch)
  BY <1>20 DEF Insertion
<1> DEFINE result == InsertHtml(g, offset, units, from)
<1>23. result \in Html /\ result.html = Spliced(html, offset, units) /\
           result.segments = done.updated
  BY <1>14, <1>21, <1>22 DEF Html
<1> HIDE DEF result
<1>24. Is(result, Spliced(html, offset, units), new)
  BY <1>2, <1>20, <1>21, <1>23 DEF Is
<1>25. QED
  BY <1>24 DEF result, new, size

-----------------------------------------------------------------------------
(***************************************************************************)
(* Sequences of parts, and where each part begins.                         *)
(***************************************************************************)
\* Nothing adds nothing.
LEMMA CatNone ==
  ASSUME NEW S, NEW s \in Seq(S)
  PROVE  Cat(<<>>, s) = s /\ Cat(s, <<>>) = s
BY ConcatEmptySeq DEF Cat

\* One more element at the end.
LEMMA CatMore ==
  ASSUME NEW S, NEW s \in Seq(S), NEW t \in Seq(S), NEW x \in S
  PROVE  Cat(s, Append(t, x)) = Append(Cat(s, t), x)
<1> DEFINE one == <<x>>
<1>1. one \in Seq(S) /\ Append(t, x) = t \o one
  BY AppendIsConcat
<1>2. s \o t \in Seq(S)
  BY ConcatProperties
<1>3. Append(s \o t, x) = (s \o t) \o one
  BY <1>2, AppendIsConcat
<1> HIDE DEF one
<1>4. (s \o t) \o one = s \o (t \o one)
  BY <1>1, ConcatAssociative
<1>5. QED
  BY <1>1, <1>3, <1>4 DEF Cat

\* What is added up part by part is the whole of the parts.
LEMMA FlatIs ==
  ASSUME NEW S, NEW xs \in Seq(Seq(S)), NEW g, g[0] = <<>>,
         \A k \in 1..Len(xs) : g[k] = Cat(g[k - 1], xs[k])
  PROVE  FlattenSeq(xs) = g[Len(xs)] /\ g[Len(xs)] \in Seq(S)
<1> DEFINE n == Len(xs)
<1>1. n \in Nat /\ \A k \in 1..n : xs[k] \in Seq(S)
  BY ElementOfSeq
<1> HIDE DEF n
<1>2. \A k \in 0..n : g[k] \in Seq(S)
  <2> DEFINE I == [k \in 0..n |-> Seq(S)]
  <2>1. g[0] \in I[0]
    BY <1>1
  <2>2. \A k \in 1..n : g[k - 1] \in I[k - 1] => g[k] \in I[k]
    <3>1. SUFFICES ASSUME NEW k \in 1..n, g[k - 1] \in I[k - 1] PROVE g[k] \in I[k]
      OBVIOUS
    <3> DEFINE before == g[k - 1]
    <3>2. k - 1 \in 0..n /\ k \in 0..n
      BY <1>1
    <3>3. before \in Seq(S) /\ xs[k] \in Seq(S)
      BY <1>1, <3>1, <3>2
    <3>4. g[k] = Cat(before, xs[k])
      BY DEF n
    <3> HIDE DEF before
    <3>5. Cat(before, xs[k]) \in Seq(S)
      BY <3>3, CatType
    <3>6. QED
      BY <3>2, <3>4, <3>5
  <2> HIDE DEF I
  <2>3. \A k \in 0..n : g[k] \in I[k]
    BY <1>1, <2>1, <2>2, RoundsKeep
  <2>4. QED
    BY <2>3 DEF I
<1>3. CASE n = 0
  <2>1. xs = <<>>
    BY <1>3, EmptySeq DEF n
  <2>2. FlattenSeq(xs) = xs
    BY <1>3 DEF FlattenSeq, n
  <2>3. QED
    BY <1>1, <1>2, <1>3, <2>1, <2>2 DEF n
<1>4. CASE n # 0
  <2> DEFINE F(f) == [i \in 1..n |-> IF i = 1 THEN xs[i] ELSE f[i - 1] \o xs[i]]
             h == [i \in 1..n |-> g[i]]
             r == CHOOSE f : f = F(f)
  <2>1. g[1] = xs[1]
    <3>1. 1 \in 1..n
      BY <1>1, <1>4
    <3>2. g[1] = Cat(<<>>, xs[1])
      BY <3>1 DEF n
    <3>3. xs[1] \in Seq(S)
      BY <1>1, <3>1
    <3>4. QED
      BY <3>2, <3>3, CatNone
  <2>2. h = F(h)
    <3>1. ASSUME NEW i \in 1..n PROVE h[i] = IF i = 1 THEN xs[i] ELSE h[i - 1] \o xs[i]
      <4>1. CASE i = 1
        BY <2>1, <4>1
      <4>2. CASE i # 1
        <5>1. i - 1 \in 1..n
          BY <1>1, <4>2
        <5>2. g[i] = g[i - 1] \o xs[i]
          BY Zenon DEF n, Cat
        <5>3. QED
          BY <4>2, <5>1, <5>2
      <4>3. QED
        BY <4>1, <4>2
    <3>2. QED
      BY <3>1
  <2>3. r = F(r)
    BY <2>2, Zenon
  <2>4. FlattenSeq(xs) = r[n]
    BY <1>4 DEF FlattenSeq, n
  <2> HIDE DEF r
  <2>5. \A i \in 1..n : r[i] = IF i = 1 THEN xs[i] ELSE r[i - 1] \o xs[i]
    BY <2>3
  <2> DEFINE I == [k \in 0..n |-> IF k = 0 THEN {g[0]} ELSE {r[k]}]
  <2>6. \A k \in 1..n : g[k - 1] \in I[k - 1] => g[k] \in I[k]
    <3> SUFFICES ASSUME NEW k \in 1..n, g[k - 1] \in I[k - 1] PROVE g[k] \in I[k]
      OBVIOUS
    <3>0. k \in 0..n /\ k # 0 /\ k - 1 \in 0..n
      BY <1>1
    <3>1. (k # 1 => g[k - 1] = r[k - 1]) /\ I[k] = {r[k]}
      BY <3>0
    <3> HIDE DEF I
    <3>2. CASE k = 1
      BY <2>1, <2>5, <3>1, <3>2
    <3>3. CASE k # 1
      <4>1. k - 1 \in 0..n /\ k - 1 # 0
        BY <1>1, <3>3
      <4>2. g[k - 1] = r[k - 1]
        BY <3>1, <4>1
      <4>3. g[k] = g[k - 1] \o xs[k]
        BY DEF n, Cat
      <4>4. QED
        <5>1. r[k] = r[k - 1] \o xs[k]
          BY <2>5, <3>3
        <5>2. g[k] = r[k]
          BY <4>2, <4>3, <5>1
        <5>3. QED
          BY <3>1, <5>2
    <3>4. QED
      BY <3>2, <3>3
  <2>7. g[0] \in I[0]
    BY <1>1
  <2> HIDE DEF I
  <2>8. \A k \in 0..n : g[k] \in I[k]
    BY <1>1, <2>6, <2>7, RoundsKeep
  <2>9. g[n] = r[n]
    <3>1. n \in 0..n /\ n # 0
      BY <1>1, <1>4
    <3>2. I[n] = {r[n]}
      BY <3>1 DEF I
    <3>3. QED
      BY <2>8, <3>1, <3>2
  <2>10. QED
    BY <1>1, <1>2, <2>4, <2>9 DEF n
<1>5. QED
  BY <1>3, <1>4

\* Parts add up.
LEMMA FlatExists ==
  ASSUME NEW S, NEW xs \in Seq(Seq(S))
  PROVE  \E g : g[0] = <<>> /\ \A k \in 1..Len(xs) : g[k] = Cat(g[k - 1], xs[k])
<1> DEFINE n == Len(xs)
           none == <<>>
           step == [p \in (1..n) \X Seq(S) |-> Cat(p[2], xs[p[1]])]
           I == [k \in 0..n |-> Seq(S)]
<1>1. n \in Nat /\ \A k \in 1..n : xs[k] \in Seq(S)
  BY ElementOfSeq
<1> HIDE DEF n
<1>2. none \in I[0] /\ \A k \in 1..n : I[k - 1] = Seq(S) /\ I[k] = Seq(S)
  BY <1>1
<1>3. \A k \in 1..n : \A x \in Seq(S) : step[<<k, x>>] = Cat(x, xs[k])
  OBVIOUS
<1> HIDE DEF step, none, I
<1>4. \A k \in 1..n : \A x \in I[k - 1] : step[<<k, x>>] \in I[k]
  <2>1. SUFFICES ASSUME NEW k \in 1..n, NEW x \in Seq(S) PROVE step[<<k, x>>] \in Seq(S)
    BY <1>2
  <2>2. xs[k] \in Seq(S)
    BY <1>1
  <2>3. Cat(x, xs[k]) \in Seq(S)
    BY <2>2, CatType
  <2>4. QED
    BY <1>3, <2>3
<1>5. PICK f : IsRecursion(f, n, none, step) /\ \A k \in 0..n : f[k] \in I[k]
  BY <1>1, <1>2, <1>4, RoundsExist
<1>6. f[0] = none
  BY <1>1, <1>5 DEF IsRecursion
<1>7. ASSUME NEW k \in 1..n PROVE f[k] = Cat(f[k - 1], xs[k])
  <2>1. k \in 0..n /\ k # 0 /\ k - 1 \in 0..n
    BY <1>1
  <2>2. f[k] = step[<<k, f[k - 1]>>]
    BY <1>5, <2>1 DEF IsRecursion
  <2>3. f[k - 1] \in Seq(S)
    BY <1>2, <1>5, <2>1
  <2>4. QED
    BY <1>3, <2>2, <2>3
<1>8. QED
  BY <1>6, <1>7 DEF none, n

\* One more part.
LEMMA FlatMore ==
  ASSUME NEW S, NEW xs \in Seq(Seq(S)), NEW x \in Seq(S)
  PROVE  FlattenSeq(Append(xs, x)) = Cat(FlattenSeq(xs), x) /\ FlattenSeq(xs) \in Seq(S)
<1> DEFINE more == Append(xs, x)  n == Len(xs)
<1>1. more \in Seq(Seq(S))
  OBVIOUS
<1>2. n \in Nat /\ Len(more) = n + 1 /\ more[n + 1] = x /\ \A k \in 1..n : more[k] = xs[k]
  OBVIOUS
<1> HIDE DEF more, n
<1>3. PICK g : g[0] = <<>> /\ \A k \in 1..Len(more) : g[k] = Cat(g[k - 1], more[k])
  BY <1>1, FlatExists
<1>4. FlattenSeq(more) = g[Len(more)]
  BY <1>1, <1>3, FlatIs
<1>5. \A k \in 1..Len(xs) : g[k] = Cat(g[k - 1], xs[k])
  BY <1>2, <1>3 DEF n
<1>6. FlattenSeq(xs) = g[Len(xs)] /\ g[Len(xs)] \in Seq(S)
  BY <1>3, <1>5, FlatIs
<1>7. g[n + 1] = Cat(g[n], x)
  <2> DEFINE m == n + 1
  <2>1. m \in 1..Len(more) /\ m - 1 = n
    BY <1>2
  <2>2. g[m] = Cat(g[m - 1], more[m])
    BY <1>3, <2>1
  <2>3. QED
    BY <1>2, <2>1, <2>2
<1>8. QED
  BY <1>2, <1>4, <1>6, <1>7 DEF more, n

\* No parts.
LEMMA FlatNone == FlattenSeq(<<>>) = <<>>
BY DEF FlattenSeq

\* The parts of two sequences.
LEMMA FlatCat ==
  ASSUME NEW S, NEW xs \in Seq(Seq(S)), NEW ys \in Seq(Seq(S))
  PROVE  FlattenSeq(Cat(xs, ys)) = Cat(FlattenSeq(xs), FlattenSeq(ys))
<1> DEFINE n == Len(ys)
           Upper(k) == SubSeq(ys, 1, k)
           Same(k) == FlattenSeq(Cat(xs, Upper(k))) = Cat(FlattenSeq(xs), FlattenSeq(Upper(k)))
           T == {k \in 0..n : Same(k)}
<1>1. n \in Nat /\ \A k \in 1..n : ys[k] \in Seq(S)
  BY ElementOfSeq
<1>2. FlattenSeq(xs) \in Seq(S)
  BY FlatMore, EmptySeq
<1>3. 0 \in T
  <2>1. Upper(0) = <<>>
    BY SubSeqEmpty
  <2>2. Cat(xs, <<>>) = xs /\ Cat(FlattenSeq(xs), <<>>) = FlattenSeq(xs)
    BY <1>2, CatNone
  <2>3. Same(0)
    BY <2>1, <2>2, FlatNone
  <2> HIDE DEF Same
  <2>4. QED
    BY <1>1, <2>3
<1>4. ASSUME NEW k \in 0..(n - 1), k \in T PROVE k + 1 \in T
  <2> DEFINE t == Upper(k)  y == ys[k + 1]  j == k + 1
  <2>1. Upper(j) = Append(t, y) /\ t \in Seq(Seq(S))
    <3>1. Upper(j) = Append(t, y)
      BY OneMore DEF n
    <3>2. t \in Seq(Seq(S))
      <4>1. k \in Nat /\ \A l \in 1..k : ys[l] \in Seq(S)
        BY <1>1
      <4>2. QED
        BY <4>1, SubSeqProperties
    <3>3. QED
      BY <3>1, <3>2
  <2>2. y \in Seq(S) /\ j \in 0..n
    BY <1>1
  <2>3. FlattenSeq(Cat(xs, t)) = Cat(FlattenSeq(xs), FlattenSeq(t))
    BY <1>4
  <2> HIDE DEF t, y, j
  <2>4. Cat(xs, Append(t, y)) = Append(Cat(xs, t), y)
    BY <2>1, <2>2, CatMore
  <2>5. Cat(xs, t) \in Seq(Seq(S))
    BY <2>1, CatType
  <2>6. FlattenSeq(Append(Cat(xs, t), y)) = Cat(FlattenSeq(Cat(xs, t)), y)
    BY <2>2, <2>5, FlatMore
  <2>7. FlattenSeq(Append(t, y)) = Cat(FlattenSeq(t), y) /\ FlattenSeq(t) \in Seq(S)
    BY <2>1, <2>2, FlatMore
  <2>8. Cat(Cat(FlattenSeq(xs), FlattenSeq(t)), y) = Cat(FlattenSeq(xs), Cat(FlattenSeq(t), y))
    BY <1>2, <2>2, <2>7, CatTwice
  <2>9. Same(j)
    BY <2>1, <2>3, <2>4, <2>6, <2>7, <2>8
  <2> HIDE DEF Same
  <2>10. QED
    BY <2>2, <2>9 DEF j
<1> HIDE DEF T
<1>5. \A k \in 0..n : k \in T
  BY <1>1, <1>3, <1>4, Induction
<1>6. Same(n)
  BY <1>1, <1>5 DEF T
<1>7. Upper(n) = ys
  BY SubSeqFull
<1>8. QED
  BY <1>6, <1>7

\* A concatenation can be taken apart again.
LEMMA CatParts ==
  ASSUME NEW S, NEW s \in Seq(S), NEW t \in Seq(S)
  PROVE  /\ SubSeq(Cat(s, t), 1, Len(s)) = s
         /\ SubSeq(Cat(s, t), Len(s) + 1, Len(s) + Len(t)) = t
         /\ \A i \in 1..Len(s) : Cat(s, t)[i] = s[i]
         /\ \A i \in 1..Len(t) : Cat(s, t)[Len(s) + i] = t[i]
<1> DEFINE a == Len(s)  b == Len(t)  r == Cat(s, t)  c == a + b  z == 0
<1>1. a \in Nat /\ b \in Nat /\ c \in Nat /\ c = a + b /\ z \in Nat /\ z <= a /\ a <= c
  OBVIOUS
<1>2. r \in Seq(S)
  BY CatType
<1>3. Len(r) = c /\ \A i \in 1..c : r[i] = IF i <= a THEN s[i] ELSE t[i - a]
  BY CatType
<1>4. Len(s) = a /\ Len(t) = b
  OBVIOUS
<1> HIDE DEF a, b, r, c, z
<1>5. \A i \in 1..a : r[i] = s[i]
  BY <1>1, <1>3
<1>6. ASSUME NEW i \in 1..b PROVE r[a + i] = t[i]
  <2> DEFINE j == a + i
  <2>1. j \in 1..c /\ ~(j <= a) /\ j - a = i
    BY <1>1
  <2>2. r[j] = t[j - a]
    BY <1>3, <2>1
  <2>3. QED
    BY <2>1, <2>2
<1>7. z <= a /\ a <= Len(r) /\ c <= Len(r)
  BY <1>1, <1>3
<1> DEFINE u == SubSeq(r, z + 1, a)  v == SubSeq(r, a + 1, c)
<1>8. u = s
  <2>1. u \in Seq(S) /\ Len(u) = a - z /\ \A i \in 1..(a - z) : u[i] = r[z + i]
    BY <1>1, <1>2, <1>7, PartType
  <2> HIDE DEF u
  <2>2. Len(u) = a /\ \A i \in 1..a : u[i] = s[i]
    BY <1>1, <1>5, <2>1 DEF z
  <2>3. QED
    BY <1>4, <2>1, <2>2, SeqEqual
<1>9. v = t
  <2>1. v \in Seq(S) /\ Len(v) = c - a /\ \A i \in 1..(c - a) : v[i] = r[a + i]
    BY <1>1, <1>2, <1>7, PartType
  <2>2. c - a = b
    BY <1>1
  <2> HIDE DEF v
  <2>3. Len(v) = b /\ \A i \in 1..b : v[i] = t[i]
    BY <1>6, <2>1, <2>2
  <2>4. QED
    BY <1>4, <2>1, <2>3, SeqEqual
<1>10. QED
  BY <1>5, <1>6, <1>8, <1>9 DEF u, v, a, b, c, r, z

\* The first k elements.
Upto(s, k) == SubSeq(s, 1, k)

\* Their number, and that they are the same.
LEMMA UptoType ==
  ASSUME NEW S, NEW s \in Seq(S), NEW k \in 0..Len(s)
  PROVE  Upto(s, k) \in Seq(S) /\ Len(Upto(s, k)) = k /\ \A i \in 1..k : Upto(s, k)[i] = s[i]
<1>1. k \in Nat /\ \A i \in 1..k : s[i] \in S
  BY ElementOfSeq
<1>2. QED
  BY <1>1, SubSeqProperties DEF Upto

\* None of them and all of them.
LEMMA UptoEnds ==
  ASSUME NEW S, NEW s \in Seq(S)
  PROVE  Upto(s, 0) = <<>> /\ Upto(s, Len(s)) = s
BY SubSeqEmpty, SubSeqFull DEF Upto

\* One more of them.
LEMMA UptoMore ==
  ASSUME NEW S, NEW s \in Seq(S), NEW k \in 1..Len(s)
  PROVE  Upto(s, k) = Append(Upto(s, k - 1), s[k])
<1> DEFINE j == k - 1
<1>1. j \in 0..(Len(s) - 1) /\ j + 1 = k
  OBVIOUS
<1> HIDE DEF j
<1>2. SubSeq(s, 1, j + 1) = Append(SubSeq(s, 1, j), s[j + 1])
  BY <1>1, OneMore
<1>3. QED
  BY <1>1, <1>2 DEF Upto, j

\* A function, and a sequence of its values; the provers leave both alone.
Maps(h, S, T) == h \in [S -> T]
Mapped(h, s) == [i \in DOMAIN s |-> h[s[i]]]

\* Each value is in its place.
LEMMA MappedType ==
  ASSUME NEW S, NEW T, NEW h, Maps(h, S, T), NEW s \in Seq(S)
  PROVE  /\ Mapped(h, s) \in Seq(T) /\ Len(Mapped(h, s)) = Len(s)
         /\ \A i \in 1..Len(s) : Mapped(h, s)[i] = h[s[i]]
<1>1. DOMAIN s = 1..Len(s) /\ Len(s) \in Nat
  OBVIOUS
<1>2. \A i \in 1..Len(s) : s[i] \in S
  BY ElementOfSeq
<1>3. \A i \in 1..Len(s) : h[s[i]] \in T
  BY <1>2 DEF Maps
<1>4. QED
  BY <1>1, <1>3 DEF Mapped

\* The value of one more element.
LEMMA MappedMore ==
  ASSUME NEW S, NEW T, NEW h, Maps(h, S, T), NEW s \in Seq(S), NEW x \in S
  PROVE  Mapped(h, Append(s, x)) = Append(Mapped(h, s), h[x])
<1> DEFINE n == Len(s)  m == n + 1  more == Append(s, x)  u == Mapped(h, more)
           v == Append(Mapped(h, s), h[x])
<1>1. /\ more \in Seq(S) /\ Len(more) = m /\ n \in Nat /\ more[m] = x
      /\ \A i \in 1..n : more[i] = s[i]
  OBVIOUS
<1> HIDE DEF more
<1>2. u \in Seq(T) /\ Len(u) = m /\ \A i \in 1..m : u[i] = h[more[i]]
  <2>1. u \in Seq(T) /\ Len(u) = Len(more)
    BY <1>1, MappedType
  <2>2. \A i \in 1..Len(more) : u[i] = h[more[i]]
    BY <1>1, MappedType
  <2>3. QED
    BY <1>1, <2>1, <2>2
<1> DEFINE w == Mapped(h, s)
<1>3. w \in Seq(T) /\ Len(w) = n /\ \A i \in 1..n : w[i] = h[s[i]]
  <2>1. w \in Seq(T)
    BY MappedType
  <2>2. Len(w) = n
    BY MappedType
  <2>3. \A i \in 1..n : w[i] = h[s[i]]
    BY MappedType
  <2>4. QED
    BY <2>1, <2>2, <2>3
<1>4. h[x] \in T
  BY DEF Maps
<1> HIDE DEF u, w, n
<1>5. v \in Seq(T) /\ Len(v) = m /\ v[m] = h[x] /\ \A i \in 1..n : v[i] = w[i]
  BY <1>3, <1>4 DEF w
<1> HIDE DEF v
<1>6. ASSUME NEW i \in 1..m PROVE u[i] = v[i]
  <2>1. CASE i = m
    BY <1>1, <1>2, <1>5, <2>1
  <2>2. CASE i # m
    <3>1. i \in 1..n
      BY <1>1, <2>2
    <3>2. QED
      BY <1>1, <1>2, <1>3, <1>5, <3>1
  <2>3. QED
    BY <2>1, <2>2
<1>7. u = v
  BY <1>2, <1>5, <1>6, SeqEqual
<1>8. QED
  BY <1>7 DEF u, v, more

\* The values of two sequences.
LEMMA MappedCat ==
  ASSUME NEW S, NEW T, NEW h, Maps(h, S, T), NEW s \in Seq(S), NEW t \in Seq(S)
  PROVE  Mapped(h, Cat(s, t)) = Cat(Mapped(h, s), Mapped(h, t))
<1> DEFINE n == Len(s)  m == Len(t)  c == n + m  all == Cat(s, t)  x == Mapped(h, s)
           y == Mapped(h, t)
           u == Mapped(h, all)  v == Cat(x, y)
<1>1. n \in Nat /\ m \in Nat /\ c \in Nat /\ c = n + m
  OBVIOUS
<1>2. all \in Seq(S)
  BY CatType
<1>3. Len(all) = c /\ \A i \in 1..c : all[i] = IF i <= n THEN s[i] ELSE t[i - n]
  BY CatType
<1>4. x \in Seq(T) /\ Len(x) = n /\ \A i \in 1..n : x[i] = h[s[i]]
  <2>1. x \in Seq(T)
    BY MappedType
  <2>2. Len(x) = n
    BY MappedType
  <2>3. \A i \in 1..n : x[i] = h[s[i]]
    BY MappedType
  <2>4. QED
    BY <2>1, <2>2, <2>3
<1>5. y \in Seq(T) /\ Len(y) = m /\ \A i \in 1..m : y[i] = h[t[i]]
  <2>1. y \in Seq(T)
    BY MappedType
  <2>2. Len(y) = m
    BY MappedType
  <2>3. \A i \in 1..m : y[i] = h[t[i]]
    BY MappedType
  <2>4. QED
    BY <2>1, <2>2, <2>3
<1> HIDE DEF all, x, y, n, m, c
<1>6. u \in Seq(T) /\ Len(u) = Len(all) /\ \A i \in 1..Len(all) : u[i] = h[all[i]]
  <2>1. u \in Seq(T)
    BY <1>2, MappedType
  <2>2. Len(u) = Len(all)
    BY <1>2, MappedType
  <2>3. \A i \in 1..Len(all) : u[i] = h[all[i]]
    BY <1>2, MappedType
  <2>4. QED
    BY <2>1, <2>2, <2>3
<1>7. x \in Seq(T) /\ y \in Seq(T)
  BY <1>4, <1>5
<1>8. v \in Seq(T)
  BY <1>7, CatType
<1>9. Len(v) = Len(x) + Len(y)
  BY <1>7, CatType
<1>10. \A i \in 1..(Len(x) + Len(y)) : v[i] = IF i <= Len(x) THEN x[i] ELSE y[i - Len(x)]
  BY <1>7, CatType
<1> HIDE DEF u, v
<1>11. ASSUME NEW i \in 1..c PROVE u[i] = v[i]
  <2>1. CASE i <= n
    <3>1. i \in 1..n
      BY <2>1
    <3>2. u[i] = h[s[i]]
      BY <1>3, <1>6, <2>1
    <3>3. v[i] = x[i]
      BY <1>1, <1>4, <1>5, <1>10, <2>1
    <3>4. QED
      BY <1>4, <3>1, <3>2, <3>3
  <2>2. CASE ~(i <= n)
    <3> DEFINE j == i - n
    <3>1. j \in 1..m
      BY <1>1, <2>2
    <3>2. u[i] = h[t[j]]
      BY <1>3, <1>6, <2>2
    <3>3. v[i] = y[j]
      BY <1>1, <1>4, <1>5, <1>10, <2>2
    <3> HIDE DEF j
    <3>4. QED
      BY <1>5, <3>1, <3>2, <3>3
  <2>3. QED
    BY <2>1, <2>2
<1>12. Len(u) = c /\ Len(v) = c
  BY <1>1, <1>3, <1>4, <1>5, <1>6, <1>9
<1>13. u = v
  BY <1>6, <1>8, <1>11, <1>12, SeqEqual
<1>14. QED
  BY <1>13 DEF u, v, all, x, y

\* What the parts of a sequence add up to.
Total(h, s) == FlattenSeq(Mapped(h, s))

\* No parts are nothing.
LEMMA TotalNone ==
  ASSUME NEW h
  PROVE  Total(h, <<>>) = <<>>
<1>1. Mapped(h, <<>>) = <<>>
  BY DEF Mapped
<1>2. QED
  BY <1>1, FlatNone DEF Total

\* The whole has the elements of the parts.
LEMMA TotalType ==
  ASSUME NEW S, NEW T, NEW h, Maps(h, S, Seq(T)), NEW s \in Seq(S)
  PROVE  Total(h, s) \in Seq(T)
<1>1. Mapped(h, s) \in Seq(Seq(T))
  BY MappedType
<1>2. <<>> \in Seq(T)
  OBVIOUS
<1>3. QED
  BY <1>1, <1>2, FlatMore DEF Total

\* One more part comes behind the others.
LEMMA TotalMore ==
  ASSUME NEW S, NEW T, NEW h, Maps(h, S, Seq(T)), NEW s \in Seq(S), NEW x \in S
  PROVE  Total(h, Append(s, x)) = Cat(Total(h, s), h[x])
<1>1. Mapped(h, s) \in Seq(Seq(T)) /\ h[x] \in Seq(T)
  BY MappedType DEF Maps
<1>2. Mapped(h, Append(s, x)) = Append(Mapped(h, s), h[x])
  BY MappedMore
<1>3. QED
  BY <1>1, <1>2, FlatMore DEF Total

\* The whole of two sequences of parts.
LEMMA TotalCat ==
  ASSUME NEW S, NEW T, NEW h, Maps(h, S, Seq(T)), NEW s \in Seq(S), NEW t \in Seq(S)
  PROVE  Total(h, Cat(s, t)) = Cat(Total(h, s), Total(h, t))
<1>1. Mapped(h, s) \in Seq(Seq(T)) /\ Mapped(h, t) \in Seq(Seq(T))
  BY MappedType
<1>2. Mapped(h, Cat(s, t)) = Cat(Mapped(h, s), Mapped(h, t))
  BY MappedCat
<1>3. QED
  BY <1>1, <1>2, FlatCat DEF Total

\* Where the k-th part begins in the whole.
Off(h, s, k) == Len(Total(h, Upto(s, k)))

\* Each part is found in the whole between two offsets.
LEMMA InPlace ==
  ASSUME NEW S, NEW T, NEW h, Maps(h, S, Seq(T)), NEW s \in Seq(S), NEW k \in 1..Len(s)
  PROVE  /\ Off(h, s, k - 1) \in Nat /\ Off(h, s, k) \in Nat
         /\ Off(h, s, k) - Off(h, s, k - 1) = Len(h[s[k]])
         /\ Off(h, s, k) <= Len(Total(h, s))
         /\ SubSeq(Total(h, s), Off(h, s, k - 1) + 1, Off(h, s, k)) = h[s[k]]
         /\ SubSeq(Total(h, s), 1, Off(h, s, k - 1)) = Total(h, Upto(s, k - 1))
         /\ \A j \in 1..Len(h[s[k]]) : Total(h, s)[Off(h, s, k - 1) + j] = h[s[k]][j]
<1> DEFINE n == Len(s)  j == k - 1  below == Upto(s, j)  x == s[k]  above == SubSeq(s, k + 1, n)
           before == Total(h, below)  here == h[x]  behind == Total(h, above)
           rest == Cat(here, behind)  all == Total(h, s)  next == Total(h, Upto(s, k))
<1>1. n \in Nat /\ j \in 0..n /\ k \in Nat /\ k <= n /\ x \in S
  BY ElementOfSeq
<1>2. below \in Seq(S)
  BY <1>1, UptoType
<1>3. above \in Seq(S)
  BY <1>1, PartType, SMTT(30)
<1>4. s = Cat(Append(below, x), above)
  <2>1. Upto(s, k) = Append(below, x)
    BY UptoMore
  <2>2. SubSeq(s, 1, k) \o above = SubSeq(s, 1, n)
    BY <1>1, ConcatAdjacentSubSeq
  <2>3. SubSeq(s, 1, n) = s
    BY SubSeqFull
  <2>4. QED
    BY <2>1, <2>2, <2>3, Zenon DEF Upto, Cat
<1>5. before \in Seq(T) /\ here \in Seq(T) /\ behind \in Seq(T)
  <2>1. before \in Seq(T) /\ behind \in Seq(T)
    BY <1>2, <1>3, TotalType
  <2>2. QED
    BY <1>1, <2>1 DEF Maps
<1>6. all = Cat(Cat(before, here), behind)
  <2> HIDE DEF below, above, x
  <2> DEFINE first == Append(below, x)
  <2>1. first \in Seq(S)
    BY <1>1, <1>2
  <2>2. Total(h, first) = Cat(before, here)
    BY <1>1, <1>2, TotalMore
  <2>3. s = Cat(first, above)
    BY <1>4
  <2> HIDE DEF first
  <2>4. Total(h, Cat(first, above)) = Cat(Total(h, first), Total(h, above))
    BY <1>3, <2>1, TotalCat
  <2>5. QED
    BY <2>2, <2>3, <2>4
<1>7. next = Cat(before, here)
  <2>1. Upto(s, k) = Append(below, x)
    BY UptoMore
  <2> HIDE DEF below, x
  <2>2. Total(h, Append(below, x)) = Cat(before, here)
    BY <1>1, <1>2, TotalMore
  <2>3. QED
    BY <2>1, <2>2
<1> HIDE DEF before, here, behind, all
<1> DEFINE a == Len(before)  b == Len(here)  c == Len(next)
<1>8. a \in Nat /\ b \in Nat
  BY <1>5
<1>9. Len(next) = Len(before) + Len(here)
  BY <1>5, <1>7, CatType
<1>10. next \in Seq(T)
  BY <1>5, <1>7, CatType
<1>11. all = Cat(before, rest)
  BY <1>5, <1>6, CatTwice
<1>12. rest \in Seq(T)
  BY <1>5, CatType
<1>13. Len(rest) = Len(here) + Len(behind)
  BY <1>5, CatType
<1>14. SubSeq(all, 1, Len(before)) = before
  BY <1>5, <1>11, <1>12, CatParts
<1>15. all = Cat(next, behind)
  BY <1>6, <1>7
<1> HIDE DEF next, rest
<1>16. SubSeq(all, 1, Len(next)) = next
  BY <1>5, <1>10, <1>15, CatParts
<1>17. Len(all) = Len(next) + Len(behind)
  BY <1>5, <1>10, <1>15, CatType
<1>18. \A i \in 1..Len(next) : all[i] = next[i]
  BY <1>5, <1>10, <1>15, CatParts
<1>19. \A i \in 1..Len(here) : next[Len(before) + i] = here[i]
  BY <1>5, <1>7, CatParts
<1>20. all \in Seq(T)
  BY <1>5, <1>10, <1>15, CatType
<1>21. Len(behind) \in Nat /\ Len(next) \in Nat
  BY <1>5, <1>10
<1>22. \A i \in 1..b : all[a + i] = here[i]
  <2>1. SUFFICES ASSUME NEW i \in 1..b PROVE all[a + i] = here[i]
    OBVIOUS
  <2> DEFINE l == a + i
  <2>2. l \in 1..Len(next)
    BY <1>8, <1>9
  <2>3. next[l] = here[i]
    BY <1>19
  <2> HIDE DEF l
  <2>4. all[l] = here[i]
    BY <1>18, <2>2, <2>3
  <2>5. QED
    BY <2>4 DEF l
<1>23. SubSeq(all, a + 1, c) = here
  <2> DEFINE v == SubSeq(all, a + 1, c)
  <2>1. a <= c /\ c <= Len(all) /\ c - a = b /\ c \in Nat
    BY <1>8, <1>9, <1>17, <1>21
  <2> HIDE DEF a, b, c
  <2>2. v \in Seq(T) /\ Len(v) = c - a /\ \A i \in 1..(c - a) : v[i] = all[a + i]
    BY <1>8, <1>20, <2>1, PartType
  <2> HIDE DEF v
  <2>3. Len(v) = b /\ \A i \in 1..b : v[i] = here[i]
    BY <1>22, <2>1, <2>2
  <2>4. Len(here) = b
    BY DEF b
  <2>5. v = here
    BY <1>5, <2>2, <2>3, <2>4, SeqEqual
  <2>6. QED
    BY <2>5 DEF v
<1>24. a = Off(h, s, k - 1) /\ c = Off(h, s, k)
  BY DEF a, c, Off, before, below, j, next
<1>25. c - a = b /\ c <= Len(all) /\ c \in Nat
  BY <1>8, <1>9, <1>17, <1>21
<1> HIDE DEF a, b, c
<1>26. b = Len(h[s[k]]) /\ here = h[s[k]] /\ all = Total(h, s)
  BY DEF b, here, x, all
<1>27. SubSeq(all, 1, a) = Total(h, Upto(s, k - 1))
  BY <1>14 DEF a, before, below, j
<1>28. QED
  BY <1>8, <1>22, <1>23, <1>24, <1>25, <1>26, <1>27

-----------------------------------------------------------------------------
(***************************************************************************)
(* Pages of pieces, and loops over their units.                            *)
(***************************************************************************)
\* A piece with the origins of its units.
Placed == [of : Piece, origins : Seq(Origin)]
PieceUnits == [p \in Placed |-> UnitsOf(p.of, Len(p.origins))]
PieceOrigins == [p \in Placed |-> p.origins]
PieceRules == [p \in Placed |-> IF IsPlainBlock(p) THEN p.of.rules ELSE <<>>]

\* The units of a piece.
LEMMA UnitsType ==
  ASSUME NEW piece \in Piece, NEW n \in Nat
  PROVE  /\ UnitsOf(piece, n) \in Seq(Unit) /\ Len(UnitsOf(piece, n)) = n
         /\ \A j \in 1..n : UnitsOf(piece, n)[j] = [of |-> piece, part |-> j, parts |-> n]
<1>1. \A j \in 1..n : [of |-> piece, part |-> j, parts |-> n] \in Unit
  BY DEF Unit
<1>2. QED
  BY <1>1 DEF UnitsOf

\* What a piece with origins consists of.
LEMMA PlacedType ==
  ASSUME NEW p \in Placed
  PROVE  /\ p.of \in Piece /\ p.origins \in Seq(Origin) /\ Len(p.origins) \in Nat
         /\ p = [of |-> p.of, origins |-> p.origins]
         /\ p.of.kind = "style" => p.of.rules \in Seq(ClassRule)
         /\ p.of.kind = "tag" => p.of \in [kind : {"tag"}, classes : SUBSET Class, style : Style]
<1>1. p.of \in Piece /\ p.origins \in Seq(Origin) /\ p = [of |-> p.of, origins |-> p.origins]
  BY DEF Placed
<1>2. Len(p.origins) \in Nat
  BY <1>1
<1> DEFINE piece == p.of
<1>3. piece \in Piece
  BY <1>1
<1> HIDE DEF piece
<1>4. piece.kind = "style" => piece.rules \in Seq(ClassRule)
  BY <1>3 DEF Piece
<1>5. piece.kind = "tag" => piece \in [kind : {"tag"}, classes : SUBSET Class, style : Style]
  BY <1>3 DEF Piece
<1>6. QED
  BY <1>1, <1>2, <1>4, <1>5 DEF piece

\* Every piece has units, origins and rules.
LEMMA PlacedMaps ==
  /\ Maps(PieceUnits, Placed, Seq(Unit)) /\ Maps(PieceOrigins, Placed, Seq(Origin))
  /\ Maps(PieceRules, Placed, Seq(ClassRule))
<1>1. ASSUME NEW p \in Placed
      PROVE  /\ UnitsOf(p.of, Len(p.origins)) \in Seq(Unit) /\ p.origins \in Seq(Origin)
             /\ (IF IsPlainBlock(p) THEN p.of.rules ELSE <<>>) \in Seq(ClassRule)
  <2>1. p.of \in Piece /\ Len(p.origins) \in Nat /\ p.origins \in Seq(Origin)
    BY PlacedType
  <2>2. UnitsOf(p.of, Len(p.origins)) \in Seq(Unit)
    BY <2>1, UnitsType
  <2>3. p.of.kind = "style" => p.of.rules \in Seq(ClassRule)
    BY PlacedType
  <2>4. QED
    BY <2>1, <2>2, <2>3 DEF IsPlainBlock
<1>2. QED
  BY <1>1 DEF Maps, PieceUnits, PieceOrigins, PieceRules

\* The reference of the model in these terms.
LEMMA PageIs ==
  ASSUME NEW ps \in Seq(Placed)
  PROVE  HtmlOf(ps) = Total(PieceUnits, ps) /\ OriginsOf(ps) = Total(PieceOrigins, ps)
         /\ RulesOf(ps) = Total(PieceRules, ps)
<1>1. \A i \in DOMAIN ps : ps[i] \in Placed
  BY ElementOfSeq
<1>2. [i \in DOMAIN ps |-> UnitsOf(ps[i].of, Len(ps[i].origins))] = Mapped(PieceUnits, ps)
  BY <1>1 DEF Mapped, PieceUnits
<1>3. [i \in DOMAIN ps |-> ps[i].origins] = Mapped(PieceOrigins, ps)
  BY <1>1 DEF Mapped, PieceOrigins
<1>4. [i \in DOMAIN ps |-> IF IsPlainBlock(ps[i]) THEN ps[i].of.rules ELSE <<>>]
          = Mapped(PieceRules, ps)
  BY <1>1 DEF Mapped, PieceRules
<1>5. QED
  BY <1>2, <1>3, <1>4 DEF HtmlOf, OriginsOf, RulesOf, Total

\* Units and origins are in step.
LEMMA SameOffsets ==
  ASSUME NEW ps \in Seq(Placed), NEW n \in 0..Len(ps)
  PROVE  Off(PieceUnits, ps, n) = Off(PieceOrigins, ps, n)
<1> DEFINE T == {k \in 0..Len(ps) : Off(PieceUnits, ps, k) = Off(PieceOrigins, ps, k)}
           N == Len(ps)
<1>1. N \in Nat /\ n \in 0..N
  OBVIOUS
<1>2. 0 \in T
  <2>1. Upto(ps, 0) = <<>>
    BY UptoEnds
  <2>2. Off(PieceUnits, ps, 0) = Off(PieceOrigins, ps, 0)
    BY <2>1, TotalNone DEF Off
  <2>3. QED
    BY <1>1, <2>2
<1>3. ASSUME NEW k \in 0..(N - 1), k \in T PROVE k + 1 \in T
  <2> DEFINE j == k + 1  below == Upto(ps, k)  p == ps[j]
  <2>1. j \in 1..Len(ps) /\ j - 1 = k /\ k \in 0..Len(ps) /\ p \in Placed
    BY ElementOfSeq
  <2>2. Off(PieceUnits, ps, k) = Off(PieceOrigins, ps, k)
    BY <1>3
  <2> HIDE DEF j
  <2>3. Upto(ps, j) = Append(below, p)
    BY <2>1, UptoMore
  <2>4. below \in Seq(Placed)
    BY <2>1, UptoType
  <2> HIDE DEF below, p
  <2>5. Total(PieceUnits, Append(below, p)) = Cat(Total(PieceUnits, below), PieceUnits[p])
    BY <2>1, <2>4, PlacedMaps, TotalMore
  <2>6. Total(PieceOrigins, Append(below, p)) = Cat(Total(PieceOrigins, below), PieceOrigins[p])
    BY <2>1, <2>4, PlacedMaps, TotalMore
  <2> DEFINE u == Total(PieceUnits, below)  v == PieceUnits[p]
             x == Total(PieceOrigins, below)  y == PieceOrigins[p]
  <2>7. u \in Seq(Unit) /\ x \in Seq(Origin)
    BY <2>4, PlacedMaps, TotalType
  <2>8. v \in Seq(Unit) /\ y \in Seq(Origin)
    BY <2>1, PlacedMaps DEF Maps
  <2>9. Len(v) = Len(y)
    <3>1. v = UnitsOf(p.of, Len(p.origins)) /\ y = p.origins
      BY <2>1 DEF PieceUnits, PieceOrigins
    <3>2. p.of \in Piece /\ Len(p.origins) \in Nat
      BY <2>1, PlacedType
    <3> HIDE DEF v, y
    <3>3. Len(UnitsOf(p.of, Len(p.origins))) = Len(p.origins)
      BY <3>2, UnitsType
    <3>4. QED
      BY <3>1, <3>3
  <2>10. Len(u) = Len(x)
    BY <2>2 DEF Off, below
  <2> HIDE DEF u, v, x, y
  <2>11. Len(Cat(u, v)) = Len(u) + Len(v)
    BY <2>7, <2>8, CatType
  <2>12. Len(Cat(x, y)) = Len(x) + Len(y)
    BY <2>7, <2>8, CatType
  <2>13. Off(PieceUnits, ps, j) = Len(Cat(u, v)) /\ Off(PieceOrigins, ps, j) = Len(Cat(x, y))
    BY <2>3, <2>5, <2>6 DEF Off, u, v, x, y
  <2>14. j \in T
    BY <2>1, <2>9, <2>10, <2>11, <2>12, <2>13
  <2>15. QED
    BY <2>14 DEF j
<1> HIDE DEF T, N
<1>4. \A k \in 0..N : k \in T
  BY <1>1, <1>2, <1>3, Induction
<1>5. QED
  BY <1>1, <1>4 DEF T

\* The number of units of the first k pieces.
At(ps, k) == Off(PieceUnits, ps, k)

\* The page begins at 0 and ends with its last unit.
LEMMA AtEnds ==
  ASSUME NEW ps \in Seq(Placed)
  PROVE  /\ At(ps, 0) = 0 /\ At(ps, Len(ps)) = Len(HtmlOf(ps))
         /\ Len(OriginsOf(ps)) = Len(HtmlOf(ps))
         /\ HtmlOf(ps) \in Seq(Unit) /\ OriginsOf(ps) \in Seq(Origin)
         /\ RulesOf(ps) \in Seq(ClassRule)
<1> DEFINE n == Len(ps)  z == 0
<1>1. Upto(ps, z) = <<>> /\ Upto(ps, n) = ps
  BY UptoEnds
<1>2. Len(<<>>) = 0
  OBVIOUS
<1>3. At(ps, z) = 0
  BY <1>1, <1>2, TotalNone DEF At, Off
<1>4. At(ps, n) = Len(HtmlOf(ps))
  BY <1>1, PageIs DEF At, Off
<1>5. n \in 0..Len(ps)
  OBVIOUS
<1>6. Off(PieceUnits, ps, n) = Off(PieceOrigins, ps, n)
  BY <1>5, SameOffsets
<1>7. Len(OriginsOf(ps)) = At(ps, n)
  BY <1>1, <1>6, PageIs DEF At, Off
<1>8. Total(PieceUnits, ps) \in Seq(Unit)
  BY PlacedMaps, TotalType
<1>9. Total(PieceOrigins, ps) \in Seq(Origin)
  BY PlacedMaps, TotalType
<1>10. Total(PieceRules, ps) \in Seq(ClassRule)
  BY PlacedMaps, TotalType
<1>11. QED
  BY <1>3, <1>4, <1>7, <1>8, <1>9, <1>10, PageIs

\* The units of each piece are found between two offsets, in order.
LEMMA PieceInPlace ==
  ASSUME NEW ps \in Seq(Placed), NEW k \in 1..Len(ps)
  PROVE  /\ ps[k] \in Placed /\ At(ps, k - 1) \in Nat /\ At(ps, k) \in Nat
         /\ At(ps, k) - At(ps, k - 1) = Len(ps[k].origins) /\ Len(ps[k].origins) \in Nat
         /\ At(ps, k) <= Len(HtmlOf(ps))
         /\ SubSeq(HtmlOf(ps), At(ps, k - 1) + 1, At(ps, k))
                = UnitsOf(ps[k].of, Len(ps[k].origins))
         /\ SubSeq(OriginsOf(ps), At(ps, k - 1) + 1, At(ps, k)) = ps[k].origins
         /\ \A j \in 1..Len(ps[k].origins) :
              HtmlOf(ps)[At(ps, k - 1) + j]
                = [of |-> ps[k].of, part |-> j, parts |-> Len(ps[k].origins)]
<1> DEFINE p == ps[k]  n == Len(p.origins)  a == At(ps, k - 1)  b == At(ps, k)  html == HtmlOf(ps)
           origins == OriginsOf(ps)  units == UnitsOf(p.of, n)
<1>1. p \in Placed
  BY ElementOfSeq
<1>2. p.of \in Piece /\ n \in Nat /\ p.origins \in Seq(Origin)
  BY <1>1, PlacedType
<1>3. PieceUnits[p] = units /\ PieceOrigins[p] = p.origins
  BY <1>1 DEF PieceUnits, PieceOrigins
<1>4. html = Total(PieceUnits, ps) /\ origins = Total(PieceOrigins, ps)
  BY PageIs
<1>5. a = Off(PieceUnits, ps, k - 1) /\ b = Off(PieceUnits, ps, k)
  BY DEF At
<1>6. a = Off(PieceOrigins, ps, k - 1) /\ b = Off(PieceOrigins, ps, k)
  <2>1. k - 1 \in 0..Len(ps) /\ k \in 0..Len(ps)
    OBVIOUS
  <2>2. QED
    BY <1>5, <2>1, SameOffsets
<1>7. Maps(PieceUnits, Placed, Seq(Unit)) /\ Maps(PieceOrigins, Placed, Seq(Origin))
  BY PlacedMaps
<1> HIDE DEF units, n, html, origins, a, b
<1>8. Off(PieceUnits, ps, k - 1) \in Nat /\ Off(PieceUnits, ps, k) \in Nat
  BY <1>7, InPlace
<1>9. Off(PieceUnits, ps, k) - Off(PieceUnits, ps, k - 1) = Len(PieceUnits[ps[k]])
  BY <1>7, InPlace
<1>10. Off(PieceUnits, ps, k) <= Len(Total(PieceUnits, ps))
  BY <1>7, InPlace
<1>11. SubSeq(Total(PieceUnits, ps), Off(PieceUnits, ps, k - 1) + 1, Off(PieceUnits, ps, k))
           = PieceUnits[ps[k]]
  BY <1>7, InPlace
<1>12. SubSeq(Total(PieceOrigins, ps), Off(PieceOrigins, ps, k - 1) + 1,
           Off(PieceOrigins, ps, k)) = PieceOrigins[ps[k]]
  BY <1>7, InPlace
<1>13. \A j \in 1..Len(PieceUnits[ps[k]]) :
           Total(PieceUnits, ps)[Off(PieceUnits, ps, k - 1) + j] = PieceUnits[ps[k]][j]
  BY <1>7, InPlace, SMTT(30)
<1>14. Len(units) = n /\ \A j \in 1..n : units[j] = [of |-> p.of, part |-> j, parts |-> n]
  BY <1>2, UnitsType DEF units
<1>15. a \in Nat /\ b \in Nat /\ b - a = n /\ b <= Len(html)
  BY <1>3, <1>4, <1>5, <1>8, <1>9, <1>10, <1>14
<1>16. SubSeq(html, a + 1, b) = units
  BY <1>3, <1>4, <1>5, <1>11
<1>17. SubSeq(origins, a + 1, b) = p.origins
  BY <1>3, <1>4, <1>6, <1>12
<1>18. \A j \in 1..n : html[a + j] = [of |-> p.of, part |-> j, parts |-> n]
  BY <1>3, <1>4, <1>5, <1>13, <1>14
<1>19. QED
  BY <1>1, <1>2, <1>15, <1>16, <1>17, <1>18 DEF units, n, html, origins, a, b

\* Every unit is one of a piece.
LEMMA UnitFound ==
  ASSUME NEW ps \in Seq(Placed), NEW i \in 1..Len(HtmlOf(ps))
  PROVE  \E k \in 1..Len(ps) : \E j \in 1..Len(ps[k].origins) : i = At(ps, k - 1) + j
<1> DEFINE n == Len(ps)  S == {k \in 1..n : i <= At(ps, k)}  N == Len(HtmlOf(ps))
<1>1. n \in Nat /\ At(ps, 0) = 0 /\ At(ps, n) = N /\ N \in Nat /\ i \in 1..N
  BY AtEnds
<1> HIDE DEF N, n
<1>2. n # 0
  BY <1>1
<1>3. n \in S
  BY <1>1, <1>2
<1>4. S \subseteq Nat
  BY <1>1
<1> HIDE DEF S
<1>5. PICK k \in S : \A l \in S : k <= l
  BY <1>3, <1>4, Least
<1>6. k \in 1..n /\ i <= At(ps, k)
  BY <1>5 DEF S
<1> DEFINE a == At(ps, k - 1)  m == Len(ps[k].origins)
<1>7. a \in Nat /\ At(ps, k) \in Nat /\ At(ps, k) - a = m /\ m \in Nat
  BY <1>6, PieceInPlace DEF n
<1>8. a < i
  <2>1. CASE k = 1
    <3>1. k - 1 = 0
      BY <2>1
    <3>2. QED
      BY <1>1, <3>1
  <2>2. CASE k # 1
    <3> DEFINE l == k - 1
    <3>1. l \in 1..n /\ ~(k <= l)
      BY <1>1, <1>6, <2>2
    <3>2. l \notin S
      BY <1>5, <3>1
    <3>3. QED
      BY <1>1, <1>7, <3>1, <3>2 DEF S
  <2>3. QED
    BY <2>1, <2>2
<1> HIDE DEF a, m
<1>9. i - a \in 1..m /\ i = a + (i - a)
  BY <1>1, <1>6, <1>7, <1>8
<1>10. QED
  BY <1>6, <1>9 DEF a, m, n

\* A loop over the units that acts where a piece begins goes piece by piece.
Piecewise(ps, r, I) ==
  /\ r[0] \in I[0]
  /\ \A k \in 1..Len(ps) : ps[k].origins = <<>> => \A x \in I[k - 1] : x \in I[k]
  /\ \A k \in 1..Len(ps) : ps[k].origins # <<>> =>
       (r[At(ps, k - 1)] \in I[k - 1] => r[At(ps, k - 1) + 1] \in I[k])
  /\ \A i \in 1..Len(HtmlOf(ps)) : HtmlOf(ps)[i].part # 1 => r[i] = r[i - 1]

\* What it keeps from piece to piece holds at the end.
LEMMA PieceByPiece ==
  ASSUME NEW ps \in Seq(Placed), NEW r, NEW I, Piecewise(ps, r, I)
  PROVE  r[Len(HtmlOf(ps))] \in I[Len(ps)]
<1> DEFINE n == Len(ps)  N == Len(HtmlOf(ps))  T == {k \in 0..n : r[At(ps, k)] \in I[k]}
<1>1. n \in Nat /\ At(ps, 0) = 0 /\ At(ps, n) = N /\ N \in Nat
  BY AtEnds
<1>2. 0 \in T
  BY <1>1 DEF Piecewise
<1>3. ASSUME NEW k \in 0..(n - 1), k \in T PROVE k + 1 \in T
  <2> DEFINE j == k + 1  a == At(ps, k)  b == At(ps, j)  m == Len(ps[j].origins)
  <2>1. j \in 1..n /\ j - 1 = k /\ j \in 0..n
    BY <1>1
  <2> HIDE DEF j
  <2>2. At(ps, j - 1) \in Nat /\ At(ps, j) \in Nat /\ At(ps, j) - At(ps, j - 1) = m /\ m \in Nat
    BY <2>1, PieceInPlace
  <2>3. At(ps, j) <= N /\ ps[j] \in Placed
    BY <2>1, PieceInPlace
  <2>4. \A l \in 1..m : HtmlOf(ps)[At(ps, j - 1) + l] = [of |-> ps[j].of, part |-> l, parts |-> m]
    BY <2>1, PieceInPlace
  <2>5. a \in Nat /\ b \in Nat /\ b - a = m /\ b <= N /\ r[a] \in I[k]
    BY <1>3, <2>1, <2>2, <2>3
  <2>6. \A l \in 1..m : HtmlOf(ps)[a + l].part = l
    <3>1. SUFFICES ASSUME NEW l \in 1..m PROVE HtmlOf(ps)[a + l].part = l
      OBVIOUS
    <3> HIDE DEF m
    <3>2. HtmlOf(ps)[At(ps, j - 1) + l] = [of |-> ps[j].of, part |-> l, parts |-> m]
      BY <2>4
    <3>3. At(ps, j - 1) = a
      BY <2>1
    <3> HIDE DEF a
    <3>4. QED
      BY <3>2, <3>3
  <2>7. ps[j].origins = <<>> <=> m = 0
    <3>1. ps[j].origins \in Seq(Origin)
      BY <2>3, PlacedType
    <3>2. QED
      BY <3>1, EmptySeq
  <2>20. m \in Nat
    BY <2>2
  <2> HIDE DEF m, a, b
  <2>8. CASE m = 0
    <3>1. b = a
      BY <2>5, <2>8
    <3>2. r[b] \in I[j]
      BY <2>1, <2>5, <2>7, <2>8, <3>1 DEF Piecewise
    <3>3. QED
      BY <2>1, <3>2 DEF j, b
  <2>9. CASE m # 0
    <3>1. r[a + 1] \in I[j]
      BY <2>1, <2>5, <2>7, <2>9 DEF Piecewise, a
    <3> DEFINE R == {l \in 0..(m - 1) : r[a + 1 + l] \in I[j]}
    <3>2. 0 \in R
      BY <2>20, <2>5, <2>9, <3>1
    <3>3. ASSUME NEW l \in 0..(m - 1 - 1), l \in R PROVE l + 1 \in R
      <4> DEFINE c == a + 1 + l  d == c + 1
      <4>1. d \in 1..N /\ d - 1 = c /\ l + 2 \in 1..m /\ d = a + (l + 2) /\ l + 1 \in 0..(m - 1)
        BY <1>1, <2>20, <2>5
      <4>2. HtmlOf(ps)[d].part # 1
        <5> DEFINE e == l + 2
        <5>1. e \in 1..m /\ e # 1 /\ d = a + e
          BY <4>1
        <5> HIDE DEF d, e
        <5>2. QED
          BY <2>6, <5>1
      <4>3. r[c] \in I[j]
        BY <3>3
      <4> HIDE DEF d, c
      <4>4. r[d] = r[d - 1]
        BY <4>1, <4>2 DEF Piecewise
      <4>5. r[d] \in I[j]
        BY <4>1, <4>3, <4>4
      <4>6. d = a + 1 + (l + 1)
        BY <2>5 DEF c, d
      <4>7. QED
        BY <4>1, <4>5, <4>6
    <3> DEFINE q == m - 1
    <3>4. q \in Nat /\ a + 1 + q = b
      BY <2>20, <2>5, <2>9
    <3> HIDE DEF R
    <3>5. \A l \in 0..q : l \in R
      BY <3>2, <3>3, <3>4, Induction
    <3>6. r[b] \in I[j]
      BY <3>4, <3>5 DEF R
    <3>7. QED
      BY <2>1, <3>6 DEF j, b
  <2>10. QED
    BY <2>8, <2>9
<1> HIDE DEF T
<1>4. \A k \in 0..n : k \in T
  BY <1>1, <1>2, <1>3, Induction
<1>5. QED
  BY <1>1, <1>4 DEF T

\* A page put together unit by unit tells the origin of each.
LEMMA RenderedIs ==
  ASSUME NEW ps \in Seq(Placed)
  PROVE  Is(Rendered(ps), HtmlOf(ps), OriginsOf(ps))
<1> DEFINE html == HtmlOf(ps)
           origins == OriginsOf(ps)
           n == Len(html)
           Round(i, g) == AppendHtml(g, <<html[i]>>, OriginsOf(ps)[i])
           Taken(i, g) == Is(g, Upto(html, i), Upto(origins, i))
           I == [i \in 0..n |-> {g \in Html : Taken(i, g)}]
           step == [p \in (1..n) \X Html |-> Round(p[1], p[2])]
           F(f) == [k \in 0..n |-> IF k = 0 THEN NoHtml ELSE Round(k, f[k - 1])]
<1>1. html \in Seq(Unit) /\ origins \in Seq(Origin) /\ Len(origins) = n /\ n \in Nat
  BY AtEnds
<1>2. \A i \in 1..n : html[i] \in Unit /\ origins[i] \in Origin
  BY <1>1, ElementOfSeq
<1> HIDE DEF html, n
<1>3. NoHtml \in I[0]
  <2>1. Upto(html, 0) = <<>> /\ Upto(origins, 0) = <<>>
    BY <1>1, UptoEnds
  <2>2. Taken(0, NoHtml) /\ NoHtml \in Html
    BY <2>1, NoHtmlIs DEF Is
  <2> HIDE DEF Taken
  <2>3. QED
    BY <1>1, <2>2
<1>4. ASSUME NEW k \in 1..n, NEW g \in I[k - 1] PROVE g \in Html /\ Round(k, g) \in I[k]
  <2> DEFINE j == k - 1  h == Upto(html, j)  o == Upto(origins, j)  x == html[k]  y == origins[k]
             one == <<x>>  t == Round(k, g)
  <2>1. j \in 0..n /\ k \in 0..n
    BY <1>1
  <2>2. g \in Html /\ Taken(j, g)
    <3> HIDE DEF Taken
    <3>1. QED
      BY <1>4, <2>1
  <2>3. x \in Unit /\ y \in Origin
    BY <1>2
  <2>4. Upto(html, k) = Append(h, x)
    <3>1. k \in 1..Len(html)
      BY DEF n
    <3>2. QED
      BY <1>1, <3>1, UptoMore
  <2>5. Upto(origins, k) = Append(o, y)
    <3>1. k \in 1..Len(origins)
      BY <1>1
    <3> HIDE DEF origins
    <3>2. QED
      BY <1>1, <3>1, UptoMore
  <2>6. h \in Seq(Unit) /\ o \in Seq(Origin)
    BY <2>2 DEF Is, Html
  <2>7. t = AppendHtml(g, one, y)
    OBVIOUS
  <2>8. Is(g, h, o)
    BY <2>2
  <2>9. one \in Seq(Unit) /\ Len(one) = 1
    BY <2>3
  <2>10. Append(h, x) = h \o one
    BY <2>3, <2>6, AppendIsConcat
  <2>11. Append(o, y) = o \o <<y>>
    BY <2>3, <2>6, AppendIsConcat
  <2>12. Uniform(1, y) = <<y>>
    BY DEF Uniform
  <2> HIDE DEF t, one, h, o, x, y
  <2>13. Is(AppendHtml(g, one, y), h \o one, o \o Uniform(Len(one), y))
    BY <2>3, <2>8, <2>9, AppendIs
  <2>14. Taken(k, t)
    BY <2>4, <2>5, <2>7, <2>9, <2>10, <2>11, <2>12, <2>13
  <2>15. t \in Html
    BY <2>14 DEF Is
  <2> HIDE DEF Taken
  <2>16. QED
    BY <2>1, <2>2, <2>14, <2>15 DEF t
<1> HIDE DEF I, Round
<1>5. \A k \in 1..n : \A g \in I[k - 1] : step[<<k, g>>] = Round(k, g) /\ Round(k, g) \in I[k]
  BY <1>4
<1> HIDE DEF step
<1>6. PICK f : IsRecursion(f, n, NoHtml, step) /\ \A k \in 0..n : f[k] \in I[k]
  <2>1. \A k \in 1..n : \A g \in I[k - 1] : step[<<k, g>>] \in I[k]
    BY <1>5
  <2>2. QED
    BY <1>1, <1>3, <2>1, RoundsExist
<1>7. f = F(f)
  <2>1. ASSUME NEW k \in 0..n PROVE f[k] = IF k = 0 THEN NoHtml ELSE Round(k, f[k - 1])
    <3>1. k # 0 => k \in 1..n /\ k - 1 \in 0..n
      BY <1>1
    <3>2. QED
      BY <1>5, <1>6, <3>1 DEF IsRecursion
  <2>2. QED
    BY <1>6, <2>1 DEF IsRecursion
<1> DEFINE r == CHOOSE q : q = F(q)
<1>8. r = F(r)
  BY <1>7
<1>9. Rendered(ps) = r[n]
  BY DEF Rendered, Loop, Round, n, html
<1> HIDE DEF r
<1>10. \A k \in 0..n : r[k] \in I[k]
  <2>1. r[0] = NoHtml /\ \A k \in 1..n : r[k] = Round(k, r[k - 1])
    BY <1>1, <1>8
  <2>2. \A k \in 1..n : r[k - 1] \in I[k - 1] => r[k] \in I[k]
    BY <1>5, <2>1
  <2>3. r[0] \in I[0]
    BY <1>3, <2>1
  <2>4. QED
    BY <1>1, <2>2, <2>3, RoundsKeep
<1>11. Taken(n, r[n])
  <2> HIDE DEF Taken
  <2>1. QED
    BY <1>1, <1>10 DEF I
<1>12. Upto(html, n) = html /\ Upto(origins, n) = origins
  <2>1. Upto(html, Len(html)) = html
    BY <1>1, UptoEnds
  <2>2. Upto(origins, Len(origins)) = origins
    BY <1>1, UptoEnds
  <2>3. QED
    BY <1>1, <2>1, <2>2 DEF n
<1>13. QED
  BY <1>9, <1>11, <1>12 DEF html

\* A slice between two offsets that come in the wrong order is empty.
LEMMA SliceNone ==
  ASSUME NEW out, NEW g, NEW html, NEW origins, Is(g, html, origins),
         NEW start \in Nat, NEW end \in Nat, ~(start <= end)
  PROVE  AppendSlice(out, g, start, end) = out
<1> DEFINE segments == g.segments
           n == Len(segments)
           Round(k, x) ==
             LET s == segments[k]  from == Later(start, s.start)  to == Earlier(end, s.end) IN
             IF from >= to THEN x ELSE AppendHtml(x, SubSeq(g.html, from + 1, to), s.origin)
           F(f) == [k \in 0..n |-> IF k = 0 THEN out ELSE Round(k, f[k - 1])]
           same == [k \in 0..n |-> out]
           r == CHOOSE q : q = F(q)
<1>1. segments \in Seq(Stretch) /\ n \in Nat
  BY DEF Is, Html
<1>2. \A k \in 1..n : segments[k].start \in Nat /\ segments[k].end \in Nat
  <2>1. \A k \in 1..n : segments[k] \in Stretch
    BY <1>1, ElementOfSeq
  <2> HIDE DEF segments, n
  <2>2. QED
    BY <2>1 DEF Stretch
<1>3. ASSUME NEW k \in 1..n, NEW x PROVE Round(k, x) = x
  <2> HIDE DEF segments
  <2>1. Later(start, segments[k].start) >= Earlier(end, segments[k].end)
    BY <1>2 DEF Later, Earlier
  <2>2. QED
    BY <2>1
<1> HIDE DEF segments, n, Round
<1>4. same = F(same)
  <2>1. ASSUME NEW k \in 0..n PROVE same[k] = IF k = 0 THEN out ELSE Round(k, same[k - 1])
    <3>1. k # 0 => k \in 1..n /\ k - 1 \in 0..n
      BY <1>1
    <3>2. QED
      BY <1>3, <3>1
  <2>2. QED
    BY <2>1
<1>5. r = F(r)
  BY <1>4
<1>6. AppendSlice(out, g, start, end) = r[n]
  BY DEF AppendSlice, Loop, n, segments, Round
<1> HIDE DEF r
<1> DEFINE I == [k \in 0..n |-> {out}]
<1>7. \A k \in 0..n : r[k] \in I[k]
  <2>1. r[0] = out /\ \A k \in 1..n : r[k] = Round(k, r[k - 1])
    BY <1>1, <1>5
  <2>2. \A k \in 1..n : r[k - 1] \in I[k - 1] => r[k] \in I[k]
    <3>1. \A k \in 1..n : r[k] = r[k - 1]
      BY <1>3, <2>1
    <3>2. \A k \in 1..n : k - 1 \in 0..n /\ k \in 0..n
      BY <1>1
    <3>3. QED
      BY <3>1, <3>2
  <2>3. r[0] \in I[0]
    BY <1>1, <2>1
  <2> HIDE DEF I
  <2>4. QED
    BY <1>1, <2>2, <2>3, RoundsKeep
<1>8. r[n] = out
  BY <1>1, <1>7
<1>9. QED
  BY <1>6, <1>8

-----------------------------------------------------------------------------
(***************************************************************************)
(* The media rules.                                                        *)
(***************************************************************************)
\* Putting in at the seam of a concatenation.
LEMMA SplicedCat ==
  ASSUME NEW S, NEW s \in Seq(S), NEW t \in Seq(S), NEW u \in Seq(S)
  PROVE  Spliced(Cat(s, u), Len(s), t) = Cat(Cat(s, t), u)
<1> DEFINE all == Cat(s, u)
<1>1. SubSeq(all, 1, Len(s)) = s /\ SubSeq(all, Len(s) + 1, Len(s) + Len(u)) = u
  BY CatParts
<1>2. Len(all) = Len(s) + Len(u)
  BY CatType
<1> HIDE DEF all
<1>3. Spliced(all, Len(s), t) = Cat(Cat(s, t), u)
  BY <1>1, <1>2 DEF Spliced, Cat
<1>4. QED
  BY <1>3 DEF all

\* A sequence is what is before an offset and what is behind it.
LEMMA SplitAt ==
  ASSUME NEW S, NEW s \in Seq(S), NEW a \in 0..Len(s)
  PROVE  /\ Upto(s, a) \in Seq(S) /\ SubSeq(s, a + 1, Len(s)) \in Seq(S) /\ Len(Upto(s, a)) = a
         /\ s = Cat(Upto(s, a), SubSeq(s, a + 1, Len(s)))
<1>1. Upto(s, a) \in Seq(S) /\ Len(Upto(s, a)) = a
  BY UptoType
<1> DEFINE n == Len(s)
<1>2. a \in Nat /\ n \in Nat /\ a <= n /\ n <= Len(s) /\ n = Len(s)
  OBVIOUS
<1>3. SubSeq(s, a + 1, n) \in Seq(S)
  BY <1>2, PartType
<1>4. SubSeq(s, 1, a) \o SubSeq(s, a + 1, n) = SubSeq(s, 1, n)
  <2> DEFINE first == 1
  <2>1. n \in a..Len(s) /\ first \in 1..(Len(s) + 1) /\ a \in (first - 1)..Len(s)
    BY <1>2
  <2> HIDE DEF n, first
  <2>2. SubSeq(s, first, a) \o SubSeq(s, a + 1, n) = SubSeq(s, first, n)
    BY <2>1, ConcatAdjacentSubSeq
  <2>3. QED
    BY <2>2 DEF first
<1> HIDE DEF n
<1>5. SubSeq(s, 1, Len(s)) = s
  BY SubSeqFull
<1>6. QED
  BY <1>1, <1>2, <1>3, <1>4, <1>5 DEF Cat, Upto

\* Putting in nothing changes nothing.
LEMMA SplicedNone ==
  ASSUME NEW S, NEW s \in Seq(S), NEW a \in 0..Len(s)
  PROVE  Spliced(s, a, <<>>) = s
<1> DEFINE left == Upto(s, a)  right == SubSeq(s, a + 1, Len(s))  none == <<>>
<1>1. left \in Seq(S) /\ right \in Seq(S) /\ s = Cat(left, right) /\ Len(left) = a
  BY SplitAt
<1>2. none \in Seq(S)
  OBVIOUS
<1>3. Cat(left, none) = left
  BY <1>1, CatNone
<1> HIDE DEF left, right, none
<1>4. left \in Seq(S) /\ right \in Seq(S)
  BY <1>1
<1>5. Spliced(Cat(left, right), Len(left), none) = Cat(Cat(left, none), right)
  BY <1>2, <1>4, SplicedCat
<1>6. QED
  BY <1>1, <1>3, <1>5 DEF none

\* What is put in at the same offset later comes before.
LEMMA SplicedTwice ==
  ASSUME NEW S, NEW s \in Seq(S), NEW a \in 0..Len(s), NEW t \in Seq(S), NEW u \in Seq(S)
  PROVE  Spliced(Spliced(s, a, t), a, u) = Spliced(s, a, Cat(u, t))
<1> DEFINE left == Upto(s, a)  right == SubSeq(s, a + 1, Len(s))  rest == Cat(t, right)
           more == Cat(u, t)
<1>1. left \in Seq(S) /\ right \in Seq(S) /\ s = Cat(left, right) /\ Len(left) = a
  BY SplitAt
<1> HIDE DEF left, right
<1>2. left \in Seq(S) /\ right \in Seq(S)
  BY <1>1
<1>3. Spliced(Cat(left, right), Len(left), t) = Cat(Cat(left, t), right)
  BY <1>2, SplicedCat
<1>4. Cat(Cat(left, t), right) = Cat(left, rest)
  BY <1>2, CatTwice
<1>5. rest \in Seq(S) /\ more \in Seq(S)
  BY <1>2, CatType
<1>6. Cat(u, rest) = Cat(more, right)
  BY <1>2, CatTwice
<1> HIDE DEF rest, more
<1>7. Spliced(Cat(left, rest), Len(left), u) = Cat(Cat(left, u), rest)
  BY <1>2, <1>5, SplicedCat
<1>8. Cat(Cat(left, u), rest) = Cat(left, Cat(u, rest))
  BY <1>2, <1>5, CatTwice
<1>9. Cat(Cat(left, more), right) = Cat(left, Cat(more, right))
  BY <1>2, <1>5, CatTwice
<1>10. Spliced(Cat(left, right), Len(left), more) = Cat(Cat(left, more), right)
  BY <1>2, <1>5, SplicedCat
<1>11. QED
  BY <1>1, <1>3, <1>4, <1>6, <1>7, <1>8, <1>9, <1>10 DEF more

\* A piece inserted among pieces is its part put into the whole.
LEMMA TotalInserted ==
  ASSUME NEW S, NEW T, NEW h, Maps(h, S, Seq(T)), NEW s \in Seq(S), NEW j \in 0..Len(s),
         NEW x \in S
  PROVE  /\ InsertAt(s, j + 1, x) \in Seq(S)
         /\ Total(h, InsertAt(s, j + 1, x)) = Spliced(Total(h, s), Off(h, s, j), h[x])
         /\ Off(h, s, j) \in 0..Len(Total(h, s))
<1> DEFINE left == Upto(s, j)  right == SubSeq(s, j + 1, Len(s))  more == Append(left, x)
           u == Total(h, left)  v == Total(h, right)  y == h[x]
<1>1. left \in Seq(S) /\ right \in Seq(S)
  BY SplitAt
<1>2. s = Cat(left, right)
  BY SplitAt
<1>3. InsertAt(s, j + 1, x) = Cat(more, right)
  <2>1. (j + 1) - 1 = j
    OBVIOUS
  <2>2. more = left \o <<x>>
    BY <1>1, AppendIsConcat
  <2>3. QED
    BY <2>1, <2>2 DEF InsertAt, Cat, Upto
<1>4. more \in Seq(S)
  BY <1>1
<1> HIDE DEF left, right
<1>5. Total(h, more) = Cat(u, y)
  BY <1>1, TotalMore
<1> HIDE DEF more
<1>6. Total(h, Cat(more, right)) = Cat(Total(h, more), v)
  BY <1>1, <1>4, TotalCat
<1>7. Total(h, Cat(left, right)) = Cat(u, v)
  BY <1>1, TotalCat
<1>8. u \in Seq(T) /\ v \in Seq(T)
  BY <1>1, TotalType
<1>9. y \in Seq(T)
  BY DEF Maps
<1> HIDE DEF u, v, y
<1>10. Spliced(Cat(u, v), Len(u), y) = Cat(Cat(u, y), v)
  BY <1>8, <1>9, SplicedCat
<1>11. Len(u) = Off(h, s, j)
  BY DEF Off, u, left
<1>12. Cat(more, right) \in Seq(S)
  BY <1>1, <1>4, CatType
<1>13. Len(Cat(u, v)) = Len(u) + Len(v)
  BY <1>8, CatType
<1>14. Len(u) \in Nat /\ Len(v) \in Nat
  BY <1>8
<1>15. Len(u) \in 0..Len(Cat(u, v))
  BY <1>13, <1>14
<1>16. QED
  BY <1>2, <1>3, <1>5, <1>6, <1>7, <1>10, <1>11, <1>12, <1>15 DEF y

\* Later pieces begin later.
LEMMA AtRises ==
  ASSUME NEW ps \in Seq(Placed), NEW k \in 0..Len(ps), NEW l \in k..Len(ps)
  PROVE  At(ps, k) <= At(ps, l) /\ At(ps, k) \in Nat /\ At(ps, l) \in Nat
<1> DEFINE n == Len(ps)  d == l - k
           T == {i \in 0..d : At(ps, k) <= At(ps, k + i) /\ At(ps, k + i) \in Nat}
<1>1. n \in Nat /\ k \in 0..n /\ d \in Nat /\ k + d = l /\ l <= n
  OBVIOUS
<1>2. At(ps, k) \in Nat
  <2>1. CASE k = 0
    BY <2>1, AtEnds
  <2>2. CASE k # 0
    <3>1. k \in 1..Len(ps)
      BY <2>2
    <3>2. QED
      BY <3>1, PieceInPlace
  <2>3. QED
    BY <2>1, <2>2
<1>3. 0 \in T
  BY <1>1, <1>2
<1>4. ASSUME NEW i \in 0..(d - 1), i \in T PROVE i + 1 \in T
  <2> DEFINE j == k + i + 1
  <2>1. j \in 1..n /\ j - 1 = k + i /\ j = k + (i + 1) /\ i + 1 \in 0..d
    BY <1>1
  <2> HIDE DEF j
  <2>2. At(ps, j - 1) \in Nat /\ At(ps, j) \in Nat
    BY <2>1, PieceInPlace DEF n
  <2>3. At(ps, j) - At(ps, j - 1) = Len(ps[j].origins) /\ Len(ps[j].origins) \in Nat
    BY <2>1, PieceInPlace DEF n
  <2>4. At(ps, k) <= At(ps, j - 1)
    BY <1>4, <2>1
  <2>5. At(ps, k) <= At(ps, j)
    BY <1>2, <2>2, <2>3, <2>4
  <2>6. QED
    BY <2>1, <2>2, <2>5
<1> HIDE DEF T, d
<1>5. \A i \in 0..d : i \in T
  BY <1>1, <1>3, <1>4, Induction
<1>6. QED
  BY <1>1, <1>2, <1>5 DEF T

\* The least element is the minimum.
LEMMA LeastIs ==
  ASSUME NEW S, NEW m \in S, S \subseteq Int, \A k \in S : m <= k
  PROVE  Min(S) = m
<1>1. Min(S) \in S /\ \A k \in S : Min(S) <= k
  BY DEF Min
<1>2. Min(S) <= m /\ m <= Min(S) /\ Min(S) \in Int /\ m \in Int
  BY <1>1
<1>3. QED
  BY <1>2

\* The first unit of a piece says that it starts there.
LEMMA PieceStarts ==
  ASSUME NEW ps \in Seq(Placed), NEW k \in 1..Len(ps), ps[k].origins # <<>>
  PROVE  /\ At(ps, k - 1) + 1 \in 1..Len(HtmlOf(ps))
         /\ HtmlOf(ps)[At(ps, k - 1) + 1]
              = [of |-> ps[k].of, part |-> 1, parts |-> Len(ps[k].origins)]
<1> DEFINE a == At(ps, k - 1)  b == At(ps, k)  m == Len(ps[k].origins)
           N == Len(HtmlOf(ps))  one == 1
<1>1. a \in Nat /\ b \in Nat /\ b - a = m
  BY PieceInPlace
<1>2. m \in Nat /\ b <= N /\ ps[k] \in Placed
  BY PieceInPlace
<1>3. \A j \in 1..m : HtmlOf(ps)[a + j] = [of |-> ps[k].of, part |-> j, parts |-> m]
  BY PieceInPlace
<1>4. N \in Nat
  BY AtEnds
<1>5. m # 0
  <2>1. ps[k].origins \in Seq(Origin)
    BY <1>2, PlacedType
  <2>2. QED
    BY <2>1, EmptySeq
<1> HIDE DEF a, b, m, N, one
<1>6. one \in 1..m /\ a + one \in 1..N
  BY <1>1, <1>2, <1>4, <1>5 DEF one
<1>7. HtmlOf(ps)[a + one] = [of |-> ps[k].of, part |-> one, parts |-> m]
  BY <1>3, <1>6
<1>8. QED
  BY <1>6, <1>7 DEF a, m, N, one

\* Where a unit says that a piece starts, one does.
LEMMA StartFound ==
  ASSUME NEW ps \in Seq(Placed), NEW i \in 1..Len(HtmlOf(ps)), HtmlOf(ps)[i].part = 1
  PROVE  \E k \in 1..Len(ps) : /\ i = At(ps, k - 1) + 1 /\ ps[k].origins # <<>>
                               /\ HtmlOf(ps)[i].of = ps[k].of
                               /\ HtmlOf(ps)[i].parts = Len(ps[k].origins)
<1>0. PICK k \in 1..Len(ps) : \E j \in 1..Len(ps[k].origins) : i = At(ps, k - 1) + j
  BY UnitFound
<1>1. PICK j \in 1..Len(ps[k].origins) : i = At(ps, k - 1) + j
  BY <1>0
<1> DEFINE a == At(ps, k - 1)  m == Len(ps[k].origins)
<1>2. \A l \in 1..m : HtmlOf(ps)[a + l] = [of |-> ps[k].of, part |-> l, parts |-> m]
  BY PieceInPlace
<1>3. ps[k] \in Placed
  BY PieceInPlace
<1>4. ps[k].origins # <<>>
  BY <1>1
<1> HIDE DEF a, m
<1>5. HtmlOf(ps)[a + j] = [of |-> ps[k].of, part |-> j, parts |-> m]
  BY <1>1, <1>2 DEF m
<1>6. i = a + j
  BY <1>1 DEF a
<1>7. j = 1
  BY <1>5, <1>6
<1>8. QED
  BY <1>4, <1>5, <1>6, <1>7 DEF a, m

\* Pieces that each have a unit.
Filled(ps) == ps \in Seq(Placed) /\ \A k \in 1..Len(ps) : ps[k].origins # <<>>

\* Where a </head> stands, among the units and among the pieces.
HeadUnits(html) == {i \in DOMAIN html : html[i].of.kind = "head" /\ html[i].part = 1}
HeadPieces(ps) == {k \in DOMAIN ps : ps[k].of.kind = "head"}
FirstOf(heads) == IF heads = {} THEN 0 ELSE Min(heads) - 1

\* The first </head> is found at the offset of its piece, or neither is found.
LEMMA FirstHead ==
  ASSUME NEW ps, Filled(ps)
  PROVE  /\ FirstOf(HeadPieces(ps)) \in 0..Len(ps)
         /\ FirstOf(HeadUnits(HtmlOf(ps))) = At(ps, FirstOf(HeadPieces(ps)))
         /\ HeadPieces(ps) = {} => FirstOf(HeadPieces(ps)) = 0
         /\ HeadPieces(ps) # {} => FirstOf(HeadPieces(ps)) + 1 = Min(HeadPieces(ps))
<1> DEFINE html == HtmlOf(ps)  N == Len(html)  n == Len(ps)  here == HeadPieces(ps)
           there == HeadUnits(html)
<1>1. ps \in Seq(Placed) /\ n \in Nat /\ DOMAIN ps = 1..n
  BY DEF Filled
<1>2. html \in Seq(Unit) /\ N \in Nat /\ DOMAIN html = 1..N /\ At(ps, 0) = 0
  <2>1. html \in Seq(Unit) /\ At(ps, 0) = 0
    BY <1>1, AtEnds
  <2> HIDE DEF html
  <2>2. QED
    BY <2>1
<1>3. ASSUME NEW i \in there PROVE \E k \in here : i = At(ps, k - 1) + 1
  <2>1. i \in 1..Len(HtmlOf(ps)) /\ HtmlOf(ps)[i].part = 1 /\ HtmlOf(ps)[i].of.kind = "head"
    BY <1>2 DEF HeadUnits
  <2>2. PICK k \in 1..Len(ps) : i = At(ps, k - 1) + 1 /\ HtmlOf(ps)[i].of = ps[k].of
    BY <1>1, <2>1, StartFound
  <2>3. k \in here
    BY <1>1, <2>1, <2>2 DEF HeadPieces
  <2>4. QED
    BY <2>2, <2>3
<1>4. ASSUME NEW k \in here PROVE At(ps, k - 1) + 1 \in there
  <2>1. k \in 1..n /\ ps[k].of.kind = "head"
    BY <1>1 DEF HeadPieces
  <2>2. ps[k].origins # <<>>
    BY <2>1 DEF Filled
  <2> DEFINE i == At(ps, k - 1) + 1
  <2>3. i \in 1..Len(HtmlOf(ps))
    BY <1>1, <2>1, <2>2, PieceStarts
  <2>4. HtmlOf(ps)[i] = [of |-> ps[k].of, part |-> 1, parts |-> Len(ps[k].origins)]
    BY <1>1, <2>1, <2>2, PieceStarts
  <2> HIDE DEF i
  <2>5. i \in there
    BY <1>2, <2>1, <2>3, <2>4 DEF HeadUnits
  <2>6. QED
    BY <2>5 DEF i
<1>5. here \subseteq 1..n /\ there \subseteq 1..N
  BY <1>1, <1>2 DEF HeadPieces, HeadUnits
<1> HIDE DEF html, N, n, here, there
<1>6. CASE here = {}
  <2>1. there = {}
    BY <1>3, <1>6
  <2>2. FirstOf(here) = 0 /\ FirstOf(there) = 0
    BY <1>6, <2>1 DEF FirstOf
  <2>3. QED
    BY <1>1, <1>2, <1>6, <2>2 DEF here, there, html, n
<1>7. CASE here # {}
  <2>1. here \subseteq Nat
    BY <1>5
  <2>2. PICK j \in here : \A k \in here : j <= k
    BY <1>7, <2>1, Least
  <2>3. here \subseteq Int /\ there \subseteq Int
    BY <1>5
  <2>4. Min(here) = j
    BY <2>2, <2>3, LeastIs
  <2> DEFINE i == At(ps, j - 1) + 1
  <2>5. i \in there
    BY <1>4
  <2>6. ASSUME NEW l \in there PROVE i <= l
    <3>1. PICK k \in here : l = At(ps, k - 1) + 1
      BY <1>3
    <3> DEFINE a == j - 1  b == k - 1
    <3>2. a \in 0..Len(ps) /\ b \in a..Len(ps)
      <4>1. j <= k /\ j \in 1..n /\ k \in 1..n
        BY <1>5, <2>2
      <4>2. QED
        BY <4>1, <1>1 DEF n
    <3> HIDE DEF a, b
    <3>3. At(ps, a) <= At(ps, b) /\ At(ps, a) \in Nat /\ At(ps, b) \in Nat
      BY <1>1, <3>2, AtRises
    <3>4. At(ps, a) + 1 <= At(ps, b) + 1
      BY <3>3
    <3>5. QED
      BY <3>1, <3>4 DEF a, b
  <2> HIDE DEF i
  <2>7. Min(there) = i
    BY <2>3, <2>5, <2>6, LeastIs
  <2>8. there # {}
    BY <2>5
  <2>9. FirstOf(here) = j - 1
    BY <1>7, <2>4 DEF FirstOf
  <2>10. j - 1 \in 0..n /\ j \in 1..n
    BY <1>1, <1>5
  <2>11. At(ps, j - 1) \in Nat
    <3>1. j \in 1..Len(ps)
      BY <2>10 DEF n
    <3>2. QED
      BY <1>1, <3>1, PieceInPlace
  <2>12. FirstOf(there) = At(ps, j - 1)
    BY <2>7, <2>8, <2>11 DEF FirstOf, i
  <2>13. FirstOf(here) + 1 = Min(here)
    BY <2>4, <2>9, <2>10
  <2>14. QED
    BY <1>7, <2>9, <2>10, <2>12, <2>13 DEF here, there, html, n
<1>8. QED
  BY <1>6, <1>7

\* The origins of the media block.
LEMMA MediaOriginsType ==
  ASSUME NEW media \in Seq(Source), media # <<>>
  PROVE  MediaOrigins(media) \in Seq(Origin) /\ MediaOrigins(media) # <<>>
<1> DEFINE x == media[1]  y == media[Len(media)]
<1>1. x \in Origin /\ y \in Origin
  <2>1. 1 \in 1..Len(media) /\ Len(media) \in 1..Len(media)
    BY EmptySeq
  <2>2. x \in Source /\ y \in Source
    BY <2>1, ElementOfSeq
  <2>3. QED
    BY <2>2 DEF Origin
<1>2. media \in Seq(Origin)
  BY DEF Origin
<1> HIDE DEF x, y
<1> DEFINE left == <<x>> \o media  right == <<y>>
<1>3. left \in Seq(Origin) /\ right \in Seq(Origin) /\ Len(right) = 1
  BY <1>1, <1>2
<1> HIDE DEF left, right
<1>4. left \o right \in Seq(Origin) /\ Len(left \o right) = Len(left) + Len(right)
  BY <1>3, ConcatProperties
<1>5. MediaOrigins(media) = left \o right
  BY DEF MediaOrigins, Last, x, y, left, right
<1>6. Len(left) \in Nat
  BY <1>3
<1>7. Len(left \o right) # 0
  BY <1>3, <1>4, <1>6
<1>8. QED
  BY <1>4, <1>5, <1>7, EmptySeq

\* The media rules are put in as one piece.
LEMMA MediaIs ==
  ASSUME NEW ps, Filled(ps), NEW media \in Seq(Source)
  PROVE  /\ Filled(WithMedia(ps, media))
         /\ media # <<>> =>
              LET block == [of |-> MediaBlock, origins |-> MediaOrigins(media)]
                  j == FirstOf(HeadPieces(ps))
              IN /\ block \in Placed
                 /\ WithMedia(ps, media) = InsertAt(ps, j + 1, block)
<1>1. CASE media = <<>>
  BY <1>1 DEF WithMedia
<1>2. CASE media # <<>>
  <2> DEFINE block == [of |-> MediaBlock, origins |-> MediaOrigins(media)]
             j == FirstOf(HeadPieces(ps))  n == Len(ps)
             all == InsertAt(ps, j + 1, block)
  <2>1. ps \in Seq(Placed) /\ n \in Nat /\ j \in 0..n
    BY FirstHead DEF Filled
  <2>2. block \in Placed /\ block.origins # <<>>
    <3>1. MediaBlock \in Piece
      BY DEF MediaBlock, Piece
    <3>2. MediaOrigins(media) \in Seq(Origin) /\ MediaOrigins(media) # <<>>
      BY <1>2, MediaOriginsType
    <3>3. QED
      BY <3>1, <3>2 DEF Placed
  <2>3. WithMedia(ps, media) = all
    <3> DEFINE heads == HeadPieces(ps)
    <3>1. WithMedia(ps, media) = InsertAt(ps, IF heads = {} THEN 1 ELSE Min(heads), block)
      BY <1>2 DEF WithMedia, HeadPieces
    <3>2. (IF heads = {} THEN 1 ELSE Min(heads)) = j + 1
      <4>1. heads = {} => j = 0
        BY FirstHead
      <4>2. heads # {} => j + 1 = Min(heads)
        BY FirstHead
      <4> HIDE DEF heads, j
      <4>3. QED
        BY <4>1, <4>2
    <3> HIDE DEF block
    <3>3. QED
      BY <3>1, <3>2
  <2> HIDE DEF block, j
  <2>4. Filled(all)
    <3> DEFINE left == Upto(ps, j)  right == SubSeq(ps, j + 1, n)  more == Append(left, block)
    <3>1. left \in Seq(Placed) /\ right \in Seq(Placed) /\ Len(left) = j
      BY <2>1, SplitAt
    <3>2. \A i \in 1..j : left[i] = ps[i]
      BY <2>1, UptoType
    <3>3. Len(right) = n - j /\ \A i \in 1..(n - j) : right[i] = ps[j + i]
      BY <2>1, PartType
    <3>4. all = Cat(more, right)
      <4>1. more = left \o <<block>>
        BY <2>2, <3>1, AppendIsConcat
      <4>2. (j + 1) - 1 = j
        BY <2>1
      <4>3. QED
        BY <4>1, <4>2 DEF InsertAt, Cat, Upto
    <3> HIDE DEF left, right
    <3>5. more \in Seq(Placed) /\ Len(more) = j + 1
      BY <2>2, <3>1
    <3>6. \A i \in 1..(j + 1) : more[i].origins # <<>>
      <4>1. more[j + 1] = block /\ \A i \in 1..j : more[i] = left[i]
        BY <2>1, <2>2, <3>1
      <4> HIDE DEF more
      <4>2. SUFFICES ASSUME NEW i \in 1..(j + 1) PROVE more[i].origins # <<>>
        OBVIOUS
      <4>3. CASE i = j + 1
        BY <2>2, <4>1, <4>3
      <4>4. CASE i # j + 1
        <5>1. i \in 1..j /\ i \in 1..n
          BY <2>1, <4>4
        <5>2. more[i] = ps[i]
          BY <3>2, <4>1, <5>1
        <5>3. QED
          BY <5>1, <5>2 DEF Filled
      <4>5. QED
        BY <4>3, <4>4
    <3>7. \A i \in 1..(n - j) : right[i].origins # <<>>
      <4>1. SUFFICES ASSUME NEW i \in 1..(n - j) PROVE right[i].origins # <<>>
        OBVIOUS
      <4>2. j + i \in 1..n /\ right[i] = ps[j + i]
        BY <2>1, <3>3
      <4> DEFINE l == j + i
      <4> HIDE DEF l
      <4>3. l \in 1..n /\ right[i] = ps[l]
        BY <4>2 DEF l
      <4>4. QED
        BY <4>3 DEF Filled
    <3> HIDE DEF more, all
    <3>8. Cat(more, right) \in Seq(Placed)
      BY <3>1, <3>5, CatType
    <3>9. Len(Cat(more, right)) = Len(more) + Len(right)
      BY <3>1, <3>5, CatType
    <3>10. \A i \in 1..(Len(more) + Len(right)) :
             Cat(more, right)[i] = IF i <= Len(more) THEN more[i] ELSE right[i - Len(more)]
      BY <3>1, <3>5, CatType
    <3>11. ASSUME NEW i \in 1..Len(all) PROVE all[i].origins # <<>>
      <4>1. i \in 1..(Len(more) + Len(right))
        BY <3>4, <3>9
      <4>2. CASE i <= Len(more)
        <5>1. all[i] = more[i] /\ i \in 1..(j + 1)
          BY <3>4, <3>5, <3>10, <4>1, <4>2
        <5>2. QED
          BY <3>6, <5>1
      <4>3. CASE ~(i <= Len(more))
        <5> DEFINE l == i - Len(more)
        <5>1. all[i] = right[l]
          BY <3>4, <3>10, <4>1, <4>3
        <5>2. l \in 1..(n - j)
          BY <2>1, <3>3, <3>5, <4>1, <4>3
        <5> HIDE DEF l
        <5>3. QED
          BY <3>7, <5>1, <5>2
      <4>4. QED
        BY <4>2, <4>3
    <3>12. QED
      BY <3>4, <3>8, <3>11 DEF Filled
  <2>5. QED
    BY <1>2, <2>2, <2>3, <2>4 DEF block, j
<1>3. QED
  BY <1>1, <1>2

\* The last k elements.
Rear(s, k) == SubSeq(s, Len(s) + 1 - k, Len(s))

\* One more of the last elements.
LEMMA RearMore ==
  ASSUME NEW S, NEW s \in Seq(S), NEW k \in 1..Len(s)
  PROVE  /\ Rear(s, k - 1) \in Seq(S) /\ s[Len(s) + 1 - k] \in S
         /\ Rear(s, k) = Cat(<<s[Len(s) + 1 - k]>>, Rear(s, k - 1))
<1> DEFINE n == Len(s)  m == n + 1 - k  a == n - (k - 1)
<1>1. n \in Nat /\ m \in 1..n /\ n \in m..n /\ m + 1 = n + 1 - (k - 1) /\ n = Len(s)
  OBVIOUS
<1>2. a \in Nat /\ a <= n /\ a + 1 = n + 1 - (k - 1)
  OBVIOUS
<1>3. s[m] \in S
  BY <1>1, ElementOfSeq
<1> HIDE DEF m, n, a
<1>4. SubSeq(s, a + 1, n) \in Seq(S)
  BY <1>1, <1>2, PartType
<1>5. m \in 1..Len(s) /\ n \in m..Len(s)
  BY <1>1
<1>6. SubSeq(s, m, n) = <<s[m]>> \o SubSeq(s, m + 1, n)
  BY <1>5, SubSeqRecursiveFirst
<1>7. QED
  BY <1>1, <1>2, <1>3, <1>4, <1>6 DEF Rear, Cat, m, n

\* None of them and all of them.
LEMMA RearEnds ==
  ASSUME NEW S, NEW s \in Seq(S)
  PROVE  Rear(s, 0) = <<>> /\ Rear(s, Len(s)) = s
<1>1. SubSeq(s, Len(s) + 1, Len(s)) = <<>>
  BY SubSeqEmpty
<1>2. SubSeq(s, 1, Len(s)) = s
  BY SubSeqFull
<1>3. Len(s) + 1 - 0 = Len(s) + 1 /\ Len(s) + 1 - Len(s) = 1
  OBVIOUS
<1>4. QED
  BY <1>1, <1>2, <1>3 DEF Rear

\* The media rules put in one after the other at the same offset come out as one
\* block in the order of the registry, in front of the first </head> or of all,
\* and each rule keeps its origin (compiler.cpp:94-121).
THEOREM InsertMediaIs ==
  ASSUME NEW ps, Filled(ps), NEW g, Is(g, HtmlOf(ps), OriginsOf(ps)), NEW media \in Seq(Source)
  PROVE  Is(InsertMedia(g, media), HtmlOf(WithMedia(ps, media)), OriginsOf(WithMedia(ps, media)))
<1>1. CASE media = <<>>
  BY <1>1 DEF InsertMedia, WithMedia
<1>2. CASE media # <<>>
  <2> DEFINE o == MediaOrigins(media)
             n == Len(o)
             units == UnitsOf(MediaBlock, n)
             html == HtmlOf(ps)
             origins == OriginsOf(ps)
             heads == {i \in DOMAIN g.html : StartsAt(g, "head", i)}
             position == IF heads = {} THEN 0 ELSE Min(heads) - 1
             Put(k, h) == LET i == n + 1 - k IN InsertHtml(h, position, <<units[i]>>, o[i])
             Taken(k, h) ==
               Is(h, Spliced(html, position, Rear(units, k)),
                   Spliced(origins, position, Rear(o, k)))
             I == [k \in 0..n |-> {h \in Html : Taken(k, h)}]
             step == [p \in (1..n) \X Html |-> Put(p[1], p[2])]
             F(f) == [k \in 0..n |-> IF k = 0 THEN g ELSE Put(k, f[k - 1])]
             j == FirstOf(HeadPieces(ps))
             block == [of |-> MediaBlock, origins |-> o]
  <2>1. ps \in Seq(Placed)
    BY DEF Filled
  <2>2. /\ html \in Seq(Unit) /\ origins \in Seq(Origin) /\ Len(origins) = Len(html)
        /\ Len(html) \in Nat /\ g.html = html
    BY <2>1, AtEnds DEF Is
  <2>3. o \in Seq(Origin) /\ n \in Nat
    BY <1>2, MediaOriginsType
  <2>4. units \in Seq(Unit) /\ Len(units) = n
    <3>1. MediaBlock \in Piece
      BY DEF MediaBlock, Piece
    <3>2. QED
      BY <2>3, <3>1, UnitsType
  <2>5. position = At(ps, j) /\ j \in 0..Len(ps)
    <3>1. heads = HeadUnits(html)
      BY <2>2 DEF HeadUnits, StartsAt
    <3>2. position = FirstOf(HeadUnits(html))
      BY <3>1 DEF FirstOf
    <3>3. QED
      BY <3>2, FirstHead
  <2>6. block \in Placed /\ WithMedia(ps, media) = InsertAt(ps, j + 1, block)
    BY <1>2, MediaIs
  <2>7. PieceUnits[block] = units /\ PieceOrigins[block] = o
    BY <2>6 DEF PieceUnits, PieceOrigins
  <2> HIDE DEF block, j
  <2>8. Maps(PieceUnits, Placed, Seq(Unit)) /\ Maps(PieceOrigins, Placed, Seq(Origin))
    BY PlacedMaps
  <2>9. /\ Total(PieceUnits, InsertAt(ps, j + 1, block))
               = Spliced(Total(PieceUnits, ps), Off(PieceUnits, ps, j), PieceUnits[block])
        /\ Off(PieceUnits, ps, j) \in 0..Len(Total(PieceUnits, ps))
    BY <2>1, <2>5, <2>6, <2>8, TotalInserted
  <2>10. Total(PieceOrigins, InsertAt(ps, j + 1, block))
           = Spliced(Total(PieceOrigins, ps), Off(PieceOrigins, ps, j), PieceOrigins[block])
    BY <2>1, <2>5, <2>6, <2>8, TotalInserted
  <2>11. InsertAt(ps, j + 1, block) \in Seq(Placed)
    BY <2>1, <2>5, <2>6, <2>8, TotalInserted
  <2>12. Off(PieceUnits, ps, j) = Off(PieceOrigins, ps, j)
    BY <2>1, <2>5, SameOffsets
  <2>13. position \in 0..Len(html)
    BY <2>1, <2>5, <2>9, PageIs DEF At
  <2>14. HtmlOf(WithMedia(ps, media)) = Spliced(html, position, units)
    BY <2>1, <2>5, <2>6, <2>7, <2>9, <2>11, PageIs DEF At
  <2>15. OriginsOf(WithMedia(ps, media)) = Spliced(origins, position, o)
    BY <2>1, <2>5, <2>6, <2>7, <2>10, <2>11, <2>12, PageIs DEF At
  <2> HIDE DEF html, origins, units, o, n, position, heads
  <2>16. g \in I[0]
    <3>1. Rear(units, 0) = <<>>
      BY <2>4, RearEnds
    <3>2. Rear(o, 0) = <<>>
      BY <2>3, RearEnds
    <3>3. position \in 0..Len(origins)
      BY <2>2, <2>13
    <3>4. Spliced(html, position, <<>>) = html
      BY <2>2, <2>13, SplicedNone
    <3>5. Spliced(origins, position, <<>>) = origins
      BY <2>2, <3>3, SplicedNone
    <3>6. Taken(0, g)
      BY <3>1, <3>2, <3>4, <3>5 DEF html, origins
    <3>7. g \in Html
      BY DEF Is
    <3> HIDE DEF Taken
    <3>8. QED
      BY <2>3, <3>6, <3>7
  <2>17. ASSUME NEW k \in 1..n, NEW h \in I[k - 1] PROVE h \in Html /\ Put(k, h) \in I[k]
    <3> DEFINE l == k - 1  i == n + 1 - k  u == units[i]  v == o[i]  one == <<u>>  from == <<v>>
               s == Rear(units, l)  t == Rear(o, l)  x == Spliced(html, position, s)
               y == Spliced(origins, position, t)  more == Put(k, h)
    <3>1. l \in 0..n /\ k \in 0..n
      BY <2>3
    <3>2. h \in Html /\ Taken(l, h)
      <4> HIDE DEF Taken
      <4>1. QED
        BY <2>17, <3>1
    <3>3. k \in 1..Len(units) /\ k \in 1..Len(o)
      BY <2>4 DEF n
    <3>4. s \in Seq(Unit) /\ units[Len(units) + 1 - k] \in Unit
      BY <2>4, <3>3, RearMore
    <3>5. Rear(units, k) = Cat(<<units[Len(units) + 1 - k]>>, Rear(units, k - 1))
      BY <2>4, <3>3, RearMore
    <3>6. t \in Seq(Origin) /\ o[Len(o) + 1 - k] \in Origin
      BY <2>3, <3>3, RearMore
    <3>7. Rear(o, k) = Cat(<<o[Len(o) + 1 - k]>>, Rear(o, k - 1))
      BY <2>3, <3>3, RearMore
    <3>8. u \in Unit /\ Rear(units, k) = Cat(one, s)
      BY <2>4, <3>4, <3>5
    <3>9. v \in Origin /\ Rear(o, k) = Cat(from, t)
      BY <3>6, <3>7 DEF n
    <3>10. more = InsertHtml(h, position, one, v)
      OBVIOUS
    <3>11. one \in Seq(Unit) /\ Len(one) = 1 /\ from \in Seq(Origin)
      BY <3>8, <3>9
    <3>12. Uniform(1, v) = from
      BY DEF Uniform
    <3>13. Is(h, x, y)
      BY <3>2
    <3>14. position <= Len(x) /\ position \in Nat
      <4>1. html \in Seq(Unit) /\ position \in Nat /\ position <= Len(html)
        BY <2>2, <2>13
      <4>2. Len(Spliced(html, position, s)) = Len(html) + Len(s)
        BY <3>4, <4>1, SplicedType
      <4>3. Len(s) \in Nat
        BY <3>4
      <4>4. QED
        BY <2>2, <4>1, <4>2, <4>3
    <3> HIDE DEF one, from, u, v, s, t, more, l, i
    <3>15. Spliced(x, position, one) = Spliced(html, position, Cat(one, s))
      BY <2>2, <2>13, <3>4, <3>11, SplicedTwice
    <3>16. Spliced(y, position, from) = Spliced(origins, position, Cat(from, t))
      <4>1. position \in 0..Len(origins) /\ t \in Seq(Origin)
        BY <2>2, <2>13, <3>6 DEF t, l
      <4>2. QED
        BY <2>2, <3>11, <4>1, SplicedTwice
    <3> HIDE DEF x, y
    <3>17. Is(InsertHtml(h, position, one, v), Spliced(x, position, one),
              Spliced(y, position, Uniform(Len(one), v)))
      BY <3>9, <3>11, <3>13, <3>14, InsertIs
    <3>18. Taken(k, more)
      BY <3>8, <3>9, <3>10, <3>11, <3>12, <3>15, <3>16, <3>17
    <3>19. more \in Html
      BY <3>18 DEF Is
    <3> HIDE DEF Taken
    <3>20. QED
      BY <3>1, <3>2, <3>18, <3>19 DEF more
  <2> HIDE DEF I, Put
  <2>18. \A k \in 1..n : \A h \in I[k - 1] : step[<<k, h>>] = Put(k, h) /\ Put(k, h) \in I[k]
    BY <2>17
  <2> HIDE DEF step
  <2>19. PICK f : IsRecursion(f, n, g, step) /\ \A k \in 0..n : f[k] \in I[k]
    <3>1. \A k \in 1..n : \A h \in I[k - 1] : step[<<k, h>>] \in I[k]
      BY <2>18
    <3>2. QED
      BY <2>3, <2>16, <3>1, RoundsExist
  <2>20. f = F(f)
    <3>1. ASSUME NEW k \in 0..n PROVE f[k] = IF k = 0 THEN g ELSE Put(k, f[k - 1])
      <4>1. k # 0 => k \in 1..n /\ k - 1 \in 0..n
        BY <2>3
      <4>2. QED
        BY <2>18, <2>19, <4>1 DEF IsRecursion
    <3>2. QED
      BY <2>19, <3>1 DEF IsRecursion
  <2> DEFINE r == CHOOSE q : q = F(q)
  <2>21. r = F(r)
    BY <2>20
  <2>22. InsertMedia(g, media) = r[n]
    BY <1>2 DEF InsertMedia, Loop, Put, n, o, units, position, heads
  <2> HIDE DEF r
  <2>23. \A k \in 0..n : r[k] \in I[k]
    <3>1. r[0] = g /\ \A k \in 1..n : r[k] = Put(k, r[k - 1])
      BY <2>3, <2>21
    <3>2. \A k \in 1..n : r[k - 1] \in I[k - 1] => r[k] \in I[k]
      BY <2>18, <3>1
    <3>3. r[0] \in I[0]
      BY <2>16, <3>1
    <3>4. QED
      BY <2>3, <3>2, <3>3, RoundsKeep
  <2>24. Taken(n, r[n])
    <3> HIDE DEF Taken
    <3>1. QED
      BY <2>3, <2>23 DEF I
  <2>25. Rear(units, n) = units /\ Rear(o, n) = o
    <3>1. Rear(units, Len(units)) = units
      BY <2>4, RearEnds
    <3>2. Rear(o, Len(o)) = o
      BY <2>3, RearEnds
    <3>3. QED
      BY <2>4, <3>1, <3>2 DEF n
  <2>26. QED
    BY <2>14, <2>15, <2>22, <2>24, <2>25
<1>3. QED
  BY <1>1, <1>2

-----------------------------------------------------------------------------
(***************************************************************************)
(* inline_css.                                                             *)
(***************************************************************************)
\* The page up to one more piece.
LEMMA PageMore ==
  ASSUME NEW ps \in Seq(Placed), NEW k \in 1..Len(ps)
  PROVE  /\ HtmlOf(Upto(ps, k))
              = Cat(HtmlOf(Upto(ps, k - 1)), UnitsOf(ps[k].of, Len(ps[k].origins)))
         /\ OriginsOf(Upto(ps, k)) = Cat(OriginsOf(Upto(ps, k - 1)), ps[k].origins)
         /\ RulesOf(Upto(ps, k))
              = Cat(RulesOf(Upto(ps, k - 1)), IF IsPlainBlock(ps[k]) THEN ps[k].of.rules
                  ELSE <<>>)
<1> DEFINE below == Upto(ps, k - 1)  p == ps[k]
<1>1. Upto(ps, k) = Append(below, p)
  BY UptoMore
<1>2. p \in Placed
  BY ElementOfSeq
<1>3. below \in Seq(Placed)
  <2>1. k - 1 \in 0..Len(ps)
    OBVIOUS
  <2>2. QED
    BY <2>1, UptoType
<1>4. Append(below, p) \in Seq(Placed)
  BY <1>2, <1>3
<1> HIDE DEF below, p
<1>5. Total(PieceUnits, Append(below, p)) = Cat(Total(PieceUnits, below), PieceUnits[p])
  BY <1>2, <1>3, PlacedMaps, TotalMore
<1>6. Total(PieceOrigins, Append(below, p)) = Cat(Total(PieceOrigins, below), PieceOrigins[p])
  BY <1>2, <1>3, PlacedMaps, TotalMore
<1>7. Total(PieceRules, Append(below, p)) = Cat(Total(PieceRules, below), PieceRules[p])
  BY <1>2, <1>3, PlacedMaps, TotalMore
<1>8. PieceUnits[p] = UnitsOf(p.of, Len(p.origins))
  BY <1>2 DEF PieceUnits
<1>9. PieceOrigins[p] = p.origins
  BY <1>2 DEF PieceOrigins
<1>10. PieceRules[p] = IF IsPlainBlock(p) THEN p.of.rules ELSE <<>>
  BY <1>2 DEF PieceRules
<1>11. HtmlOf(Append(below, p)) = Total(PieceUnits, Append(below, p)) /\
           HtmlOf(below) = Total(PieceUnits, below)
  BY <1>3, <1>4, PageIs
<1>12. /\ OriginsOf(Append(below, p)) = Total(PieceOrigins, Append(below, p))
       /\ OriginsOf(below) = Total(PieceOrigins, below)
  BY <1>3, <1>4, PageIs
<1>13. RulesOf(Append(below, p)) = Total(PieceRules, Append(below, p)) /\
           RulesOf(below) = Total(PieceRules, below)
  BY <1>3, <1>4, PageIs
<1>14. HtmlOf(Append(below, p)) = Cat(HtmlOf(below), UnitsOf(p.of, Len(p.origins)))
  BY <1>5, <1>8, <1>11
<1>15. OriginsOf(Append(below, p)) = Cat(OriginsOf(below), p.origins)
  BY <1>6, <1>9, <1>12
<1>16. RulesOf(Append(below, p))
           = Cat(RulesOf(below), IF IsPlainBlock(p) THEN p.of.rules ELSE <<>>)
  BY <1>7, <1>10, <1>13
<1>17. QED
  BY <1>1, <1>14, <1>15, <1>16 DEF below, p

\* The page up to a piece is a page.
LEMMA UptoPage ==
  ASSUME NEW ps \in Seq(Placed), NEW k \in 0..Len(ps)
  PROVE  HtmlOf(Upto(ps, k)) \in Seq(Unit) /\ OriginsOf(Upto(ps, k)) \in Seq(Origin)
         /\ RulesOf(Upto(ps, k)) \in Seq(ClassRule) /\ At(ps, k) \in Nat /\
                At(ps, k) <= Len(HtmlOf(ps))
<1> DEFINE below == Upto(ps, k)  n == Len(ps)
<1>1. below \in Seq(Placed)
  BY UptoType
<1> HIDE DEF below
<1>2. HtmlOf(below) \in Seq(Unit) /\ OriginsOf(below) \in Seq(Origin) /\
          RulesOf(below) \in Seq(ClassRule)
  BY <1>1, AtEnds
<1>3. n \in k..Len(ps)
  OBVIOUS
<1> HIDE DEF n
<1>4. At(ps, k) <= At(ps, n) /\ At(ps, k) \in Nat
  BY <1>3, AtRises
<1>5. At(ps, n) = Len(HtmlOf(ps))
  BY AtEnds DEF n
<1>6. QED
  BY <1>2, <1>4, <1>5 DEF below

\* The part between the offsets of a piece is the piece.
LEMMA WithPiece ==
  ASSUME NEW ps \in Seq(Placed), NEW k \in 1..Len(ps), NEW h, NEW o
  PROVE  /\ With(h, HtmlOf(ps), At(ps, k - 1), At(ps, k))
              = Cat(h, UnitsOf(ps[k].of, Len(ps[k].origins)))
         /\ With(o, OriginsOf(ps), At(ps, k - 1), At(ps, k)) = Cat(o, ps[k].origins)
<1>1. SubSeq(HtmlOf(ps), At(ps, k - 1) + 1, At(ps, k)) = UnitsOf(ps[k].of, Len(ps[k].origins))
  BY PieceInPlace
<1>2. SubSeq(OriginsOf(ps), At(ps, k - 1) + 1, At(ps, k)) = ps[k].origins
  BY PieceInPlace
<1>3. QED
  BY <1>1, <1>2 DEF With, Cat

\* The output, with the source up to its k-th piece, is the result up to its k-th.
Copied(out, position, ps, qs, k) ==
  \E h, o : /\ Is(out, h, o) /\ position \in Nat /\ position <= At(ps, k)
            /\ With(h, HtmlOf(ps), position, At(ps, k)) = HtmlOf(Upto(qs, k))
            /\ With(o, OriginsOf(ps), position, At(ps, k)) = OriginsOf(Upto(qs, k))

\* After a result up to a piece, nothing is left to copy.
LEMMA CopiedPiece ==
  ASSUME NEW ps \in Seq(Placed), NEW qs, NEW k \in 0..Len(ps), NEW x,
         Is(x, HtmlOf(Upto(qs, k)), OriginsOf(Upto(qs, k)))
  PROVE  Copied(x, At(ps, k), ps, qs, k)
<1> DEFINE a == At(ps, k)  h == HtmlOf(Upto(qs, k))  o == OriginsOf(Upto(qs, k))
<1>1. a \in Nat
  BY UptoPage
<1>2. h \in Seq(Unit) /\ o \in Seq(Origin)
  BY DEF Is, Html
<1> HIDE DEF a, h, o
<1>3. With(h, HtmlOf(ps), a, a) = h
  BY <1>1, <1>2, WithNone
<1>4. With(o, OriginsOf(ps), a, a) = o
  BY <1>1, <1>2, WithNone
<1>5. Is(x, h, o)
  BY DEF h, o
<1>6. a <= a
  BY <1>1
<1>7. QED
  BY <1>1, <1>3, <1>4, <1>5, <1>6 DEF Copied, a, h, o

\* At the start, nothing is copied.
LEMMA CopiedNothing ==
  ASSUME NEW ps \in Seq(Placed), NEW qs \in Seq(Placed)
  PROVE  Copied(NoHtml, 0, ps, qs, 0)
<1> DEFINE z == 0
<1>1. Upto(qs, 0) = <<>>
  BY UptoEnds
<1>2. HtmlOf(<<>>) = <<>> /\ OriginsOf(<<>>) = <<>>
  <2>1. <<>> \in Seq(Placed)
    OBVIOUS
  <2>2. QED
    BY <2>1, PageIs, TotalNone
<1>3. Is(NoHtml, HtmlOf(Upto(qs, z)), OriginsOf(Upto(qs, z)))
  BY <1>1, <1>2, NoHtmlIs
<1>4. z \in 0..Len(ps)
  OBVIOUS
<1>5. At(ps, z) = 0
  BY AtEnds
<1> HIDE DEF z
<1>6. Copied(NoHtml, At(ps, z), ps, qs, z)
  BY <1>3, <1>4, CopiedPiece
<1>7. QED
  BY <1>5, <1>6 DEF z

\* append_slice up to a piece makes the result complete up to it.
LEMMA CopiedUp ==
  ASSUME NEW ps \in Seq(Placed), NEW qs, NEW k \in 0..Len(ps), NEW out, NEW position,
         Copied(out, position, ps, qs, k), NEW g, Is(g, HtmlOf(ps), OriginsOf(ps))
  PROVE  Is(AppendSlice(out, g, position, At(ps, k)), HtmlOf(Upto(qs, k)), OriginsOf(Upto(qs, k)))
<1>1. PICK h, o : /\ Is(out, h, o) /\ position \in Nat /\ position <= At(ps, k)
                  /\ With(h, HtmlOf(ps), position, At(ps, k)) = HtmlOf(Upto(qs, k))
                  /\ With(o, OriginsOf(ps), position, At(ps, k)) = OriginsOf(Upto(qs, k))
  BY DEF Copied
<1>2. At(ps, k) \in Nat /\ At(ps, k) <= Len(HtmlOf(ps))
  BY UptoPage
<1> DEFINE a == At(ps, k)  html == HtmlOf(ps)  origins == OriginsOf(ps)
<1>3. /\ Is(out, h, o) /\ position \in Nat /\ position <= a /\ a \in Nat /\ a <= Len(html)
      /\ Is(g, html, origins)
  BY <1>1, <1>2
<1> HIDE DEF a, html, origins
<1>4. Is(AppendSlice(out, g, position, a), With(h, html, position, a),
          With(o, origins, position, a))
  BY <1>3, SliceIs
<1>5. QED
  BY <1>1, <1>4 DEF a, html, origins

\* A piece that stays as it is is copied later.
LEMMA CopiedSame ==
  ASSUME NEW ps \in Seq(Placed), NEW qs \in Seq(Placed), Len(qs) = Len(ps), NEW k \in 1..Len(ps),
         qs[k] = ps[k], NEW out, NEW position, Copied(out, position, ps, qs, k - 1)
  PROVE  Copied(out, position, ps, qs, k)
<1> DEFINE a == At(ps, k - 1)  b == At(ps, k)  html == HtmlOf(ps)  origins == OriginsOf(ps)
           u == HtmlOf(Upto(qs, k - 1))  v == OriginsOf(Upto(qs, k - 1))
           units == UnitsOf(ps[k].of, Len(ps[k].origins))
<1>1. PICK h, o : /\ Is(out, h, o) /\ position \in Nat /\ position <= a
                  /\ With(h, html, position, a) = u /\ With(o, origins, position, a) = v
  BY DEF Copied
<1>2. a \in Nat /\ b \in Nat /\ b - a = Len(ps[k].origins)
  BY PieceInPlace
<1>3. Len(ps[k].origins) \in Nat /\ b <= Len(html)
  BY PieceInPlace
<1>4. html \in Seq(Unit) /\ origins \in Seq(Origin) /\ Len(origins) = Len(html)
  BY AtEnds
<1>5. h \in Seq(Unit) /\ o \in Seq(Origin)
  BY <1>1 DEF Is, Html
<1>6. With(u, html, a, b) = Cat(u, units)
  BY WithPiece
<1>7. With(v, origins, a, b) = Cat(v, ps[k].origins)
  BY WithPiece
<1>8. k \in 1..Len(qs)
  OBVIOUS
<1>9. HtmlOf(Upto(qs, k)) = Cat(u, UnitsOf(qs[k].of, Len(qs[k].origins)))
  BY <1>8, PageMore
<1>10. OriginsOf(Upto(qs, k)) = Cat(v, qs[k].origins)
  BY <1>8, PageMore
<1> HIDE DEF a, b, html, origins, u, v
<1>11. a <= b /\ position <= b
  BY <1>1, <1>2, <1>3
<1>12. With(With(h, html, position, a), html, a, b) = With(h, html, position, b)
  BY <1>1, <1>2, <1>3, <1>4, <1>5, <1>11, WithMore
<1>13. With(With(o, origins, position, a), origins, a, b) = With(o, origins, position, b)
  <2>1. b <= Len(origins)
    BY <1>3, <1>4
  <2>2. QED
    BY <1>1, <1>2, <1>4, <1>5, <1>11, <2>1, WithMore
<1>14. With(h, html, position, b) = HtmlOf(Upto(qs, k))
  BY <1>1, <1>6, <1>9, <1>12
<1>15. With(o, origins, position, b) = OriginsOf(Upto(qs, k))
  BY <1>1, <1>7, <1>10, <1>13
<1>16. QED
  BY <1>1, <1>11, <1>14, <1>15 DEF Copied, b, html, origins

\* HTML whose segments tell the origins of its units.
Known == {g \in Html : \E o : Is(g, g.html, o)}

\* append_slice keeps the segments in order.
LEMMA SliceKnown ==
  ASSUME NEW out \in Known, NEW g, NEW html, NEW origins, Is(g, html, origins),
         NEW start \in Nat, NEW end \in Nat, end <= Len(html)
  PROVE  AppendSlice(out, g, start, end) \in Known
<1>1. PICK o : Is(out, out.html, o)
  BY DEF Known
<1>2. CASE start <= end
  <2> DEFINE x == AppendSlice(out, g, start, end)
  <2>1. Is(x, With(out.html, html, start, end), With(o, origins, start, end))
    BY <1>1, <1>2, SliceIs
  <2> HIDE DEF x
  <2>2. x \in Html /\ x.html = With(out.html, html, start, end)
    BY <2>1 DEF Is
  <2>3. x \in Known
    BY <2>1, <2>2 DEF Known
  <2>4. QED
    BY <2>3 DEF x
<1>3. CASE ~(start <= end)
  BY <1>3, SliceNone
<1>4. QED
  BY <1>2, <1>3

\* Empty HTML has its segments in order.
LEMMA NoHtmlKnown == NoHtml \in Known
<1>1. NoHtml.html = <<>>
  BY DEF NoHtml
<1>2. QED
  BY <1>1, NoHtmlIs DEF Known, Is

\* Without the blocks whose rules are taken out.
Kept(ps) ==
  Mapped([p \in Placed |-> IF IsPlainBlock(p) THEN [p EXCEPT !.origins = <<>>] ELSE p], ps)

\* Every other piece stays.
LEMMA KeptType ==
  ASSUME NEW ps \in Seq(Placed)
  PROVE  /\ Kept(ps) \in Seq(Placed) /\ Len(Kept(ps)) = Len(ps)
         /\ \A k \in 1..Len(ps) :
              Kept(ps)[k] = IF IsPlainBlock(ps[k]) THEN [ps[k] EXCEPT !.origins = <<>>] ELSE ps[k]
<1> DEFINE h == [p \in Placed |-> IF IsPlainBlock(p) THEN [p EXCEPT !.origins = <<>>] ELSE p]
<1>1. Maps(h, Placed, Placed)
  <2>1. ASSUME NEW p \in Placed PROVE [p EXCEPT !.origins = <<>>] \in Placed
    <3> DEFINE none == <<>>
    <3>1. none \in Seq(Origin)
      OBVIOUS
    <3> HIDE DEF none
    <3>2. [p EXCEPT !.origins = none] \in Placed
      BY <3>1 DEF Placed
    <3>3. QED
      BY <3>2 DEF none
  <2>2. QED
    BY <2>1 DEF Maps
<1>2. \A k \in 1..Len(ps) : ps[k] \in Placed
  BY ElementOfSeq
<1>3. \A k \in 1..Len(ps) :
        h[ps[k]] = IF IsPlainBlock(ps[k]) THEN [ps[k] EXCEPT !.origins = <<>>] ELSE ps[k]
  BY <1>2
<1>4. Kept(ps) = Mapped(h, ps)
  BY DEF Kept
<1> HIDE DEF h
<1>5. Mapped(h, ps) \in Seq(Placed)
  BY <1>1, MappedType
<1>6. Len(Mapped(h, ps)) = Len(ps)
  BY <1>1, MappedType
<1>7. \A k \in 1..Len(ps) : Mapped(h, ps)[k] = h[ps[k]]
  BY <1>1, MappedType
<1>8. QED
  BY <1>3, <1>4, <1>5, <1>6, <1>7

\* The first part of inline_css takes the blocks without @media out, leaves the rest
\* with its origins, and collects the rules in the order of the document
\* (css.cpp:173-229).
THEOREM StripIs ==
  ASSUME NEW ps, Filled(ps), NEW g, Is(g, HtmlOf(ps), OriginsOf(ps))
  PROVE  /\ Is(Strip(g).html, HtmlOf(Kept(ps)), OriginsOf(Kept(ps)))
         /\ Strip(g).classes = RulesOf(ps)
<1> DEFINE html == HtmlOf(ps)
           qs == Kept(ps)
           n == Len(ps)
           N == Len(html)
           X == [output : Known, position : Nat, classes : Seq(ClassRule)]
           start == [output |-> NoHtml, position |-> 0, classes |-> <<>>]
           Round(i, s) ==
             IF ~ StartsAt(g, "style", i) THEN s
             ELSE LET block == g.html[i].of
                      end == i - 1 + g.html[i].parts
                      before == AppendSlice(s.output, g, s.position, i - 1)
                  IN [output |-> IF block.media THEN AppendSlice(before, g, i - 1, end)
                         ELSE before,
                      position |-> end,
                      classes |-> IF block.media THEN s.classes ELSE s.classes \o block.rules]
           F(f) == [k \in 0..N |-> IF k = 0 THEN start ELSE Round(k, f[k - 1])]
           J == [k \in 0..N |-> X]
           step == [p \in (1..N) \X X |-> Round(p[1], p[2])]
           Done(k, s) == Copied(s.output, s.position, ps, qs, k) /\
               s.classes = RulesOf(Upto(ps, k))
           I == [k \in 0..n |-> {s \in X : Done(k, s)}]
<1>1. /\ ps \in Seq(Placed) /\ n \in Nat /\ n = Len(ps)
      /\ \A k \in 1..n : ps[k].origins # <<>>
  BY DEF Filled
<1>2. g.html = html /\ html \in Seq(Unit) /\ N \in Nat
  <2>1. html \in Seq(Unit)
    BY <1>1, AtEnds
  <2> HIDE DEF html
  <2>2. QED
    BY <2>1 DEF Is, html
<1>3. /\ qs \in Seq(Placed) /\ Len(qs) = n
      /\ \A k \in 1..n :
           qs[k] = IF IsPlainBlock(ps[k]) THEN [ps[k] EXCEPT !.origins = <<>>] ELSE ps[k]
  BY <1>1, KeptType
<1> HIDE DEF n, qs
<1>4. ASSUME NEW k \in 1..n
      PROVE  /\ At(ps, k - 1) \in Nat /\ At(ps, k) \in Nat /\ At(ps, k) <= N
             /\ At(ps, k) - At(ps, k - 1) = Len(ps[k].origins) /\ Len(ps[k].origins) \in Nat
             /\ At(ps, k - 1) + 1 \in 1..N
             /\ g.html[At(ps, k - 1) + 1]
                    = [of |-> ps[k].of, part |-> 1, parts |-> Len(ps[k].origins)]
  <2>1. k \in 1..Len(ps) /\ ps[k].origins # <<>>
    BY <1>1
  <2>2. /\ At(ps, k - 1) \in Nat /\ At(ps, k) \in Nat /\ At(ps, k) <= N
        /\ At(ps, k) - At(ps, k - 1) = Len(ps[k].origins) /\ Len(ps[k].origins) \in Nat
    BY <1>1, <2>1, PieceInPlace
  <2>3. /\ At(ps, k - 1) + 1 \in 1..N
        /\ html[At(ps, k - 1) + 1] = [of |-> ps[k].of, part |-> 1, parts |-> Len(ps[k].origins)]
    BY <1>1, <2>1, PieceStarts
  <2> HIDE DEF html, N
  <2>4. QED
    BY <1>2, <2>2, <2>3
<1>5. ASSUME NEW i \in 1..N, StartsAt(g, "style", i)
      PROVE  \E k \in 1..n : /\ i = At(ps, k - 1) + 1 /\ g.html[i].of = ps[k].of
                             /\ g.html[i].parts = Len(ps[k].origins)
  <2>1. html[i].part = 1
    BY <1>2, <1>5 DEF StartsAt
  <2>2. i \in 1..Len(HtmlOf(ps)) /\ HtmlOf(ps)[i].part = 1
    BY <2>1
  <2>3. PICK k \in 1..Len(ps) : /\ i = At(ps, k - 1) + 1 /\ ps[k].origins # <<>>
                                /\ HtmlOf(ps)[i].of = ps[k].of
                                /\ HtmlOf(ps)[i].parts = Len(ps[k].origins)
    BY <1>1, <2>2, StartFound
  <2>4. k \in 1..n /\ g.html[i] = HtmlOf(ps)[i]
    BY <1>1, <1>2
  <2>5. QED
    BY <2>3, <2>4
<1>6. Is(g, html, OriginsOf(ps))
  OBVIOUS
<1> HIDE DEF N, html
<1>7. start \in X
  BY NoHtmlKnown
<1>8. ASSUME NEW i \in 1..N, NEW s \in X PROVE Round(i, s) \in X
  <2>1. CASE ~ StartsAt(g, "style", i)
    BY <2>1
  <2>2. CASE StartsAt(g, "style", i)
    <3>1. PICK k \in 1..n : /\ i = At(ps, k - 1) + 1 /\ g.html[i].of = ps[k].of
                            /\ g.html[i].parts = Len(ps[k].origins)
      BY <1>5, <2>2
    <3> DEFINE a == i - 1  b == i - 1 + g.html[i].parts
               before == AppendSlice(s.output, g, s.position, a)
               output == IF ps[k].of.media THEN AppendSlice(before, g, a, b) ELSE before
               classes == IF ps[k].of.media THEN s.classes ELSE s.classes \o ps[k].of.rules
    <3>2. a = At(ps, k - 1) /\ b = At(ps, k) /\ a \in Nat /\ b \in Nat /\ a <= N /\ b <= N
      <4>1. /\ At(ps, k - 1) \in Nat /\ At(ps, k) \in Nat /\ At(ps, k) <= N
            /\ At(ps, k) - At(ps, k - 1) = Len(ps[k].origins) /\ Len(ps[k].origins) \in Nat
        BY <1>4
      <4>2. a = At(ps, k - 1)
        BY <3>1, <4>1
      <4>3. b = a + Len(ps[k].origins)
        BY <3>1
      <4> HIDE DEF a, b
      <4>4. QED
        BY <1>2, <4>1, <4>2, <4>3
    <3>3. ps[k] \in Placed
      BY <1>1, ElementOfSeq
    <3>4. ps[k].of.kind = "style"
      BY <2>2, <3>1 DEF StartsAt
    <3>5. ps[k].of.rules \in Seq(ClassRule)
      BY <3>3, <3>4, PlacedType
    <3>6. Round(i, s) = [output |-> output, position |-> b, classes |-> classes]
      BY <2>2, <3>1
    <3>7. s.output \in Known /\ s.position \in Nat /\ s.classes \in Seq(ClassRule)
      OBVIOUS
    <3>8. classes \in Seq(ClassRule)
      BY <3>5, <3>7, ConcatProperties
    <3> HIDE DEF a, b, classes, Round, X
    <3>9. a <= Len(html) /\ b <= Len(html)
      BY <3>2 DEF N
    <3>10. before \in Known
      BY <1>6, <3>2, <3>7, <3>9, SliceKnown
    <3> HIDE DEF before
    <3>11. AppendSlice(before, g, a, b) \in Known
      BY <1>6, <3>2, <3>9, <3>10, SliceKnown
    <3>12. output \in Known
      BY <3>10, <3>11
    <3> HIDE DEF output
    <3>13. QED
      BY <3>2, <3>6, <3>8, <3>12 DEF X
  <2>3. QED
    BY <2>1, <2>2
<1> HIDE DEF X, start
<1>9. /\ \A k \in 1..N : \A s \in X : step[<<k, s>>] = Round(k, s) /\ Round(k, s) \in X
      /\ start \in J[0] /\ \A k \in 0..N : J[k] = X
  <2> HIDE DEF Round
  <2>1. QED
    BY <1>2, <1>7, <1>8
<1> HIDE DEF step, Round, J
<1>10. PICK f : IsRecursion(f, N, start, step) /\ \A k \in 0..N : f[k] \in J[k]
  <2>1. \A k \in 1..N : \A s \in J[k - 1] : step[<<k, s>>] \in J[k]
    <3>1. \A k \in 1..N : k - 1 \in 0..N /\ k \in 0..N
      BY <1>2
    <3>2. QED
      BY <1>9, <3>1
  <2>2. start \in J[0]
    BY <1>9
  <2>3. QED
    BY <1>2, <2>1, <2>2, RoundsExist
<1>11. f = F(f)
  <2>1. ASSUME NEW k \in 0..N PROVE f[k] = IF k = 0 THEN start ELSE Round(k, f[k - 1])
    <3>1. k # 0 => k \in 1..N /\ k - 1 \in 0..N
      BY <1>2
    <3>2. QED
      BY <1>9, <1>10, <3>1 DEF IsRecursion
  <2>2. QED
    BY <1>10, <2>1 DEF IsRecursion
<1> DEFINE r == CHOOSE q : q = F(q)
<1>12. r = F(r)
  BY <1>11
<1>13. Strip(g) = [html |-> AppendSlice(r[N].output, g, r[N].position, N),
           classes |-> r[N].classes]
  BY <1>2 DEF Strip, Loop, Round, N, start
<1> HIDE DEF r
<1>14. r[0] = start /\ \A k \in 1..N : r[k] = Round(k, r[k - 1])
  BY <1>2, <1>12
<1>15. \A k \in 0..N : r[k] \in J[k]
  <2>1. \A k \in 1..N : r[k - 1] \in J[k - 1] => r[k] \in J[k]
    <3>1. \A k \in 1..N : k - 1 \in 0..N /\ k \in 0..N
      BY <1>2
    <3>2. QED
      BY <1>9, <1>14, <3>1
  <2>2. r[0] \in J[0]
    BY <1>9, <1>14
  <2>3. QED
    BY <1>2, <2>1, <2>2, RoundsKeep
<1>16. \A k \in 0..N : r[k] \in X
  BY <1>9, <1>15
<1>17. start \in I[0]
  <2>1. Upto(ps, 0) = <<>>
    BY <1>1, UptoEnds
  <2>2. RulesOf(<<>>) = <<>>
    <3>1. <<>> \in Seq(Placed)
      OBVIOUS
    <3>2. QED
      BY <3>1, PageIs, TotalNone
  <2>3. Copied(NoHtml, 0, ps, qs, 0)
    BY <1>1, <1>3, CopiedNothing
  <2>4. start.output = NoHtml /\ start.position = 0 /\ start.classes = <<>>
    BY DEF start
  <2>5. Done(0, start)
    BY <2>1, <2>2, <2>3, <2>4
  <2> HIDE DEF Done
  <2>6. QED
    BY <1>1, <1>7, <2>5
<1>18. ASSUME NEW k \in 1..n, r[At(ps, k - 1)] \in I[k - 1]
       PROVE  r[At(ps, k - 1) + 1] \in I[k]
  <2> DEFINE a == At(ps, k - 1)  b == At(ps, k)  i == a + 1  s == r[a]  t == r[i]  j == k - 1
             p == ps[k]  m == Len(p.origins)
  <2>1. /\ a \in Nat /\ b \in Nat /\ b - a = m /\ m \in Nat /\ i \in 1..N /\ b <= N
        /\ g.html[i] = [of |-> p.of, part |-> 1, parts |-> m]
    BY <1>4
  <2>2. j \in 0..n /\ k \in 0..n /\ k \in 1..Len(ps) /\ j \in 0..Len(ps) /\ k \in 0..Len(ps)
    BY <1>1
  <2>3. s \in X /\ Done(j, s)
    <3> HIDE DEF Done
    <3>1. QED
      BY <1>18, <2>2
  <2>4. t \in X /\ t = Round(i, s)
    <3>1. i \in 0..N /\ i - 1 = a
      BY <2>1
    <3> HIDE DEF i
    <3>2. QED
      BY <1>14, <1>16, <2>1, <3>1
  <2>5. p \in Placed
    BY <1>1, ElementOfSeq
  <2>6. qs[k] = IF IsPlainBlock(p) THEN [p EXCEPT !.origins = <<>>] ELSE p
    BY <1>3
  <2>7. RulesOf(Upto(ps, k))
            = Cat(RulesOf(Upto(ps, j)), IF IsPlainBlock(p) THEN p.of.rules ELSE <<>>)
    BY <1>1, <2>2, PageMore
  <2>8. RulesOf(Upto(ps, j)) \in Seq(ClassRule)
    BY <1>1, <2>2, UptoPage
  <2>9. SUFFICES Done(k, t)
    <3> HIDE DEF Done, t
    <3>1. QED
      BY <2>2, <2>4, <2>9 DEF t
  <2>10. Copied(s.output, s.position, ps, qs, j) /\ s.classes = RulesOf(Upto(ps, j))
    BY <2>3
  <2>11. StartsAt(g, "style", i) <=> p.of.kind = "style"
    BY <2>1 DEF StartsAt
  <2> HIDE DEF a, b, i, s, t, p, m
  <2>12. CASE p.of.kind # "style"
    <3>1. t = s
      BY <2>4, <2>11, <2>12 DEF Round
    <3>2. qs[k] = ps[k] /\ ~ IsPlainBlock(p)
      BY <2>6, <2>12 DEF IsPlainBlock, p
    <3>3. Len(qs) = Len(ps) /\ Copied(s.output, s.position, ps, qs, k - 1)
      BY <1>1, <1>3, <2>10
    <3>4. Copied(s.output, s.position, ps, qs, k)
      BY <1>1, <1>3, <2>2, <3>2, <3>3, CopiedSame
    <3>5. RulesOf(Upto(ps, k)) = RulesOf(Upto(ps, j))
      BY <2>7, <2>8, <3>2, CatNone
    <3>6. QED
      BY <2>10, <3>1, <3>4, <3>5
  <2>13. CASE p.of.kind = "style"
    <3> DEFINE before == AppendSlice(s.output, g, s.position, a)
               u == HtmlOf(Upto(qs, j))  v == OriginsOf(Upto(qs, j))
    <3>1. Is(before, u, v)
      <4>1. Copied(s.output, s.position, ps, qs, j) /\ Is(g, HtmlOf(ps), OriginsOf(ps))
        BY <2>10
      <4> HIDE DEF j
      <4>2. Is(AppendSlice(s.output, g, s.position, At(ps, j)), HtmlOf(Upto(qs, j)),
                OriginsOf(Upto(qs, j)))
        BY <1>1, <2>2, <4>1, CopiedUp
      <4>3. QED
        BY <4>2 DEF a, j
    <3>2. i - 1 = a /\ i - 1 + g.html[i].parts = b /\ g.html[i].of = p.of
      BY <2>1 DEF i
    <3>3. t = [output |-> IF p.of.media THEN AppendSlice(before, g, a, b) ELSE before,
               position |-> b,
               classes |-> IF p.of.media THEN s.classes ELSE s.classes \o p.of.rules]
      BY <2>4, <2>11, <2>13, <3>2 DEF Round
    <3>4. k \in 1..Len(qs)
      BY <1>3
    <3>5. HtmlOf(Upto(qs, k)) = Cat(u, UnitsOf(qs[k].of, Len(qs[k].origins)))
      BY <1>3, <3>4, PageMore
    <3>6. OriginsOf(Upto(qs, k)) = Cat(v, qs[k].origins)
      BY <1>3, <3>4, PageMore
    <3>7. u \in Seq(Unit) /\ v \in Seq(Origin)
      BY <3>1 DEF Is, Html
    <3> HIDE DEF before, u, v
    <3>8. Is(t.output, HtmlOf(Upto(qs, k)), OriginsOf(Upto(qs, k)))
      <4>1. CASE p.of.media
        <5>1. t.output = AppendSlice(before, g, a, b)
          BY <3>3, <4>1
        <5>2. qs[k] = p
          BY <2>6, <4>1 DEF IsPlainBlock
        <5>3. With(u, HtmlOf(ps), a, b) = Cat(u, UnitsOf(p.of, Len(p.origins)))
          BY <1>1, <2>2, WithPiece DEF a, b, p
        <5>4. With(v, OriginsOf(ps), a, b) = Cat(v, p.origins)
          BY <1>1, <2>2, WithPiece DEF a, b, p
        <5>5. a <= b /\ b <= Len(HtmlOf(ps))
          BY <2>1 DEF N, html
        <5>6. Is(AppendSlice(before, g, a, b), With(u, HtmlOf(ps), a, b),
                  With(v, OriginsOf(ps), a, b))
          BY <2>1, <3>1, <5>5, SliceIs
        <5>7. QED
          BY <3>5, <3>6, <5>1, <5>2, <5>3, <5>4, <5>6
      <4>2. CASE ~ p.of.media
        <5>1. t.output = before
          BY <3>3, <4>2
        <5>2. qs[k].of = p.of /\ qs[k].origins = <<>>
          BY <2>5, <2>6, <2>13, <4>2 DEF IsPlainBlock, Placed
        <5>3. UnitsOf(p.of, Len(<<>>)) = <<>>
          BY DEF UnitsOf
        <5>4. Cat(u, <<>>) = u /\ Cat(v, <<>>) = v
          BY <3>7, CatNone
        <5>5. HtmlOf(Upto(qs, k)) = u /\ OriginsOf(Upto(qs, k)) = v
          BY <3>5, <3>6, <5>2, <5>3, <5>4
        <5>6. QED
          BY <3>1, <5>1, <5>5
      <4>3. QED
        BY <4>1, <4>2
    <3>9. t.position = b
      BY <3>3
    <3>10. Copied(t.output, At(ps, k), ps, qs, k)
      BY <1>1, <2>2, <3>8, CopiedPiece
    <3>11. t.classes = RulesOf(Upto(ps, k))
      <4>1. CASE p.of.media
        <5>1. t.classes = s.classes /\ ~ IsPlainBlock(p)
          BY <3>3, <4>1 DEF IsPlainBlock
        <5>2. RulesOf(Upto(ps, k)) = RulesOf(Upto(ps, j))
          BY <2>7, <2>8, <5>1, CatNone
        <5>3. QED
          BY <2>10, <5>1, <5>2
      <4>2. CASE ~ p.of.media
        <5>1. t.classes = s.classes \o p.of.rules /\ IsPlainBlock(p)
          BY <2>13, <3>3, <4>2 DEF IsPlainBlock
        <5>2. QED
          BY <2>7, <2>10, <5>1 DEF Cat
      <4>3. QED
        BY <4>1, <4>2
    <3>12. QED
      BY <3>9, <3>10, <3>11 DEF b
  <2>14. QED
    BY <2>12, <2>13
<1>19. ASSUME NEW i \in 1..N, html[i].part # 1 PROVE r[i] = r[i - 1]
  <2>1. ~ StartsAt(g, "style", i)
    BY <1>2, <1>19 DEF StartsAt
  <2>2. r[i] = Round(i, r[i - 1])
    BY <1>14
  <2>3. QED
    BY <2>1, <2>2 DEF Round
<1>20. Piecewise(ps, r, I)
  <2>1. r[0] \in I[0]
    BY <1>14, <1>17
  <2> HIDE DEF I
  <2>2. \A k \in 1..Len(ps) : ps[k].origins # <<>> =>
          (r[At(ps, k - 1)] \in I[k - 1] => r[At(ps, k - 1) + 1] \in I[k])
    BY <1>1, <1>18
  <2>3. \A i \in 1..Len(HtmlOf(ps)) : HtmlOf(ps)[i].part # 1 => r[i] = r[i - 1]
    BY <1>19 DEF N, html
  <2>4. \A k \in 1..Len(ps) : ps[k].origins = <<>> => \A x \in I[k - 1] : x \in I[k]
    BY <1>1
  <2>5. QED
    BY <2>1, <2>2, <2>3, <2>4 DEF Piecewise
<1> DEFINE s == r[N]
<1>21. Done(n, s)
  <2> HIDE DEF Done, s
  <2>1. r[Len(HtmlOf(ps))] \in I[Len(ps)]
    BY <1>1, <1>20, PieceByPiece
  <2>2. s \in I[n]
    BY <1>1, <2>1 DEF s, N, html
  <2>3. QED
    BY <1>1, <2>2
<1>22. Upto(qs, n) = qs /\ Upto(ps, n) = ps
  <2>1. Upto(qs, Len(qs)) = qs
    BY <1>3, UptoEnds
  <2>2. Upto(ps, Len(ps)) = ps
    BY <1>1, UptoEnds
  <2>3. QED
    BY <1>1, <1>3, <2>1, <2>2
<1> HIDE DEF s
<1>23. Is(AppendSlice(s.output, g, s.position, N), HtmlOf(qs), OriginsOf(qs))
  <2>1. n \in 0..Len(ps) /\ Copied(s.output, s.position, ps, qs, n)
    BY <1>1, <1>21
  <2>2. Is(AppendSlice(s.output, g, s.position, At(ps, n)), HtmlOf(Upto(qs, n)),
            OriginsOf(Upto(qs, n)))
    BY <1>1, <2>1, CopiedUp
  <2>3. At(ps, n) = N
    BY <1>1, AtEnds DEF N, html
  <2>4. QED
    BY <1>22, <2>2, <2>3
<1>24. QED
  BY <1>13, <1>21, <1>22, <1>23 DEF s, qs

\* With the styles the rules give to the tags.
Dress(rules) == [p \in Placed |-> IF p.origins = <<>> THEN p ELSE Styled(p, rules)]
Dressed(ps, rules) == Mapped(Dress(rules), ps)

\* A piece without units is no tag.
TagsFilled(ps) ==
  ps \in Seq(Placed) /\ \A k \in 1..Len(ps) : ps[k].origins = <<>> => ps[k].of.kind # "tag"

\* The style of a tag changes and nothing else does.
LEMMA StyledIs ==
  ASSUME NEW p \in Placed, p.origins # <<>>, NEW rules \in Seq(ClassRule)
  PROVE  /\ Styled(p, rules) \in Placed
         /\ p.of.kind # "tag" => Styled(p, rules) = p
         /\ p.of.kind = "tag" =>
              LET merged == IF p.of.classes = {} THEN p.of.style ELSE Merged(p.of, rules) IN
              /\ merged = p.of.style => Styled(p, rules) = p
              /\ merged # p.of.style =>
                   /\ Styled(p, rules).of = [p.of EXCEPT !.style = merged]
                   /\ Styled(p, rules).origins = Uniform(Len(p.origins) + 1, p.origins[1])
         /\ rules = <<>> => Styled(p, rules) = p
<1>1. p.of \in Piece /\ p.origins \in Seq(Origin) /\ Len(p.origins) \in Nat
  BY PlacedType
<1>2. CASE p.of.kind # "tag"
  BY <1>2 DEF Styled
<1>3. CASE p.of.kind = "tag"
  <2> DEFINE tag == p.of
             merged == IF tag.classes = {} THEN tag.style ELSE Merged(tag, rules)
             dressed == [tag EXCEPT !.style = merged]
             n == Len(p.origins) + 1
  <2>1. tag \in [kind : {"tag"}, classes : SUBSET Class, style : Style]
    BY <1>3, PlacedType
  <2>2. tag.style \in Style
    BY <2>1
  <2>3. Merged(tag, rules) = StyleOf(tag, rules)
    BY <2>2, MergedCascades
  <2>4. Merged(tag, rules) \in Style
    BY <2>2, MergedCascades
  <2>5. tag.classes = {} \/ rules = <<>> => Merged(tag, rules) = tag.style
    BY <2>2, MergedCascades
  <2>6. merged = StyleOf(tag, rules) /\ merged \in Style
    BY <2>2, <2>3, <2>4, <2>5
  <2>7. rules = <<>> => merged = tag.style
    BY <2>5
  <2> HIDE DEF merged
  <2>8. dressed \in Piece
    <3>1. dressed \in [kind : {"tag"}, classes : SUBSET Class, style : Style]
      BY <2>1, <2>6
    <3>2. QED
      BY <3>1 DEF Piece
  <2> HIDE DEF tag
  <2>9. CASE merged = tag.style
    <3>1. Styled(p, rules) = p
      BY <2>6, <2>9 DEF Styled, tag
    <3>2. QED
      BY <1>3, <2>9, <3>1 DEF merged, tag
  <2>10. CASE merged # tag.style
    <3>1. Styled(p, rules) = [of |-> dressed, origins |-> Uniform(n, p.origins[1])]
      BY <1>3, <2>6, <2>10 DEF Styled, Uniform, tag
    <3>2. p.origins[1] \in Origin
      <4>1. 1 \in 1..Len(p.origins)
        BY <1>1, EmptySeq
      <4>2. QED
        BY <1>1, <4>1, ElementOfSeq
    <3>3. n \in Nat
      BY <1>1
    <3> HIDE DEF n, dressed
    <3>4. Uniform(n, p.origins[1]) \in Seq(Origin)
      BY <3>2, <3>3, UniformType
    <3>5. Styled(p, rules) \in Placed
      BY <2>8, <3>1, <3>4 DEF Placed
    <3>6. QED
      BY <1>3, <2>7, <2>10, <3>1, <3>5 DEF merged, tag, dressed, n
  <2>11. QED
    BY <2>9, <2>10
<1>4. QED
  BY <1>2, <1>3

\* Every piece is dressed in its place.
LEMMA DressedType ==
  ASSUME NEW ps \in Seq(Placed), NEW rules \in Seq(ClassRule)
  PROVE  /\ Dressed(ps, rules) \in Seq(Placed) /\ Len(Dressed(ps, rules)) = Len(ps)
         /\ \A k \in 1..Len(ps) :
              Dressed(ps, rules)[k] = IF ps[k].origins = <<>> THEN ps[k] ELSE Styled(ps[k], rules)
<1> DEFINE h == Dress(rules)
<1>1. Maps(h, Placed, Placed)
  <2>1. ASSUME NEW p \in Placed
        PROVE  (IF p.origins = <<>> THEN p ELSE Styled(p, rules)) \in Placed
    BY StyledIs
  <2>2. QED
    BY <2>1 DEF Maps, Dress
<1>2. \A k \in 1..Len(ps) : ps[k] \in Placed
  BY ElementOfSeq
<1>3. \A k \in 1..Len(ps) :
        h[ps[k]] = IF ps[k].origins = <<>> THEN ps[k] ELSE Styled(ps[k], rules)
  BY <1>2 DEF Dress
<1>4. Dressed(ps, rules) = Mapped(h, ps)
  BY DEF Dressed
<1> HIDE DEF h
<1>5. Mapped(h, ps) \in Seq(Placed)
  BY <1>1, MappedType
<1>6. Len(Mapped(h, ps)) = Len(ps)
  BY <1>1, MappedType
<1>7. \A k \in 1..Len(ps) : Mapped(h, ps)[k] = h[ps[k]]
  BY <1>1, MappedType
<1>8. QED
  BY <1>3, <1>4, <1>5, <1>6, <1>7

\* Appending keeps the segments in order.
LEMMA AppendKnown ==
  ASSUME NEW out \in Known, NEW units \in Seq(Unit), NEW origin \in Origin
  PROVE  AppendHtml(out, units, origin) \in Known
<1>1. PICK o : Is(out, out.html, o)
  BY DEF Known
<1> DEFINE x == AppendHtml(out, units, origin)
<1>2. Is(x, out.html \o units, o \o Uniform(Len(units), origin))
  BY <1>1, AppendIs
<1> HIDE DEF x
<1>3. x \in Html /\ x.html = out.html \o units
  BY <1>2 DEF Is
<1>4. x \in Known
  BY <1>2, <1>3 DEF Known
<1>5. QED
  BY <1>4 DEF x

\* The second part of inline_css restyles the tags that change and no others; what it
\* writes comes as a whole from where the tag started (css.cpp:231-265).
THEOREM RestyleIs ==
  ASSUME NEW ps, TagsFilled(ps), NEW g, Is(g, HtmlOf(ps), OriginsOf(ps)),
         NEW rules \in Seq(ClassRule)
  PROVE  Is(Restyle(g, rules), HtmlOf(Dressed(ps, rules)), OriginsOf(Dressed(ps, rules)))
<1> DEFINE html == HtmlOf(ps)
           origins == OriginsOf(ps)
           qs == Dressed(ps, rules)
           n == Len(ps)
           N == Len(html)
           X == [output : Known, position : Nat]
           start == [output |-> NoHtml, position |-> 0]
           Style1(tag) == IF tag.classes = {} THEN tag.style ELSE Merged(tag, rules)
           Round(i, s) ==
             IF ~ StartsAt(g, "tag", i) THEN s
             ELSE LET tag == g.html[i].of
                      end == i - 1 + g.html[i].parts
                      before == AppendSlice(s.output, g, s.position, i - 1)
                      merged == IF tag.classes = {} THEN tag.style ELSE Merged(tag, rules)
                      changed == UnitsOf([tag EXCEPT !.style = merged], g.html[i].parts + 1)
                  IN [output |-> IF merged = tag.style THEN AppendSlice(before, g, i - 1, end)
                                 ELSE AppendHtml(before, changed, SegmentAt(g, i - 1)),
                      position |-> end]
           F(f) == [k \in 0..N |-> IF k = 0 THEN start ELSE Round(k, f[k - 1])]
           J == [k \in 0..N |-> X]
           step == [p \in (1..N) \X X |-> Round(p[1], p[2])]
           Done(k, s) == Copied(s.output, s.position, ps, qs, k)
           I == [k \in 0..n |-> {s \in X : Done(k, s)}]
<1>1. /\ ps \in Seq(Placed) /\ n \in Nat /\ n = Len(ps)
      /\ \A k \in 1..n : ps[k].origins = <<>> => ps[k].of.kind # "tag"
  BY DEF TagsFilled
<1>2. g.html = html /\ html \in Seq(Unit) /\ N \in Nat /\ origins \in Seq(Origin) /\
          Len(origins) = N
  <2>1. html \in Seq(Unit) /\ origins \in Seq(Origin) /\ Len(origins) = Len(html)
    BY <1>1, AtEnds
  <2> HIDE DEF html, origins
  <2>2. QED
    BY <2>1 DEF Is, html, origins
<1>3. /\ qs \in Seq(Placed) /\ Len(qs) = n
      /\ \A k \in 1..n : qs[k] = IF ps[k].origins = <<>> THEN ps[k] ELSE Styled(ps[k], rules)
  BY <1>1, DressedType
<1> HIDE DEF n, qs
<1>4. ASSUME NEW k \in 1..n, ps[k].origins # <<>>
      PROVE  /\ At(ps, k - 1) \in Nat /\ At(ps, k) \in Nat /\ At(ps, k) <= N
             /\ At(ps, k) - At(ps, k - 1) = Len(ps[k].origins) /\ Len(ps[k].origins) \in Nat
             /\ At(ps, k - 1) + 1 \in 1..N
             /\ g.html[At(ps, k - 1) + 1]
                    = [of |-> ps[k].of, part |-> 1, parts |-> Len(ps[k].origins)]
             /\ SegmentAt(g, At(ps, k - 1)) = ps[k].origins[1]
             /\ ps[k].origins[1] \in Origin
  <2> DEFINE a == At(ps, k - 1)  b == At(ps, k)  m == Len(ps[k].origins)
  <2>1. k \in 1..Len(ps)
    BY <1>1
  <2>2. a \in Nat /\ b \in Nat /\ b <= N /\ b - a = m /\ m \in Nat
    BY <1>1, <2>1, PieceInPlace
  <2>3. a + 1 \in 1..N /\ html[a + 1] = [of |-> ps[k].of, part |-> 1, parts |-> m]
    BY <1>1, <1>4, <2>1, PieceStarts
  <2>4. SubSeq(origins, a + 1, b) = ps[k].origins
    BY <1>1, <2>1, PieceInPlace
  <2> HIDE DEF html, N, origins, a, b, m
  <2>5. 1 \in 1..(b - a) /\ a <= b /\ b <= Len(origins)
    BY <1>2, <2>2, <2>3, <1>4, <2>4, EmptySeq DEF m
  <2>6. SubSeq(origins, a + 1, b)[1] = origins[a + 1]
    BY <1>2, <2>2, <2>5, PartType
  <2>7. a + 1 \in 1..Len(html)
    BY <2>3 DEF N
  <2>8. SegmentAt(g, (a + 1) - 1) = origins[a + 1]
    BY <2>7, SegmentFound DEF html, origins
  <2>9. (a + 1) - 1 = a
    BY <2>2
  <2>10. origins[a + 1] \in Origin
    BY <1>2, <2>3, ElementOfSeq
  <2>11. QED
    BY <1>2, <2>2, <2>3, <2>4, <2>6, <2>8, <2>9, <2>10 DEF a, b, m
<1>5. ASSUME NEW i \in 1..N, StartsAt(g, "tag", i)
      PROVE  \E k \in 1..n : /\ i = At(ps, k - 1) + 1 /\ g.html[i].of = ps[k].of
                             /\ g.html[i].parts = Len(ps[k].origins) /\ ps[k].origins # <<>>
  <2>1. html[i].part = 1
    BY <1>2, <1>5 DEF StartsAt
  <2>2. i \in 1..Len(HtmlOf(ps)) /\ HtmlOf(ps)[i].part = 1
    BY <2>1
  <2>3. PICK k \in 1..Len(ps) : /\ i = At(ps, k - 1) + 1 /\ ps[k].origins # <<>>
                                /\ HtmlOf(ps)[i].of = ps[k].of
                                /\ HtmlOf(ps)[i].parts = Len(ps[k].origins)
    BY <1>1, <2>2, StartFound
  <2>4. k \in 1..n /\ g.html[i] = HtmlOf(ps)[i]
    BY <1>1, <1>2
  <2>5. QED
    BY <2>3, <2>4
<1>6. Is(g, html, OriginsOf(ps))
  OBVIOUS
<1> HIDE DEF N, html, origins
<1>7. start \in X
  BY NoHtmlKnown
<1>8. ASSUME NEW p \in Placed, p.of.kind = "tag", p.origins # <<>>
      PROVE  /\ Style1(p.of) = p.of.style => Styled(p, rules) = p
             /\ Style1(p.of) # p.of.style =>
                  /\ Styled(p, rules).of = [p.of EXCEPT !.style = Style1(p.of)]
                  /\ Styled(p, rules).origins = Uniform(Len(p.origins) + 1, p.origins[1])
             /\ UnitsOf(Styled(p, rules).of, Len(p.origins) + 1) \in Seq(Unit)
  <2>1. Styled(p, rules) \in Placed
    BY <1>8, StyledIs
  <2>2. Styled(p, rules).of \in Piece /\ Len(p.origins) \in Nat
    BY <2>1, PlacedType
  <2>3. Len(p.origins) + 1 \in Nat
    BY <2>2
  <2>4. UnitsOf(Styled(p, rules).of, Len(p.origins) + 1) \in Seq(Unit)
    BY <2>2, <2>3, UnitsType
  <2>5. QED
    BY <1>8, <2>4, StyledIs
<1>9. ASSUME NEW i \in 1..N, NEW s \in X PROVE Round(i, s) \in X
  <2>1. CASE ~ StartsAt(g, "tag", i)
    BY <2>1
  <2>2. CASE StartsAt(g, "tag", i)
    <3>1. PICK k \in 1..n : /\ i = At(ps, k - 1) + 1 /\ g.html[i].of = ps[k].of
                            /\ g.html[i].parts = Len(ps[k].origins) /\ ps[k].origins # <<>>
      BY <1>5, <2>2
    <3> DEFINE a == i - 1  b == i - 1 + g.html[i].parts  m == Len(ps[k].origins)
               before == AppendSlice(s.output, g, s.position, a)
               merged == Style1(ps[k].of)
               changed == UnitsOf([ps[k].of EXCEPT !.style = merged], m + 1)
               output == IF merged = ps[k].of.style THEN AppendSlice(before, g, a, b)
                         ELSE AppendHtml(before, changed, SegmentAt(g, a))
    <3>2. /\ a = At(ps, k - 1) /\ b = At(ps, k) /\ a \in Nat /\ b \in Nat /\ a <= N /\ b <= N
          /\ SegmentAt(g, At(ps, k - 1)) \in Origin
      <4>1. /\ At(ps, k - 1) \in Nat /\ At(ps, k) \in Nat /\ At(ps, k) <= N
            /\ At(ps, k) - At(ps, k - 1) = Len(ps[k].origins) /\ Len(ps[k].origins) \in Nat
            /\ SegmentAt(g, At(ps, k - 1)) \in Origin
        BY <1>4, <3>1
      <4>2. a = At(ps, k - 1)
        BY <3>1, <4>1
      <4>3. b = a + Len(ps[k].origins)
        BY <3>1
      <4> HIDE DEF a, b
      <4>4. QED
        BY <1>2, <4>1, <4>2, <4>3
    <3>3. ps[k] \in Placed
      BY <1>1, ElementOfSeq
    <3>4. ps[k].of.kind = "tag"
      BY <2>2, <3>1 DEF StartsAt
    <3>5. merged # ps[k].of.style => changed \in Seq(Unit)
      <4> HIDE DEF Style1, merged
      <4>1. merged # ps[k].of.style => changed = UnitsOf(Styled(ps[k], rules).of, m + 1)
        BY <1>8, <3>1, <3>3, <3>4 DEF merged
      <4>2. UnitsOf(Styled(ps[k], rules).of, m + 1) \in Seq(Unit)
        BY <1>8, <3>1, <3>3, <3>4
      <4> HIDE DEF m, changed
      <4>3. QED
        BY <4>1, <4>2
    <3>6. Round(i, s) = [output |-> output, position |-> b]
      BY <2>2, <3>1
    <3>7. s.output \in Known /\ s.position \in Nat
      OBVIOUS
    <3>8. SegmentAt(g, a) \in Origin
      BY <3>2
    <3> HIDE DEF a, b, m, changed, merged, Round, X
    <3>9. a <= Len(html) /\ b <= Len(html)
      BY <3>2 DEF N
    <3>10. before \in Known
      BY <1>6, <3>2, <3>7, <3>9, SliceKnown
    <3> HIDE DEF before
    <3>11. AppendSlice(before, g, a, b) \in Known
      BY <1>6, <3>2, <3>9, <3>10, SliceKnown
    <3>12. merged # ps[k].of.style => AppendHtml(before, changed, SegmentAt(g, a)) \in Known
      BY <3>5, <3>8, <3>10, AppendKnown
    <3>13. output \in Known
      BY <3>11, <3>12
    <3> HIDE DEF output
    <3>14. QED
      BY <3>2, <3>6, <3>13 DEF X
  <2>3. QED
    BY <2>1, <2>2
<1> HIDE DEF X, start
<1>10. /\ \A k \in 1..N : \A s \in X : step[<<k, s>>] = Round(k, s) /\ Round(k, s) \in X
       /\ start \in J[0] /\ \A k \in 0..N : J[k] = X
  <2> HIDE DEF Round
  <2>1. QED
    BY <1>2, <1>7, <1>9
<1> HIDE DEF step, Round, J
<1>11. PICK f : IsRecursion(f, N, start, step) /\ \A k \in 0..N : f[k] \in J[k]
  <2>1. \A k \in 1..N : \A s \in J[k - 1] : step[<<k, s>>] \in J[k]
    <3>1. \A k \in 1..N : k - 1 \in 0..N /\ k \in 0..N
      BY <1>2
    <3>2. QED
      BY <1>10, <3>1
  <2>2. start \in J[0]
    BY <1>10
  <2>3. QED
    BY <1>2, <2>1, <2>2, RoundsExist
<1>12. f = F(f)
  <2>1. ASSUME NEW k \in 0..N PROVE f[k] = IF k = 0 THEN start ELSE Round(k, f[k - 1])
    <3>1. k # 0 => k \in 1..N /\ k - 1 \in 0..N
      BY <1>2
    <3>2. QED
      BY <1>10, <1>11, <3>1 DEF IsRecursion
  <2>2. QED
    BY <1>11, <2>1 DEF IsRecursion
<1> DEFINE r == CHOOSE q : q = F(q)
<1>13. r = F(r)
  BY <1>12
<1>14. Restyle(g, rules) = AppendSlice(r[N].output, g, r[N].position, N)
  BY <1>2 DEF Restyle, Loop, Round, N, start
<1> HIDE DEF r
<1>15. r[0] = start /\ \A k \in 1..N : r[k] = Round(k, r[k - 1])
  BY <1>2, <1>13
<1>16. \A k \in 0..N : r[k] \in J[k]
  <2>1. \A k \in 1..N : r[k - 1] \in J[k - 1] => r[k] \in J[k]
    <3>1. \A k \in 1..N : k - 1 \in 0..N /\ k \in 0..N
      BY <1>2
    <3>2. QED
      BY <1>10, <1>15, <3>1
  <2>2. r[0] \in J[0]
    BY <1>10, <1>15
  <2>3. QED
    BY <1>2, <2>1, <2>2, RoundsKeep
<1>17. \A k \in 0..N : r[k] \in X
  BY <1>10, <1>16
<1>18. start \in I[0]
  <2>1. Copied(NoHtml, 0, ps, qs, 0)
    BY <1>1, <1>3, CopiedNothing
  <2>2. start.output = NoHtml /\ start.position = 0
    BY DEF start
  <2>3. Done(0, start)
    BY <2>1, <2>2
  <2> HIDE DEF Done
  <2>4. QED
    BY <1>1, <1>7, <2>3
<1>19. ASSUME NEW k \in 1..n, ps[k].origins # <<>>, r[At(ps, k - 1)] \in I[k - 1]
       PROVE  r[At(ps, k - 1) + 1] \in I[k]
  <2> DEFINE a == At(ps, k - 1)  b == At(ps, k)  i == a + 1  s == r[a]  t == r[i]  j == k - 1
             p == ps[k]  m == Len(p.origins)
  <2>1. /\ a \in Nat /\ b \in Nat /\ b - a = m /\ m \in Nat /\ i \in 1..N /\ b <= N
        /\ g.html[i] = [of |-> p.of, part |-> 1, parts |-> m]
        /\ SegmentAt(g, a) = p.origins[1] /\ p.origins[1] \in Origin
    BY <1>4, <1>19
  <2>2. j \in 0..n /\ k \in 0..n /\ k \in 1..Len(ps) /\ j \in 0..Len(ps) /\ k \in 0..Len(ps)
    BY <1>1
  <2>3. s \in X /\ Done(j, s)
    <3> HIDE DEF Done
    <3>1. QED
      BY <1>19, <2>2
  <2>4. t \in X /\ t = Round(i, s)
    <3>1. i \in 0..N /\ i - 1 = a
      BY <2>1, SMTT(30)
    <3> HIDE DEF i
    <3>2. QED
      BY <1>15, <1>17, <2>1, <3>1
  <2>5. p \in Placed
    BY <1>1, ElementOfSeq
  <2>6. qs[k] = Styled(p, rules) /\ p.origins # <<>>
    BY <1>3, <1>19
  <2>7. SUFFICES Done(k, t)
    <3> HIDE DEF Done, t
    <3>1. QED
      BY <2>2, <2>4, <2>7 DEF t
  <2>8. Copied(s.output, s.position, ps, qs, j)
    BY <2>3
  <2>9. StartsAt(g, "tag", i) <=> p.of.kind = "tag"
    BY <2>1 DEF StartsAt
  <2> HIDE DEF a, b, i, s, t, p, m
  <2>10. CASE p.of.kind # "tag"
    <3>1. t = s
      BY <2>4, <2>9, <2>10 DEF Round
    <3>2. qs[k] = ps[k]
      BY <2>5, <2>6, <2>10, StyledIs DEF p
    <3>3. Len(qs) = Len(ps) /\ Copied(s.output, s.position, ps, qs, k - 1)
      BY <1>1, <1>3, <2>8
    <3>4. Copied(s.output, s.position, ps, qs, k)
      BY <1>1, <1>3, <2>2, <3>2, <3>3, CopiedSame
    <3>5. QED
      BY <3>1, <3>4
  <2>11. CASE p.of.kind = "tag"
    <3> DEFINE before == AppendSlice(s.output, g, s.position, a)
               u == HtmlOf(Upto(qs, j))  v == OriginsOf(Upto(qs, j))
               merged == Style1(p.of)
               changed == UnitsOf([p.of EXCEPT !.style = merged], m + 1)
    <3>1. Is(before, u, v)
      <4>1. Copied(s.output, s.position, ps, qs, j) /\ Is(g, HtmlOf(ps), OriginsOf(ps))
        BY <2>8
      <4> HIDE DEF j
      <4>2. Is(AppendSlice(s.output, g, s.position, At(ps, j)), HtmlOf(Upto(qs, j)),
                OriginsOf(Upto(qs, j)))
        BY <1>1, <2>2, <4>1, CopiedUp
      <4>3. QED
        BY <4>2 DEF a, j
    <3>2. i - 1 = a /\ i - 1 + g.html[i].parts = b /\ g.html[i].of = p.of /\ g.html[i].parts = m
      BY <2>1 DEF i
    <3>3. t = [output |-> IF merged = p.of.style THEN AppendSlice(before, g, a, b)
                          ELSE AppendHtml(before, changed, SegmentAt(g, a)),
               position |-> b]
      BY <2>4, <2>9, <2>11, <3>2 DEF Round
    <3>4. k \in 1..Len(qs)
      BY <1>3
    <3>5. HtmlOf(Upto(qs, k)) = Cat(u, UnitsOf(qs[k].of, Len(qs[k].origins)))
      BY <1>3, <3>4, PageMore
    <3>6. OriginsOf(Upto(qs, k)) = Cat(v, qs[k].origins)
      BY <1>3, <3>4, PageMore
    <3> HIDE DEF before, u, v, Style1
    <3>7. Is(t.output, HtmlOf(Upto(qs, k)), OriginsOf(Upto(qs, k)))
      <4>1. CASE merged = p.of.style
        <5>1. t.output = AppendSlice(before, g, a, b)
          BY <3>3, <4>1
        <5>2. qs[k] = p
          BY <1>8, <2>5, <2>6, <2>11, <4>1
        <5>3. With(u, HtmlOf(ps), a, b) = Cat(u, UnitsOf(p.of, Len(p.origins)))
          BY <1>1, <2>2, WithPiece DEF a, b, p
        <5>4. With(v, OriginsOf(ps), a, b) = Cat(v, p.origins)
          BY <1>1, <2>2, WithPiece DEF a, b, p
        <5>5. a <= b /\ b <= Len(HtmlOf(ps))
          BY <2>1 DEF N, html
        <5>6. Is(AppendSlice(before, g, a, b), With(u, HtmlOf(ps), a, b),
                  With(v, OriginsOf(ps), a, b))
          BY <2>1, <3>1, <5>5, SliceIs
        <5>7. QED
          BY <3>5, <3>6, <5>1, <5>2, <5>3, <5>4, <5>6
      <4>2. CASE merged # p.of.style
        <5> DEFINE origin == p.origins[1]  dressed == qs[k].of  one == m + 1
                   units == UnitsOf(dressed, one)
        <5>1. dressed = [p.of EXCEPT !.style = merged] /\ qs[k].origins = Uniform(one, origin)
          BY <1>8, <2>5, <2>6, <2>11, <4>2 DEF m
        <5>2. units \in Seq(Unit)
          BY <1>8, <2>5, <2>6, <2>11 DEF m
        <5>3. t.output = AppendHtml(before, units, origin)
          BY <2>1, <3>3, <4>2, <5>1
        <5>4. dressed \in Piece
          <6>1. qs[k] \in Placed
            BY <1>3, <3>4, ElementOfSeq
          <6>2. QED
            BY <6>1, PlacedType
        <5>5. origin \in Origin /\ one \in Nat
          BY <2>1
        <5> HIDE DEF origin, dressed, one
        <5>6. Len(units) = one
          BY <5>4, <5>5, UnitsType
        <5>7. Len(Uniform(one, origin)) = one
          BY <5>5, UniformType
        <5> HIDE DEF units
        <5>8. Is(AppendHtml(before, units, origin), u \o units, v \o Uniform(Len(units), origin))
          BY <3>1, <5>2, <5>5, AppendIs
        <5>9. u \o units = HtmlOf(Upto(qs, k))
          BY <3>5, <5>1, <5>7 DEF Cat, units, dressed
        <5>10. v \o Uniform(Len(units), origin) = OriginsOf(Upto(qs, k))
          BY <3>6, <5>1, <5>6 DEF Cat
        <5>11. QED
          BY <5>3, <5>8, <5>9, <5>10
      <4>3. QED
        BY <4>1, <4>2
    <3>8. t.position = b
      BY <3>3
    <3>9. Copied(t.output, At(ps, k), ps, qs, k)
      BY <1>1, <2>2, <3>7, CopiedPiece
    <3>10. QED
      BY <3>8, <3>9 DEF b
  <2>12. QED
    BY <2>10, <2>11
<1>20. ASSUME NEW i \in 1..N, html[i].part # 1 PROVE r[i] = r[i - 1]
  <2>1. ~ StartsAt(g, "tag", i)
    BY <1>2, <1>20 DEF StartsAt
  <2>2. r[i] = Round(i, r[i - 1])
    BY <1>15
  <2>3. QED
    BY <2>1, <2>2 DEF Round
<1>21. ASSUME NEW k \in 1..n, ps[k].origins = <<>>, NEW x \in I[k - 1] PROVE x \in I[k]
  <2>1. k \in 1..Len(ps) /\ k - 1 \in 0..n /\ k \in 0..n
    BY <1>1
  <2>2. x \in X /\ Copied(x.output, x.position, ps, qs, k - 1)
    BY <1>21, <2>1
  <2>3. qs[k] = ps[k]
    BY <1>3, <1>21
  <2>4. Copied(x.output, x.position, ps, qs, k)
    BY <1>1, <1>3, <2>1, <2>2, <2>3, CopiedSame
  <2>5. QED
    BY <2>1, <2>2, <2>4
<1>22. Piecewise(ps, r, I)
  <2>1. r[0] \in I[0]
    BY <1>15, <1>18
  <2> HIDE DEF I
  <2>2. \A k \in 1..Len(ps) : ps[k].origins # <<>> =>
          (r[At(ps, k - 1)] \in I[k - 1] => r[At(ps, k - 1) + 1] \in I[k])
    BY <1>1, <1>19
  <2>3. \A i \in 1..Len(HtmlOf(ps)) : HtmlOf(ps)[i].part # 1 => r[i] = r[i - 1]
    BY <1>20 DEF N, html
  <2>4. \A k \in 1..Len(ps) : ps[k].origins = <<>> => \A x \in I[k - 1] : x \in I[k]
    BY <1>1, <1>21
  <2>5. QED
    BY <2>1, <2>2, <2>3, <2>4 DEF Piecewise
<1> DEFINE s == r[N]
<1>23. Done(n, s)
  <2> HIDE DEF Done, s
  <2>1. r[Len(HtmlOf(ps))] \in I[Len(ps)]
    BY <1>1, <1>22, PieceByPiece
  <2>2. s \in I[n]
    BY <1>1, <2>1 DEF s, N, html
  <2>3. QED
    BY <1>1, <2>2
<1>24. Upto(qs, n) = qs
  <2>1. Upto(qs, Len(qs)) = qs
    BY <1>3, UptoEnds
  <2>2. QED
    BY <1>1, <1>3, <2>1
<1> HIDE DEF s
<1>25. Is(AppendSlice(s.output, g, s.position, N), HtmlOf(qs), OriginsOf(qs))
  <2>1. n \in 0..Len(ps) /\ Copied(s.output, s.position, ps, qs, n)
    BY <1>1, <1>23
  <2>2. Is(AppendSlice(s.output, g, s.position, At(ps, n)), HtmlOf(Upto(qs, n)),
            OriginsOf(Upto(qs, n)))
    BY <1>1, <2>1, CopiedUp
  <2>3. At(ps, n) = N
    BY <1>1, AtEnds DEF N, html
  <2>4. QED
    BY <1>24, <2>2, <2>3
<1>26. QED
  BY <1>14, <1>25 DEF s, qs

\* What is expected is the page without its plain blocks, with its tags restyled.
LEMMA ExpectedIs ==
  ASSUME NEW ps, NEW media, Filled(WithMedia(ps, media))
  PROVE  LET all == WithMedia(ps, media) IN
         /\ TagsFilled(Kept(all))
         /\ Expected(ps, media) = Dressed(Kept(all), RulesOf(all))
         /\ RulesOf(all) = <<>> => Expected(ps, media) = Kept(all)
<1> DEFINE all == WithMedia(ps, media)  qs == Kept(all)  rules == RulesOf(all)  n == Len(all)
           es == Dressed(qs, rules)
<1>1. all \in Seq(Placed) /\ n \in Nat /\ \A k \in 1..n : all[k].origins # <<>>
  BY DEF Filled
<1>2. /\ qs \in Seq(Placed) /\ Len(qs) = n
      /\ \A k \in 1..n :
           qs[k] = IF IsPlainBlock(all[k]) THEN [all[k] EXCEPT !.origins = <<>>] ELSE all[k]
  <2> HIDE DEF all
  <2>1. QED
    BY <1>1, KeptType
<1>3. rules \in Seq(ClassRule)
  <2> HIDE DEF all
  <2>1. QED
    BY <1>1, AtEnds
<1>4. Expected(ps, media)
        = [i \in DOMAIN all |-> IF IsPlainBlock(all[i]) THEN [all[i] EXCEPT !.origins = <<>>]
                                ELSE Styled(all[i], rules)]
  BY DEF Expected
<1> HIDE DEF all, qs, rules, n
<1>5. /\ es \in Seq(Placed) /\ Len(es) = n
      /\ \A k \in 1..n : es[k] = IF qs[k].origins = <<>> THEN qs[k] ELSE Styled(qs[k], rules)
  BY <1>2, <1>3, DressedType
<1> HIDE DEF es
<1>6. DOMAIN all = 1..n
  BY <1>1 DEF n
<1>7. ASSUME NEW k \in 1..n
      PROVE  /\ qs[k].origins = <<>> <=> IsPlainBlock(all[k])
             /\ qs[k].origins = <<>> => qs[k].of.kind # "tag"
             /\ rules = <<>> /\ ~ IsPlainBlock(all[k]) => Styled(all[k], rules) = qs[k]
  <2>1. all[k] \in Placed /\ all[k].origins # <<>>
    BY <1>1, ElementOfSeq DEF n
  <2>2. all[k] = [of |-> all[k].of, origins |-> all[k].origins]
    BY <2>1, PlacedType
  <2>3. CASE IsPlainBlock(all[k])
    <3>1. qs[k] = [all[k] EXCEPT !.origins = <<>>]
      BY <1>2, <2>3
    <3>2. qs[k].origins = <<>> /\ qs[k].of = all[k].of
      BY <2>2, <3>1
    <3>3. qs[k].of.kind # "tag"
      BY <2>3, <3>2 DEF IsPlainBlock
    <3>4. QED
      BY <2>3, <3>2, <3>3
  <2>4. CASE ~ IsPlainBlock(all[k])
    <3>1. qs[k] = all[k]
      BY <1>2, <2>4
    <3>2. rules = <<>> => Styled(all[k], rules) = all[k]
      BY <1>3, <2>1, StyledIs
    <3>3. QED
      BY <2>1, <2>4, <3>1, <3>2
  <2>5. QED
    BY <2>3, <2>4
<1>8. TagsFilled(qs)
  BY <1>2, <1>7 DEF TagsFilled
<1>9. \A k \in 1..n : es[k] = IF IsPlainBlock(all[k]) THEN [all[k] EXCEPT !.origins = <<>>]
                              ELSE Styled(all[k], rules)
  BY <1>2, <1>5, <1>7
<1>10. Expected(ps, media) = es
  BY <1>4, <1>5, <1>6, <1>9
<1>11. rules = <<>> => Expected(ps, media) = qs
  <2>1. rules = <<>> => \A k \in 1..n : es[k] = qs[k]
    BY <1>2, <1>7, <1>9
  <2>2. rules = <<>> => es = qs
    BY <1>2, <1>5, <2>1
  <2>3. QED
    BY <1>10, <2>2
<1>12. QED
  BY <1>8, <1>10, <1>11 DEF all, qs, rules, es

\* The media rules and inline_css together give the page that is expected.
LEMMA FinishIs ==
  ASSUME NEW ps, Filled(ps), NEW media \in Seq(Source)
  PROVE  Is(Finish(Rendered(ps), media), HtmlOf(Expected(ps, media)),
             OriginsOf(Expected(ps, media)))
<1> DEFINE all == WithMedia(ps, media)  g == InsertMedia(Rendered(ps), media)  without == Strip(g)
           rules == RulesOf(all)  qs == Kept(all)
<1>1. ps \in Seq(Placed)
  BY DEF Filled
<1>2. Is(Rendered(ps), HtmlOf(ps), OriginsOf(ps))
  BY <1>1, RenderedIs
<1>3. Is(g, HtmlOf(all), OriginsOf(all))
  BY <1>2, InsertMediaIs
<1>4. Filled(all)
  BY MediaIs
<1>5. /\ TagsFilled(qs) /\ Expected(ps, media) = Dressed(qs, rules)
      /\ rules = <<>> => Expected(ps, media) = qs
  BY <1>4, ExpectedIs
<1>6. rules \in Seq(ClassRule)
  <2>1. all \in Seq(Placed)
    BY <1>4 DEF Filled
  <2> HIDE DEF all
  <2>2. QED
    BY <2>1, AtEnds
<1>7. Finish(Rendered(ps), media)
        = IF without.classes = <<>> THEN without.html ELSE Restyle(without.html, without.classes)
  BY DEF Finish, InlineCss
<1> HIDE DEF all, g
<1>8. Is(without.html, HtmlOf(qs), OriginsOf(qs)) /\ without.classes = rules
  BY <1>3, <1>4, StripIs
<1> HIDE DEF without, rules, qs
<1>9. Is(Restyle(without.html, rules), HtmlOf(Dressed(qs, rules)), OriginsOf(Dressed(qs, rules)))
  BY <1>5, <1>6, <1>8, RestyleIs
<1>10. QED
  BY <1>5, <1>7, <1>8, <1>9

\* For every page and all media rules: tags get the declarations CSS gives them, and
\* every unit of the output keeps its origin (compiler.cpp:94-121, css.cpp:173-265,
\* provenance.cpp:22-72).
THEOREM FinishCascades ==
  ASSUME NEW ps, Filled(ps), NEW media \in Seq(Source)
  PROVE  TagsCascade(ps, media) /\ OriginsKept(ps, media)
<1> DEFINE result == Finish(Rendered(ps), media)  html == HtmlOf(Expected(ps, media))
           origins == OriginsOf(Expected(ps, media))
<1>1. Is(result, html, origins)
  BY FinishIs
<1> HIDE DEF result, html, origins
<1>2. result.html = html /\ html \in Seq(Unit) /\ origins \in Seq(Origin) /\
          Len(origins) = Len(html)
  BY <1>1 DEF Is, Html
<1>3. \A i \in 1..Len(html) : SegmentAt(result, i - 1) = origins[i]
  BY <1>1, SegmentFound
<1>4. [i \in DOMAIN result.html |-> SegmentAt(result, i - 1)] = origins
  BY <1>2, <1>3
<1>5. QED
  BY <1>2, <1>4 DEF TagsCascade, OriginsKept, result, html, origins

-----------------------------------------------------------------------------
(***************************************************************************)
(* Declarations as texts.                                                  *)
(***************************************************************************)
\* The state of parse_declarations between two declarations.
Outside(d) == Reading(FALSE, 0, <<>>, d)

\* What reading a text makes of a state.
Reads(s, text, t) ==
  \E f : f[0] = s /\ f[Len(text)] = t /\ \A k \in 1..Len(text) : f[k] = Read(f[k - 1], text[k])

\* An empty text changes nothing.
LEMMA ReadsNone ==
  ASSUME NEW s
  PROVE  Reads(s, <<>>, s)
<1> DEFINE f == [k \in {0} |-> s]  none == <<>>
<1>1. f[0] = s /\ Len(none) = 0
  OBVIOUS
<1> HIDE DEF none
<1>2. \A k \in 1..Len(none) : f[k] = Read(f[k - 1], none[k])
  BY <1>1
<1>3. Reads(s, none, s)
  BY <1>1, <1>2 DEF Reads
<1>4. QED
  BY <1>3 DEF none

\* Texts are read one after the other.
LEMMA ReadsMore ==
  ASSUME NEW S, NEW a \in Seq(S), NEW b \in Seq(S), NEW s, NEW t, NEW u, Reads(s, a, t),
         Reads(t, b, u)
  PROVE  Reads(s, Cat(a, b), u)
<1> DEFINE m == Len(a)  n == Len(b)  all == Cat(a, b)
<1>1. PICK f : f[0] = s /\ f[m] = t /\ \A k \in 1..m : f[k] = Read(f[k - 1], a[k])
  BY DEF Reads
<1>2. PICK g : g[0] = t /\ g[n] = u /\ \A k \in 1..n : g[k] = Read(g[k - 1], b[k])
  BY DEF Reads
<1> DEFINE h == [k \in 0..(m + n) |-> IF k <= m THEN f[k] ELSE g[k - m]]
<1>3. m \in Nat /\ n \in Nat
  OBVIOUS
<1>4. Len(all) = m + n
  BY ConcatProperties DEF Cat
<1>5. \A i \in 1..m : all[i] = a[i]
  BY CatParts
<1>6. \A i \in 1..n : all[m + i] = b[i]
  BY CatParts
<1> HIDE DEF all, m, n
<1>7. /\ \A k \in 0..m : h[k] = f[k]
      /\ \A k \in 0..n : h[m + k] = g[k]
  <2>1. ASSUME NEW k \in 0..m PROVE h[k] = f[k]
    BY <1>3
  <2>2. ASSUME NEW k \in 0..n PROVE h[m + k] = g[k]
    <3>1. CASE k = 0
      BY <1>1, <1>2, <1>3, <3>1
    <3>2. CASE k # 0
      <4>1. m + k \in 0..(m + n) /\ ~(m + k <= m) /\ (m + k) - m = k
        BY <1>3, <3>2
      <4>2. QED
        BY <4>1
    <3>3. QED
      BY <3>1, <3>2
  <2>3. QED
    BY <2>1, <2>2
<1> HIDE DEF h
<1>8. h[0] = s /\ h[m + n] = u
  BY <1>1, <1>2, <1>3, <1>7
<1>9. ASSUME NEW k \in 1..(m + n) PROVE h[k] = Read(h[k - 1], all[k])
  <2>1. CASE k <= m
    <3>1. k \in 1..m /\ k \in 0..m /\ k - 1 \in 0..m
      BY <1>3, <2>1
    <3>2. QED
      BY <1>1, <1>5, <1>7, <3>1
  <2>2. CASE ~(k <= m)
    <3> DEFINE j == k - m
    <3>1. j \in 1..n /\ j \in 0..n /\ j - 1 \in 0..n /\ k = m + j /\ k - 1 = m + (j - 1)
      BY <1>3, <2>2
    <3> HIDE DEF j
    <3>2. h[m + j] = g[j] /\ h[m + (j - 1)] = g[j - 1] /\ all[m + j] = b[j]
      BY <1>6, <1>7, <3>1
    <3>3. g[j] = Read(g[j - 1], b[j])
      BY <1>2, <3>1
    <3>4. QED
      BY <3>1, <3>2, <3>3
  <2>3. QED
    BY <2>1, <2>2
<1>10. QED
  BY <1>4, <1>8, <1>9 DEF Reads, all

\* commit on nothing declares nothing.
LEMMA NothingDeclared ==
  ASSUME NEW d
  PROVE  Declare(Outside(d)).result = d
<1> DEFINE none == <<>>  s == Outside(d)
<1>1. s.current = none /\ s.result = d
  BY DEF Outside, Reading
<1>2. {i \in DOMAIN none : none[i] = ":"} = {}
  OBVIOUS
<1> HIDE DEF none, s
<1>3. Declare(s).result = d
  BY <1>1, <1>2 DEF Declare, Reading
<1>4. QED
  BY <1>3 DEF s

\* What is read to its end is what parse_declarations returns.
LEMMA ParsedIs ==
  ASSUME NEW S, NEW text \in Seq(S), NEW d, Reads(Outside(NoDeclarations), text, Outside(d))
  PROVE  ParseDeclarations(text) = d
<1> DEFINE n == Len(text)
           start == Reading(FALSE, 0, <<>>, NoDeclarations)
           F(q) == [k \in 0..n |-> IF k = 0 THEN start ELSE Read(q[k - 1], text[k])]
<1>1. PICK f : f[0] = Outside(NoDeclarations) /\ f[n] = Outside(d)
               /\ \A k \in 1..n : f[k] = Read(f[k - 1], text[k])
  BY DEF Reads
<1>2. n \in Nat
  OBVIOUS
<1>3. Outside(NoDeclarations) = start
  BY DEF Outside
<1>4. ParseDeclarations(text) = Declare((CHOOSE q : q = F(q))[n]).result
  BY DEF ParseDeclarations, Loop
<1> HIDE DEF start, n
<1> DEFINE g == [k \in 0..n |-> f[k]]  r == CHOOSE q : q = F(q)
<1>5. g = F(g)
  <2>1. ASSUME NEW k \in 0..n PROVE g[k] = IF k = 0 THEN start ELSE Read(g[k - 1], text[k])
    <3>1. k # 0 => k \in 1..n /\ k - 1 \in 0..n
      BY <1>2
    <3>2. QED
      BY <1>1, <1>3, <3>1
  <2>2. QED
    BY <2>1
<1>6. r = F(r)
  BY <1>5
<1> HIDE DEF r
<1>7. r[0] = start /\ \A k \in 1..n : r[k] = Read(r[k - 1], text[k])
  BY <1>2, <1>6
<1> DEFINE I == [k \in 0..n |-> {f[k]}]
<1>8. \A k \in 0..n : r[k] \in I[k]
  <2>1. r[0] \in I[0]
    BY <1>1, <1>2, <1>3, <1>7
  <2>2. ASSUME NEW k \in 1..n, r[k - 1] \in I[k - 1] PROVE r[k] \in I[k]
    <3>1. k \in 0..n /\ k - 1 \in 0..n
      BY <1>2
    <3>2. QED
      BY <1>1, <1>7, <2>2, <3>1
  <2> HIDE DEF I
  <2>3. QED
    BY <1>2, <2>1, <2>2, RoundsKeep
<1>9. r[n] = Outside(d)
  BY <1>1, <1>2, <1>8
<1>10. QED
  BY <1>4, <1>9, NothingDeclared DEF r

\* The strings and parentheses a character opens and closes.
Quotes(quoted, c) == IF c = "\"" THEN ~ quoted ELSE quoted
Deeper(quoted, depth, c) ==
  CASE ~ quoted /\ c = "(" -> depth + 1 [] ~ quoted /\ c = ")" -> depth - 1 [] OTHER -> depth

\* A ";" ends nothing here.
Enclosed(quoted, depth, c) == c = ";" => quoted \/ depth # 0

\* A parenthesis can be closed where one is open.
LEMMA OneLess ==
  ASSUME NEW a \in Nat, NEW b \in Nat, a = b - 1
  PROVE  b > 0
OBVIOUS

\* A character that ends nothing is appended.
LEMMA ReadOne ==
  ASSUME NEW quoted, NEW depth \in Nat, NEW current, NEW d, NEW c,
         NEW now, now = Quotes(quoted, c),
         NEW deep \in Nat, deep = Deeper(now, depth, c), Enclosed(now, deep, c)
  PROVE  Read(Reading(quoted, depth, current, d), c) = Reading(now, deep, Append(current, c), d)
<1> DEFINE s == Reading(quoted, depth, current, d)
           open == IF c = "\"" THEN ~ s.quoted ELSE s.quoted
           inner == CASE ~ open /\ c = "(" -> s.depth + 1
                      [] ~ open /\ c = ")" /\ s.depth > 0 -> s.depth - 1
                      [] OTHER -> s.depth
<1>1. s.quoted = quoted /\ s.depth = depth /\ s.current = current /\ s.result = d
  BY DEF Reading
<1> HIDE DEF s
<1>2. open = now
  BY <1>1 DEF Quotes
<1>3. Read(s, c) = IF ~ open /\ inner = 0 /\ c = ";"
                   THEN Declare(Reading(open, inner, s.current, s.result))
                   ELSE Reading(open, inner, Append(s.current, c), s.result)
  BY DEF Read
<1> HIDE DEF open
<1>4. inner = deep
  <2>1. CASE ~ now /\ c = "("
    BY <1>1, <1>2, <2>1 DEF Deeper
  <2>2. CASE ~ now /\ c = ")"
    <3>1. ~(c = "(")
      BY <2>2
    <3>2. deep = depth - 1
      BY <2>2, <3>1 DEF Deeper
    <3>3. depth > 0
      BY <3>2, OneLess
    <3>4. QED
      BY <1>1, <1>2, <2>2, <3>1, <3>2, <3>3
  <2>3. CASE ~(~ now /\ c = "(") /\ ~(~ now /\ c = ")")
    BY <1>1, <1>2, <2>3 DEF Deeper
  <2>4. QED
    BY <2>1, <2>2, <2>3
<1> HIDE DEF inner
<1>5. ~(~ open /\ inner = 0 /\ c = ";")
  BY <1>2, <1>4 DEF Enclosed
<1>6. Read(s, c) = Reading(now, deep, Append(current, c), d)
  BY <1>1, <1>2, <1>3, <1>4, <1>5
<1>7. QED
  BY <1>6 DEF s

\* A text that opens what it closes, and has no ";" outside.
Closes(text, w) ==
  /\ w[0].depth = 0 /\ w[0].quoted = FALSE
  /\ \A k \in 1..Len(text) :
       /\ w[k].quoted = Quotes(w[k - 1].quoted, text[k])
       /\ w[k].depth = Deeper(w[k].quoted, w[k - 1].depth, text[k])
       /\ Enclosed(w[k].quoted, w[k].depth, text[k])
  /\ \A k \in 0..Len(text) : w[k].depth \in Nat

\* Such a text is read into the current declaration as it is.
LEMMA ReadsOn ==
  ASSUME NEW S, NEW text \in Seq(S), NEW current \in Seq(S), NEW w, Closes(text, w), NEW d,
         w[Len(text)].quoted = FALSE, w[Len(text)].depth = 0
  PROVE  Reads(Reading(FALSE, 0, current, d), text, Reading(FALSE, 0, Cat(current, text), d))
<1> DEFINE n == Len(text)
           f == [k \in 0..n |-> Reading(w[k].quoted, w[k].depth, Cat(current, Upto(text, k)), d)]
<1>1. n \in Nat /\ 0 \in 0..n /\ n \in 0..n
  OBVIOUS
<1>2. Upto(text, 0) = <<>> /\ Upto(text, n) = text
  BY UptoEnds
<1>3. Cat(current, <<>>) = current
  BY CatNone
<1>4. \A k \in 1..n : Upto(text, k) = Append(Upto(text, k - 1), text[k])
  BY UptoMore
<1>5. \A k \in 1..n : Upto(text, k - 1) \in Seq(S) /\ text[k] \in S
  <2>1. ASSUME NEW k \in 1..n PROVE k - 1 \in 0..n
    BY <1>1
  <2>2. QED
    BY <2>1, UptoType, ElementOfSeq
<1>6. ASSUME NEW k \in 1..n
      PROVE  Cat(current, Upto(text, k)) = Append(Cat(current, Upto(text, k - 1)), text[k])
  <2> DEFINE before == Upto(text, k - 1)  c == text[k]
  <2>1. before \in Seq(S) /\ c \in S
    BY <1>5
  <2>2. Upto(text, k) = Append(before, c)
    BY <1>4
  <2> HIDE DEF before, c
  <2>3. Cat(current, Append(before, c)) = Append(Cat(current, before), c)
    BY <2>1, CatMore
  <2>4. QED
    BY <2>2, <2>3 DEF before, c
<1> HIDE DEF n
<1>7. f[0] = Reading(FALSE, 0, current, d)
  BY <1>1, <1>2, <1>3 DEF Closes
<1>8. f[n] = Reading(FALSE, 0, Cat(current, text), d)
  BY <1>1, <1>2 DEF n
<1>9. ASSUME NEW k \in 1..n PROVE f[k] = Read(f[k - 1], text[k])
  <2> DEFINE j == k - 1  c == text[k]  now == w[k].quoted  deep == w[k].depth
             before == Cat(current, Upto(text, j))
  <2>1. j \in 0..n /\ k \in 0..n /\ k \in 1..Len(text)
    BY <1>1 DEF n
  <2>2. /\ now = Quotes(w[j].quoted, c) /\ deep = Deeper(now, w[j].depth, c)
        /\ Enclosed(now, deep, c)
    BY <2>1 DEF Closes
  <2>3. deep \in Nat /\ w[j].depth \in Nat
    BY <2>1 DEF Closes, n
  <2>4. f[k] = Reading(now, deep, Append(before, c), d)
    BY <1>6, <2>1
  <2>5. f[j] = Reading(w[j].quoted, w[j].depth, before, d)
    BY <2>1
  <2> HIDE DEF f, j, c, now, deep, before
  <2>6. Read(Reading(w[j].quoted, w[j].depth, before, d), c)
            = Reading(now, deep, Append(before, c), d)
    <3> DEFINE q == w[j].quoted  e == w[j].depth
    <3>1. now = Quotes(q, c)
      BY <2>2
    <3>2. deep = Deeper(now, e, c)
      BY <2>2
    <3>3. Enclosed(now, deep, c)
      BY <2>2
    <3>4. deep \in Nat
      BY <2>3
    <3>5. e \in Nat
      BY <2>3
    <3> HIDE DEF q, e
    <3>6. Read(Reading(q, e, before, d), c) = Reading(now, deep, Append(before, c), d)
      BY <3>1, <3>2, <3>3, <3>4, <3>5, ReadOne
    <3>7. QED
      BY <3>6 DEF q, e
  <2>7. f[k] = Read(f[j], c)
    BY <2>4, <2>5, <2>6
  <2>8. QED
    BY <2>7 DEF j, c
<1> HIDE DEF f
<1>10. QED
  BY <1>7, <1>8, <1>9 DEF Reads, n

\* The definition of Within, unfolded.
LEMMA WithinUnfolds ==
  ASSUME NEW S, NEW text \in Seq(S)
  PROVE  LET w == Within(text) IN
         /\ w[0] = [quoted |-> FALSE, depth |-> 0]
         /\ \A k \in 1..Len(text) :
              w[k] = [quoted |-> Quotes(w[k - 1].quoted, text[k]),
                      depth |-> Deeper(Quotes(w[k - 1].quoted, text[k]), w[k - 1].depth, text[k])]
         /\ \A k \in 0..Len(text) : w[k].depth \in Int
<1> DEFINE n == Len(text)
           start == [quoted |-> FALSE, depth |-> 0]
           Next1(last, c) == [quoted |-> Quotes(last.quoted, c),
                              depth |-> Deeper(Quotes(last.quoted, c), last.depth, c)]
           X == [quoted : BOOLEAN, depth : Int]
           F(f) == [k \in 0..n |-> IF k = 0 THEN start ELSE Next1(f[k - 1], text[k])]
           J == [k \in 0..n |-> X]
           step == [p \in (1..n) \X X |-> Next1(p[2], text[p[1]])]
<1>1. n \in Nat
  OBVIOUS
<1>2. start \in X
  OBVIOUS
<1>3. ASSUME NEW last \in X, NEW c PROVE Next1(last, c) \in X
  <2>1. last.quoted \in BOOLEAN /\ last.depth \in Int
    OBVIOUS
  <2>2. Quotes(last.quoted, c) \in BOOLEAN
    BY <2>1 DEF Quotes
  <2>3. last.depth + 1 \in Int /\ last.depth - 1 \in Int
    BY <2>1
  <2>4. Deeper(Quotes(last.quoted, c), last.depth, c) \in Int
    BY <2>1, <2>3 DEF Deeper
  <2>5. QED
    BY <2>2, <2>4
<1>4. Within(text) = CHOOSE f : f = F(f)
  BY DEF Within, Quotes, Deeper
<1> HIDE DEF n, X, start, Next1
<1>5. /\ \A k \in 1..n : \A x \in X :
             step[<<k, x>>] = Next1(x, text[k]) /\ Next1(x, text[k]) \in X
      /\ start \in J[0] /\ \A k \in 0..n : J[k] = X
  BY <1>1, <1>2, <1>3
<1> HIDE DEF step, J
<1>6. PICK f : IsRecursion(f, n, start, step) /\ \A k \in 0..n : f[k] \in J[k]
  <2>1. \A k \in 1..n : \A x \in J[k - 1] : step[<<k, x>>] \in J[k]
    <3>1. \A k \in 1..n : k - 1 \in 0..n /\ k \in 0..n
      BY <1>1
    <3>2. QED
      BY <1>5, <3>1
  <2>2. start \in J[0]
    BY <1>5
  <2>3. QED
    BY <1>1, <2>1, <2>2, RoundsExist
<1>7. f = F(f)
  <2>1. ASSUME NEW k \in 0..n PROVE f[k] = IF k = 0 THEN start ELSE Next1(f[k - 1], text[k])
    <3>1. k # 0 => k \in 1..n /\ k - 1 \in 0..n
      BY <1>1
    <3>2. QED
      BY <1>5, <1>6, <3>1 DEF IsRecursion
  <2>2. QED
    BY <1>6, <2>1 DEF IsRecursion
<1> DEFINE w == Within(text)
<1>8. w = F(w)
  BY <1>4, <1>7
<1> HIDE DEF w
<1>9. w[0] = start /\ \A k \in 1..n : w[k] = Next1(w[k - 1], text[k])
  BY <1>1, <1>8
<1>10. \A k \in 0..n : w[k] \in J[k]
  <2>1. \A k \in 1..n : w[k - 1] \in J[k - 1] => w[k] \in J[k]
    <3>1. \A k \in 1..n : k - 1 \in 0..n /\ k \in 0..n
      BY <1>1
    <3>2. QED
      BY <1>5, <1>9, <3>1
  <2>2. w[0] \in J[0]
    BY <1>5, <1>9
  <2>3. QED
    BY <1>1, <2>1, <2>2, RoundsKeep
<1>11. \A k \in 0..n : w[k].depth \in Int
  <2>1. \A k \in 0..n : w[k] \in X
    BY <1>5, <1>10
  <2>2. QED
    BY <2>1 DEF X
<1>12. QED
  BY <1>9, <1>11 DEF w, n, start, Next1

\* What stands in front of a value opens and ends nothing.
Plain == Letters \cup Blanks \cup {":"}

\* Such a character is outside of strings and parentheses and stays there.
LEMMA PlainIs ==
  ASSUME NEW c \in Plain
  PROVE  Quotes(FALSE, c) = FALSE /\ Deeper(FALSE, 0, c) = 0 /\ Enclosed(FALSE, 0, c)
<1>1. c # "\"" /\ c # "(" /\ c # ")" /\ c # ";"
  BY DEF Plain, Letters, Blanks
<1>2. QED
  BY <1>1 DEF Quotes, Deeper, Enclosed

\* Such a text is read as it is.
LEMMA ReadsPlain ==
  ASSUME NEW text \in Seq(Plain), NEW current \in Seq(Sign), NEW d
  PROVE  Reads(Reading(FALSE, 0, current, d), text, Reading(FALSE, 0, Cat(current, text), d))
<1> DEFINE n == Len(text)  w == [k \in 0..n |-> [quoted |-> FALSE, depth |-> 0]]
<1>1. n \in Nat
  OBVIOUS
<1>2. text \in Seq(Sign)
  <2>1. Plain \subseteq Sign
    BY DEF Plain, Sign
  <2>2. QED
    BY <2>1, SeqMonotonic
<1>3. \A k \in 0..n : w[k].quoted = FALSE /\ w[k].depth = 0
  OBVIOUS
<1>4. \A k \in 1..n : text[k] \in Plain
  BY ElementOfSeq
<1>5. \A k \in 1..n : k \in 0..n /\ k - 1 \in 0..n
  BY <1>1
<1>6. 0 \in 0..n /\ n \in 0..n
  BY <1>1
<1> HIDE DEF w, n
<1>7. ASSUME NEW k \in 1..n
      PROVE  /\ w[k].quoted = Quotes(w[k - 1].quoted, text[k])
             /\ w[k].depth = Deeper(w[k].quoted, w[k - 1].depth, text[k])
             /\ Enclosed(w[k].quoted, w[k].depth, text[k])
  <2>1. w[k].quoted = FALSE /\ w[k].depth = 0 /\ w[k - 1].quoted = FALSE /\ w[k - 1].depth = 0
    BY <1>3, <1>5
  <2>2. text[k] \in Plain
    BY <1>4
  <2>3. /\ Quotes(FALSE, text[k]) = FALSE /\ Deeper(FALSE, 0, text[k]) = 0
        /\ Enclosed(FALSE, 0, text[k])
    BY <2>2, PlainIs
  <2>4. QED
    BY <2>1, <2>3
<1>8. Closes(text, w)
  BY <1>3, <1>6, <1>7 DEF Closes, n
<1>9. w[n].quoted = FALSE /\ w[n].depth = 0
  BY <1>3, <1>6
<1>10. QED
  BY <1>2, <1>8, <1>9, ReadsOn DEF n

\* A value is read as it is, whatever its strings and parentheses contain.
LEMMA ReadsValue ==
  ASSUME NEW value \in Seq(Sign), IsValue(value), NEW current \in Seq(Sign), NEW d
  PROVE  Reads(Reading(FALSE, 0, current, d), value, Reading(FALSE, 0, Cat(current, value), d))
<1> DEFINE n == Len(value)  w == Within(value)
<1>1. n \in Nat
  OBVIOUS
<1>2. /\ w[0] = [quoted |-> FALSE, depth |-> 0]
      /\ \A k \in 1..n :
           w[k] = [quoted |-> Quotes(w[k - 1].quoted, value[k]),
                   depth |-> Deeper(Quotes(w[k - 1].quoted, value[k]), w[k - 1].depth, value[k])]
      /\ \A k \in 0..n : w[k].depth \in Int
  BY WithinUnfolds
<1>3. /\ w[n] = [quoted |-> FALSE, depth |-> 0]
      /\ \A k \in 1..n : w[k].depth >= 0 /\ (value[k] = ";" => w[k].quoted \/ w[k].depth > 0)
  <2>1. DOMAIN value = 1..n
    OBVIOUS
  <2> HIDE DEF n
  <2>2. w[Len(value)] = [quoted |-> FALSE, depth |-> 0]
    BY Zenon DEF IsValue
  <2>3. \A k \in DOMAIN value :
            w[k].depth >= 0 /\ (value[k] = ";" => w[k].quoted \/ w[k].depth > 0)
    BY Zenon DEF IsValue
  <2>4. QED
    BY <2>1, <2>2, <2>3, Zenon DEF n
<1> HIDE DEF w, n
<1>4. w[0].quoted = FALSE /\ w[0].depth = 0 /\ w[n].quoted = FALSE /\ w[n].depth = 0
  <2>1. w[0] = [quoted |-> FALSE, depth |-> 0]
    BY <1>2
  <2>2. w[n] = [quoted |-> FALSE, depth |-> 0]
    BY <1>3
  <2>3. QED
    BY <2>1, <2>2
<1>5. \A k \in 0..n : w[k].depth \in Nat
  <2>1. ASSUME NEW k \in 0..n PROVE w[k].depth \in Nat
    <3>1. CASE k = 0
      BY <1>4, <3>1
    <3>2. CASE k # 0
      <4>1. k \in 1..n
        BY <1>1, <3>2
      <4> DEFINE e == w[k].depth
      <4>2. e >= 0
        BY <1>3, <4>1
      <4>3. e \in Int
        BY <1>2
      <4> HIDE DEF e
      <4>4. e \in Nat
        BY <4>2, <4>3
      <4>5. QED
        BY <4>4 DEF e
    <3>3. QED
      BY <3>1, <3>2
  <2>2. QED
    BY <2>1
<1>6. ASSUME NEW k \in 1..n
      PROVE  /\ w[k].quoted = Quotes(w[k - 1].quoted, value[k])
             /\ w[k].depth = Deeper(w[k].quoted, w[k - 1].depth, value[k])
             /\ Enclosed(w[k].quoted, w[k].depth, value[k])
  <2>1. w[k] = [quoted |-> Quotes(w[k - 1].quoted, value[k]),
                depth |-> Deeper(Quotes(w[k - 1].quoted, value[k]), w[k - 1].depth, value[k])]
    BY <1>2
  <2>2. /\ w[k].quoted = Quotes(w[k - 1].quoted, value[k])
        /\ w[k].depth = Deeper(w[k].quoted, w[k - 1].depth, value[k])
    <3> DEFINE q == Quotes(w[k - 1].quoted, value[k])
               e == Deeper(q, w[k - 1].depth, value[k])
    <3>1. w[k] = [quoted |-> q, depth |-> e]
      BY <2>1
    <3> HIDE DEF q, e
    <3>2. w[k].quoted = q /\ w[k].depth = e
      BY <3>1
    <3>3. QED
      BY <3>2 DEF q, e
  <2>3. value[k] = ";" => w[k].quoted \/ w[k].depth > 0
    BY <1>3
  <2>4. w[k].depth > 0 => w[k].depth # 0
    <3> DEFINE e == w[k].depth
    <3>1. k \in 0..n
      BY <1>1
    <3>2. e \in Nat
      BY <1>5, <3>1
    <3> HIDE DEF e
    <3>3. e > 0 => e # 0
      BY <3>2
    <3>4. QED
      BY <3>3 DEF e
  <2>5. Enclosed(w[k].quoted, w[k].depth, value[k])
    BY <2>3, <2>4 DEF Enclosed
  <2>6. QED
    BY <2>2, <2>5
<1>7. Closes(value, w)
  BY <1>4, <1>5, <1>6 DEF Closes, n
<1>8. QED
  BY <1>4, <1>7, ReadsOn DEF n

\* A ";" outside declares.
LEMMA ReadsEnd ==
  ASSUME NEW current, NEW d
  PROVE  Reads(Reading(FALSE, 0, current, d), <<";">>, Declare(Reading(FALSE, 0, current, d)))
<1> DEFINE s == Reading(FALSE, 0, current, d)  t == Declare(s)  text == <<";">>
           f == [k \in 0..1 |-> IF k = 0 THEN s ELSE t]
<1>1. Read(s, ";") = t
  <2>1. s.quoted = FALSE /\ s.depth = 0 /\ s.current = current /\ s.result = d
    BY DEF Reading
  <2> DEFINE c == ";"
  <2>2. c # "\"" /\ c # "(" /\ c # ")"
    OBVIOUS
  <2> HIDE DEF s, c
  <2>3. Read(s, c) = IF ~ FALSE /\ 0 = 0 /\ c = ";"
                     THEN Declare(Reading(FALSE, 0, s.current, s.result))
                     ELSE Reading(FALSE, 0, Append(s.current, c), s.result)
    BY <2>1, <2>2 DEF Read
  <2>4. QED
    BY <2>1, <2>3 DEF c, s
<1>2. Len(text) = 1 /\ text[1] = ";"
  OBVIOUS
<1> HIDE DEF s, t, text
<1>3. f[0] = s /\ f[1] = t
  OBVIOUS
<1> HIDE DEF f
<1>4. \A k \in 1..1 : k = 1 /\ k - 1 = 0
  OBVIOUS
<1>5. \A k \in 1..1 : f[k] = Read(f[k - 1], text[k])
  BY <1>1, <1>2, <1>3, <1>4
<1>6. QED
  BY <1>2, <1>3, <1>5 DEF Reads, s, t, text

\* The greatest element is the maximum.
LEMMA MostIs ==
  ASSUME NEW S, NEW m \in S, S \subseteq Int, \A k \in S : k <= m
  PROVE  Max(S) = m
<1>1. \A k \in S : m >= k
  OBVIOUS
<1>2. Max(S) \in S /\ \A k \in S : Max(S) >= k
  BY <1>1 DEF Max
<1>3. Max(S) <= m /\ m <= Max(S) /\ Max(S) \in Int /\ m \in Int
  BY <1>2
<1>4. QED
  BY <1>3

\* Trim takes the blanks in front of a text away.
LEMMA TrimIs ==
  ASSUME NEW pad \in Seq(Blanks), NEW text \in Seq(Sign), text # <<>>,
         text[1] \notin Blanks, text[Len(text)] \notin Blanks
  PROVE  Trim(Cat(pad, text)) = text
<1> DEFINE m == Len(pad)  n == Len(text)  s == Cat(pad, text)
           solid == {i \in DOMAIN s : s[i] \notin Blanks}
<1>1. pad \in Seq(Sign)
  <2>1. Blanks \subseteq Sign
    BY DEF Sign
  <2>2. QED
    BY <2>1, SeqMonotonic
<1>2. m \in Nat /\ n \in Nat /\ n > 0
  BY EmptySeq
<1>3. DOMAIN s = 1..(m + n)
  BY <1>1, ConcatProperties DEF Cat
<1>4. \A i \in 1..m : s[i] \in Blanks
  <2>1. \A i \in 1..m : s[i] = pad[i]
    BY <1>1, CatParts
  <2>2. \A i \in 1..m : pad[i] \in Blanks
    BY ElementOfSeq
  <2>3. QED
    BY <2>1, <2>2
<1>5. \A i \in 1..n : s[m + i] = text[i]
  BY <1>1, CatParts
<1>6. SubSeq(s, m + 1, m + n) = text
  BY <1>1, CatParts
<1>7. s[m + 1] \notin Blanks
  <2>1. 1 \in 1..n
    BY <1>2
  <2>2. QED
    BY <1>5, <2>1
<1>8. s[m + n] \notin Blanks
  <2>1. n \in 1..n
    BY <1>2
  <2>2. QED
    BY <1>5, <2>1
<1>9. Trim(s) = IF solid = {} THEN <<>> ELSE SubSeq(s, Min(solid), Max(solid))
  BY DEF Trim
<1> HIDE DEF s, m, n
<1>10. m + 1 \in solid /\ m + n \in solid /\ solid \subseteq Int
  BY <1>2, <1>3, <1>7, <1>8
<1>11. \A k \in solid : m + 1 <= k /\ k <= m + n
  BY <1>2, <1>3, <1>4
<1> HIDE DEF solid
<1>12. Min(solid) = m + 1
  BY <1>10, <1>11, LeastIs
<1>13. Max(solid) = m + n
  BY <1>10, <1>11, MostIs
<1>14. solid # {}
  BY <1>10
<1>15. QED
  BY <1>6, <1>9, <1>12, <1>13, <1>14 DEF s

\* What stands between a name and its value.
Colon == <<":", " ">>

\* A pair is two characters in a row.
LEMMA PairIs ==
  ASSUME NEW x, NEW y
  PROVE  <<x, y>> = <<x>> \o <<y>>
<1> DEFINE S == {x, y}  s == <<x>>
<1>1. s \in Seq(S) /\ y \in S /\ Len(s) = 1 /\ s[1] = x
  OBVIOUS
<1> DEFINE pair == <<x, y>>
<1>2. pair \in Seq(S) /\ Len(pair) = 2 /\ pair[1] = x /\ pair[2] = y
  OBVIOUS
<1> HIDE DEF S, s, pair
<1>3. Append(s, y) = pair
  <2> DEFINE t == Append(s, y)
  <2>1. t \in Seq(S) /\ Len(t) = 2 /\ t[1] = x /\ t[2] = y
    <3>1. t \in Seq(S)
      BY <1>1, AppendProperties
    <3>2. Len(t) = Len(s) + 1
      BY <1>1, AppendProperties, ZenonT(40)
    <3>3. t[Len(s) + 1] = y
      BY <1>1, AppendProperties, ZenonT(40)
    <3>4. \A i \in 1..Len(s) : t[i] = s[i]
      BY <1>1, AppendProperties
    <3> HIDE DEF t
    <3>5. QED
      BY <1>1, <3>1, <3>2, <3>3, <3>4
  <2> HIDE DEF t
  <2>2. t = pair
    BY <1>2, <2>1, SeqEqual
  <2>3. QED
    BY <2>2 DEF t
<1>4. Append(s, y) = s \o <<y>>
  BY <1>1, AppendIsConcat
<1>5. QED
  BY <1>3, <1>4 DEF s, pair

\* What a declaration is written with are characters.
LEMMA SignsType ==
  /\ Colon \in Seq(Plain) /\ Colon \in Seq(Sign) /\ <<";">> \in Seq(Sign) /\
         <<" ">> \in Seq(Blanks)
  /\ \A name \in Seq(Letters) : name \in Seq(Sign) /\ name \in Seq(Plain)
  /\ \A pad \in Seq(Blanks) : pad \in Seq(Sign) /\ pad \in Seq(Plain)
<1>1. ":" \in Plain /\ " " \in Plain /\ " " \in Blanks /\ ";" \in Sign
  BY DEF Plain, Blanks, Sign
<1>2. Plain \subseteq Sign /\ Letters \subseteq Plain /\ Blanks \subseteq Plain
      /\ Letters \subseteq Sign /\ Blanks \subseteq Sign
  BY DEF Plain, Sign
<1>3. ASSUME NEW S, NEW x \in S PROVE <<x>> \in Seq(S)
  OBVIOUS
<1>4. ASSUME NEW S, NEW x \in S, NEW y \in S PROVE <<x, y>> \in Seq(S)
  OBVIOUS
<1>5. Colon \in Seq(Plain) /\ <<";">> \in Seq(Sign) /\ <<" ">> \in Seq(Blanks)
  BY <1>1, <1>3, <1>4, Zenon DEF Colon
<1>6. Colon \in Seq(Sign)
  BY <1>2, <1>5, SeqMonotonic
<1>7. \A name \in Seq(Letters) : name \in Seq(Sign) /\ name \in Seq(Plain)
  BY <1>2, SeqMonotonic
<1>8. \A pad \in Seq(Blanks) : pad \in Seq(Sign) /\ pad \in Seq(Plain)
  BY <1>2, SeqMonotonic
<1>9. QED
  BY <1>5, <1>6, <1>7, <1>8

\* Names in small letters stay names and change no more.
LEMMA NamesFacts ==
  ASSUME NEW name \in Seq(Letters), name # <<>>
  PROVE  /\ LowerCase(name) # <<>> /\ LowerCase(name) \in Seq(Letters)
         /\ LowerCase(LowerCase(name)) = LowerCase(name)
         /\ name[1] \notin Blanks /\ name[Len(name)] \notin Blanks
<1> DEFINE n == Len(name)  low == LowerCase(name)
<1>1. n \in Nat /\ DOMAIN name = 1..n /\ n # 0
  BY EmptySeq
<1>2. \A i \in 1..n : name[i] \in Letters
  BY ElementOfSeq
<1>3. \A x \in Letters : /\ (IF x = "N" THEN "n" ELSE x) \in Letters
                         /\ (IF x = "N" THEN "n" ELSE x) # "N"
                         /\ x \notin Blanks
  BY Zenon DEF Letters, Blanks
<1>4. \A i \in 1..n : low[i] \in Letters /\ low[i] # "N" /\ name[i] \notin Blanks
  BY <1>1, <1>2, <1>3 DEF LowerCase
<1>5. low = [i \in 1..n |-> low[i]]
  BY <1>1 DEF LowerCase
<1>6. LowerCase(low) = low
  <2>1. DOMAIN low = 1..n
    BY <1>5
  <2>2. \A i \in 1..n : (IF low[i] = "N" THEN "n" ELSE low[i]) = low[i]
    BY <1>4
  <2>3. LowerCase(low) = [i \in 1..n |-> IF low[i] = "N" THEN "n" ELSE low[i]]
    BY <2>1 DEF LowerCase
  <2> HIDE DEF low
  <2>4. QED
    BY <1>5, <2>2, <2>3
<1> HIDE DEF low, n
<1>7. 1 \in 1..n /\ n \in 1..n
  BY <1>1
<1>8. low \in Seq(Letters)
  <2>1. \A i \in 1..n : low[i] \in Letters
    BY <1>4
  <2>2. QED
    BY <1>1, <1>5, <2>1
<1>9. low # <<>>
  <2>1. DOMAIN low = 1..n
    BY <1>5
  <2>2. DOMAIN <<>> = {}
    OBVIOUS
  <2>3. QED
    BY <1>7, <2>1, <2>2
<1>10. QED
  BY <1>4, <1>6, <1>7, <1>8, <1>9 DEF low, n

\* commit on the text of a declaration.
LEMMA DeclareIs ==
  ASSUME NEW pad \in Seq(Blanks), NEW name \in Seq(Letters), name # <<>>,
         NEW value \in Seq(Sign), value # <<>>, value[1] \notin Blanks,
         value[Len(value)] \notin Blanks,
         NEW d
  PROVE  Declare(Reading(FALSE, 0, Cat(Cat(Cat(pad, name), Colon), value), d))
           = Outside(Over(OnlyOne(LowerCase(name), value), d))
<1> DEFINE head == Cat(pad, name)
           one == <<":">>
           blank == <<" ">>
           tail == Cat(blank, value)
           rest == Cat(one, tail)
           all == Cat(head, rest)
           c == Len(head) + 1
           n == Len(all)
           colons == {i \in DOMAIN all : all[i] = ":"}
<1>1. /\ pad \in Seq(Sign) /\ name \in Seq(Sign) /\ pad \in Seq(Plain) /\ name \in Seq(Plain)
      /\ Colon \in Seq(Sign)
  BY SignsType
<1>2. one \in Seq(Sign) /\ blank \in Seq(Sign) /\ blank \in Seq(Blanks) /\ Colon = Cat(one, blank)
  <2>1. blank \in Seq(Blanks) /\ blank \in Seq(Sign)
    BY SignsType
  <2>2. ":" \in Sign
    BY DEF Sign
  <2>3. one \in Seq(Sign)
    BY <2>2
  <2>4. Colon = Cat(one, blank)
    BY PairIs, Zenon DEF Colon, Cat
  <2>5. QED
    BY <2>1, <2>3, <2>4
<1> HIDE DEF blank
<1>3. Len(one) = 1 /\ one[1] = ":"
  OBVIOUS
<1> HIDE DEF one
<1>4. head \in Seq(Sign)
  BY <1>1, CatType
<1>5. tail \in Seq(Sign)
  BY <1>2, CatType
<1>6. Trim(head) = name /\ Trim(tail) = value
  <2>1. name[1] \notin Blanks /\ name[Len(name)] \notin Blanks
    BY NamesFacts
  <2>2. Trim(head) = name
    BY <1>1, <2>1, TrimIs
  <2>3. Trim(tail) = value
    BY <1>2, TrimIs
  <2>4. QED
    BY <2>2, <2>3
<1>7. \A i \in 1..Len(head) : head[i] # ":"
  <2>1. \A x \in Letters \cup Blanks : x # ":"
    BY DEF Letters, Blanks
  <2>2. pad \in Seq(Letters \cup Blanks) /\ name \in Seq(Letters \cup Blanks)
    BY SeqMonotonic
  <2>3. head \in Seq(Letters \cup Blanks)
    BY <2>2, CatType
  <2> HIDE DEF head
  <2>4. \A i \in 1..Len(head) : head[i] \in Letters \cup Blanks
    BY <2>3, ElementOfSeq
  <2>5. QED
    BY <2>1, <2>4
<1>8. Cat(Cat(head, Colon), value) = all
  <2>1. Cat(Cat(head, Colon), value) = Cat(head, Cat(Colon, value))
    BY <1>1, <1>4, CatTwice
  <2>2. Cat(Cat(one, blank), value) = Cat(one, Cat(blank, value))
    BY <1>2, CatTwice
  <2>3. QED
    BY <1>2, <2>1, <2>2
<1> HIDE DEF head, tail
<1>9. rest \in Seq(Sign) /\ Len(rest) = 1 + Len(tail)
  BY <1>2, <1>3, <1>5, CatType, ZenonT(40)
<1>10. rest[1] = ":"
  <2>1. \A i \in 1..Len(one) : rest[i] = one[i]
    BY <1>2, <1>5, CatParts
  <2>2. QED
    BY <1>3, <2>1
<1>11. SubSeq(rest, 2, 1 + Len(tail)) = tail
  <2>1. SubSeq(rest, Len(one) + 1, Len(one) + Len(tail)) = tail
    BY <1>2, <1>5, CatParts
  <2>2. QED
    BY <1>3, <2>1
<1> HIDE DEF rest
<1>12. all \in Seq(Sign) /\ n = Len(head) + Len(rest) /\ DOMAIN all = 1..n
  <2>1. head \in Seq(Sign) /\ rest \in Seq(Sign)
    BY <1>4, <1>9
  <2>2. all \in Seq(Sign)
    BY <2>1, CatType
  <2>3. n = Len(head) + Len(rest)
    BY <2>1, CatType
  <2> HIDE DEF all
  <2>4. DOMAIN all = 1..n
    BY <2>2
  <2>5. QED
    BY <2>2, <2>3, <2>4
<1>13. SubSeq(all, 1, Len(head)) = head
  BY <1>4, <1>9, CatParts
<1>14. \A i \in 1..Len(head) : all[i] = head[i]
  BY <1>4, <1>9, CatParts
<1>15. \A i \in 1..Len(rest) : all[Len(head) + i] = rest[i]
  BY <1>4, <1>9, CatParts
<1>16. Len(head) \in Nat /\ Len(tail) \in Nat
  BY <1>4, <1>5
<1>17. SubSeq(all, c + 1, n) = tail
  <2> DEFINE m == Len(tail)
  <2>1. \A i \in 1..m : all[c + i] = tail[i]
    <3>1. ASSUME NEW i \in 1..m PROVE all[c + i] = tail[i]
      <4> DEFINE j == 1 + i
      <4>1. j \in 1..Len(rest) /\ Len(head) + j = c + i
        BY <1>9, <1>16
      <4>2. all[Len(head) + j] = rest[j]
        BY <1>15, <4>1
      <4>3. rest[j] = tail[i]
        <5>1. one \in Seq(Sign) /\ tail \in Seq(Sign) /\ rest = Cat(one, tail)
          BY <1>2, <1>5 DEF rest
        <5>2. Cat(one, tail)[Len(one) + i] = tail[i]
          BY <5>1, CatParts
        <5>3. QED
          BY <1>3, <5>1, <5>2
      <4>4. QED
        BY <4>1, <4>2, <4>3
    <3>2. QED
      BY <3>1
  <2>2. c \in Nat /\ c + m = n /\ m \in Nat
    BY <1>9, <1>12, <1>16
  <2> HIDE DEF c, n, all, m
  <2>3. c <= n /\ n <= Len(all) /\ n \in Nat
    BY <2>2 DEF n
  <2>4. SubSeq(all, c + 1, n) \in Seq(Sign)
    BY <1>12, <2>2, <2>3, PartType
  <2>5. Len(SubSeq(all, c + 1, n)) = n - c
    BY <1>12, <2>2, <2>3, PartType
  <2>6. \A i \in 1..(n - c) : SubSeq(all, c + 1, n)[i] = all[c + i]
    BY <1>12, <2>2, <2>3, PartType
  <2>7. n - c = m
    BY <2>2
  <2> DEFINE part == SubSeq(all, c + 1, n)
  <2> HIDE DEF part
  <2>8. part \in Seq(Sign) /\ Len(part) = m /\ \A i \in 1..m : part[i] = tail[i]
    BY <2>1, <2>4, <2>5, <2>6, <2>7 DEF part
  <2>9. part = tail
    BY <1>5, <2>8, SeqEqual DEF m
  <2>10. QED
    BY <2>9 DEF part
<1> HIDE DEF all
<1>18. c \in colons /\ colons \subseteq Int /\ \A i \in colons : c <= i
  <2>1. c \in 1..n /\ n \in Nat
    BY <1>9, <1>12, <1>16
  <2>2. all[c] = ":"
    <3>1. 1 \in 1..Len(rest)
      BY <1>9, <1>16
    <3>2. QED
      BY <1>10, <1>15, <3>1
  <2>3. c \in colons /\ colons \subseteq Int
    BY <1>12, <2>1, <2>2
  <2>4. ASSUME NEW i \in colons PROVE c <= i
    <3>1. i \in 1..n /\ all[i] = ":"
      BY <1>12
    <3>2. ~(i \in 1..Len(head))
      BY <1>7, <1>14, <3>1
    <3> HIDE DEF colons, n
    <3>3. QED
      BY <1>16, <2>1, <3>1, <3>2
  <2>5. QED
    BY <2>3, <2>4
<1> HIDE DEF colons, n, c
<1>19. Min(colons) = c /\ colons # {}
  BY <1>18, LeastIs
<1>20. c - 1 = Len(head)
  BY <1>16 DEF c
<1>21. LowerCase(Trim(SubSeq(all, 1, Min(colons) - 1))) = LowerCase(name)
  BY <1>6, <1>13, <1>19, <1>20
<1>22. Trim(SubSeq(all, Min(colons) + 1, Len(all))) = value
  BY <1>6, <1>17, <1>19 DEF n
<1>23. LowerCase(name) # <<>>
  BY NamesFacts
<1> DEFINE s == Reading(FALSE, 0, all, d)
<1>24. Declare(s) = Outside(Over(OnlyOne(LowerCase(name), value), d))
  <2>1. s.quoted = FALSE /\ s.depth = 0 /\ s.current = all /\ s.result = d
    BY DEF Reading
  <2> HIDE DEF s
  <2> DEFINE low == LowerCase(Trim(SubSeq(s.current, 1, Min(colons) - 1)))
             said == Trim(SubSeq(s.current, Min(colons) + 1, Len(s.current)))
  <2>2. colons = {i \in DOMAIN s.current : s.current[i] = ":"}
    BY <2>1 DEF colons
  <2>3. Declare(s) = Reading(s.quoted, s.depth, <<>>,
                             IF colons # {} /\ low # <<>> /\ said # <<>>
                             THEN Over(OnlyOne(low, said), s.result) ELSE s.result)
    BY <2>2 DEF Declare
  <2>4. low = LowerCase(name) /\ said = value
    BY <1>21, <1>22, <2>1
  <2> HIDE DEF low, said
  <2>5. QED
    BY <1>19, <1>23, <2>1, <2>3, <2>4 DEF Outside
<1>25. QED
  BY <1>8, <1>24 DEF s, head

\* Reading one more declaration puts it on top.
LEMMA ReadsDeclaration ==
  ASSUME NEW pad \in Seq(Blanks), NEW name \in Seq(Letters), name # <<>>,
         NEW value \in Seq(Sign), IsValue(value), NEW d
  PROVE  /\ Cat(pad, Declaration(name, value)) \in Seq(Sign)
         /\ Declaration(name, value) \in Seq(Sign)
         /\ Reads(Outside(d), Cat(pad, Declaration(name, value)),
                  Outside(Over(OnlyOne(LowerCase(name), value), d)))
<1> DEFINE head == Cat(pad, name)
           front == Cat(head, Colon)
           current == Cat(front, value)
           none == <<>>
           end == <<";">>
           after == Outside(Over(OnlyOne(LowerCase(name), value), d))
<1>1. /\ pad \in Seq(Sign) /\ name \in Seq(Sign) /\ pad \in Seq(Plain) /\ name \in Seq(Plain)
      /\ Colon \in Seq(Sign) /\ Colon \in Seq(Plain) /\ end \in Seq(Sign)
  BY SignsType
<1> HIDE DEF end
<1>2. head \in Seq(Plain) /\ head \in Seq(Sign)
  BY <1>1, CatType
<1>3. front \in Seq(Plain) /\ front \in Seq(Sign)
  <2> HIDE DEF head
  <2>1. QED
    BY <1>1, <1>2, CatType
<1>4. current \in Seq(Sign)
  <2> HIDE DEF front
  <2>1. QED
    BY <1>3, CatType
<1>5. Cat(pad, Declaration(name, value)) = Cat(current, end) /\
          Declaration(name, value) \in Seq(Sign)
  <2> DEFINE a == Cat(name, Colon)  b == Cat(a, value)
  <2>1. Declaration(name, value) = Cat(b, end)
    BY DEF Declaration, Cat, Colon, end
  <2>2. a \in Seq(Sign)
    BY <1>1, CatType
  <2>3. Cat(pad, a) = front
    BY <1>1, CatTwice
  <2> HIDE DEF a, front
  <2>4. b \in Seq(Sign)
    BY <2>2, CatType
  <2>5. Cat(pad, b) = current
    BY <1>1, <2>2, <2>3, CatTwice
  <2> HIDE DEF b, current
  <2>6. Cat(pad, Cat(b, end)) = Cat(current, end)
    BY <1>1, <2>4, <2>5, CatTwice
  <2>7. Cat(b, end) \in Seq(Sign)
    BY <1>1, <2>4, CatType
  <2>8. QED
    BY <2>1, <2>6, <2>7
<1>6. value # <<>> /\ value[1] \notin Blanks /\ value[Len(value)] \notin Blanks
  BY DEF IsValue, Last
<1>7. Declare(Reading(FALSE, 0, current, d)) = after
  BY <1>6, DeclareIs
<1> HIDE DEF head, after
<1>8. none \in Seq(Sign) /\ Cat(none, front) = front
  BY <1>3, CatNone
<1> HIDE DEF none, front
<1>9. Reads(Reading(FALSE, 0, none, d), front, Reading(FALSE, 0, front, d))
  <2>1. Reads(Reading(FALSE, 0, none, d), front, Reading(FALSE, 0, Cat(none, front), d))
    BY <1>3, <1>8, ReadsPlain
  <2>2. QED
    BY <1>8, <2>1
<1>10. Reads(Reading(FALSE, 0, front, d), value, Reading(FALSE, 0, current, d))
  BY <1>3, ReadsValue
<1>11. Reads(Reading(FALSE, 0, none, d), current, Reading(FALSE, 0, current, d))
  BY <1>3, <1>9, <1>10, ReadsMore
<1>12. Reads(Reading(FALSE, 0, current, d), end, after)
  BY <1>7, ReadsEnd DEF end
<1> HIDE DEF current
<1>13. Reads(Reading(FALSE, 0, none, d), Cat(current, end), after)
  BY <1>1, <1>4, <1>11, <1>12, ReadsMore
<1>14. Cat(current, end) \in Seq(Sign)
  BY <1>1, <1>4, CatType
<1>15. QED
  BY <1>5, <1>13, <1>14 DEF Outside, after, none

\* Each entry as a layer of one declaration.
Layers(entries) ==
  [i \in DOMAIN entries |-> OnlyOne(LowerCase(entries[i].name), entries[i].value)]

\* What an entry consists of.
LEMMA EntryType ==
  ASSUME NEW e \in StyleEntry
  PROVE  /\ e.name \in Seq(Letters) /\ e.name # <<>> /\ e.value \in Seq(Sign) /\ IsValue(e.value)
         /\ Declaration(e.name, e.value) \in Seq(Sign)
<1>1. e.name \in Seq(Letters) /\ e.name # <<>> /\ e.value \in Seq(Sign) /\ IsValue(e.value)
  BY Zenon DEF StyleEntry
<1> DEFINE none == <<>>
<1>2. none \in Seq(Blanks)
  OBVIOUS
<1> HIDE DEF none
<1>3. Declaration(e.name, e.value) \in Seq(Sign)
  BY <1>1, <1>2, ReadsDeclaration
<1>4. QED
  BY <1>1, <1>3

\* Of declarations one after the other, with blanks in between, the last of a
\* name counts.
LEMMA ReadAll ==
  ASSUME NEW entries \in Seq(StyleEntry), NEW g, NEW pads, g[0] = <<>>,
         \A k \in 1..Len(entries) : pads[k] \in Seq(Blanks),
         \A k \in 1..Len(entries) :
           g[k] = Cat(g[k - 1], Cat(pads[k], Declaration(entries[k].name, entries[k].value)))
  PROVE  IsCascade(ParseDeclarations(g[Len(entries)]), Layers(entries))
<1> DEFINE n == Len(entries)
           layers == Layers(entries)
           X == {layers[i] : i \in 1..n}
           start == Outside(NoDeclarations)
           Done(k) == /\ g[k] \in Seq(Sign)
                      /\ \E d : IsCascade(d, Upto(layers, k)) /\ Reads(start, g[k], Outside(d))
           S == {k \in 0..n : Done(k)}
<1>1. n \in Nat /\ DOMAIN entries = 1..n
  OBVIOUS
<1>2. layers = [i \in 1..n |-> layers[i]]
  BY <1>1 DEF Layers
<1>3. \A i \in 1..n : layers[i] = OnlyOne(LowerCase(entries[i].name), entries[i].value)
  BY <1>1 DEF Layers
<1> HIDE DEF layers, n
<1>4. layers \in Seq(X) /\ Len(layers) = n
  BY <1>1, <1>2
<1>5. \A k \in 1..n : layers[k] \in X
  OBVIOUS
<1> HIDE DEF X
<1>6. 0 \in S
  <2>1. Upto(layers, 0) = <<>>
    BY <1>4, UptoEnds
  <2>2. Reads(start, g[0], Outside(NoDeclarations))
    BY ReadsNone
  <2>3. g[0] \in Seq(Sign)
    BY EmptySeq
  <2>4. Done(0)
    BY <2>1, <2>2, <2>3, CascadeOfNone
  <2> HIDE DEF Done
  <2>5. QED
    BY <1>1, <2>4
<1>7. ASSUME NEW k \in 0..(n - 1), k \in S PROVE k + 1 \in S
  <2> DEFINE j == k + 1  e == entries[j]  more == layers[j]
             text == Cat(pads[j], Declaration(e.name, e.value))
  <2>1. j \in 1..n /\ j \in 0..n /\ j - 1 = k /\ k \in 0..n
    BY <1>1
  <2>2. Done(k)
    BY <1>7
  <2>3. PICK d : IsCascade(d, Upto(layers, k)) /\ Reads(start, g[k], Outside(d))
    BY <2>2
  <2>4. g[k] \in Seq(Sign)
    BY <2>2
  <2> HIDE DEF j
  <2>5. Upto(layers, j) = Append(Upto(layers, k), more)
    <3>1. j \in 1..Len(layers)
      BY <1>4, <2>1
    <3>2. Upto(layers, j) = Append(Upto(layers, j - 1), layers[j])
      BY <1>4, <3>1, UptoMore
    <3>3. QED
      BY <2>1, <3>2
  <2>6. Upto(layers, k) \in Seq(X)
    BY <1>4, <2>1, UptoType
  <2>7. more \in X /\ more = OnlyOne(LowerCase(e.name), e.value)
    BY <1>3, <1>5, <2>1
  <2>8. more = [q \in DOMAIN more |-> more[q]]
    BY <2>7 DEF OnlyOne
  <2>9. e \in StyleEntry
    BY <2>1, ElementOfSeq DEF n
  <2>10. /\ e.name \in Seq(Letters) /\ e.name # <<>> /\ e.value \in Seq(Sign) /\ IsValue(e.value)
    BY <2>9, EntryType
  <2>11. pads[j] \in Seq(Blanks) /\ g[j] = Cat(g[k], text)
    BY <2>1 DEF n
  <2> HIDE DEF e, more
  <2>12. IsCascade(Over(more, d), Append(Upto(layers, k), more))
    BY <2>3, <2>6, <2>7, <2>8, CascadeGrows
  <2>13. text \in Seq(Sign)
    BY <2>10, <2>11, ReadsDeclaration
  <2>14. Reads(Outside(d), text, Outside(Over(more, d)))
    BY <2>7, <2>10, <2>11, ReadsDeclaration
  <2> HIDE DEF text, start
  <2>15. Reads(start, Cat(g[k], text), Outside(Over(more, d)))
    BY <2>3, <2>4, <2>13, <2>14, ReadsMore
  <2>16. Cat(g[k], text) \in Seq(Sign)
    BY <2>4, <2>13, CatType
  <2>17. Done(j)
    BY <2>5, <2>11, <2>12, <2>15, <2>16
  <2> HIDE DEF Done
  <2>18. QED
    BY <2>1, <2>17 DEF j
<1> HIDE DEF S
<1>8. \A k \in 0..n : k \in S
  BY <1>1, <1>6, <1>7, Induction
<1>9. Done(n)
  <2>1. n \in 0..n
    BY <1>1
  <2> HIDE DEF Done
  <2>2. QED
    BY <1>8, <2>1 DEF S
<1>10. PICK d : IsCascade(d, Upto(layers, n)) /\ Reads(start, g[n], Outside(d))
  BY <1>9
<1>11. Upto(layers, n) = layers
  BY <1>4, UptoEnds
<1>12. g[n] \in Seq(Sign)
  BY <1>9
<1>13. ParseDeclarations(g[n]) = d
  BY <1>10, <1>12, ParsedIs
<1>14. QED
  BY <1>10, <1>11, <1>13 DEF n, layers

\* Also of entries as a style is written.
LEMMA ReadEntries ==
  ASSUME NEW entries \in Seq(StyleEntry)
  PROVE  LET parts == [i \in DOMAIN entries |-> Declaration(entries[i].name, entries[i].value)]
             text == FlattenSeq(parts)
         IN  IsCascade(ParseDeclarations(text), Layers(entries))
<1> DEFINE n == Len(entries)
           xs == [i \in DOMAIN entries |-> Declaration(entries[i].name, entries[i].value)]
           none == <<>>
           pads == [k \in 1..n |-> none]
<1>1. n \in Nat /\ DOMAIN entries = 1..n
  OBVIOUS
<1>2. \A k \in 1..n : entries[k] \in StyleEntry
  BY ElementOfSeq
<1>3. \A k \in 1..n : xs[k] = Declaration(entries[k].name, entries[k].value)
  BY <1>1
<1>4. \A k \in 1..n : xs[k] \in Seq(Sign)
  BY <1>2, <1>3, EntryType
<1>5. xs = [k \in 1..n |-> xs[k]]
  BY <1>1
<1>6. none \in Seq(Blanks)
  OBVIOUS
<1> HIDE DEF xs, n, none
<1>7. xs \in Seq(Seq(Sign)) /\ Len(xs) = n
  BY <1>1, <1>4, <1>5
<1>8. PICK g : g[0] = <<>> /\ \A k \in 1..Len(xs) : g[k] = Cat(g[k - 1], xs[k])
  BY <1>7, FlatExists
<1>9. FlattenSeq(xs) = g[n]
  <2>1. FlattenSeq(xs) = g[Len(xs)]
    BY <1>7, <1>8, FlatIs
  <2>2. QED
    BY <1>7, <2>1
<1>10. \A k \in 1..n : pads[k] = none /\ Cat(none, xs[k]) = xs[k]
  BY <1>4, CatNone DEF none
<1>11. \A k \in 1..n : pads[k] \in Seq(Blanks)
  BY <1>6, <1>10
<1> HIDE DEF pads
<1>12. \A k \in 1..n :
         g[k] = Cat(g[k - 1], Cat(pads[k], Declaration(entries[k].name, entries[k].value)))
  BY <1>3, <1>7, <1>8, <1>10
<1>13. IsCascade(ParseDeclarations(g[n]), Layers(entries))
  <2>1. \A k \in 1..Len(entries) : pads[k] \in Seq(Blanks)
    BY <1>11 DEF n
  <2>2. \A k \in 1..Len(entries) :
          g[k] = Cat(g[k - 1], Cat(pads[k], Declaration(entries[k].name, entries[k].value)))
    BY <1>12 DEF n
  <2>3. IsCascade(ParseDeclarations(g[Len(entries)]), Layers(entries))
    BY <1>8, <2>1, <2>2, ReadAll
  <2>4. QED
    BY <2>3 DEF n
<1>14. QED
  BY <1>9, <1>13 DEF xs

\* A finite set as a sequence: every element once.
LEMMA SeqOfSet ==
  ASSUME NEW S, IsFiniteSet(S)
  PROVE  /\ SetToSeq(S) \in Seq(S)
         /\ \A x \in S : \E k \in 1..Len(SetToSeq(S)) : SetToSeq(S)[k] = x
         /\ \A k, l \in 1..Len(SetToSeq(S)) : SetToSeq(S)[k] = SetToSeq(S)[l] => k = l
<1> DEFINE n == Cardinality(S)  names == SetToSeq(S)
<1>1. n \in Nat /\ ExistsBijection(1..n, S)
  BY FS_CardinalityType
<1>2. PICK f : f \in Bijection(1..n, S)
  BY <1>1 DEF ExistsBijection
<1>3. f \in [1..n -> S] /\ IsInjective(f)
  BY <1>2 DEF Bijection, Injection
<1> HIDE DEF n
<1>4. names \in [1..n -> S] /\ IsInjective(names)
  BY <1>3 DEF SetToSeq, n
<1> HIDE DEF names
<1>5. names \in Injection(1..n, S)
  BY <1>4 DEF Injection
<1>6. Cardinality(1..n) = n
  <2> DEFINE one == 1
  <2>1. one \in Int /\ n \in Int /\ (IF one > n THEN 0 ELSE n - one + 1) = n
    BY <1>1
  <2> HIDE DEF one
  <2>2. Cardinality(one..n) = IF one > n THEN 0 ELSE n - one + 1
    BY <2>1, FS_Interval
  <2>3. QED
    BY <2>1, <2>2 DEF one
<1>7. names \in Surjection(1..n, S)
  <2> DEFINE T == 1..n
  <2>1. Cardinality(T) = Cardinality(S)
    BY <1>6 DEF n
  <2>2. names \in Injection(T, S)
    BY <1>5
  <2> HIDE DEF T
  <2>3. Cardinality(T) = Cardinality(S) <=> names \in Surjection(T, S)
    BY <2>2, FS_Injection
  <2>4. QED
    BY <2>1, <2>3 DEF T
<1>8. names \in Seq(S) /\ Len(names) = n
  BY <1>1, <1>4
<1>9. \A x \in S : \E k \in 1..n : names[k] = x
  BY <1>7 DEF Surjection
<1>10. \A k, l \in 1..n : names[k] = names[l] => k = l
  BY <1>4 DEF IsInjective
<1>11. QED
  BY <1>8, <1>9, <1>10 DEF names

\* The declarations that can be read: names in small letters, and values.
Readable(d) ==
  /\ d = [q \in DOMAIN d |-> d[q]] /\ IsFiniteSet(DOMAIN d)
  /\ \A q \in DOMAIN d : /\ q \in Seq(Letters) /\ q # <<>> /\ LowerCase(q) = q
                         /\ d[q] \in Seq(Sign) /\ IsValue(d[q])

\* One declaration.
LEMMA OnlyOneIs ==
  ASSUME NEW name, NEW value
  PROVE  DOMAIN OnlyOne(name, value) = {name} /\ OnlyOne(name, value)[name] = value
BY DEF OnlyOne

\* What parse_declarations returns can be read again.
LEMMA WhatIsRead ==
  ASSUME NEW entries \in Seq(StyleEntry), NEW d, IsCascade(d, Layers(entries))
  PROVE  Readable(d)
<1> DEFINE n == Len(entries)
           layers == Layers(entries)
           low == [i \in 1..n |-> LowerCase(entries[i].name)]
<1>1. n \in Nat /\ DOMAIN entries = 1..n
  OBVIOUS
<1>2. DOMAIN layers = 1..n
  BY <1>1 DEF Layers
<1>3. \A i \in 1..n : layers[i] = OnlyOne(low[i], entries[i].value)
  BY <1>1 DEF Layers
<1>4. \A i \in 1..n : entries[i] \in StyleEntry
  BY ElementOfSeq
<1>5. \A i \in 1..n : DOMAIN layers[i] = {low[i]} /\ layers[i][low[i]] = entries[i].value
  <2>1. ASSUME NEW i \in 1..n
        PROVE  DOMAIN layers[i] = {low[i]} /\ layers[i][low[i]] = entries[i].value
    <3> DEFINE a == low[i]  v == entries[i].value  x == layers[i]
    <3>1. x = OnlyOne(a, v)
      BY <1>3
    <3> HIDE DEF a, v, x
    <3>2. DOMAIN OnlyOne(a, v) = {a} /\ OnlyOne(a, v)[a] = v
      BY OnlyOneIs
    <3>3. DOMAIN x = {a} /\ x[a] = v
      BY <3>1, <3>2
    <3>4. QED
      BY <3>3 DEF a, v, x
  <2>2. QED
    BY <2>1
<1>6. \A i \in 1..n : /\ low[i] \in Seq(Letters) /\ low[i] # <<>> /\ LowerCase(low[i]) = low[i]
                      /\ entries[i].value \in Seq(Sign) /\ IsValue(entries[i].value)
  <2>1. ASSUME NEW i \in 1..n
        PROVE  /\ low[i] \in Seq(Letters) /\ low[i] # <<>> /\ LowerCase(low[i]) = low[i]
               /\ entries[i].value \in Seq(Sign) /\ IsValue(entries[i].value)
    <3> DEFINE e == entries[i]
    <3>1. e \in StyleEntry
      BY <1>4
    <3>2. low[i] = LowerCase(e.name)
      OBVIOUS
    <3> HIDE DEF e, low
    <3>3. e.name \in Seq(Letters) /\ e.name # <<>> /\ e.value \in Seq(Sign) /\ IsValue(e.value)
      BY <3>1, EntryType
    <3>4. /\ LowerCase(e.name) \in Seq(Letters) /\ LowerCase(e.name) # <<>>
          /\ LowerCase(LowerCase(e.name)) = LowerCase(e.name)
      BY <3>3, NamesFacts
    <3>5. QED
      BY <3>2, <3>3, <3>4 DEF e
  <2>2. QED
    BY <2>1
<1>7. DOMAIN d = UNION {DOMAIN layers[i] : i \in 1..n}
  BY <1>2 DEF IsCascade
<1>8. d = [q \in DOMAIN d |-> d[q]]
  BY <1>7 DEF IsCascade
<1>9. \A q \in DOMAIN d : \E j \in 1..n : q = low[j] /\ d[q] = entries[j].value
  <2>1. ASSUME NEW q \in DOMAIN d PROVE \E j \in 1..n : q = low[j] /\ d[q] = entries[j].value
    <3>1. PICK j \in 1..n : q \in DOMAIN layers[j] /\ d[q] = layers[j][q]
      BY <1>2 DEF IsCascade
    <3> HIDE DEF layers, low, n
    <3>2. q = low[j]
      BY <1>5, <3>1
    <3>3. d[q] = entries[j].value
      BY <1>5, <3>1, <3>2
    <3>4. QED
      BY <3>2, <3>3
  <2>2. QED
    BY <2>1
<1>10. \A i \in 1..n : low[i] \in DOMAIN d
  <2> HIDE DEF layers, low, n
  <2>1. QED
    BY <1>5, <1>7
<1>11. IsFiniteSet(DOMAIN d)
  <2>1. low = [i \in 1..n |-> low[i]]
    OBVIOUS
  <2> HIDE DEF low, n, layers
  <2>2. low \in Surjection(1..n, DOMAIN d)
    BY <1>9, <1>10, <2>1 DEF Surjection
  <2>3. IsFiniteSet(1..n)
    <3> DEFINE one == 1
    <3>1. one \in Int /\ n \in Int
      BY <1>1
    <3> HIDE DEF one
    <3>2. IsFiniteSet(one..n)
      BY <3>1, FS_Interval
    <3>3. QED
      BY <3>2 DEF one
  <2>4. QED
    BY <2>2, <2>3, FS_Surjection
<1> HIDE DEF low, n, layers
<1>12. \A q \in DOMAIN d : /\ q \in Seq(Letters) /\ q # <<>> /\ LowerCase(q) = q
                           /\ d[q] \in Seq(Sign) /\ IsValue(d[q])
  BY <1>6, <1>9
<1>13. QED
  BY <1>8, <1>11, <1>12 DEF Readable

\* serialize_declarations and parse_declarations are inverse on it (css.cpp:42-76).
THEOREM ReadAgain ==
  ASSUME NEW d, Readable(d)
  PROVE  ParseDeclarations(SerializeDeclarations(d)) = d
<1> DEFINE names == SetToSeq(DOMAIN d)
           n == Len(names)
           Pad(text) == IF text = <<>> THEN <<>> ELSE <<" ">>
           Decl(k) == Declaration(names[k], d[names[k]])
           Round(k, text) == text \o (IF text = <<>> THEN <<>> ELSE <<" ">>)
               \o Declaration(names[k], d[names[k]])
           none == <<>>
           F(f) == [k \in 0..n |-> IF k = 0 THEN none ELSE Round(k, f[k - 1])]
           X == Seq(Sign)
           J == [k \in 0..n |-> X]
           step == [p \in (1..n) \X X |-> Round(p[1], p[2])]
           entries == [k \in 1..n |-> [name |-> names[k], value |-> d[names[k]]]]
<1>1. names \in Seq(DOMAIN d) /\ n \in Nat
  BY SeqOfSet DEF Readable
<1>2. \A x \in DOMAIN d : \E k \in 1..n : names[k] = x
  BY SeqOfSet DEF Readable
<1>3. \A k, l \in 1..n : names[k] = names[l] => k = l
  BY SeqOfSet DEF Readable
<1>4. SerializeDeclarations(d) = (CHOOSE f : f = F(f))[n]
  BY DEF SerializeDeclarations, Loop
<1> HIDE DEF n, names
<1>5. \A k \in 1..n : names[k] \in DOMAIN d
  BY <1>1, ElementOfSeq DEF n
<1>6. \A k \in 1..n :
        /\ names[k] \in Seq(Letters) /\ names[k] # <<>>
        /\ LowerCase(names[k]) = names[k]
        /\ d[names[k]] \in Seq(Sign) /\ IsValue(d[names[k]])
  BY <1>5 DEF Readable
<1>7. \A text \in X : Pad(text) \in Seq(Blanks) /\ Pad(text) \in X
  <2>1. <<" ">> \in Seq(Blanks) /\ none \in Seq(Blanks)
    BY SignsType, EmptySeq
  <2>2. \A pad \in Seq(Blanks) : pad \in X
    BY SignsType
  <2>3. QED
    BY <2>1, <2>2
<1>8. \A k \in 1..n : entries[k] \in StyleEntry
  <2>1. ASSUME NEW k \in 1..n PROVE entries[k] \in StyleEntry
    <3> DEFINE a == names[k]  b == d[names[k]]
    <3>1. a \in Seq(Letters) \ {<<>>} /\ b \in {v \in Seq(Sign) : IsValue(v)}
      BY <1>6
    <3>2. entries[k] = [name |-> a, value |-> b]
      OBVIOUS
    <3> HIDE DEF a, b, entries
    <3>3. [name |-> a, value |-> b] \in StyleEntry
      BY <3>1 DEF StyleEntry
    <3>4. QED
      BY <3>2, <3>3
  <2>2. QED
    BY <2>1
<1>9. \A k \in 1..n : entries[k].name = names[k] /\ entries[k].value = d[names[k]]
  OBVIOUS
<1>10. entries \in Seq(StyleEntry) /\ Len(entries) = n
  <2>1. entries = [k \in 1..n |-> entries[k]]
    OBVIOUS
  <2> HIDE DEF entries
  <2>2. QED
    BY <1>1, <1>8, <2>1
<1>11. \A k \in 1..n : Decl(k) \in Seq(Sign)
  <2>1. ASSUME NEW k \in 1..n PROVE Decl(k) \in Seq(Sign)
    <3>1. Declaration(entries[k].name, entries[k].value) \in Seq(Sign)
      <4> HIDE DEF entries
      <4>1. QED
        BY <1>8, EntryType
    <3>2. QED
      BY <1>9, <3>1
  <2>2. QED
    BY <2>1
<1>12. \A k \in 1..n : \A text \in X :
         Round(k, text) = Cat(text, Cat(Pad(text), Decl(k))) /\ Round(k, text) \in X
  <2>1. ASSUME NEW k \in 1..n, NEW text \in X
        PROVE  Round(k, text) = Cat(text, Cat(Pad(text), Decl(k))) /\ Round(k, text) \in X
    <3> DEFINE pad == Pad(text)  decl == Decl(k)
    <3>1. pad \in X /\ decl \in X
      BY <1>7, <1>11
    <3>2. Round(k, text) = Cat(Cat(text, pad), decl)
      BY DEF Cat
    <3> HIDE DEF pad, decl, Round
    <3>3. Cat(Cat(text, pad), decl) = Cat(text, Cat(pad, decl))
      BY <3>1, CatTwice
    <3>4. Cat(pad, decl) \in X
      BY <3>1, CatType
    <3>5. Cat(text, Cat(pad, decl)) \in X
      BY <3>4, CatType
    <3>6. QED
      BY <3>2, <3>3, <3>5 DEF pad, decl
  <2>2. QED
    BY <2>1
<1>13. none \in X
  BY EmptySeq
<1> HIDE DEF none, Pad, Decl, Round, X, entries
<1>14. /\ \A k \in 1..n : \A x \in X : step[<<k, x>>] = Round(k, x) /\ Round(k, x) \in X
       /\ none \in J[0] /\ \A k \in 0..n : J[k] = X
  BY <1>1, <1>12, <1>13
<1> HIDE DEF step, J
<1>15. PICK f : IsRecursion(f, n, none, step) /\ \A k \in 0..n : f[k] \in J[k]
  <2>1. \A k \in 1..n : \A x \in J[k - 1] : step[<<k, x>>] \in J[k]
    <3>1. \A k \in 1..n : k - 1 \in 0..n /\ k \in 0..n
      BY <1>1
    <3>2. QED
      BY <1>14, <3>1
  <2>2. none \in J[0]
    BY <1>14
  <2>3. QED
    BY <1>1, <2>1, <2>2, RoundsExist
<1>16. f = F(f)
  <2>1. ASSUME NEW k \in 0..n PROVE f[k] = IF k = 0 THEN none ELSE Round(k, f[k - 1])
    <3>1. k # 0 => k \in 1..n /\ k - 1 \in 0..n
      BY <1>1
    <3>2. QED
      BY <1>14, <1>15, <3>1 DEF IsRecursion
  <2>2. QED
    BY <1>15, <2>1 DEF IsRecursion
<1> DEFINE r == CHOOSE q : q = F(q)
<1>17. r = F(r)
  BY <1>16
<1>18. SerializeDeclarations(d) = r[n]
  BY <1>4
<1> HIDE DEF r
<1>19. r[0] = none /\ \A k \in 1..n : r[k] = Round(k, r[k - 1])
  BY <1>1, <1>17
<1>20. \A k \in 0..n : r[k] \in J[k]
  <2>1. \A k \in 1..n : r[k - 1] \in J[k - 1] => r[k] \in J[k]
    <3>1. \A k \in 1..n : k - 1 \in 0..n /\ k \in 0..n
      BY <1>1
    <3>2. QED
      BY <1>14, <1>19, <3>1
  <2>2. r[0] \in J[0]
    BY <1>14, <1>19
  <2>3. QED
    BY <1>1, <2>1, <2>2, RoundsKeep
<1> DEFINE pads == [k \in 1..n |-> Pad(r[k - 1])]
<1>21. \A k \in 1..n : r[k - 1] \in X
  BY <1>1, <1>14, <1>20
<1>22. \A k \in 1..n : pads[k] = Pad(r[k - 1]) /\ pads[k] \in Seq(Blanks)
  BY <1>7, <1>21
<1> HIDE DEF pads
<1>23. \A k \in 1..n :
         r[k] = Cat(r[k - 1], Cat(pads[k], Declaration(entries[k].name, entries[k].value)))
  <2>1. \A k \in 1..n : Decl(k) = Declaration(entries[k].name, entries[k].value)
    BY <1>9 DEF Decl
  <2>2. QED
    BY <1>12, <1>19, <1>21, <1>22, <2>1
<1>24. IsCascade(ParseDeclarations(r[n]), Layers(entries))
  <2>1. r[0] = <<>>
    BY <1>19 DEF none
  <2>2. \A k \in 1..Len(entries) : pads[k] \in Seq(Blanks)
    BY <1>10, <1>22
  <2>3. \A k \in 1..Len(entries) :
          r[k] = Cat(r[k - 1], Cat(pads[k], Declaration(entries[k].name, entries[k].value)))
    BY <1>10, <1>23
  <2>4. IsCascade(ParseDeclarations(r[Len(entries)]), Layers(entries))
    BY <1>10, <2>1, <2>2, <2>3, ReadAll
  <2>5. QED
    BY <1>10, <2>4
<1> DEFINE layers == Layers(entries)
<1>25. DOMAIN layers = 1..n
  BY <1>1, <1>10 DEF Layers
<1>26. \A i \in 1..n : DOMAIN layers[i] = {names[i]} /\ layers[i][names[i]] = d[names[i]]
  <2>1. ASSUME NEW i \in 1..n PROVE layers[i] = OnlyOne(names[i], d[names[i]])
    <3>1. layers[i] = OnlyOne(LowerCase(entries[i].name), entries[i].value)
      BY <1>10 DEF Layers
    <3>2. QED
      BY <1>6, <1>9, <3>1
  <2> HIDE DEF layers
  <2>2. ASSUME NEW i \in 1..n
        PROVE  DOMAIN layers[i] = {names[i]} /\ layers[i][names[i]] = d[names[i]]
    <3> DEFINE a == names[i]  v == d[names[i]]  x == layers[i]
    <3>1. x = OnlyOne(a, v)
      BY <2>1
    <3> HIDE DEF a, v, x
    <3>2. DOMAIN OnlyOne(a, v) = {a} /\ OnlyOne(a, v)[a] = v
      BY OnlyOneIs
    <3>3. DOMAIN x = {a} /\ x[a] = v
      BY <3>1, <3>2
    <3>4. QED
      BY <3>3 DEF a, v, x
  <2>3. QED
    BY <2>2
<1> HIDE DEF layers
<1>27. IsCascade(d, layers)
  <2>1. UNION {DOMAIN layers[i] : i \in DOMAIN layers} = DOMAIN d
    <3>1. ASSUME NEW q \in DOMAIN d PROVE \E i \in 1..n : q \in DOMAIN layers[i]
      BY <1>2, <1>26
    <3>2. ASSUME NEW i \in 1..n PROVE DOMAIN layers[i] \subseteq DOMAIN d
      BY <1>5, <1>26
    <3>3. QED
      BY <1>25, <3>1, <3>2
  <2>2. d = [q \in UNION {DOMAIN layers[i] : i \in DOMAIN layers} |-> d[q]]
    BY <2>1 DEF Readable
  <2>3. ASSUME NEW q \in DOMAIN d
        PROVE  \E j \in DOMAIN layers :
                 /\ q \in DOMAIN layers[j] /\ d[q] = layers[j][q]
                 /\ \A k \in DOMAIN layers : k > j => q \notin DOMAIN layers[k]
    <3>1. PICK j \in 1..n : names[j] = q
      BY <1>2
    <3>2. ASSUME NEW k \in 1..n, k > j PROVE q \notin DOMAIN layers[k]
      <4>1. k # j
        BY <3>2
      <4>2. names[k] # q
        BY <1>3, <3>1, <4>1
      <4>3. QED
        BY <1>26, <4>2
    <3>3. QED
      BY <1>25, <1>26, <3>1, <3>2
  <2>4. QED
    BY <2>2, <2>3 DEF IsCascade
<1>28. DOMAIN layers \subseteq Int
  BY <1>25
<1>29. d = Cascaded(layers)
  BY <1>27, <1>28, CascadeUnique
<1>30. ParseDeclarations(r[n]) = Cascaded(layers)
  BY <1>24, <1>28, CascadeUnique DEF layers
<1>31. QED
  BY <1>18, <1>29, <1>30

\* For every list of declarations the last for each name counts, and what was written
\* into a tag says the same when it is read again (css.cpp:42-76).
THEOREM EntriesKept ==
  ASSUME NEW entries \in Seq(StyleEntry)
  PROVE  DeclarationsKept(entries)
<1> DEFINE parts == [i \in DOMAIN entries |-> Declaration(entries[i].name, entries[i].value)]
           text == FlattenSeq(parts)
           parsed == ParseDeclarations(text)
           layers == Layers(entries)
<1>1. IsCascade(parsed, layers)
  BY ReadEntries
<1>2. DOMAIN layers \subseteq Int
  BY DEF Layers
<1> HIDE DEF parsed, text
<1>3. Readable(parsed)
  BY <1>1, WhatIsRead
<1> HIDE DEF layers
<1>4. parsed = Cascaded(layers)
  BY <1>1, <1>2, CascadeUnique
<1>5. ParseDeclarations(SerializeDeclarations(parsed)) = parsed
  BY <1>3, ReadAgain
<1>6. QED
  BY <1>4, <1>5 DEF DeclarationsKept, parsed, text, layers, Layers

\* All three hold for every input: lists of declarations, style layers and pages
\* (css.cpp:42-265, styles.cpp:37-60, provenance.cpp:22-72).
THEOREM StylesOfEveryPage == AnySpec => []StylesCascade
<1>1. ASSUME input \in AnyInput PROVE StylesCascade
  <2>1. CASE input \in AnyDeclarations
    <3>1. PICK entries \in Seq(StyleEntry) : input = OfDeclarations(entries)
      BY <2>1 DEF AnyDeclarations
    <3>2. DeclarationsKept(entries)
      BY EntriesKept
    <3>3. input.part = "declarations" /\ input.entries = entries
      BY <3>1 DEF OfDeclarations
    <3>4. QED
      BY <3>2, <3>3 DEF StylesCascade
  <2>2. CASE input \in AnyLayers
    <3>1. PICK tag \in [style : Style], names \in Seq(Bundle), call \in Style,
               styles \in UNION {[D -> Style] : D \in SUBSET Bundle} :
                 input = OfLayers(tag, names, call, styles)
      BY <2>2 DEF AnyLayers
    <3>2. LayersCascade(tag, names, call, styles)
      BY LayersInOrder
    <3>3. /\ input.part = "layers" /\ input.tag = tag /\ input.names = names
          /\ input.call = call /\ input.styles = styles
      BY <3>1 DEF OfLayers
    <3>4. QED
      BY <3>2, <3>3 DEF StylesCascade
  <2>3. CASE input \in AnyPage
    <3>1. PICK pieces \in Seq(PlacedPiece), media \in Seq(Source) : input = OfPage(pieces, media)
      BY <2>3 DEF AnyPage
    <3>2. PlacedPiece \subseteq Placed
      <4>1. Seq(Source) \subseteq Seq(Origin)
        BY SeqMonotonic DEF Origin
      <4>2. QED
        BY <4>1 DEF Placed, PlacedPiece
    <3>3. \A k \in 1..Len(pieces) : pieces[k].origins # <<>>
      <4>1. ASSUME NEW k \in 1..Len(pieces) PROVE pieces[k] \in PlacedPiece
        BY <3>1, ElementOfSeq
      <4>2. QED
        BY <4>1 DEF PlacedPiece
    <3>4. Filled(pieces)
      BY <3>2, <3>3, SeqMonotonic DEF Filled
    <3>5. TagsCascade(pieces, media) /\ OriginsKept(pieces, media)
      BY <3>4, FinishCascades
    <3>6. input.part = "page" /\ input.pieces = pieces /\ input.media = media
      BY <3>1 DEF OfPage
    <3>7. QED
      BY <3>5, <3>6 DEF StylesCascade
  <2>4. CASE input.part \in {"characters", "bytes", "include"}
    BY <2>4 DEF StylesCascade
  <2>5. CASE input \in AnyCharacters
    BY <2>4, <2>5 DEF AnyCharacters, OfCharacters
  <2>6. CASE input \in AnyBytes
    BY <2>4, <2>6 DEF AnyBytes, OfBytes
  <2>7. CASE input \in AnyInclude
    BY <2>4, <2>7 DEF AnyInclude, OfInclude
  <2>8. QED
    BY <1>1, <2>1, <2>2, <2>3, <2>5, <2>6, <2>7 DEF AnyInput
<1>2. StylesCascade /\ UNCHANGED input => StylesCascade'
  BY DEF StylesCascade
<1>3. QED
  BY <1>1, <1>2, PTL DEF AnySpec
=============================================================================
