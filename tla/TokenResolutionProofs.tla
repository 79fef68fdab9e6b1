----------------------- MODULE TokenResolutionProofs -----------------------
(***************************************************************************)
(* Proofs about TokenResolution, for every set of tokens and definitions   *)
(* and every order in which the hash table hands the tokens out.           *)
(***************************************************************************)
EXTENDS TokenResolution, SetInduction, TLAPS

-----------------------------------------------------------------------------
(***************************************************************************)
(* The three ways the stack of calls changes.                              *)
(***************************************************************************)
\* A frame's loop moves on with what was found.
LEMMA MovedFrame ==
  ASSUME NEW f \in Frame, NEW found \in SUBSET Token
  PROVE  LET moved == [f EXCEPT !.next = @ + 1, !.context = @ \cup found] IN
         /\ moved \in Frame
         /\ moved.name = f.name
         /\ moved.next = f.next + 1
         /\ moved.context = f.context \cup found
<1> DEFINE moved == [f EXCEPT !.next = @ + 1, !.context = @ \cup found]
<1>1. f.next + 1 \in Nat \ {0} /\ f.context \cup found \in SUBSET Token
  BY DEF Frame
<1>2. moved = [[f EXCEPT !.next = f.next + 1] EXCEPT !.context = f.context \cup found]
  BY DEF Frame
<1>3. [f EXCEPT !.next = f.next + 1] \in Frame
  BY <1>1 DEF Frame
<1>4. QED
  BY <1>1, <1>2, <1>3 DEF Frame

LEMMA TopFrame ==
  ASSUME TypeOK, ~Idle
  PROVE  /\ Len(stack) \in Nat \ {0}
         /\ Len(stack) \in DOMAIN stack
         /\ Top \in Frame
BY DEF TypeOK, Idle, Top

\* A call sees its next mention: the frames keep their names, and the top
\* context gains what was found.
LEMMA PastFrames ==
  ASSUME TypeOK, ~Idle, NEW found \in SUBSET Token
  PROVE  /\ Past(found) \in Seq(Frame)
         /\ DOMAIN Past(found) = DOMAIN stack
         /\ \A k \in DOMAIN stack :
              /\ Past(found)[k].name = stack[k].name
              /\ Past(found)[k].context \subseteq stack[k].context \cup found
              /\ k # Len(stack) => Past(found)[k] = stack[k]
         /\ Past(found)[Len(stack)].next = Top.next + 1
         /\ Past(found)[Len(stack)].context = Top.context \cup found
<1> DEFINE moved == [Top EXCEPT !.next = @ + 1, !.context = @ \cup found]
<1>1. moved \in Frame /\ moved.name = Top.name /\ moved.next = Top.next + 1
        /\ moved.context = Top.context \cup found
  BY TopFrame, MovedFrame
<1>2. Past(found) = [stack EXCEPT ![Len(stack)] = moved]
  <2>1. stack \in Seq(Frame) /\ Len(stack) \in DOMAIN stack
    BY TopFrame DEF TypeOK
  <2>2. QED
    BY <2>1 DEF Past, Top
<1> HIDE DEF moved
<1>3. Past(found) \in Seq(Frame) /\ DOMAIN Past(found) = DOMAIN stack
  BY <1>1, <1>2, TopFrame DEF TypeOK
<1>4. ASSUME NEW k \in DOMAIN stack
      PROVE  /\ Past(found)[k].name = stack[k].name
             /\ Past(found)[k].context \subseteq stack[k].context \cup found
             /\ k # Len(stack) => Past(found)[k] = stack[k]
  <2>1. CASE k = Len(stack)
    BY <1>1, <1>2, <2>1, TopFrame DEF TypeOK, Top
  <2>2. CASE k # Len(stack)
    BY <1>2, <2>2 DEF TypeOK
  <2>3. QED
    BY <2>1, <2>2
<1>5. Past(found)[Len(stack)] = moved
  BY <1>2, TopFrame DEF TypeOK
<1>6. QED
  BY <1>1, <1>3, <1>4, <1>5

\* A call returns: its frame is gone, and its caller gains what was found.
LEMMA CallerFrames ==
  ASSUME TypeOK, ~Idle, NEW found \in SUBSET Token
  PROVE  /\ Callers(found) \in Seq(Frame)
         /\ DOMAIN Callers(found) = 1..(Len(stack) - 1)
         /\ \A k \in 1..(Len(stack) - 1) :
              /\ Callers(found)[k].name = stack[k].name
              /\ Callers(found)[k].context \subseteq stack[k].context \cup found
              /\ k # Len(stack) - 1 => Callers(found)[k] = stack[k]
              /\ k = Len(stack) - 1 =>
                   /\ Callers(found)[k].next = stack[k].next + 1
                   /\ Callers(found)[k].context = stack[k].context \cup found
<1>1. CASE Len(stack) = 1
  BY <1>1 DEF Callers
<1>2. CASE Len(stack) # 1
  <2>1. /\ stack \in Seq(Frame) /\ Len(stack) - 1 \in Nat \ {0}
        /\ Len(stack) - 1 \in DOMAIN stack
    <3>1. stack \in Seq(Frame) /\ Len(stack) \in Nat /\ Len(stack) # 0
      BY TopFrame DEF TypeOK
    <3>2. \A m \in Nat : m # 0 /\ m # 1 => m - 1 \in Nat \ {0} /\ m - 1 \in 1..m
      OBVIOUS
    <3>3. DOMAIN stack = 1..Len(stack)
      BY <3>1
    <3>4. Len(stack) - 1 \in Nat \ {0} /\ Len(stack) - 1 \in 1..Len(stack)
      BY <1>2, <3>1, <3>2, Zenon
    <3>5. QED
      BY <3>1, <3>3, <3>4
  <2> DEFINE n == Len(stack) - 1
             rest == SubSeq(stack, 1, n)
             moved == [rest[n] EXCEPT !.next = @ + 1, !.context = @ \cup found]
  <2>2. n \in Nat \ {0} /\ n \in DOMAIN stack /\ stack \in Seq(Frame)
    BY <2>1
  <2>3. rest \in Seq(Frame) /\ DOMAIN rest = 1..n /\ Len(rest) = n
          /\ \A k \in 1..n : rest[k] = stack[k]
    BY <2>2
  <2>4. rest[n] \in Frame
    BY <2>2, <2>3
  <2>5. moved \in Frame /\ moved.name = rest[n].name
          /\ moved.next = rest[n].next + 1
          /\ moved.context = rest[n].context \cup found
    BY <2>4, MovedFrame
  <2>6. Callers(found) = [rest EXCEPT ![n] = moved]
    BY <1>2, <2>2, <2>3 DEF Callers
  <2> HIDE DEF rest, moved, n
  <2>7. Callers(found) \in Seq(Frame) /\ DOMAIN Callers(found) = 1..n
    BY <2>2, <2>3, <2>5, <2>6
  <2>8. ASSUME NEW k \in 1..n
        PROVE  /\ Callers(found)[k].name = stack[k].name
               /\ Callers(found)[k].context \subseteq stack[k].context \cup found
               /\ k # n => Callers(found)[k] = stack[k]
               /\ k = n => /\ Callers(found)[k].next = stack[k].next + 1
                           /\ Callers(found)[k].context = stack[k].context \cup found
    <3>1. CASE k = n
      BY <2>3, <2>5, <2>6, <3>1
    <3>2. CASE k # n
      BY <2>3, <2>6, <3>2
    <3>3. QED
      BY <3>1, <3>2
  <2>9. QED
    BY <2>7, <2>8 DEF n
<1>3. QED
  BY <1>1, <1>2

\* A call is made: its frame, with nothing in its context, is on top.
LEMMA EnteredFrames ==
  ASSUME TypeOK, NEW t \in Token, Enter(stack, t)
  PROVE  /\ stack' \in Seq(Frame)
         /\ DOMAIN stack' = 1..(Len(stack) + 1)
         /\ Len(stack) \in Nat /\ DOMAIN stack = 1..Len(stack)
         /\ \A k \in DOMAIN stack : stack'[k] = stack[k]
         /\ stack'[Len(stack) + 1].name = t
         /\ stack'[Len(stack) + 1].next = 1
         /\ stack'[Len(stack) + 1].context = {}
<1>1. [name |-> t, next |-> 1, context |-> {}] \in Frame
  BY DEF Frame
<1>2. QED
  BY <1>1 DEF Enter, TypeOK

\* The kinds of step, by what each does to the stack and to the memo.
EnterStep ==
  \E t \in Defined \ (output \cup visiting) :
    /\ Enter(stack, t)
    /\ UNCHANGED output
    /\ \/ Idle /\ todo' = todo \ {t}
       \/ HasMention /\ Mentioned = t /\ UNCHANGED todo
PastStep ==
  /\ HasMention
  /\ \E found \in SUBSET output :
       /\ stack' = Past(found)
       /\ Mentioned \in found \cup visiting \/ Mentioned \notin Defined
  /\ Mentioned \in output \/ Mentioned \notin Defined \/ MentionVisiting
  /\ UNCHANGED <<visiting, output, todo>>
ReturnStep ==
  /\ Evaluates
  /\ \/ /\ Return({Top.name}) /\ output' = output \cup {Top.name}
        /\ Readable /\ TopDefinition.outcome = "scalar"
     \/ /\ Return({}) /\ output' = output
        /\ ~Readable \/ TopDefinition.outcome # "scalar"
  /\ UNCHANGED todo
RestStep ==
  /\ UNCHANGED <<stack, visiting, output>>
  /\ todo \subseteq todo' \cup output

-----------------------------------------------------------------------------
(***************************************************************************)
(* Type correctness.                                                       *)
(***************************************************************************)
LEMMA InitTyped == Init => TypeOK
BY DEF Init, TypeOK

\* A step of the resolution keeps the type of every variable.
LEMMA NextTyped ==
  ASSUME TypeOK, [Next]_vars
  PROVE  TypeOK'
<1>1. ASSUME NEW code \in Code, diagnostics' = Append(diagnostics, code)
      PROVE  diagnostics' \in Seq(Code)
  BY <1>1 DEF TypeOK
<1>2. ASSUME NEW t \in Token, Enter(stack, t)
      PROVE  stack' \in Seq(Frame) /\ visiting' \in SUBSET Token
  BY <1>2, EnteredFrames DEF Enter, TypeOK
<1>3. ASSUME ~Idle, NEW found \in SUBSET Token, Return(found)
      PROVE  stack' \in Seq(Frame) /\ visiting' \in SUBSET Token
  BY <1>3, CallerFrames DEF Return, TypeOK
<1>4. Idle \/ {Top.name} \in SUBSET Token
  BY TopFrame DEF Frame
<1>5. CASE \E t \in Token : VisitMemoised(t)
  BY <1>5 DEF VisitMemoised, TypeOK
<1>6. CASE \E t \in Token : Visit(t)
  BY <1>6, <1>2 DEF Visit, TypeOK
<1>7. CASE MentionMemoised
  <2>1. {Mentioned} \in SUBSET Token
    BY <1>7 DEF MentionMemoised, TypeOK
  <2>2. QED
    BY <1>7, <2>1, PastFrames DEF MentionMemoised, HasMention, TypeOK
<1>8. CASE MentionUndefined
  BY <1>8, PastFrames DEF MentionUndefined, HasMention, TypeOK
<1>9. CASE MentionVisiting
  BY <1>9, <1>1, PastFrames DEF MentionVisiting, HasMention, TypeOK, Code
<1>10. CASE MentionNew
  <2>1. Mentioned \in Token
    BY <1>10 DEF MentionNew, Defined
  <2>2. QED
    BY <1>10, <2>1, <1>2 DEF MentionNew, TypeOK
<1>11. CASE EvaluateToScalar
  BY <1>11, <1>3, <1>4 DEF EvaluateToScalar, Evaluates, TypeOK
<1>12. CASE EvaluateToComposite
  BY <1>12, <1>1, <1>3 DEF EvaluateToComposite, Evaluates, TypeOK, Code
<1>13. CASE EvaluateToError
  BY <1>13, <1>1, <1>3 DEF EvaluateToError, Evaluates, TypeOK, Code
<1>14. CASE EvaluateToRejectedPart
  BY <1>14, <1>3 DEF EvaluateToRejectedPart, Evaluates, TypeOK
<1>15. CASE UNCHANGED vars
  BY <1>15 DEF vars, TypeOK
<1>16. QED
  BY <1>5, <1>6, <1>7, <1>8, <1>9, <1>10, <1>11, <1>12, <1>13, <1>14, <1>15
     DEF Next, Step

\* Every variable of the resolution keeps its type.
THEOREM TypeCorrect == Spec => []TypeOK
<1>1. QED
  BY InitTyped, NextTyped, PTL DEF Spec

-----------------------------------------------------------------------------
(***************************************************************************)
(* The recursion.                                                          *)
(***************************************************************************)
\* The loop over the registry finds no call active, so nothing is visiting.
LEMMA StepKinds ==
  ASSUME TypeOK, VisitingIsStack, TodoDefined, [Next]_vars
  PROVE  /\ UNCHANGED tokens
         /\ EnterStep \/ PastStep \/ ReturnStep \/ RestStep
<1>1. CASE \E t \in Token : VisitMemoised(t)
  BY <1>1 DEF VisitMemoised, RestStep
<1>2. CASE \E t \in Token : Visit(t)
  <2>1. PICK t \in Token : Visit(t)
    BY <1>2
  <2>2. visiting = {}
    BY <2>1 DEF Visit, Idle, VisitingIsStack
  <2>3. t \in Defined
    BY <2>1 DEF Visit, TodoDefined
  <2>4. QED
    BY <2>1, <2>2, <2>3 DEF Visit, EnterStep
<1>3. CASE MentionMemoised
  <2>1. {Mentioned} \in SUBSET output
    BY <1>3 DEF MentionMemoised
  <2>2. QED
    BY <1>3, <2>1 DEF MentionMemoised, PastStep
<1>4. CASE MentionUndefined
  <2>1. {} \in SUBSET output
    OBVIOUS
  <2>2. QED
    BY <1>4, <2>1 DEF MentionUndefined, PastStep
<1>5. CASE MentionVisiting
  <2>1. {} \in SUBSET output
    OBVIOUS
  <2>2. QED
    BY <1>5, <2>1 DEF MentionVisiting, PastStep
<1>6. CASE MentionNew
  BY <1>6 DEF MentionNew, EnterStep
<1>7. CASE EvaluateToScalar
  BY <1>7 DEF EvaluateToScalar, ReturnStep
<1>8. CASE EvaluateToComposite
  BY <1>8 DEF EvaluateToComposite, ReturnStep
<1>9. CASE EvaluateToError
  BY <1>9 DEF EvaluateToError, ReturnStep
<1>10. CASE EvaluateToRejectedPart
  BY <1>10 DEF EvaluateToRejectedPart, ReturnStep
<1>11. CASE UNCHANGED vars
  BY <1>11 DEF vars, RestStep
<1>12. QED
  BY <1>1, <1>2, <1>3, <1>4, <1>5, <1>6, <1>7, <1>8, <1>9, <1>10, <1>11
     DEF Next, Step

Recursion == VisitingIsStack /\ TodoDefined

LEMMA EnterKeepsRecursion ==
  ASSUME TypeOK, VisitingIsStack, UNCHANGED tokens, EnterStep
  PROVE  VisitingIsStack'
<1> DEFINE n == Len(stack)
<1>1. PICK t \in Defined \ (output \cup visiting) : Enter(stack, t) /\ UNCHANGED output
  BY DEF EnterStep
<1>2. /\ n \in Nat /\ DOMAIN stack = 1..n /\ DOMAIN stack' = 1..(n + 1)
      /\ \A k \in 1..n : stack'[k].name = stack[k].name
      /\ stack'[n + 1].name = t
  BY <1>1, EnteredFrames DEF Defined
<1>3. \A k \in 1..n : stack[k].name \in visiting /\ stack[k].name # t
  BY <1>1, <1>2 DEF VisitingIsStack
<1>4. visiting' = visiting \cup {t}
  BY <1>1 DEF Enter
<1> HIDE DEF n
<1>5. visiting' = {stack'[k].name : k \in DOMAIN stack'}
  <2>1. visiting = {stack[k].name : k \in 1..n}
    BY <1>2 DEF VisitingIsStack
  <2>2. {stack'[k].name : k \in 1..(n + 1)} = {stack[k].name : k \in 1..n} \cup {t}
    BY <1>2
  <2>3. QED
    BY <1>2, <1>4, <2>1, <2>2
<1>6. \A j, k \in DOMAIN stack' : stack'[j].name = stack'[k].name => j = k
  BY <1>2, <1>3 DEF VisitingIsStack
<1>7. visiting' \subseteq (Defined \ output)'
  BY <1>1, <1>4 DEF VisitingIsStack, Defined
<1>8. QED
  BY <1>5, <1>6, <1>7 DEF VisitingIsStack

LEMMA PastKeepsRecursion ==
  ASSUME TypeOK, VisitingIsStack, UNCHANGED tokens, PastStep
  PROVE  VisitingIsStack'
<1>1. PICK found \in SUBSET output : stack' = Past(found)
  BY DEF PastStep
<1>2. /\ DOMAIN stack' = DOMAIN stack
      /\ \A k \in DOMAIN stack : stack'[k].name = stack[k].name
  BY <1>1, PastFrames DEF PastStep, HasMention, TypeOK
<1>3. QED
  BY <1>2 DEF VisitingIsStack, PastStep, Defined

LEMMA ReturnKeepsRecursion ==
  ASSUME TypeOK, VisitingIsStack, UNCHANGED tokens, ReturnStep
  PROVE  VisitingIsStack'
<1> DEFINE n == Len(stack)
<1>1. /\ n \in Nat \ {0} /\ DOMAIN stack = 1..n
      /\ DOMAIN stack' = 1..(n - 1)
      /\ \A k \in 1..(n - 1) : stack'[k].name = stack[k].name
      /\ visiting' = visiting \ {Top.name}
  <2>1. Top.name \in Token
    BY TopFrame DEF ReturnStep, Evaluates, Frame
  <2>2. PICK found \in SUBSET Token : Return(found)
    BY <2>1 DEF ReturnStep
  <2>3. QED
    BY <2>2, CallerFrames, TopFrame DEF ReturnStep, Evaluates, Return, TypeOK
<1>2. Top.name = stack[n].name
  BY DEF Top
<1> HIDE DEF n
<1>3. \A k \in 1..(n - 1) : stack[k].name # Top.name
  BY <1>1, <1>2 DEF VisitingIsStack
<1>4. visiting' = {stack'[k].name : k \in DOMAIN stack'}
  <2>1. visiting = {stack[k].name : k \in 1..n}
    BY <1>1 DEF VisitingIsStack
  <2>2. {stack[k].name : k \in 1..n} \ {Top.name} = {stack[k].name : k \in 1..(n - 1)}
    BY <1>1, <1>2, <1>3
  <2>3. QED
    BY <1>1, <2>1, <2>2
<1>5. \A j, k \in DOMAIN stack' : stack'[j].name = stack'[k].name => j = k
  BY <1>1 DEF VisitingIsStack
<1>6. visiting' \subseteq (Defined \ output)'
  <2>1. output' \subseteq output \cup {Top.name}
    BY DEF ReturnStep
  <2>2. QED
    BY <1>1, <2>1 DEF VisitingIsStack, Defined
<1>7. QED
  BY <1>4, <1>5, <1>6 DEF VisitingIsStack

LEMMA RecursionStep ==
  ASSUME TypeOK, Recursion, [Next]_vars
  PROVE  Recursion'
<1>1. UNCHANGED tokens /\ (EnterStep \/ PastStep \/ ReturnStep \/ RestStep)
  BY StepKinds DEF Recursion
<1>2. VisitingIsStack'
  <2>1. CASE RestStep
    BY <1>1, <2>1 DEF RestStep, Recursion, VisitingIsStack, Defined
  <2>2. QED
    BY <1>1, <2>1, EnterKeepsRecursion, PastKeepsRecursion, ReturnKeepsRecursion
       DEF Recursion
<1>3. todo' \subseteq todo
  BY DEF Next, Step, vars, VisitMemoised, Visit, MentionMemoised, MentionUndefined,
     MentionVisiting, MentionNew, EvaluateToScalar, EvaluateToComposite,
     EvaluateToError, EvaluateToRejectedPart
<1>4. QED
  BY <1>1, <1>2, <1>3 DEF Recursion, TodoDefined, Defined

LEMMA RecursionAlways == Spec => []Recursion
<1>1. Init => Recursion
  BY DEF Init, Recursion, VisitingIsStack, TodoDefined, Defined
<1>2. QED
  BY <1>1, RecursionStep, TypeCorrect, PTL DEF Spec

\* The cycle test is exact: what is marked as visiting is what is being
\* evaluated, and no token is evaluated inside its own evaluation.
THEOREM CycleTestExact == Spec => []VisitingIsStack
<1>1. Recursion => VisitingIsStack
  BY DEF Recursion
<1>2. QED
  BY <1>1, RecursionAlways, PTL

-----------------------------------------------------------------------------
(***************************************************************************)
(* Soundness of the memo.                                                  *)
(***************************************************************************)
Soundness == ContextsMemoised /\ OutputSound

LEMMA ContextsStep ==
  ASSUME TypeOK, Recursion, ContextsMemoised, [Next]_vars
  PROVE  ContextsMemoised'
<1>1. EnterStep \/ PastStep \/ ReturnStep \/ RestStep
  BY StepKinds DEF Recursion
<1>2. CASE EnterStep
  <2>1. PICK t \in Defined : Enter(stack, t) /\ UNCHANGED output
    BY <1>2 DEF EnterStep
  <2>2. t \in Token
    BY DEF Defined
  <2>3. QED
    BY <2>1, <2>2, EnteredFrames DEF ContextsMemoised
<1>3. CASE PastStep
  <2>1. PICK found \in SUBSET output : stack' = Past(found)
    BY <1>3 DEF PastStep
  <2>2. found \in SUBSET Token
    BY <2>1 DEF TypeOK
  <2>3. QED
    BY <1>3, <2>1, <2>2, PastFrames DEF PastStep, HasMention, ContextsMemoised
<1>4. CASE ReturnStep
  <2>1. Top.name \in Token
    BY <1>4, TopFrame DEF ReturnStep, Evaluates, Frame
  <2>2. PICK found \in SUBSET Token : Return(found) /\ output' = output \cup found
    BY <1>4, <2>1 DEF ReturnStep
  <2>3. DOMAIN stack = 1..Len(stack) /\ Len(stack) \in Nat
    BY DEF TypeOK
  <2>4. /\ DOMAIN stack' = 1..(Len(stack) - 1)
        /\ \A k \in 1..(Len(stack) - 1) :
             stack'[k].context \subseteq stack[k].context \cup found
    BY <1>4, <2>2, CallerFrames DEF ReturnStep, Evaluates, Return
  <2>5. QED
    BY <2>2, <2>3, <2>4 DEF ContextsMemoised
<1>5. CASE RestStep
  BY <1>5 DEF RestStep, ContextsMemoised
<1>6. QED
  BY <1>1, <1>2, <1>3, <1>4, <1>5

LEMMA OutputStep ==
  ASSUME TypeOK, Recursion, Soundness, [Next]_vars
  PROVE  OutputSound'
<1>1. UNCHANGED tokens /\ (EnterStep \/ PastStep \/ ReturnStep \/ RestStep)
  BY StepKinds DEF Recursion
<1>2. Resolvable' = Resolvable
  BY <1>1 DEF Resolvable, Closed, Defined
<1>3. CASE UNCHANGED output
  BY <1>2, <1>3 DEF Soundness, OutputSound
<1>4. CASE ~Idle /\ output' = output \cup {Top.name}
             /\ Readable /\ TopDefinition.outcome = "scalar"
  <2>1. Top = stack[Len(stack)] /\ Len(stack) \in DOMAIN stack /\ Top.name \in Token
    BY <1>4, TopFrame DEF Top, Frame
  <2>2. Top.name \in Defined
    BY <2>1 DEF Recursion, VisitingIsStack
  <2>3. tokens[Top.name].reads \subseteq output
    BY <1>4, <2>1 DEF Readable, TopDefinition, Soundness, ContextsMemoised
  <2>4. ASSUME NEW S \in SUBSET Token, Closed(S)
        PROVE  Top.name \in S
    <3>1. output \subseteq S
      BY <2>4 DEF Soundness, OutputSound, Resolvable
    <3>2. QED
      BY <1>4, <2>2, <2>3, <2>4, <3>1 DEF Closed, TopDefinition
  <2>5. Top.name \in Resolvable
    BY <2>1, <2>4 DEF Resolvable
  <2>6. QED
    BY <1>2, <1>4, <2>5 DEF Soundness, OutputSound
<1>5. QED
  BY <1>1, <1>3, <1>4 DEF EnterStep, PastStep, ReturnStep, Evaluates, RestStep

\* No token gets a value that its definition and those it reads do not give it:
\* nothing is ever evaluated with a dependency missing.
THEOREM OutputIsSound == Spec => []OutputSound
<1>1. Init => Soundness
  BY DEF Init, Soundness, ContextsMemoised, OutputSound
<1>2. TypeOK /\ Recursion /\ Soundness /\ [Next]_vars => Soundness'
  BY ContextsStep, OutputStep DEF Soundness
<1>3. Soundness => OutputSound
  BY DEF Soundness
<1>4. QED
  BY <1>1, <1>2, <1>3, TypeCorrect, RecursionAlways, PTL DEF Spec

-----------------------------------------------------------------------------
(***************************************************************************)
(* Completeness: what the definitions give a value gets one.               *)
(***************************************************************************)
LEMMA DefinedFields ==
  ASSUME TypeOK, NEW t \in Defined
  PROVE  /\ t \in Token
         /\ tokens[t].mentions \in Seq(Token)
         /\ tokens[t].reads \in SUBSET Token
         /\ \A r \in tokens[t].reads : \E i \in DOMAIN tokens[t].mentions :
              tokens[t].mentions[i] = r
<1>1. t \in Token /\ tokens[t] \in Definition
  BY DEF Defined, TypeOK
<1>2. QED
  BY <1>1, DefinitionAssumption DEF DefinitionType

\* Resolvable is what has a value when none is taken away.
LEMMA ResolvableIsWithoutNone == Resolvable = Without({})
BY DEF Resolvable, Without, Closed, ClosedBut

LEMMA WithoutClosed ==
  ASSUME NEW V
  PROVE  ClosedBut(V, Without(V))
<1> SUFFICES ASSUME NEW t \in Defined \ V, tokens[t].outcome = "scalar",
                    tokens[t].reads \subseteq Without(V),
                    NEW S \in SUBSET Token, ClosedBut(V, S)
             PROVE  t \in S
  BY DEF ClosedBut, Without, Defined
<1>1. tokens[t].reads \subseteq S
  BY DEF Without
<1>2. QED
  BY <1>1 DEF ClosedBut

\* What is taken away, and what is no definition, has no value.
LEMMA WithoutBlocked ==
  ASSUME NEW V, NEW t, t \in V \/ t \notin Defined
  PROVE  t \notin Without(V)
<1>1. ClosedBut(V, Defined \ V) /\ Defined \ V \in SUBSET Token
  BY DEF ClosedBut, Defined
<1>2. QED
  BY <1>1 DEF Without

\* A token that does not evaluate to a scalar has no value.
LEMMA WithoutFailed ==
  ASSUME NEW V, NEW t, tokens[t].outcome # "scalar"
  PROVE  t \notin Without(V)
<1>1. ClosedBut(V, Token \ {t}) /\ Token \ {t} \in SUBSET Token
  BY DEF ClosedBut, Defined
<1>2. QED
  BY <1>1 DEF Without

\* A token that reads one which has no value without the token itself has none:
\* a derivation of the token would contain a shorter one.
LEMMA WithoutRead ==
  ASSUME NEW V, NEW t, NEW r \in tokens[t].reads, r \notin Without(V \cup {t})
  PROVE  t \notin Without(V)
<1> DEFINE S == Without(V \cup {t})
<1>1. ClosedBut(V \cup {t}, S) /\ t \notin S /\ S \in SUBSET Token
  BY WithoutClosed, WithoutBlocked DEF Without
<1>2. r \notin S
  OBVIOUS
<1> HIDE DEF S
<1>3. ASSUME NEW u \in Defined \ V, tokens[u].outcome = "scalar",
             tokens[u].reads \subseteq S
      PROVE  u \in S
  <2>1. u # t
    BY <1>2, <1>3
  <2>2. QED
    BY <1>1, <1>3, <2>1 DEF ClosedBut
<1>4. ClosedBut(V, S)
  BY <1>3 DEF ClosedBut
<1>5. QED
  BY <1>1, <1>4 DEF Without

Completeness == CallersWait /\ MissingBlocked /\ VisitedDecided

\* The calls that are active are those marked as visiting.
LEMMA ActiveCalls ==
  ASSUME TypeOK, VisitingIsStack
  PROVE  /\ Active(0) = {}
         /\ Active(Len(stack)) = visiting
         /\ ~Idle => Active(Len(stack)) = Active(Len(stack) - 1) \cup {Top.name}
<1>1. DOMAIN stack = 1..Len(stack) /\ Len(stack) \in Nat
  BY DEF TypeOK
<1>2. Active(0) = {}
  BY DEF Active
<1>3. Active(Len(stack)) = visiting
  BY <1>1 DEF Active, VisitingIsStack
<1>4. ASSUME ~Idle PROVE Active(Len(stack)) = Active(Len(stack) - 1) \cup {Top.name}
  <2>1. Len(stack) \in Nat \ {0}
    BY <1>4, TopFrame
  <2>2. 1..Len(stack) = 1..(Len(stack) - 1) \cup {Len(stack)}
    BY <2>1
  <2>3. QED
    BY <2>2 DEF Active, Top
<1>5. QED
  BY <1>2, <1>3, <1>4

\* A call that returns without a value is of a token that has none without its
\* callers.
LEMMA FailedCall ==
  ASSUME TypeOK, VisitingIsStack, MissingBlocked, Evaluates,
         ~Readable \/ TopDefinition.outcome # "scalar"
  PROVE  Top.name \notin Without(Active(Len(stack) - 1))
<1> DEFINE n == Len(stack)
<1>1. /\ n \in DOMAIN stack /\ Top = stack[n] /\ Top \in Frame
      /\ TopDefinition = tokens[Top.name]
  BY TopFrame DEF Evaluates, Top, TopDefinition
<1>2. Top.name \in Defined
  BY <1>1 DEF VisitingIsStack
<1>3. CASE TopDefinition.outcome # "scalar"
  BY <1>1, <1>3, WithoutFailed
<1>4. CASE ~Readable
  <2>1. PICK r \in tokens[Top.name].reads : r \notin Top.context
    BY <1>1, <1>4 DEF Readable
  <2>2. PICK i \in DOMAIN tokens[Top.name].mentions : tokens[Top.name].mentions[i] = r
    BY <1>2, <2>1, DefinedFields
  <2>3. i < Top.next
    <3>1. tokens[Top.name].mentions \in Seq(Token) /\ Top.next \in Nat
      BY <1>1, <1>2, DefinedFields DEF Frame
    <3>2. ~(Top.next <= Len(tokens[Top.name].mentions))
      BY <1>1 DEF Evaluates, HasMention
    <3>3. QED
      BY <2>2, <3>1, <3>2
  <2>4. r \notin Without(Active(n))
    BY <1>1, <2>1, <2>2, <2>3 DEF MissingBlocked
  <2>5. Active(n) = Active(n - 1) \cup {Top.name}
    BY ActiveCalls DEF Evaluates
  <2>6. QED
    BY <2>1, <2>4, <2>5, WithoutRead
<1>5. QED
  BY <1>3, <1>4

\* What the three kinds of step do, frame by frame.
LEMMA Below ==
  ASSUME NEW n \in Nat, n # 0
  PROVE  /\ n - 1 \in Nat /\ n \in 1..n /\ 1..n = 1..(n - 1) \cup {n}
         /\ \A k \in 1..(n - 1) : k \in 1..n /\ k # n /\ k + 1 \in 1..n
         /\ \A k \in 1..(n - 2) : k \in 1..(n - 1) /\ k + 1 \in 1..(n - 1) /\ k # n - 1
OBVIOUS

LEMMA EnterShape ==
  ASSUME TypeOK, EnterStep, NEW n, n = Len(stack)
  PROVE  /\ n \in Nat /\ DOMAIN stack = 1..n /\ (Idle <=> n = 0)
         /\ DOMAIN stack' = 1..(n + 1) /\ Len(stack') = n + 1
         /\ \A k \in 1..n : stack'[k] = stack[k]
         /\ stack'[n + 1].next = 1
         /\ stack'[n + 1].name \in Defined
         /\ \/ Idle /\ todo' = todo \ {stack'[n + 1].name}
            \/ HasMention /\ Mentioned = stack'[n + 1].name /\ UNCHANGED todo
<1>1. PICK t \in Defined : /\ Enter(stack, t)
                           /\ \/ Idle /\ todo' = todo \ {t}
                              \/ HasMention /\ Mentioned = t /\ UNCHANGED todo
  BY DEF EnterStep
<1>2. /\ stack' \in Seq(Frame) /\ DOMAIN stack' = 1..(n + 1)
      /\ n \in Nat /\ DOMAIN stack = 1..n
      /\ \A k \in DOMAIN stack : stack'[k] = stack[k]
      /\ stack'[n + 1].name = t
      /\ stack'[n + 1].next = 1
  BY <1>1, EnteredFrames DEF Defined
<1>3. Len(stack') = n + 1
  BY <1>2
<1>4. Idle <=> n = 0
  BY DEF Idle, TypeOK
<1>5. QED
  BY <1>1, <1>2, <1>3, <1>4

LEMMA PastShape ==
  ASSUME TypeOK, PastStep, NEW n, n = Len(stack)
  PROVE  /\ n \in Nat /\ n # 0 /\ DOMAIN stack = 1..n
         /\ DOMAIN stack' = 1..n /\ Len(stack') = n
         /\ \A k \in 1..(n - 1) : stack'[k] = stack[k]
         /\ \A k \in 1..n : stack'[k].name = stack[k].name
         /\ stack'[n].next = stack[n].next + 1
         /\ stack[n].context \subseteq stack'[n].context
         /\ Mentioned \in stack'[n].context \cup visiting \/ Mentioned \notin Defined
<1>1. PICK found \in SUBSET output :
        stack' = Past(found) /\ (Mentioned \in found \cup visiting \/ Mentioned \notin Defined)
  BY DEF PastStep
<1>2. found \in SUBSET Token /\ ~Idle
  BY <1>1 DEF TypeOK, PastStep, HasMention
<1>3. n \in Nat /\ n # 0 /\ DOMAIN stack = 1..n /\ Top = stack[n]
  BY <1>2, TopFrame DEF TypeOK, Top
<1>4. /\ stack' \in Seq(Frame)
      /\ DOMAIN stack' = 1..n
      /\ \A k \in 1..n : /\ stack'[k].name = stack[k].name
                         /\ k # n => stack'[k] = stack[k]
      /\ stack'[n].next = stack[n].next + 1
      /\ stack'[n].context = stack[n].context \cup found
  BY <1>1, <1>2, <1>3, PastFrames
<1>5. Len(stack') = n
  BY <1>3, <1>4
<1>6. \A k \in 1..(n - 1) : stack'[k] = stack[k]
  <2>1. \A k \in 1..(n - 1) : k \in 1..n /\ k # n
    BY <1>3, Below
  <2>2. ASSUME NEW k \in 1..(n - 1) PROVE stack'[k] = stack[k]
    <3>1. k \in 1..n /\ k # n
      BY <2>1
    <3>2. QED
      BY <1>4, <3>1
  <2>3. QED
    BY <2>2
<1>7. /\ stack[n].context \subseteq stack'[n].context
      /\ Mentioned \in stack'[n].context \cup visiting \/ Mentioned \notin Defined
  BY <1>1, <1>4
<1>8. \A k \in 1..n : stack'[k].name = stack[k].name
  BY <1>4
<1>9. QED
  BY <1>3, <1>4, <1>5, <1>6, <1>7, <1>8, Zenon

LEMMA ReturnShape ==
  ASSUME TypeOK, VisitingIsStack, MissingBlocked, ReturnStep, NEW n, n = Len(stack)
  PROVE  /\ n \in Nat /\ n # 0 /\ DOMAIN stack = 1..n
         /\ DOMAIN stack' = 1..(n - 1) /\ Len(stack') = n - 1
         /\ \A k \in 1..(n - 1) :
              /\ stack'[k].name = stack[k].name
              /\ k # n - 1 => stack'[k] = stack[k]
              /\ k = n - 1 =>
                   /\ stack'[k].next = stack[k].next + 1
                   /\ stack[k].context \subseteq stack'[k].context
                   /\ stack[n].name \in stack'[k].context
                        \/ stack[n].name \notin Without(Active(n - 1))
         /\ stack[n].name \in output' \/ stack[n].name \notin Without(Active(n - 1))
         /\ output \subseteq output'
<1>1. ~Idle /\ Top.name \in Token /\ Top = stack[n]
  BY TopFrame DEF ReturnStep, Evaluates, Frame, Top
<1>2. PICK found \in SUBSET Token :
        /\ Return(found)
        /\ output' = output \cup found
        /\ Top.name \in found \/ Top.name \notin Without(Active(n - 1))
  <2>1. CASE Readable /\ TopDefinition.outcome = "scalar"
    BY <1>1, <2>1 DEF ReturnStep
  <2>2. CASE ~Readable \/ TopDefinition.outcome # "scalar"
    <3>1. Return({}) /\ output' = output
      BY <2>2 DEF ReturnStep
    <3>2. Top.name \notin Without(Active(n - 1))
      BY <2>2, FailedCall DEF ReturnStep
    <3>3. QED
      BY <3>1, <3>2
  <2>3. QED
    BY <2>1, <2>2
<1>3. n \in Nat /\ n # 0 /\ DOMAIN stack = 1..n
  BY <1>1, TopFrame DEF TypeOK
<1>4. stack' \in Seq(Frame) /\ stack' = Callers(found)
  BY <1>1, <1>2, CallerFrames DEF Return
<1>5. /\ DOMAIN stack' = 1..(n - 1)
      /\ \A k \in 1..(n - 1) :
           /\ stack'[k].name = stack[k].name
           /\ k # n - 1 => stack'[k] = stack[k]
           /\ k = n - 1 =>
                /\ stack'[k].next = stack[k].next + 1
                /\ stack'[k].context = stack[k].context \cup found
  BY <1>1, <1>4, CallerFrames
<1>6. Len(stack') = n - 1
  <2>1. n - 1 \in Nat
    BY <1>3, Below
  <2>2. QED
    BY <1>4, <1>5, <2>1
<1>7. QED
  BY <1>1, <1>2, <1>3, <1>5, <1>6

\* What the definitions say does not change while the tokens stay.
LEMMA SameDefinitions ==
  ASSUME UNCHANGED tokens
  PROVE  /\ Defined' = Defined
         /\ Resolvable' = Resolvable
         /\ \A V : Without(V)' = Without(V)
BY DEF Defined, Resolvable, Closed, Without, ClosedBut

LEMMA CallersWaitStep ==
  ASSUME TypeOK, Recursion, Completeness, [Next]_vars
  PROVE  CallersWait'
<1>1. UNCHANGED tokens /\ (EnterStep \/ PastStep \/ ReturnStep \/ RestStep)
  BY StepKinds DEF Recursion
<1>2. PICK n : n = Len(stack)
  OBVIOUS
<1>3. \A k \in 1..(n - 1) : Waits(k)
  BY <1>2 DEF Completeness, CallersWait
<1>4. CASE EnterStep
  <2>1. ASSUME NEW k \in 1..n PROVE Waits(k)'
    <3>1. /\ n \in Nat /\ n # 0 /\ ~Idle /\ HasMention
          /\ Mentioned = stack'[n + 1].name
          /\ \A j \in 1..n : stack'[j] = stack[j]
      BY <1>2, <1>4, EnterShape
    <3>2. CASE k = n
      <4>1. Top.name \in Defined /\ Top = stack[n] /\ Top \in Frame
        BY <1>2, <3>1, TopFrame DEF Top, Recursion, VisitingIsStack
      <4>2. tokens[Top.name].mentions \in Seq(Token) /\ Top.next \in Nat \ {0}
        BY <4>1, DefinedFields DEF Frame
      <4>3. Top.next \in DOMAIN tokens[Top.name].mentions
        BY <3>1, <4>2 DEF HasMention, TopDefinition
      <4>4. QED
        BY <1>1, <3>1, <3>2, <4>1, <4>3 DEF Waits, Mentioned, TopDefinition
    <3>3. CASE k # n
      <4>1. k \in 1..(n - 1) /\ k + 1 \in 1..n
        BY <3>1, <3>3, Below
      <4>2. Waits(k) /\ stack'[k] = stack[k] /\ stack'[k + 1] = stack[k + 1]
        BY <1>3, <3>1, <4>1
      <4>3. QED
        BY <1>1, <4>2 DEF Waits
    <3>4. QED
      BY <3>2, <3>3
  <2>2. Len(stack') - 1 = n
    BY <1>2, <1>4, EnterShape
  <2>3. QED
    BY <2>1, <2>2 DEF CallersWait
<1>5. CASE PastStep
  <2>1. /\ n \in Nat /\ n # 0 /\ Len(stack') = n
        /\ \A k \in 1..(n - 1) : stack'[k] = stack[k]
        /\ \A k \in 1..n : stack'[k].name = stack[k].name
    BY <1>2, <1>5, PastShape
  <2>2. \A k \in 1..(n - 1) : stack'[k + 1].name = stack[k + 1].name
    BY <2>1, Below
  <2>3. \A k \in 1..(n - 1) : Waits(k)'
    BY <1>1, <1>3, <2>1, <2>2 DEF Waits
  <2>4. QED
    BY <2>1, <2>3 DEF CallersWait
<1>6. CASE ReturnStep
  <2>1. /\ n \in Nat /\ n # 0 /\ Len(stack') - 1 = n - 2
        /\ \A k \in 1..(n - 1) : /\ stack'[k].name = stack[k].name
                                 /\ k # n - 1 => stack'[k] = stack[k]
    BY <1>2, <1>6, ReturnShape DEF Completeness, Recursion
  <2>2. \A k \in 1..(n - 2) : /\ stack'[k] = stack[k] /\ k \in 1..(n - 1)
                              /\ stack'[k + 1].name = stack[k + 1].name
    BY <2>1, Below
  <2>3. \A k \in 1..(n - 2) : Waits(k)'
    BY <1>1, <1>3, <2>2 DEF Waits
  <2>4. QED
    BY <2>1, <2>3 DEF CallersWait
<1>7. CASE RestStep
  BY <1>1, <1>7 DEF RestStep, Completeness, CallersWait, Waits
<1>8. QED
  BY <1>1, <1>4, <1>5, <1>6, <1>7

\* A frame whose name, loop and context stay, or gain, keeps its mentions.
Passed(k) ==
  \A i \in DOMAIN tokens[stack[k].name].mentions :
    i < stack[k].next =>
      \/ tokens[stack[k].name].mentions[i] \in stack[k].context
      \/ tokens[stack[k].name].mentions[i] \notin Without(Active(k))

LEMMA SameActive ==
  ASSUME NEW n \in Nat, \A k \in 1..n : stack'[k].name = stack[k].name
  PROVE  \A k \in 0..n : Active(k)' = Active(k)
<1>1. ASSUME NEW k \in 0..n PROVE Active(k)' = Active(k)
  <2>1. \A j \in 1..k : stack'[j].name = stack[j].name
    BY <1>1
  <2>2. QED
    BY <2>1 DEF Active
<1>2. QED
  BY <1>1

LEMMA SameWithout ==
  ASSUME UNCHANGED tokens, NEW k, Active(k)' = Active(k)
  PROVE  Without(Active(k))' = Without(Active(k))
BY DEF Without, ClosedBut, Defined

\* A frame that only gains the mention it is at, with a value or blocked.
LEMMA PassedGains ==
  ASSUME UNCHANGED tokens, NEW k \in Nat, Passed(k),
         stack[k].name \in Defined, stack[k].next \in Nat, TypeOK,
         Active(k)' = Active(k),
         stack'[k].name = stack[k].name,
         stack'[k].next = stack[k].next + 1,
         stack[k].context \subseteq stack'[k].context,
         LET m == tokens[stack[k].name].mentions[stack[k].next] IN
           m \in stack'[k].context \/ m \notin Without(Active(k))
  PROVE  Passed(k)'
<1> DEFINE mentions == tokens[stack[k].name].mentions
<1>1. mentions \in Seq(Token)
  BY DefinedFields
<1>2. ASSUME NEW i \in DOMAIN mentions, i < stack[k].next + 1
      PROVE  mentions[i] \in stack'[k].context \/ mentions[i] \notin Without(Active(k))
  <2>1. CASE i = stack[k].next
    BY <2>1
  <2>2. CASE i # stack[k].next
    <3>1. i \in Nat /\ stack[k].next \in Nat
      BY <1>1
    <3>2. \A a, b \in Nat : a < b + 1 /\ a # b => a < b
      OBVIOUS
    <3>3. i < stack[k].next
      BY <1>2, <2>2, <3>1, <3>2
    <3>4. QED
      BY <3>3 DEF Passed
  <2>3. QED
    BY <2>1, <2>2
<1>3. Without(Active(k))' = Without(Active(k))
  BY SameWithout
<1>4. QED
  BY <1>2, <1>3 DEF Passed

\* A frame that does not change.
LEMMA PassedStays ==
  ASSUME UNCHANGED tokens, NEW k \in Nat, Passed(k), Active(k)' = Active(k),
         stack'[k] = stack[k]
  PROVE  Passed(k)'
<1>1. Without(Active(k))' = Without(Active(k))
  BY SameWithout
<1>2. QED
  BY <1>1 DEF Passed

LEMMA MissingBlockedStep ==
  ASSUME TypeOK, Recursion, Completeness, [Next]_vars
  PROVE  MissingBlocked'
<1>1. UNCHANGED tokens /\ (EnterStep \/ PastStep \/ ReturnStep \/ RestStep)
  BY StepKinds DEF Recursion
<1>2. PICK n : n = Len(stack)
  OBVIOUS
<1>3. DOMAIN stack = 1..n /\ n \in Nat
  BY <1>2 DEF TypeOK
<1>4. \A k \in 1..n : k \in Nat /\ Passed(k)
  BY <1>3 DEF Completeness, MissingBlocked, Passed
<1>5. \A k \in 1..n : stack[k].name \in Defined /\ stack[k].next \in Nat
  <2>1. \A k \in 1..n : stack[k].name \in Defined
    BY <1>3 DEF Recursion, VisitingIsStack
  <2>2. stack \in Seq(Frame)
    BY DEF TypeOK
  <2>3. \A k \in 1..n : stack[k] \in Frame
    BY <1>3, <2>2
  <2>4. QED
    BY <2>1, <2>3 DEF Frame
<1>6. CASE EnterStep
  <2>1. /\ DOMAIN stack' = 1..(n + 1)
        /\ \A k \in 1..n : stack'[k] = stack[k]
        /\ stack'[n + 1].next = 1 /\ stack'[n + 1].name \in Defined
    BY <1>2, <1>6, EnterShape
  <2>2. \A k \in 1..n : Passed(k)'
    <3>1. \A k \in 1..n : Active(k)' = Active(k)
      BY <1>3, <2>1, SameActive
    <3>2. QED
      BY <1>1, <1>4, <2>1, <3>1, PassedStays
  <2>3. Passed(n + 1)'
    <3>1. tokens[stack'[n + 1].name].mentions \in Seq(Token)
      BY <2>1, DefinedFields
    <3>2. \A i \in DOMAIN tokens[stack'[n + 1].name].mentions : ~(i < 1)
      BY <3>1
    <3>3. QED
      BY <1>1, <2>1, <3>2 DEF Passed
  <2>4. \A k \in 1..(n + 1) : Passed(k)'
    BY <1>3, <2>2, <2>3
  <2>5. QED
    BY <2>1, <2>4 DEF MissingBlocked, Passed
<1>7. CASE PastStep
  <2>1. /\ n # 0 /\ DOMAIN stack' = 1..n
        /\ \A k \in 1..(n - 1) : stack'[k] = stack[k]
        /\ \A k \in 1..n : stack'[k].name = stack[k].name
        /\ stack'[n].next = stack[n].next + 1
        /\ stack[n].context \subseteq stack'[n].context
    BY <1>2, <1>7, PastShape
  <2>2. Mentioned \in stack'[n].context \cup visiting \/ Mentioned \notin Defined
    BY <1>2, <1>7, PastShape
  <2>3. \A k \in 1..n : Active(k)' = Active(k)
    BY <1>3, <2>1, SameActive
  <2>4. \A k \in 1..(n - 1) : Passed(k)'
    <3>1. \A k \in 1..(n - 1) : k \in 1..n
      BY <1>3
    <3>2. QED
      BY <1>1, <1>4, <2>1, <2>3, <3>1, PassedStays
  <2>5. Passed(n)'
    <3>1. Mentioned = tokens[stack[n].name].mentions[stack[n].next]
      BY <1>2 DEF Mentioned, TopDefinition, Top
    <3>2. Mentioned \in stack'[n].context \/ Mentioned \notin Without(Active(n))
      <4>1. Active(n) = visiting
        BY <1>2, ActiveCalls DEF Recursion
      <4>2. QED
        BY <2>2, <4>1, WithoutBlocked
    <3>3. n \in 1..n
      BY <1>3, <2>1
    <3>4. QED
      BY <1>1, <1>4, <1>5, <2>1, <2>3, <3>1, <3>2, <3>3, PassedGains
  <2>6. \A k \in 1..n : Passed(k)'
    BY <1>3, <2>1, <2>4, <2>5, Below
  <2>7. QED
    BY <2>1, <2>6 DEF MissingBlocked, Passed
<1>8. CASE ReturnStep
  <2>1. /\ n # 0 /\ DOMAIN stack' = 1..(n - 1)
        /\ \A k \in 1..(n - 1) :
             /\ stack'[k].name = stack[k].name
             /\ k # n - 1 => stack'[k] = stack[k]
             /\ k = n - 1 =>
                  /\ stack'[k].next = stack[k].next + 1
                  /\ stack[k].context \subseteq stack'[k].context
                  /\ stack[n].name \in stack'[k].context
                       \/ stack[n].name \notin Without(Active(n - 1))
    BY <1>2, <1>8, ReturnShape DEF Completeness, Recursion
  <2>2. n - 1 \in Nat /\ \A k \in 1..(n - 1) : k \in 1..n /\ k \in 0..(n - 1)
    BY <1>3, <2>1
  <2>3. \A k \in 1..(n - 1) : Active(k)' = Active(k)
    BY <2>1, <2>2, SameActive
  <2>4. ASSUME NEW k \in 1..(n - 1) PROVE Passed(k)'
    <3>1. CASE k # n - 1
      BY <1>1, <1>4, <2>1, <2>2, <2>3, <3>1, PassedStays
    <3>2. CASE k = n - 1
      <4>1. k + 1 = n
        BY <1>3, <3>2
      <4>2. tokens[stack[k].name].mentions[stack[k].next] = stack[n].name
        BY <1>2, <4>1 DEF Completeness, CallersWait, Waits
      <4>3. LET m == tokens[stack[k].name].mentions[stack[k].next] IN
              m \in stack'[k].context \/ m \notin Without(Active(k))
        BY <2>1, <3>2, <4>2
      <4>4. QED
        BY <1>1, <1>4, <1>5, <2>1, <2>2, <2>3, <3>2, <4>3, PassedGains
    <3>3. QED
      BY <3>1, <3>2
  <2>5. QED
    BY <2>1, <2>4 DEF MissingBlocked, Passed
<1>9. CASE RestStep
  <2>1. \A k \in 1..n : Active(k)' = Active(k)
    BY <1>9 DEF RestStep, Active
  <2>2. \A k \in 1..n : Passed(k)'
    BY <1>1, <1>4, <1>9, <2>1, PassedStays DEF RestStep
  <2>3. QED
    BY <1>3, <1>9, <2>2 DEF MissingBlocked, Passed, RestStep
<1>10. QED
  BY <1>1, <1>6, <1>7, <1>8, <1>9

LEMMA VisitedDecidedStep ==
  ASSUME TypeOK, Recursion, Completeness, [Next]_vars
  PROVE  VisitedDecided'
<1>1. UNCHANGED tokens /\ (EnterStep \/ PastStep \/ ReturnStep \/ RestStep)
  BY StepKinds DEF Recursion
<1>2. Defined' = Defined /\ Resolvable' = Resolvable
  BY <1>1, SameDefinitions
<1>3. PICK n : n = Len(stack)
  OBVIOUS
<1>4. n \in Nat /\ (Idle <=> n = 0) /\ DOMAIN stack = 1..n
  BY <1>3 DEF TypeOK, Idle
<1>5. stack' \in Seq(Frame) /\ (Idle' <=> Len(stack') = 0)
  BY NextTyped DEF TypeOK, Idle
<1>6. \A t \in Defined \ todo :
        t \in output \/ (n # 0 /\ t = stack[1].name) \/ t \notin Resolvable
  BY <1>4 DEF Completeness, VisitedDecided
<1>7. CASE EnterStep
  <2>1. /\ Len(stack') = n + 1 /\ UNCHANGED output
        /\ n = 0 => todo' = todo \ {stack'[1].name}
        /\ n # 0 => UNCHANGED todo /\ stack'[1] = stack[1]
    <3>1. UNCHANGED output
      BY <1>7 DEF EnterStep
    <3>2. n # 0 => 1 \in 1..n
      BY <1>4
    <3>3. QED
      BY <1>3, <1>4, <1>7, <3>1, <3>2, EnterShape DEF HasMention
  <2>2. ~Idle'
    BY <1>4, <1>5, <2>1
  <2>3. QED
    BY <1>2, <1>6, <2>1, <2>2 DEF VisitedDecided
<1>8. CASE PastStep
  <2>1. Len(stack') = n /\ n # 0 /\ stack'[1].name = stack[1].name
    BY <1>3, <1>4, <1>8, PastShape
  <2>2. QED
    BY <1>2, <1>4, <1>5, <1>6, <1>8, <2>1 DEF VisitedDecided, PastStep
<1>9. CASE ReturnStep
  <2>1. /\ n # 0 /\ Len(stack') = n - 1 /\ output \subseteq output'
        /\ n # 1 => stack'[1].name = stack[1].name
        /\ stack[n].name \in output' \/ stack[n].name \notin Without(Active(n - 1))
    BY <1>3, <1>4, <1>9, ReturnShape DEF Completeness, Recursion
  <2>2. UNCHANGED todo
    BY <1>9 DEF ReturnStep
  <2>3. CASE n = 1
    <3>1. Without(Active(n - 1)) = Resolvable
      BY <2>3, ActiveCalls, ResolvableIsWithoutNone DEF Recursion
    <3>2. QED
      BY <1>2, <1>6, <2>1, <2>2, <2>3, <3>1 DEF VisitedDecided
  <2>4. CASE n # 1
    <3>1. ~Idle'
      BY <1>4, <1>5, <2>1, <2>4
    <3>2. QED
      BY <1>2, <1>6, <2>1, <2>2, <2>4, <3>1 DEF VisitedDecided
  <2>5. QED
    BY <2>3, <2>4
<1>10. CASE RestStep
  <2>1. Idle' <=> Idle
    BY <1>10 DEF RestStep, Idle
  <2>2. QED
    BY <1>2, <1>4, <1>6, <1>10, <2>1 DEF VisitedDecided, RestStep
<1>11. QED
  BY <1>1, <1>7, <1>8, <1>9, <1>10

\* The tokens that get a value are those the definitions give one, whatever the
\* order of the hash table and wherever the cycles are entered.
THEOREM OrderDoesNotMatter == Spec => []OrderIrrelevant
<1>1. Init => Completeness
  BY DEF Init, Completeness, CallersWait, MissingBlocked, VisitedDecided, Defined
<1>2. TypeOK /\ Recursion /\ Completeness /\ [Next]_vars => Completeness'
  BY CallersWaitStep, MissingBlockedStep, VisitedDecidedStep DEF Completeness
<1>3. Completeness /\ OutputSound => OrderIrrelevant
  <2>1. Resolvable \subseteq Defined
    BY ResolvableIsWithoutNone, WithoutBlocked
  <2>2. QED
    BY <2>1 DEF Completeness, VisitedDecided, OutputSound, OrderIrrelevant, Resolved
<1>4. QED
  BY <1>1, <1>2, <1>3, TypeCorrect, RecursionAlways, OutputIsSound, PTL DEF Spec

-----------------------------------------------------------------------------
(***************************************************************************)
(* Cycles: each is diagnosed, and nothing else is.                         *)
(***************************************************************************)
Noted == \E i \in DOMAIN diagnostics : diagnostics[i] = "EM0602"

\* The tokens from which every chain of mentions ends: the least set that holds
\* a token all of whose defined mentions it holds.
Grounded(S) ==
  \A u \in Defined :
    (\A i \in DOMAIN tokens[u].mentions :
       tokens[u].mentions[i] \in Defined => tokens[u].mentions[i] \in S) => u \in S
Founded == {t \in Token : \A S \in SUBSET Token : Grounded(S) => t \in S}

Follows(t, S) ==
  \A s \in S \cup {t} : s \in Defined =>
    \A i \in DOMAIN tokens[s].mentions : tokens[s].mentions[i] \in S

LEMMA ReachesParts ==
  ASSUME NEW t
  PROVE  /\ \A u \in Token : (\A S \in SUBSET Token : Follows(t, S) => u \in S) => u \in Reaches(t)
         /\ \A u \in Reaches(t) : u \in Token
         /\ \A u \in Reaches(t) : \A S \in SUBSET Token : Follows(t, S) => u \in S
BY DEF Reaches, Follows

LEMMA ReachesFollows ==
  ASSUME TypeOK, NEW t \in Token
  PROVE  Follows(t, Reaches(t)) /\ Reaches(t) \in SUBSET Token
<1>1. Reaches(t) \in SUBSET Token
  BY ReachesParts
<1>2. SUFFICES ASSUME NEW s \in Reaches(t) \cup {t}, s \in Defined,
                      NEW i \in DOMAIN tokens[s].mentions
               PROVE  tokens[s].mentions[i] \in Reaches(t)
  BY <1>1 DEF Follows
<1>3. tokens[s].mentions[i] \in Token
  BY <1>2, DefinedFields
<1>4. ASSUME NEW S \in SUBSET Token, Follows(t, S) PROVE tokens[s].mentions[i] \in S
  <2>1. s \in S \cup {t}
    BY <1>2, <1>4, ReachesParts
  <2>2. QED
    BY <1>2, <1>4, <2>1 DEF Follows
<1>5. QED
  BY <1>3, <1>4, ReachesParts

LEMMA ReachesOn ==
  ASSUME TypeOK, NEW t \in Token, NEW u \in Token, t \in Reaches(u) \cup {u}
  PROVE  Reaches(t) \subseteq Reaches(u)
<1>1. Follows(u, Reaches(u)) /\ Reaches(u) \in SUBSET Token
  BY ReachesFollows
<1>2. Follows(t, Reaches(u))
  BY <1>1 DEF Follows
<1>3. QED
  BY <1>1, <1>2, ReachesParts

\* A token on a cycle mentions a defined token on a cycle.
LEMMA CycleGoesOn ==
  ASSUME TypeOK, NEW t \in Defined, t \in Reaches(t)
  PROVE  \E i \in DOMAIN tokens[t].mentions :
           LET u == tokens[t].mentions[i] IN u \in Defined /\ u \in Reaches(u)
<1> DEFINE next == {tokens[t].mentions[i] : i \in DOMAIN tokens[t].mentions}
           S == next \cup UNION {Reaches(u) : u \in next}
<1>1. t \in Token /\ next \subseteq Token
  BY DefinedFields
<1>2. \A u \in next : u \in Reaches(t)
  BY <1>1, ReachesFollows DEF Follows
<1> HIDE DEF next
<1>3. S \in SUBSET Token
  BY <1>1, ReachesParts
<1>4. Follows(t, S)
  <2>1. SUFFICES ASSUME NEW s \in S \cup {t}, s \in Defined, NEW i \in DOMAIN tokens[s].mentions
                 PROVE  tokens[s].mentions[i] \in S
    BY DEF Follows
  <2>2. CASE s = t
    BY <2>1, <2>2 DEF next
  <2>3. ASSUME NEW u \in next, s \in Reaches(u) \cup {u} PROVE tokens[s].mentions[i] \in S
    <3>1. tokens[s].mentions[i] \in Reaches(u)
      BY <1>1, <2>1, <2>3, ReachesFollows DEF Follows
    <3>2. QED
      BY <3>1
  <2>4. QED
    BY <2>1, <2>2, <2>3
<1>5. t \in S
  BY <1>3, <1>4, ReachesParts
<1>6. PICK u \in next : t = u \/ t \in Reaches(u)
  BY <1>5
<1>7. u \in Reaches(u)
  <2>1. Reaches(t) \subseteq Reaches(u)
    BY <1>1, <1>6, ReachesOn
  <2>2. QED
    BY <1>2, <2>1
<1>8. u \in Defined
  <2>1. SUFFICES ASSUME u \notin Defined PROVE FALSE
    OBVIOUS
  <2>2. Follows(u, {})
    BY <2>1 DEF Follows
  <2>3. QED
    BY <1>7, <2>2, ReachesParts
<1>9. QED
  BY <1>6, <1>7, <1>8 DEF next

LEMMA FoundedGrounded == Grounded(Founded)
<1>1. SUFFICES ASSUME NEW u \in Defined,
                      \A i \in DOMAIN tokens[u].mentions :
                        tokens[u].mentions[i] \in Defined => tokens[u].mentions[i] \in Founded,
                      NEW S \in SUBSET Token, Grounded(S)
               PROVE  u \in S
  BY DEF Grounded, Founded, Defined
<1>2. \A i \in DOMAIN tokens[u].mentions :
        tokens[u].mentions[i] \in Defined => tokens[u].mentions[i] \in S
  BY <1>1 DEF Founded
<1>3. QED
  BY <1>1, <1>2 DEF Grounded

LEMMA FoundedIsAcyclic ==
  ASSUME TypeOK, NEW t \in Founded, t \in Defined
  PROVE  t \notin Reaches(t)
<1> DEFINE S == {u \in Token : ~(u \in Defined /\ u \in Reaches(u))}
<1>1. S \in SUBSET Token
  OBVIOUS
<1>2. Grounded(S)
  <2>1. SUFFICES ASSUME NEW u \in Defined, u \notin S
                 PROVE  \E i \in DOMAIN tokens[u].mentions :
                          tokens[u].mentions[i] \in Defined /\ tokens[u].mentions[i] \notin S
    BY DEF Grounded
  <2>2. u \in Reaches(u)
    BY <2>1 DEF Defined
  <2>3. QED
    BY <2>1, <2>2, CycleGoesOn
<1>3. QED
  BY <1>1, <1>2 DEF Founded

\* A call that is active reaches the mention of the top call.
LEMMA ActiveReaches ==
  ASSUME TypeOK, VisitingIsStack, CallersWait, HasMention, NEW j \in DOMAIN stack
  PROVE  Mentioned \in Reaches(stack[j].name)
<1> DEFINE n == Len(stack)
           t == stack[j].name
<1>1. /\ n \in Nat /\ DOMAIN stack = 1..n /\ j \in 1..n
      /\ \A k \in 1..n : stack[k].name \in Defined /\ stack[k].name \in Token
  BY DEF TypeOK, VisitingIsStack, Defined
<1>2. Mentioned \in Token /\ Top.next \in DOMAIN tokens[Top.name].mentions /\ Top = stack[n]
      /\ n \in 1..n
  <2>1. Top \in Frame /\ n \in 1..n /\ Top = stack[n]
    BY <1>1, TopFrame DEF HasMention, Top
  <2>2. tokens[Top.name].mentions \in Seq(Token) /\ Top.next \in Nat \ {0}
    BY <1>1, <2>1, DefinedFields DEF Frame
  <2>3. QED
    BY <2>1, <2>2 DEF HasMention, Mentioned, TopDefinition
<1> HIDE DEF n
<1>3. SUFFICES ASSUME NEW S \in SUBSET Token, Follows(t, S) PROVE Mentioned \in S
  BY <1>2, ReachesParts
<1>4. ASSUME NEW k \in 1..(n - 1), stack[k].name \in S \cup {t}
      PROVE  stack[k + 1].name \in S
  <2>1. Waits(k) /\ k \in 1..n
    BY <1>1 DEF CallersWait, n
  <2>2. QED
    BY <1>1, <1>3, <1>4, <2>1 DEF Follows, Waits
<1>5. stack[n].name \in S \cup {t}
  <2> DEFINE R == {d \in Nat : j + d <= n => stack[j + d].name \in S \cup {t}}
  <2>1. 0 \in R
    BY <1>1
  <2>2. \A d \in 0..((n - j) - 1) : d \in R => d + 1 \in R
    <3>1. SUFFICES ASSUME NEW d \in 0..((n - j) - 1), stack[j + d].name \in S \cup {t}
                   PROVE  stack[j + (d + 1)].name \in S \cup {t}
      BY <1>1
    <3>2. j + d \in 1..(n - 1) /\ (j + d) + 1 = j + (d + 1)
      BY <1>1
    <3>3. stack[(j + d) + 1].name \in S
      BY <1>4, <3>1, <3>2
    <3>4. QED
      BY <3>2, <3>3
  <2>3. n - j \in Nat /\ j + (n - j) = n
    BY <1>1
  <2> HIDE DEF R
  <2>4. n - j \in R
    <3>1. \A i \in 0..(n - j) : i \in R
      BY <2>1, <2>2, <2>3, Induction
    <3>2. QED
      BY <2>3, <3>1
  <2>5. QED
    BY <1>1, <2>3, <2>4 DEF R
<1>6. QED
  BY <1>1, <1>2, <1>3, <1>5 DEF Follows, Mentioned, TopDefinition

\* Only a mention of a visiting token is noted, and notes stay.
LEMMA OnlyVisitingNotes ==
  ASSUME TypeOK, [Next]_vars
  PROVE  /\ Noted => Noted'
         /\ Noted' => Noted \/ MentionVisiting
         /\ MentionVisiting => Noted'
<1>1. diagnostics \in Seq(Code)
  BY DEF TypeOK
<1>2. ASSUME NEW code \in Code, diagnostics' = Append(diagnostics, code)
      PROVE  (Noted => Noted') /\ (Noted' => Noted \/ code = "EM0602") /\ (code = "EM0602" => Noted')
  <2>1. /\ \A i \in DOMAIN diagnostics : i \in DOMAIN diagnostics' /\ diagnostics'[i] = diagnostics[i]
        /\ \A i \in DOMAIN diagnostics' : i \in DOMAIN diagnostics \/ i = Len(diagnostics) + 1
        /\ Len(diagnostics) + 1 \in DOMAIN diagnostics'
        /\ diagnostics'[Len(diagnostics) + 1] = code
    BY <1>1, <1>2
  <2>2. QED
    BY <2>1 DEF Noted
<1>3. \/ UNCHANGED diagnostics /\ ~MentionVisiting
      \/ MentionVisiting
      \/ (EvaluateToComposite \/ EvaluateToError) /\ ~MentionVisiting
  <2>1. MentionVisiting \/ EvaluateToComposite \/ EvaluateToError \/ UNCHANGED diagnostics
    BY DEF Next, Step, vars, VisitMemoised, Visit, MentionMemoised, MentionUndefined, MentionNew,
           EvaluateToScalar, EvaluateToRejectedPart
  <2>2. QED
    BY <2>1
<1>4. QED
  BY <1>2, <1>3 DEF Noted, MentionVisiting, EvaluateToComposite, EvaluateToError, Code

CyclesExist == \E t \in Defined : t \in Reaches(t)

LEMMA NotedStep ==
  TypeOK /\ Recursion /\ Completeness /\ (Noted => CyclesExist) /\ [Next]_vars
    => (Noted => CyclesExist)'
<1> SUFFICES ASSUME TypeOK, Recursion, Completeness, Noted => CyclesExist, [Next]_vars, Noted'
             PROVE  CyclesExist'
  OBVIOUS
<1>1. CyclesExist
  <2>1. CASE MentionVisiting
    <3>1. PICK j \in DOMAIN stack : stack[j].name = Mentioned
      BY <2>1 DEF MentionVisiting, Recursion, VisitingIsStack
    <3>2. Mentioned \in Reaches(Mentioned) /\ Mentioned \in Defined
      BY <2>1, <3>1, ActiveReaches DEF MentionVisiting, Recursion, Completeness
    <3>3. QED
      BY <3>2 DEF CyclesExist
  <2>2. QED
    BY <2>1, OnlyVisitingNotes
<1>2. UNCHANGED tokens
  BY StepKinds DEF Recursion
<1>3. QED
  BY <1>1, <1>2 DEF CyclesExist, Reaches, Defined

\* As long as no cycle was met, what is done with is founded.
Grown(k) ==
  \A i \in DOMAIN tokens[stack[k].name].mentions :
    i < stack[k].next /\ tokens[stack[k].name].mentions[i] \in Defined
      => tokens[stack[k].name].mentions[i] \in Founded
Quiet ==
  ~Noted =>
    /\ output \subseteq Founded
    /\ \A k \in DOMAIN stack : Grown(k)
    /\ \A t \in Defined \ todo : t \in Founded \/ (~Idle /\ t = stack[1].name)

LEMMA GrownGains ==
  ASSUME UNCHANGED tokens, NEW k \in Nat, Grown(k), TypeOK,
         stack[k].name \in Defined, stack[k].next \in Nat,
         stack'[k].name = stack[k].name, stack'[k].next = stack[k].next + 1,
         LET m == tokens[stack[k].name].mentions[stack[k].next] IN m \in Defined => m \in Founded
  PROVE  Grown(k)'
<1> DEFINE mentions == tokens[stack[k].name].mentions
<1>1. mentions \in Seq(Token)
  BY DefinedFields
<1>2. ASSUME NEW i \in DOMAIN mentions, i < stack[k].next + 1, mentions[i] \in Defined
      PROVE  mentions[i] \in Founded
  <2>1. CASE i = stack[k].next
    BY <1>2, <2>1
  <2>2. CASE i # stack[k].next
    <3>1. i \in Nat /\ stack[k].next \in Nat
      BY <1>1
    <3>2. \A a, b \in Nat : a < b + 1 /\ a # b => a < b
      OBVIOUS
    <3>3. i < stack[k].next
      BY <1>2, <2>2, <3>1, <3>2
    <3>4. QED
      BY <1>2, <3>3 DEF Grown
  <2>3. QED
    BY <2>1, <2>2
<1>3. Defined' = Defined /\ Founded' = Founded
  BY DEF Founded, Grounded, Defined
<1>4. QED
  BY <1>2, <1>3 DEF Grown

LEMMA QuietStep ==
  TypeOK /\ Recursion /\ Completeness /\ Quiet /\ [Next]_vars => Quiet'
<1> SUFFICES ASSUME TypeOK, Recursion, Completeness, Quiet, [Next]_vars, ~Noted'
             PROVE  Quiet'
  BY DEF Quiet
<1>1. ~Noted /\ ~MentionVisiting
  BY OnlyVisitingNotes
<1>2. UNCHANGED tokens /\ (EnterStep \/ PastStep \/ ReturnStep \/ RestStep)
  BY StepKinds DEF Recursion
<1>3. Defined' = Defined /\ Founded' = Founded
  BY <1>2 DEF Founded, Grounded, Defined
<1>4. PICK n : n = Len(stack)
  OBVIOUS
<1>5. /\ n \in Nat /\ (Idle <=> n = 0) /\ DOMAIN stack = 1..n
      /\ stack' \in Seq(Frame) /\ (Idle' <=> Len(stack') = 0)
  BY <1>4, NextTyped DEF TypeOK, Idle
<1>6. /\ output \subseteq Founded
      /\ \A k \in 1..n : Grown(k)
      /\ \A t \in Defined \ todo : t \in Founded \/ (n # 0 /\ t = stack[1].name)
  BY <1>1, <1>5 DEF Quiet
<1>7. \A k \in 1..n : k \in Nat /\ stack[k].name \in Defined /\ stack[k].next \in Nat
  <2>1. \A k \in 1..n : stack[k].name \in Defined
    BY <1>5 DEF Recursion, VisitingIsStack
  <2>2. \A k \in 1..n : stack[k] \in Frame
    BY <1>5 DEF TypeOK
  <2>3. QED
    BY <1>5, <2>1, <2>2 DEF Frame
<1>8. ASSUME NEW k, Grown(k), stack'[k] = stack[k] PROVE Grown(k)'
  BY <1>2, <1>3, <1>8 DEF Grown
<1>9. CASE EnterStep
  <2>1. /\ DOMAIN stack' = 1..(n + 1) /\ Len(stack') = n + 1 /\ UNCHANGED output
        /\ \A k \in 1..n : stack'[k] = stack[k]
        /\ stack'[n + 1].next = 1 /\ stack'[n + 1].name \in Defined
        /\ \/ n = 0 /\ todo' = todo \ {stack'[n + 1].name}
           \/ n # 0 /\ UNCHANGED todo
    <3>1. UNCHANGED output
      BY <1>9 DEF EnterStep
    <3>2. QED
      BY <1>4, <1>9, <3>1, EnterShape DEF HasMention
  <2>2. Grown(n + 1)'
    <3>1. tokens[stack'[n + 1].name].mentions \in Seq(Token)
      BY <2>1, DefinedFields
    <3>2. \A i \in DOMAIN tokens[stack'[n + 1].name].mentions : ~(i < 1)
      BY <3>1
    <3>3. QED
      BY <1>2, <2>1, <3>2 DEF Grown
  <2>3. \A k \in 1..(n + 1) : Grown(k)'
    BY <1>5, <1>6, <1>8, <2>1, <2>2
  <2>4. \A t \in Defined \ todo' : t \in Founded \/ (~Idle' /\ t = stack'[1].name)
    <3>1. ~Idle' /\ (n # 0 => 1 \in 1..n)
      BY <1>5, <2>1
    <3>2. QED
      BY <1>6, <2>1, <3>1
  <2>5. QED
    BY <1>3, <1>6, <2>1, <2>3, <2>4 DEF Quiet
<1>10. CASE PastStep
  <2>1. /\ n # 0 /\ DOMAIN stack' = 1..n /\ Len(stack') = n
        /\ \A k \in 1..(n - 1) : stack'[k] = stack[k]
        /\ \A k \in 1..n : stack'[k].name = stack[k].name
        /\ stack'[n].next = stack[n].next + 1
    BY <1>4, <1>10, PastShape
  <2>2. Mentioned \in Defined => Mentioned \in Founded
    BY <1>1, <1>6, <1>10 DEF PastStep
  <2>3. Grown(n)'
    <3>1. Mentioned = tokens[stack[n].name].mentions[stack[n].next] /\ n \in 1..n
      BY <1>4, <1>5, <2>1 DEF Mentioned, TopDefinition, Top
    <3>2. QED
      BY <1>2, <1>6, <1>7, <2>1, <2>2, <3>1, GrownGains
  <2>4. \A k \in 1..(n - 1) : Grown(k)'
    BY <1>5, <1>6, <1>8, <2>1
  <2>5. \A k \in 1..n : Grown(k)'
    BY <1>5, <2>1, <2>3, <2>4, Below
  <2>6. UNCHANGED <<output, todo>> /\ ~Idle' /\ stack'[1].name = stack[1].name
    BY <1>5, <1>10, <2>1 DEF PastStep
  <2>7. QED
    BY <1>3, <1>6, <2>1, <2>5, <2>6 DEF Quiet
<1>11. CASE ReturnStep
  <2>1. /\ n # 0 /\ DOMAIN stack' = 1..(n - 1) /\ Len(stack') = n - 1
        /\ \A k \in 1..(n - 1) :
             /\ stack'[k].name = stack[k].name
             /\ k # n - 1 => stack'[k] = stack[k]
             /\ k = n - 1 => stack'[k].next = stack[k].next + 1
    BY <1>4, <1>11, ReturnShape DEF Completeness, Recursion
  <2>2. stack[n].name \in Founded
    <3>1. n \in 1..n /\ Top = stack[n] /\ Top \in Frame
      BY <1>4, <1>5, <2>1, TopFrame DEF Top
    <3>2. tokens[Top.name].mentions \in Seq(Token) /\ Top.next \in Nat
      BY <1>7, <3>1, DefinedFields
    <3>3. \A i \in DOMAIN tokens[Top.name].mentions : i < Top.next
      BY <1>11, <3>2 DEF ReturnStep, Evaluates, HasMention, TopDefinition
    <3>4. QED
      BY <1>6, <1>7, <3>1, <3>3, FoundedGrounded DEF Grounded, Grown
  <2>3. ASSUME NEW k \in 1..(n - 1) PROVE Grown(k)'
    <3>1. k \in 1..n
      BY <1>5
    <3>2. CASE k # n - 1
      BY <1>6, <1>8, <2>1, <3>1, <3>2
    <3>3. CASE k = n - 1
      <4>1. k + 1 = n
        BY <1>5, <3>3
      <4>2. tokens[stack[k].name].mentions[stack[k].next] = stack[n].name
        BY <1>4, <4>1 DEF Completeness, CallersWait, Waits
      <4>3. QED
        BY <1>2, <1>6, <1>7, <2>1, <2>2, <3>1, <3>3, <4>2, GrownGains
    <3>4. QED
      BY <3>2, <3>3
  <2>4. output' \subseteq Founded /\ UNCHANGED todo
    BY <1>4, <1>6, <1>11, <2>2 DEF ReturnStep, Top
  <2>5. \A t \in Defined \ todo : t \in Founded \/ (~Idle' /\ t = stack'[1].name)
    <3>1. CASE n = 1
      BY <1>6, <2>2, <3>1
    <3>2. CASE n # 1
      <4>1. ~Idle' /\ 1 \in 1..(n - 1)
        BY <1>5, <2>1, <3>2
      <4>2. QED
        BY <1>6, <2>1, <4>1
    <3>3. QED
      BY <3>1, <3>2
  <2>6. QED
    BY <1>3, <2>1, <2>3, <2>4, <2>5 DEF Quiet
<1>12. CASE RestStep
  <2>1. Idle' <=> Idle
    BY <1>12 DEF RestStep, Idle
  <2>2. \A k \in DOMAIN stack' : Grown(k)'
    BY <1>5, <1>6, <1>8, <1>12 DEF RestStep
  <2>3. QED
    BY <1>3, <1>5, <1>6, <1>12, <2>1, <2>2 DEF Quiet, RestStep
<1>13. QED
  BY <1>2, <1>9, <1>10, <1>11, <1>12

\* A cycle of mentions is diagnosed wherever the hash table makes the visit
\* enter it, and nothing else is called a cycle (tokens.cpp:21-27).
THEOREM CyclesAreDiagnosed == Spec => []CyclesDiagnosed
<1>1. Init => Completeness /\ (Noted => CyclesExist) /\ Quiet
  BY DEF Init, Completeness, CallersWait, MissingBlocked, VisitedDecided, Defined, Noted, Quiet
<1>2. TypeOK /\ Recursion /\ Completeness /\ [Next]_vars => Completeness'
  BY CallersWaitStep, MissingBlockedStep, VisitedDecidedStep DEF Completeness
<1>3. TypeOK /\ (Noted => CyclesExist) /\ Quiet => CyclesDiagnosed
  <2>1. SUFFICES ASSUME TypeOK, Noted => CyclesExist, Quiet, Resolved PROVE Noted <=> CyclesExist
    BY DEF CyclesDiagnosed, Noted, CyclesExist
  <2>2. ~Noted => Defined \subseteq Founded
    BY <2>1 DEF Quiet, Resolved
  <2>3. QED
    BY <2>1, <2>2, FoundedIsAcyclic DEF CyclesExist
<1>4. QED
  BY <1>1, <1>2, <1>3, NotedStep, QuietStep, TypeCorrect, RecursionAlways, PTL DEF Spec
=============================================================================
