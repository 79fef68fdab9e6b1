---------------------------- MODULE LoaderProofs ----------------------------
(***************************************************************************)
(* Proofs about Loader, for every set of files, texts and requests and all *)
(* values of the limits.                                                   *)
(***************************************************************************)
EXTENDS Loader, FiniteSetTheorems, TLAPS

-----------------------------------------------------------------------------
(***************************************************************************)
(* Helpers: what the operators over the stack and the request return.      *)
(***************************************************************************)
\* Diagnostics issued or copied onto the list keep its type.
LEMMA IssueType ==
  ASSUME NEW ds \in Seq(Code), NEW code \in Code
  PROVE  Issue(ds, code) \in Seq(Code)
BY LimitAssumption DEF Issue

LEMMA CopiesType ==
  ASSUME NEW ds \in Seq(Code), NEW code \in Code, NEW n \in Nat
  PROVE  ds \o Copies(code, n) \in Seq(Code)
<1>1. Copies(code, n) \in Seq(Code)
  BY DEF Copies
<1>2. QED
  BY <1>1

\* A text's fields.
LEMMA TextFields ==
  ASSUME NEW t \in Text
  PROVE  /\ t.form \in {"ok", "oversized", "invalid_utf8"}
         /\ t.includes \in Seq(Item)
         /\ t.defines \in SUBSET Name
         /\ t.nodes \in Nat
         /\ t.errors \in Nat
BY TextAssumption DEF TextType

\* A call that compile() or a document makes has a path and a text.
LEMMA CallType ==
  ASSUME TypeOK, NEW item \in Path \cup {EntryCall}
  PROVE  PathOf(item) \in Path /\ TextOf(item) \in Text
<1>1. request.source \in Text
  BY DEF TypeOK, RequestType
<1>2. CASE item = EntryCall
  BY <1>1, <1>2, PathAssumption DEF PathOf, TextOf
<1>3. CASE item # EntryCall
  BY <1>3 DEF PathOf, TextOf, TypeOK
<1>4. QED
  BY <1>2, <1>3

LEMMA TopType ==
  ASSUME TypeOK, ~AtRoot
  PROVE  /\ Len(stack) \in Nat \ {0}
         /\ Top \in Frame
         /\ SubSeq(stack, 1, Len(stack) - 1) \in Seq(Frame)
BY DEF TypeOK, AtRoot, Top

LEMMA DepthType ==
  ASSUME TypeOK
  PROVE  Depth \in Nat
<1>1. CASE AtRoot
  BY <1>1 DEF Depth
<1>2. CASE ~AtRoot
  BY <1>2, TopType DEF Depth, Frame
<1>3. QED
  BY <1>1, <1>2

\* Moving a loop on changes the "next" of the top frame and nothing else.
LEMMA AdvancedType ==
  ASSUME TypeOK
  PROVE  /\ Advanced \in Seq(Frame)
         /\ Len(Advanced) = Len(stack)
         /\ DOMAIN Advanced = DOMAIN stack
         /\ \A k \in DOMAIN stack :
              /\ Advanced[k].path = stack[k].path
              /\ Advanced[k].text = stack[k].text
              /\ Advanced[k].depth = stack[k].depth
              /\ Advanced[k].next =
                   stack[k].next + (IF k = Len(stack) THEN 1 ELSE 0)
<1>1. CASE AtRoot
  BY <1>1 DEF Advanced, AtRoot, TypeOK
<1>2. CASE ~AtRoot
  <2>1. stack \in Seq(Frame) /\ Len(stack) \in DOMAIN stack
    BY <1>2, TopType DEF TypeOK
  <2>2. Advanced = [stack EXCEPT ![Len(stack)] = [Top EXCEPT !.next = @ + 1]]
    BY <1>2 DEF Advanced, Top
  <2>3. Top \in Frame /\ [Top EXCEPT !.next = @ + 1] \in Frame
    BY <1>2, TopType DEF Frame
  <2>4. Advanced \in Seq(Frame) /\ Len(Advanced) = Len(stack)
          /\ DOMAIN Advanced = DOMAIN stack
    BY <2>1, <2>2, <2>3
  <2>5. ASSUME NEW k \in DOMAIN stack
        PROVE  /\ Advanced[k].path = stack[k].path
               /\ Advanced[k].text = stack[k].text
               /\ Advanced[k].depth = stack[k].depth
               /\ Advanced[k].next =
                    stack[k].next + (IF k = Len(stack) THEN 1 ELSE 0)
    <3>1. stack[k] \in Frame
      BY <2>1
    <3>2. CASE k = Len(stack)
      BY <2>1, <2>2, <2>3, <3>2 DEF Top, Frame
    <3>3. CASE k # Len(stack)
      BY <2>1, <2>2, <3>1, <3>3 DEF Frame
    <3>4. QED
      BY <3>2, <3>3
  <2>6. QED
    BY <2>4, <2>5
<1>3. QED
  BY <1>1, <1>2

-----------------------------------------------------------------------------
(***************************************************************************)
(* Type correctness.                                                       *)
(***************************************************************************)
LEMMA SkipTyped ==
  ASSUME TypeOK, NEW ds \in Seq(Code), Skip(ds)
  PROVE  TypeOK'
<1>1. stack' \in Seq(Frame)
  BY AdvancedType DEF Skip
<1>2. root' \in Nat \ {0}
  BY DEF Skip, AdvanceRoot, TypeOK
<1>3. diagnostics' \in Seq(Code)
  BY DEF Skip
<1>4. QED
  BY <1>1, <1>2, <1>3 DEF Skip, fixed, TypeOK

LEMMA ParseTyped ==
  ASSUME TypeOK, NEW item \in Path \cup {EntryCall}, Parse(item),
         stack' \in Seq(Frame), diagnostics' \in Seq(Code)
  PROVE  TypeOK'
<1>1. sources' \in Seq(Path)
  BY CallType DEF Parse, TypeOK
<1>2. astNodes' \in Nat
  BY CallType, TextFields DEF Parse, TypeOK
<1>3. root' \in Nat \ {0}
  BY DEF Parse, AdvanceRoot, TypeOK
<1>4. QED
  BY <1>1, <1>2, <1>3 DEF Parse, fixed, TypeOK

LEMMA ParsedType ==
  ASSUME TypeOK, NEW item \in Path \cup {EntryCall}
  PROVE  Parsed(item) \in Seq(Code)
<1>1. TextOf(item).errors \in Nat
  BY CallType, TextFields
<1>2. QED
  BY <1>1, CopiesType DEF Parsed, TypeOK, Code

LEMMA InitTyped == Init => TypeOK
<1> SUFFICES ASSUME Init PROVE TypeOK
  OBVIOUS
<1>1. disk \in [Path -> Text] /\ request \in RequestType
  BY RequestAssumption DEF Init
<1>2. documents \in [Path -> Text \cup {NoText}]
  BY DEF Init
<1>3. registry \in [Name -> Path \cup {None}]
  BY DEF Init
<1>4. /\ stack \in Seq(Frame) /\ dependencies \in Seq(Path)
      /\ diagnostics \in Seq(Code) /\ sources \in Seq(Path)
  BY DEF Init
<1>5. root \in Nat \ {0} /\ astNodes \in Nat
  BY DEF Init
<1>6. cancelled \in BOOLEAN
  BY DEF Init
<1>7. QED
  BY <1>1, <1>2, <1>3, <1>4, <1>5, <1>6 DEF TypeOK

LEMMA NextTyped == TypeOK /\ [Next]_vars => TypeOK'
<1> SUFFICES ASSUME TypeOK, [Next]_vars PROVE TypeOK'
  OBVIOUS
<1> USE DEF Code
<1>1. CASE RejectUnquoted
  BY <1>1, IssueType, SkipTyped DEF RejectUnquoted, TypeOK
<1>2. CASE RejectUnresolved
  BY <1>2, IssueType, SkipTyped DEF RejectUnresolved, TypeOK
<1>3. ASSUME NEW item \in Path \cup {EntryCall}, LoadCancelled(item)
      PROVE  TypeOK'
  <2>1. diagnostics \in Seq(Code)
    BY DEF TypeOK
  <2>2. (IF diagnostics = <<>> THEN Issue(diagnostics, "EM0902") ELSE diagnostics)
          \in Seq(Code)
    BY <2>1, IssueType
  <2>3. QED
    BY <1>3, <2>2, SkipTyped DEF LoadCancelled
<1>4. ASSUME NEW item \in Path \cup {EntryCall}, LoadCycle(item)
      PROVE  TypeOK'
  BY <1>4, IssueType, SkipTyped DEF LoadCycle, TypeOK
<1>5. ASSUME NEW item \in Path \cup {EntryCall}, LoadAgain(item)
      PROVE  TypeOK'
  BY <1>5, SkipTyped DEF LoadAgain, TypeOK
<1>6. ASSUME NEW item \in Path \cup {EntryCall}, LoadTooDeep(item)
      PROVE  TypeOK'
  BY <1>6, IssueType, SkipTyped DEF LoadTooDeep, TypeOK
<1>7. ASSUME NEW item \in Path \cup {EntryCall}, LoadTooMany(item)
      PROVE  TypeOK'
  BY <1>7, IssueType, SkipTyped DEF LoadTooMany, TypeOK
<1>8. ASSUME NEW item \in Path \cup {EntryCall}, LoadUnreadable(item)
      PROVE  TypeOK'
  BY <1>8, IssueType, SkipTyped DEF LoadUnreadable, TypeOK
<1>9. ASSUME NEW item \in Path \cup {EntryCall}, LoadTooManyNodes(item)
      PROVE  TypeOK'
  BY <1>9, ParsedType, IssueType, AdvancedType, ParseTyped DEF LoadTooManyNodes
<1>10. ASSUME NEW item \in Path \cup {EntryCall}, LoadDocument(item)
       PROVE  TypeOK'
  <2>1. [path |-> PathOf(item), text |-> TextOf(item), next |-> 1,
         depth |-> Depth, entry |-> item = EntryCall] \in Frame
    BY CallType, DepthType DEF Frame
  <2>2. stack' \in Seq(Frame)
    BY <1>10, <2>1, AdvancedType DEF LoadDocument
  <2>3. QED
    BY <1>10, <2>2, ParsedType, ParseTyped DEF LoadDocument
<1>11. CASE FinishDocument
  <2>1. Top.path \in Path /\ Top.text \in Text /\ stack' \in Seq(Frame)
    BY <1>11, TopType DEF FinishDocument, Frame
  <2>2. registry' \in [Name -> Path \cup {None}]
    BY <1>11, <2>1 DEF FinishDocument, MergedRegistry, TypeOK
  <2>3. Cardinality(Collisions) \in Nat
    <3>1. Collisions \subseteq Name
      BY <2>1, TextFields DEF Collisions
    <3>2. IsFiniteSet(Collisions)
      BY <3>1, NameAssumption, FS_Subset
    <3>3. QED
      BY <3>2, FS_CardinalityType
  <2>4. diagnostics' \in Seq(Code)
    BY <1>11, <2>3, CopiesType DEF FinishDocument, TypeOK
  <2>5. dependencies' \in Seq(Path) /\ documents' \in [Path -> Text \cup {NoText}]
    BY <1>11, <2>1 DEF FinishDocument, TypeOK
  <2>6. QED
    BY <1>11, <2>1, <2>2, <2>4, <2>5 DEF FinishDocument, fixed, TypeOK
<1>12. CASE Cancel
  BY <1>12 DEF Cancel, fixed, TypeOK
<1>13. CASE UNCHANGED vars
  BY <1>13 DEF vars, TypeOK
<1>14. QED
  BY <1>1, <1>2, <1>3, <1>4, <1>5, <1>6, <1>7, <1>8, <1>9, <1>10, <1>11, <1>12,
     <1>13 DEF Next, LoadStep

\* Every variable of the loader keeps its type, for every request.
THEOREM TypeCorrect == Spec => []TypeOK
<1>1. QED
  BY InitTyped, NextTyped, PTL DEF Spec

-----------------------------------------------------------------------------
(***************************************************************************)
(* The steps by what they do to the walk: a loop moves on, a document is   *)
(* opened, a document is finished, or the walk rests.                      *)
(***************************************************************************)
Moves == /\ HasItem
         /\ stack' = Advanced
         /\ AdvanceRoot
         /\ UNCHANGED <<disk, request, documents, dependencies>>
Opens == \E item \in Path \cup {EntryCall} : LoadDocument(item)
Rests == UNCHANGED <<disk, request, root, stack, documents, dependencies>>

LEMMA StepKinds ==
  ASSUME [Next]_vars
  PROVE  Moves \/ Opens \/ FinishDocument \/ Rests
<1>1. ASSUME NEW ds, Skip(ds) PROVE Moves
  BY <1>1 DEF Skip, Moves, fixed
<1>2. CASE RejectUnquoted
  BY <1>1, <1>2 DEF RejectUnquoted
<1>3. CASE RejectUnresolved
  BY <1>1, <1>3 DEF RejectUnresolved
<1>4. ASSUME NEW item \in Path \cup {EntryCall},
             \/ LoadCancelled(item) \/ LoadCycle(item) \/ LoadAgain(item)
             \/ LoadTooDeep(item) \/ LoadTooMany(item) \/ LoadUnreadable(item)
      PROVE  Moves
  BY <1>1, <1>4 DEF LoadCancelled, LoadCycle, LoadAgain, LoadTooDeep,
                    LoadTooMany, LoadUnreadable
<1>5. ASSUME NEW item \in Path \cup {EntryCall}, LoadTooManyNodes(item)
      PROVE  Moves
  BY <1>5 DEF LoadTooManyNodes, Parse, Admitted, IsNew, Calls, Moves, fixed
<1>6. CASE Cancel
  BY <1>6 DEF Cancel, Rests, fixed
<1>7. CASE UNCHANGED vars
  BY <1>7 DEF vars, Rests
<1>8. QED
  BY <1>2, <1>3, <1>4, <1>5, <1>6, <1>7 DEF Next, LoadStep, Opens

LEMMA RootsType ==
  ASSUME TypeOK
  PROVE  Roots \in Seq(Path \cup {Unresolved, EntryCall})
<1>1. /\ request.imports \in Seq(Path \cup {Unresolved})
      /\ request.shell \in Path \cup {Unresolved, None}
  BY DEF TypeOK, RequestType
<1>2. (IF request.shell = None THEN <<>> ELSE <<request.shell>>)
        \in Seq(Path \cup {Unresolved, EntryCall})
  <2>1. CASE request.shell = None
    BY <2>1
  <2>2. CASE request.shell # None
    BY <1>1, <2>2
  <2>3. QED
    BY <2>1, <2>2
<1>3. request.imports \in Seq(Path \cup {Unresolved, EntryCall})
  BY <1>1
<1>4. <<EntryCall>> \in Seq(Path \cup {Unresolved, EntryCall})
  OBVIOUS
<1>5. QED
  BY <1>2, <1>3, <1>4 DEF Roots

\* Only compile() itself makes the entry call.
LEMMA CurrentType ==
  ASSUME TypeOK, HasItem, ~AtRoot
  PROVE  /\ Top.next \in DOMAIN Top.text.includes
         /\ Current \in Item /\ Current # EntryCall
<1>1. Top \in Frame
  BY TopType
<1>2. Top.text.includes \in Seq(Item) /\ Top.next \in Nat \ {0}
  BY <1>1, TextFields DEF Frame
<1>3. Top.next \in DOMAIN Top.text.includes
  BY <1>2 DEF HasItem
<1>4. QED
  BY <1>2, <1>3, MarkerAssumption DEF Current

LEMMA FinishLoads ==
  ASSUME TypeOK, FinishDocument
  PROVE  /\ Top.path \in Path /\ Top.text \in Text
         /\ loaded' = loaded \cup {Top.path}
         /\ documents'[Top.path] = Top.text
<1>1. Top.path \in Path /\ Top.text \in Text /\ Top.text # NoText
  BY TopType, MarkerAssumption DEF FinishDocument, Frame
<1>2. documents' = [documents EXCEPT ![Top.path] = Top.text]
  BY DEF FinishDocument
<1>3. documents \in [Path -> Text \cup {NoText}]
  BY DEF TypeOK
<1>4. QED
  BY <1>1, <1>2, <1>3 DEF loaded

\* The frames after each kind of step.
NewFrame(item) == [path |-> PathOf(item), text |-> TextOf(item), next |-> 1,
                   depth |-> Depth, entry |-> item = EntryCall]

LEMMA OpensStack ==
  ASSUME TypeOK, NEW item \in Path \cup {EntryCall}, LoadDocument(item)
  PROVE  /\ NewFrame(item) \in Frame
         /\ Len(stack) \in Nat
         /\ Len(stack') = Len(stack) + 1
         /\ DOMAIN stack = 1..Len(stack)
         /\ DOMAIN stack' = 1..(Len(stack) + 1)
         /\ stack'[Len(stack) + 1] = NewFrame(item)
         /\ \A k \in DOMAIN stack : stack'[k] = Advanced[k]
<1>1. NewFrame(item) \in Frame
  BY CallType, DepthType DEF Frame, NewFrame
<1>2. stack' = Append(Advanced, NewFrame(item))
  BY DEF LoadDocument, NewFrame
<1>3. Advanced \in Seq(Frame) /\ Len(Advanced) = Len(stack) /\ stack \in Seq(Frame)
  BY AdvancedType DEF TypeOK
<1>4. QED
  BY <1>1, <1>2, <1>3

LEMMA FinishStack ==
  ASSUME TypeOK, FinishDocument
  PROVE  /\ Len(stack) \in Nat \ {0}
         /\ Len(stack') = Len(stack) - 1
         /\ DOMAIN stack' = 1..(Len(stack) - 1)
         /\ \A k \in DOMAIN stack' : k \in DOMAIN stack /\ stack'[k] = stack[k]
         /\ \A k \in DOMAIN stack' : k # Len(stack)
<1>1. stack \in Seq(Frame) /\ Len(stack) \in Nat \ {0}
  BY TopType DEF FinishDocument, TypeOK
<1>2. stack' = SubSeq(stack, 1, Len(stack) - 1)
  BY DEF FinishDocument
<1>3. Len(stack) - 1 \in Nat /\ DOMAIN stack = 1..Len(stack)
  BY <1>1
<1>4. /\ Len(stack') = Len(stack) - 1
      /\ DOMAIN stack' = 1..(Len(stack) - 1)
      /\ \A k \in 1..(Len(stack) - 1) : stack'[k] = stack[k]
  BY <1>1, <1>2, <1>3
<1>5. QED
  BY <1>1, <1>3, <1>4

LEMMA MovesStack ==
  ASSUME TypeOK, Moves
  PROVE  /\ Len(stack') = Len(stack) /\ DOMAIN stack' = DOMAIN stack
         /\ Open' = Open /\ loaded' = loaded
<1>1. DOMAIN stack' = DOMAIN stack /\ Len(stack') = Len(stack)
        /\ \A k \in DOMAIN stack : stack'[k].path = stack[k].path
  BY AdvancedType DEF Moves
<1>2. loaded' = loaded
  BY DEF Moves, loaded
<1>3. QED
  BY <1>1, <1>2 DEF Open

-----------------------------------------------------------------------------
(***************************************************************************)
(* No document is open twice or open and merged.                           *)
(***************************************************************************)
LEMMA OpenOnceStep == TypeOK /\ OpenOnce /\ [Next]_vars => OpenOnce'
<1> SUFFICES ASSUME TypeOK, OpenOnce, [Next]_vars PROVE OpenOnce'
  OBVIOUS
<1>1. CASE Moves
  <2>1. /\ DOMAIN stack' = DOMAIN stack
        /\ \A k \in DOMAIN stack : stack'[k].path = stack[k].path
    BY <1>1, AdvancedType DEF Moves
  <2>2. QED
    BY <1>1, <2>1, MovesStack DEF OpenOnce
<1>2. ASSUME NEW item \in Path \cup {EntryCall}, LoadDocument(item)
      PROVE  OpenOnce'
  <2>1. PathOf(item) \notin Open \cup loaded
    BY <1>2 DEF LoadDocument, Parse, Admitted, IsNew
  <2>2. loaded' = loaded
    BY <1>2 DEF LoadDocument, Parse, loaded
  <2>3. /\ Len(stack) \in Nat /\ DOMAIN stack = 1..Len(stack)
        /\ DOMAIN stack' = 1..(Len(stack) + 1)
        /\ stack'[Len(stack) + 1] = NewFrame(item)
        /\ \A k \in DOMAIN stack : stack'[k].path = stack[k].path
    BY <1>2, OpensStack, AdvancedType
  <2>4. NewFrame(item).path = PathOf(item)
    BY DEF NewFrame
  <2>5. \A k \in DOMAIN stack' : k \in DOMAIN stack \/ k = Len(stack) + 1
    BY <2>3
  <2>6. \A k \in DOMAIN stack : stack'[k].path # PathOf(item) /\ stack[k].path \in Open
    BY <2>1, <2>3 DEF Open
  <2>7. \A j, k \in DOMAIN stack' : stack'[j].path = stack'[k].path => j = k
    BY <2>3, <2>4, <2>5, <2>6 DEF OpenOnce
  <2>8. \A k \in DOMAIN stack' : stack'[k].path \notin loaded
    BY <2>1, <2>3, <2>4, <2>5, <2>6 DEF OpenOnce
  <2>9. QED
    BY <2>2, <2>7, <2>8 DEF OpenOnce, Open
<1>3. CASE FinishDocument
  <2>1. loaded' = loaded \cup {Top.path}
    BY <1>3, FinishLoads
  <2>2. \A k \in DOMAIN stack' : stack'[k].path # Top.path
    BY <1>3, FinishStack DEF OpenOnce, Top, TypeOK
  <2>3. QED
    BY <1>3, <2>1, <2>2, FinishStack DEF OpenOnce, Open
<1>4. CASE Rests
  BY <1>4 DEF Rests, OpenOnce, Open, loaded
<1>5. QED
  BY <1>1, <1>2, <1>3, <1>4, StepKinds DEF Opens

\* load() never re-enters a document, whatever the include graph.
THEOREM NeverReenters == Spec => []OpenOnce
<1>1. Init => OpenOnce
  BY DEF Init, OpenOnce, Open, loaded
<1>2. QED
  BY <1>1, OpenOnceStep, TypeCorrect, PTL DEF Spec

-----------------------------------------------------------------------------
(***************************************************************************)
(* Include-once.                                                           *)
(***************************************************************************)
LEMMA MergedOnceStep ==
  TypeOK /\ OpenOnce /\ MergedOnce /\ [Next]_vars => MergedOnce'
<1> SUFFICES ASSUME TypeOK, OpenOnce, MergedOnce, [Next]_vars PROVE MergedOnce'
  OBVIOUS
<1>1. CASE FinishDocument
  <2>1. Top.path \notin loaded
    <3>1. Len(stack) \in DOMAIN stack
      BY <1>1, TopType DEF FinishDocument, TypeOK
    <3>2. QED
      BY <3>1 DEF OpenOnce, Open, Top
  <2>2. dependencies' = Append(dependencies, Top.path) /\ Top.path \in Path
    BY <1>1, FinishLoads DEF FinishDocument
  <2>3. /\ Len(dependencies) \in Nat
        /\ DOMAIN dependencies = 1..Len(dependencies)
        /\ DOMAIN dependencies' = 1..(Len(dependencies) + 1)
        /\ dependencies'[Len(dependencies) + 1] = Top.path
        /\ \A i \in DOMAIN dependencies : dependencies'[i] = dependencies[i]
    BY <2>2 DEF TypeOK
  <2>4. \A i \in DOMAIN dependencies : dependencies[i] \in loaded
    BY DEF MergedOnce
  <2>5. \A i, j \in DOMAIN dependencies' :
           dependencies'[i] = dependencies'[j] => i = j
    BY <2>1, <2>3, <2>4 DEF MergedOnce
  <2>6. {dependencies'[i] : i \in DOMAIN dependencies'} = loaded \cup {Top.path}
    BY <2>3 DEF MergedOnce
  <2>7. QED
    BY <1>1, <2>5, <2>6, FinishLoads DEF MergedOnce
<1>2. CASE UNCHANGED <<documents, dependencies>>
  BY <1>2 DEF MergedOnce, loaded
<1>3. QED
  BY <1>1, <1>2, StepKinds DEF Moves, Opens, LoadDocument, Parse, Rests

\* The dependency list names every merged document exactly once.
THEOREM IncludeOnce == Spec => []MergedOnce
<1>1. Init => MergedOnce
  BY DEF Init, MergedOnce, loaded
<1>2. QED
  BY <1>1, MergedOnceStep, NeverReenters, TypeCorrect, PTL DEF Spec

-----------------------------------------------------------------------------
(***************************************************************************)
(* The shape of the stack.                                                 *)
(***************************************************************************)
LEMMA PathOfItem ==
  ASSUME NEW item \in Item
  PROVE  PathOf(item) = item
BY MarkerAssumption DEF PathOf

LEMMA RootsFixed ==
  ASSUME request' = request
  PROVE  Roots' = Roots
BY DEF Roots

LEMMA StackShapeStep == TypeOK /\ StackShape /\ [Next]_vars => StackShape'
<1> SUFFICES ASSUME TypeOK, StackShape, [Next]_vars PROVE StackShape'
  OBVIOUS
<1>1. /\ stack \in Seq(Frame) /\ Len(stack) \in Nat
      /\ DOMAIN stack = 1..Len(stack)
      /\ \A k \in DOMAIN stack : stack[k].next \in Nat
  <2>1. /\ stack \in Seq(Frame) /\ Len(stack) \in Nat
        /\ DOMAIN stack = 1..Len(stack)
    BY DEF TypeOK
  <2>2. \A k \in DOMAIN stack : stack[k] \in Frame
    BY <2>1
  <2>3. QED
    BY <2>1, <2>2 DEF Frame
<1>2. CASE Moves
  <2>1. /\ DOMAIN stack' = DOMAIN stack /\ Len(stack') = Len(stack)
        /\ \A k \in DOMAIN stack :
             /\ stack'[k].path = stack[k].path
             /\ stack'[k].text = stack[k].text
             /\ stack'[k].depth = stack[k].depth
             /\ stack'[k].next = stack[k].next + (IF k = Len(stack) THEN 1 ELSE 0)
    BY <1>2, AdvancedType DEF Moves
  <2>2. ASSUME NEW k \in DOMAIN stack
        PROVE  stack'[k].next <= Len(stack'[k].text.includes) + 1
    <3>1. CASE k = Len(stack)
      <4>1. ~AtRoot /\ Top = stack[k]
        BY <1>1, <3>1 DEF AtRoot, Top
      <4>2. Top.text.includes \in Seq(Item)
        BY <4>1, TopType, TextFields DEF Frame
      <4>3. Top.next <= Len(Top.text.includes)
        BY <1>2, <4>1 DEF Moves, HasItem
      <4>4. QED
        BY <1>1, <2>1, <3>1, <4>1, <4>2, <4>3
    <3>2. CASE k # Len(stack)
      BY <1>1, <2>1, <3>2 DEF StackShape
    <3>3. QED
      BY <3>1, <3>2
  <2>3. \A k \in DOMAIN stack' : stack'[k].depth = k - 1
    BY <2>1 DEF StackShape
  <2>4. ASSUME NEW k \in 1..(Len(stack') - 1)
        PROVE  /\ stack'[k].next > 1
               /\ stack'[k].text.includes[stack'[k].next - 1] = stack'[k + 1].path
    <3>1. Len(stack') = Len(stack)
      BY <2>1
    <3>2. k \in DOMAIN stack /\ k + 1 \in DOMAIN stack /\ k # Len(stack)
            /\ k \in 1..(Len(stack) - 1)
      BY <1>1, <2>4, <3>1
    <3>3. stack'[k].next = stack[k].next
      BY <1>1, <2>1, <3>2
    <3>4. QED
      BY <2>1, <3>2, <3>3 DEF StackShape
  <2>5. root' <= Len(Roots') + 1
    <3>1. Roots' = Roots /\ Len(Roots) \in Nat /\ root \in Nat
      BY <1>2, RootsFixed, RootsType DEF Moves, TypeOK
    <3>2. CASE AtRoot
      BY <1>2, <3>1, <3>2 DEF Moves, AdvanceRoot, HasItem
    <3>3. CASE ~AtRoot
      BY <1>2, <3>1, <3>3 DEF Moves, AdvanceRoot, StackShape
    <3>4. QED
      BY <3>2, <3>3
  <2>6. ASSUME ~AtRoot' PROVE root' > 1 /\ PathOf(Roots[root - 1])' = stack'[1].path
    <3>1. ~AtRoot /\ 1 \in DOMAIN stack
      BY <1>1, <2>1, <2>6 DEF AtRoot
    <3>2. root' = root /\ Roots' = Roots
      BY <1>2, <3>1, RootsFixed DEF Moves, AdvanceRoot
    <3>3. QED
      BY <2>1, <3>1, <3>2 DEF StackShape, PathOf
  <2>7. QED
    BY <2>1, <2>2, <2>3, <2>4, <2>5, <2>6 DEF StackShape
<1>3. ASSUME NEW item \in Path \cup {EntryCall}, LoadDocument(item)
      PROVE  StackShape'
  <2>1. /\ Len(stack') = Len(stack) + 1
        /\ DOMAIN stack' = 1..(Len(stack) + 1)
        /\ stack'[Len(stack) + 1] = NewFrame(item)
        /\ \A k \in DOMAIN stack :
             /\ stack'[k].path = stack[k].path
             /\ stack'[k].text = stack[k].text
             /\ stack'[k].depth = stack[k].depth
             /\ stack'[k].next = stack[k].next + (IF k = Len(stack) THEN 1 ELSE 0)
    BY <1>3, OpensStack, AdvancedType
  <2>2. HasItem /\ Current = item
    BY <1>3 DEF LoadDocument, Parse, Admitted, IsNew, Calls
  <2>3. /\ NewFrame(item).depth = Depth /\ NewFrame(item).next = 1
        /\ NewFrame(item).path = PathOf(item) /\ NewFrame(item).text = TextOf(item)
    BY DEF NewFrame
  <2>4. Depth = Len(stack)
    <3>1. CASE AtRoot
      BY <1>1, <3>1 DEF AtRoot, Depth
    <3>2. CASE ~AtRoot
      <4>1. Len(stack) \in DOMAIN stack
        BY <1>1, <3>2 DEF AtRoot
      <4>2. QED
        BY <1>1, <3>2, <4>1 DEF Depth, Top, StackShape
    <3>3. QED
      BY <3>1, <3>2
  <2>5. \A k \in DOMAIN stack' : stack'[k].depth = k - 1
    BY <1>1, <2>1, <2>3, <2>4 DEF StackShape
  <2>6. ASSUME NEW k \in DOMAIN stack'
        PROVE  stack'[k].next <= Len(stack'[k].text.includes) + 1
    <3>1. CASE k = Len(stack) + 1
      <4>1. TextOf(item).includes \in Seq(Item)
        BY CallType, TextFields
      <4>2. QED
        BY <2>1, <2>3, <3>1, <4>1
    <3>2. CASE k = Len(stack)
      <4>1. ~AtRoot /\ Top = stack[k]
        BY <1>1, <2>1, <3>2 DEF AtRoot, Top
      <4>2. Top.text.includes \in Seq(Item)
        BY <4>1, TopType, TextFields DEF Frame
      <4>3. Top.next <= Len(Top.text.includes)
        BY <2>2, <4>1 DEF HasItem
      <4>4. QED
        BY <1>1, <2>1, <3>2, <4>1, <4>2, <4>3
    <3>3. CASE k \in 1..(Len(stack) - 1)
      <4>1. k \in DOMAIN stack /\ k # Len(stack)
        BY <1>1, <3>3
      <4>2. stack'[k].next = stack[k].next /\ stack'[k].text = stack[k].text
        BY <1>1, <2>1, <4>1
      <4>3. QED
        BY <4>1, <4>2 DEF StackShape
    <3>4. QED
      BY <1>1, <2>1, <3>1, <3>2, <3>3
  <2>7. ASSUME NEW k \in 1..(Len(stack') - 1)
        PROVE  /\ stack'[k].next > 1
               /\ stack'[k].text.includes[stack'[k].next - 1] = stack'[k + 1].path
    <3>1. k \in DOMAIN stack
      BY <1>1, <2>1
    <3>2. CASE k = Len(stack)
      <4>1. ~AtRoot /\ Top = stack[k]
        BY <1>1, <3>1, <3>2 DEF AtRoot, Top
      <4>2. /\ Current = Top.text.includes[Top.next] /\ Current \in Item
            /\ Top.next \in Nat \ {0}
        BY <2>2, <4>1, CurrentType, TopType DEF Current, Frame
      <4>3. stack'[k].next = Top.next + 1 /\ stack'[k].text = Top.text
        BY <2>1, <3>1, <3>2, <4>1
      <4>4. stack'[k + 1].path = Current
        BY <2>1, <2>2, <2>3, <3>2, <4>2, PathOfItem
      <4>5. stack'[k].next - 1 = Top.next
        BY <4>2, <4>3
      <4>6. QED
        BY <4>2, <4>3, <4>4, <4>5
    <3>3. CASE k # Len(stack)
      <4>1. k \in 1..(Len(stack) - 1) /\ k + 1 \in DOMAIN stack
        BY <1>1, <3>1, <3>3
      <4>2. stack'[k].next = stack[k].next
        BY <1>1, <2>1, <3>1, <3>3
      <4>3. QED
        BY <2>1, <3>1, <4>1, <4>2 DEF StackShape
    <3>4. QED
      BY <3>2, <3>3
  <2>8. /\ root' <= Len(Roots') + 1
        /\ root' > 1 /\ PathOf(Roots[root - 1])' = stack'[1].path
    <3>1. /\ Roots' = Roots /\ Len(Roots) \in Nat /\ root \in Nat \ {0}
          /\ AdvanceRoot
      BY <1>3, RootsFixed, RootsType DEF LoadDocument, Parse, fixed, TypeOK
    <3>2. CASE AtRoot
      <4>1. root' = root + 1 /\ root <= Len(Roots) /\ Roots[root] = item
        BY <2>2, <3>1, <3>2 DEF AdvanceRoot, HasItem, Current
      <4>2. root' - 1 = root /\ root' > 1 /\ root' <= Len(Roots') + 1
        BY <3>1, <4>1
      <4>3. Len(stack) = 0
        BY <3>2 DEF AtRoot
      <4>4. stack'[1].path = PathOf(item)
        BY <2>1, <2>3, <4>3
      <4>5. QED
        BY <3>1, <4>1, <4>2, <4>4 DEF PathOf
    <3>3. CASE ~AtRoot
      <4>1. root' = root /\ 1 \in DOMAIN stack
        BY <1>1, <3>1, <3>3 DEF AdvanceRoot, AtRoot
      <4>2. QED
        BY <2>1, <3>1, <3>3, <4>1 DEF StackShape, PathOf
    <3>4. QED
      BY <3>2, <3>3
  <2>9. QED
    BY <2>5, <2>6, <2>7, <2>8 DEF StackShape
<1>4. CASE FinishDocument
  <2>1. /\ DOMAIN stack' = 1..(Len(stack) - 1) /\ Len(stack') = Len(stack) - 1
        /\ \A k \in DOMAIN stack' : k \in DOMAIN stack /\ stack'[k] = stack[k]
    BY <1>4, FinishStack
  <2>2. root' = root /\ Roots' = Roots
    BY <1>4, RootsFixed DEF FinishDocument, fixed
  <2>3. \A k \in DOMAIN stack' :
          /\ stack'[k].depth = k - 1
          /\ stack'[k].next <= Len(stack'[k].text.includes) + 1
    BY <2>1 DEF StackShape
  <2>4. ASSUME NEW k \in 1..(Len(stack') - 1)
        PROVE  /\ stack'[k].next > 1
               /\ stack'[k].text.includes[stack'[k].next - 1] = stack'[k + 1].path
    <3>1. k \in DOMAIN stack' /\ k + 1 \in DOMAIN stack' /\ k \in 1..(Len(stack) - 1)
      BY <1>1, <2>1
    <3>2. QED
      BY <2>1, <3>1 DEF StackShape
  <2>5. ASSUME ~AtRoot' PROVE root' > 1 /\ PathOf(Roots[root - 1])' = stack'[1].path
    <3>1. stack' \in Seq(Frame)
      BY NextTyped DEF TypeOK
    <3>2. 1 \in DOMAIN stack'
      BY <2>5, <3>1 DEF AtRoot
    <3>3. ~AtRoot
      BY <1>4 DEF FinishDocument
    <3>4. QED
      BY <2>1, <2>2, <3>2, <3>3 DEF StackShape, PathOf
  <2>6. QED
    BY <2>2, <2>3, <2>4, <2>5 DEF StackShape
<1>5. CASE Rests
  BY <1>5, RootsFixed DEF Rests, StackShape, AtRoot, PathOf
<1>6. QED
  BY <1>2, <1>3, <1>4, <1>5, StepKinds DEF Opens

LEMMA StackShaped == Spec => []StackShape
<1>1. Init => StackShape
  <2> SUFFICES ASSUME Init PROVE StackShape
    OBVIOUS
  <2>1. TypeOK
    BY InitTyped
  <2>2. stack = <<>> /\ root = 1 /\ Len(Roots) \in Nat
    BY <2>1, RootsType DEF Init
  <2>3. QED
    BY <2>2 DEF StackShape, AtRoot
<1>2. QED
  BY <1>1, StackShapeStep, TypeCorrect, PTL DEF Spec

-----------------------------------------------------------------------------
(***************************************************************************)
(* The limits that hold.                                                   *)
(***************************************************************************)
LEMMA DepthIsHeight ==
  ASSUME TypeOK, StackShape
  PROVE  Depth = Len(stack)
<1>1. CASE AtRoot
  BY <1>1 DEF AtRoot, Depth
<1>2. CASE ~AtRoot
  <2>1. Len(stack) \in DOMAIN stack /\ Len(stack) \in Nat
    BY <1>2, TopType DEF TypeOK
  <2>2. QED
    BY <1>2, <2>1 DEF Depth, Top, StackShape
<1>3. QED
  BY <1>1, <1>2

LEMMA LoadedFinite ==
  ASSUME TypeOK
  PROVE  IsFiniteSet(loaded) /\ Cardinality(loaded) \in Nat
<1>1. loaded \subseteq Path
  BY DEF loaded
<1>2. QED
  BY <1>1, PathAssumption, FS_Subset, FS_CardinalityType

\* A document that is finished leaves the stack for the loaded set.
LEMMA FinishNew ==
  ASSUME TypeOK, OpenOnce, FinishDocument
  PROVE  Top.path \notin loaded
<1>1. Len(stack) \in DOMAIN stack
  BY TopType DEF FinishDocument, TypeOK
<1>2. QED
  BY <1>1 DEF OpenOnce, Open, Top

LEMMA WithinLimitsStep ==
  TypeOK /\ OpenOnce /\ StackShape /\ WithinLimits /\ [Next]_vars => WithinLimits'
<1> SUFFICES ASSUME TypeOK, OpenOnce, StackShape, WithinLimits, [Next]_vars
             PROVE  WithinLimits'
  OBVIOUS
<1>1. Len(stack) \in Nat /\ Cardinality(loaded) \in Nat
  BY LoadedFinite DEF TypeOK
<1>2. CASE Moves
  BY <1>2, MovesStack DEF WithinLimits
<1>3. ASSUME NEW item \in Path \cup {EntryCall}, LoadDocument(item)
      PROVE  WithinLimits'
  <2>1. Depth <= MaxIncludeDepth /\ Cardinality(loaded) < MaxIncludes
    BY <1>3 DEF LoadDocument, Parse, Admitted
  <2>2. loaded' = loaded
    BY <1>3 DEF LoadDocument, Parse, loaded
  <2>3. Len(stack') = Len(stack) + 1 /\ Len(stack) <= MaxIncludeDepth
    BY <1>3, <2>1, OpensStack, DepthIsHeight
  <2>4. QED
    BY <1>1, <2>1, <2>2, <2>3, LimitAssumption DEF WithinLimits
<1>4. CASE FinishDocument
  <2>1. Cardinality(loaded \cup {Top.path}) = Cardinality(loaded) + 1
    BY <1>4, LoadedFinite, FinishNew, FS_AddElement
  <2>2. Cardinality(loaded') = Cardinality(loaded) + 1
    BY <1>4, <2>1, FinishLoads
  <2>3. Len(stack') = Len(stack) - 1
    BY <1>4, FinishStack
  <2>4. QED
    BY <1>1, <2>2, <2>3, LimitAssumption DEF WithinLimits
<1>5. CASE Rests
  BY <1>5 DEF Rests, WithinLimits, loaded
<1>6. QED
  BY <1>2, <1>3, <1>4, <1>5, StepKinds DEF Opens

\* Calls of load() nest at most one deeper than the depth limit, and the
\* include limit is passed by at most the depth limit.
THEOREM LimitsBound == Spec => []WithinLimits
<1>1. Init => WithinLimits
  <2> SUFFICES ASSUME Init PROVE WithinLimits
    OBVIOUS
  <2>1. stack = <<>> /\ loaded = {}
    BY DEF Init, loaded
  <2>2. QED
    BY <2>1, FS_EmptySet, LimitAssumption DEF WithinLimits
<1>2. QED
  BY <1>1, WithinLimitsStep, NeverReenters, StackShaped, TypeCorrect, PTL DEF Spec

-----------------------------------------------------------------------------
(***************************************************************************)
(* A text that is parsed twice is over the AST limit and never entered.    *)
(***************************************************************************)
\* sources and the AST count change only when a text is parsed.
LEMMA SourcesStep ==
  ASSUME TypeOK, [Next]_vars
  PROVE  \/ UNCHANGED <<sources, astNodes>>
         \/ \E item \in Path \cup {EntryCall} :
              Parse(item) /\ (LoadDocument(item) \/ LoadTooManyNodes(item))
<1>1. ASSUME NEW ds, Skip(ds) PROVE UNCHANGED <<sources, astNodes>>
  BY <1>1 DEF Skip
<1>2. QED
  BY <1>1 DEF Next, LoadStep, RejectUnquoted, RejectUnresolved, LoadCancelled,
              LoadCycle, LoadAgain, LoadTooDeep, LoadTooMany, LoadUnreadable,
              LoadTooManyNodes, LoadDocument, FinishDocument, Cancel, vars

\* What is open or loaded stays open or loaded.
LEMMA HeldStep ==
  ASSUME TypeOK, OpenOnce, [Next]_vars
  PROVE  Open \cup loaded \subseteq (Open \cup loaded)'
<1>1. CASE Moves
  BY <1>1, MovesStack
<1>2. ASSUME NEW item \in Path \cup {EntryCall}, LoadDocument(item)
      PROVE  Open \cup loaded \subseteq (Open \cup loaded)'
  <2>1. loaded' = loaded
    BY <1>2 DEF LoadDocument, Parse, loaded
  <2>2. \A k \in DOMAIN stack : k \in DOMAIN stack' /\ stack'[k].path = stack[k].path
    BY <1>2, OpensStack, AdvancedType
  <2>3. QED
    BY <2>1, <2>2 DEF Open
<1>3. CASE FinishDocument
  <2>1. loaded' = loaded \cup {Top.path}
    BY <1>3, FinishLoads
  <2>2. stack \in Seq(Frame)
    BY DEF TypeOK
  <2>3. ASSUME NEW k \in DOMAIN stack
        PROVE  stack[k].path = Top.path \/ (k \in DOMAIN stack' /\ stack'[k] = stack[k])
    BY <1>3, <2>2, FinishStack DEF Top
  <2>4. QED
    BY <2>1, <2>3 DEF Open
<1>4. CASE Rests
  BY <1>4 DEF Rests, Open, loaded
<1>5. QED
  BY <1>1, <1>2, <1>3, <1>4, StepKinds DEF Opens

\* Only a document that is opened becomes open or loaded.
LEMMA NothingNewHeld ==
  ASSUME TypeOK, OpenOnce, [Next]_vars, ~Opens
  PROVE  (Open \cup loaded)' \subseteq Open \cup loaded
<1>1. CASE Moves
  BY <1>1, MovesStack
<1>2. CASE FinishDocument
  <2>1. loaded' = loaded \cup {Top.path} /\ Top.path = stack[Len(stack)].path
    BY <1>2, FinishLoads DEF Top
  <2>2. /\ Len(stack) \in DOMAIN stack
        /\ \A k \in DOMAIN stack' : k \in DOMAIN stack /\ stack'[k] = stack[k]
    BY <1>2, FinishStack DEF TypeOK
  <2>3. QED
    BY <2>1, <2>2 DEF Open
<1>3. CASE Rests
  BY <1>3 DEF Rests, Open, loaded
<1>4. QED
  BY <1>1, <1>2, <1>3, StepKinds

LEMMA ParsedOnceStep ==
  TypeOK /\ OpenOnce /\ ParsedAreHeld /\ ParsedOnce /\ [Next]_vars
    => ParsedAreHeld' /\ ParsedOnce'
<1> SUFFICES ASSUME TypeOK, OpenOnce, ParsedAreHeld, ParsedOnce, [Next]_vars
             PROVE  ParsedAreHeld' /\ ParsedOnce'
  OBVIOUS
<1>1. CASE UNCHANGED <<sources, astNodes>>
  <2>1. ~Opens
    <3>1. ASSUME NEW item \in Path \cup {EntryCall}, LoadDocument(item) PROVE FALSE
      <4>1. sources' = Append(sources, PathOf(item)) /\ sources \in Seq(Path)
        BY <3>1 DEF LoadDocument, Parse, TypeOK
      <4>2. Len(sources') = Len(sources) + 1 /\ Len(sources) \in Nat
        BY <3>1, <4>1, CallType DEF LoadDocument, Parse
      <4>3. QED
        BY <1>1, <4>2
    <3>2. QED
      BY <3>1 DEF Opens
  <2>2. QED
    BY <1>1, <2>1, HeldStep, NothingNewHeld DEF ParsedAreHeld, ParsedOnce
<1>2. ASSUME NEW item \in Path \cup {EntryCall}, Parse(item), LoadTooManyNodes(item)
      PROVE  ParsedAreHeld' /\ ParsedOnce'
  <2>1. astNodes' > MaxAstNodes /\ ~(astNodes' <= MaxAstNodes)
    BY <1>2, NextTyped, LimitAssumption DEF LoadTooManyNodes, TypeOK
  <2>2. Open' = Open /\ loaded' = loaded /\ PathOf(item) \notin Open \cup loaded
    <3>1. Moves
      BY <1>2 DEF LoadTooManyNodes, Parse, Admitted, IsNew, Calls, Moves, fixed
    <3>2. QED
      BY <1>2, <3>1, MovesStack DEF Parse, Admitted, IsNew
  <2>3. /\ Len(sources) \in Nat
        /\ DOMAIN sources = 1..Len(sources)
        /\ DOMAIN sources' = 1..(Len(sources) + 1)
        /\ sources'[Len(sources) + 1] = PathOf(item)
        /\ \A i \in DOMAIN sources : sources'[i] = sources[i]
    BY <1>2, CallType DEF Parse, TypeOK
  <2>4. \A i \in DOMAIN sources' : i \in DOMAIN sources \/ i = Len(sources) + 1
    BY <2>3
  <2>5. ASSUME NEW i \in DOMAIN sources', NEW j \in DOMAIN sources',
               i # j, sources'[i] = sources'[j]
        PROVE  sources'[i] \notin Open' \cup loaded'
    <3>1. CASE i \in DOMAIN sources /\ j \in DOMAIN sources
      BY <2>2, <2>3, <2>5, <3>1 DEF ParsedOnce
    <3>2. CASE i = Len(sources) + 1 \/ j = Len(sources) + 1
      BY <2>2, <2>3, <2>5, <3>2
    <3>3. QED
      BY <2>4, <3>1, <3>2
  <2>6. QED
    BY <2>1, <2>5 DEF ParsedAreHeld, ParsedOnce
<1>3. ASSUME NEW item \in Path \cup {EntryCall}, Parse(item), LoadDocument(item)
      PROVE  ParsedAreHeld' /\ ParsedOnce'
  <2>1. astNodes <= MaxAstNodes
    <3>1. TextOf(item).nodes \in Nat /\ astNodes \in Nat
      BY CallType, TextFields DEF TypeOK
    <3>2. astNodes' = astNodes + TextOf(item).nodes /\ astNodes' <= MaxAstNodes
      BY <1>3 DEF LoadDocument, Parse
    <3>3. QED
      BY <3>1, <3>2, LimitAssumption
  <2>2. PathOf(item) \notin Open \cup loaded
    BY <1>3 DEF Parse, Admitted, IsNew
  <2>3. PathOf(item) \in Open'
    <3>1. Len(stack) + 1 \in DOMAIN stack' /\ stack'[Len(stack) + 1] = NewFrame(item)
      BY <1>3, OpensStack
    <3>2. NewFrame(item).path = PathOf(item)
      BY DEF NewFrame
    <3>3. QED
      BY <3>1, <3>2 DEF Open
  <2>4. /\ Len(sources) \in Nat
        /\ DOMAIN sources = 1..Len(sources)
        /\ DOMAIN sources' = 1..(Len(sources) + 1)
        /\ sources'[Len(sources) + 1] = PathOf(item)
        /\ \A i \in DOMAIN sources : sources'[i] = sources[i]
    BY <1>3, CallType DEF Parse, TypeOK
  <2>5. \A i \in DOMAIN sources' : i \in DOMAIN sources \/ i = Len(sources) + 1
    BY <2>4
  <2>6. \A i \in DOMAIN sources : sources[i] \in Open \cup loaded
    BY <2>1 DEF ParsedAreHeld
  <2>7. ParsedAreHeld'
    BY <2>3, <2>4, <2>5, <2>6, HeldStep DEF ParsedAreHeld
  <2>8. ParsedOnce'
    <3>1. \A i, j \in DOMAIN sources : i # j => sources[i] # sources[j]
      BY <2>1, LimitAssumption DEF ParsedOnce, TypeOK
    <3>2. \A i \in DOMAIN sources : sources'[i] # PathOf(item)
      BY <2>2, <2>4, <2>6
    <3>3. \A i, j \in DOMAIN sources' : i # j => sources'[i] # sources'[j]
      BY <2>4, <2>5, <3>1, <3>2
    <3>4. QED
      BY <3>3 DEF ParsedOnce
  <2>9. QED
    BY <2>7, <2>8
<1>4. QED
  BY <1>1, <1>2, <1>3, SourcesStep

\* The SourceManager holds one text for each path; a document that it holds twice
\* is over the AST limit, and neither open nor merged (loader.cpp:96, 128).
THEOREM ParsesOnce == Spec => []ParsedOnce
<1>1. Init => ParsedAreHeld /\ ParsedOnce
  BY DEF Init, ParsedAreHeld, ParsedOnce
<1>2. QED
  BY <1>1, ParsedOnceStep, NeverReenters, TypeCorrect, PTL DEF Spec

\* No file is entered or merged a second time, nor parsed again unless it is over
\* the AST limit and left out.
THEOREM EachFileOnce == Spec => []OnceEach
<1>1. OpenOnce /\ MergedOnce /\ ParsedOnce => OnceEach
  BY DEF OnceEach
<1>2. QED
  BY <1>1, NeverReenters, IncludeOnce, ParsesOnce, PTL

-----------------------------------------------------------------------------
(***************************************************************************)
(* Nothing is skipped unnoticed below the cap of issue().                  *)
(***************************************************************************)
\* issue() keeps the list and leaves trouble behind, dropped code or not.
LEMMA IssueGrows ==
  ASSUME NEW ds \in Seq(Code), NEW code \in Code
  PROVE  /\ Len(ds) <= Len(Issue(ds, code))
         /\ \A i \in DOMAIN ds : i \in DOMAIN Issue(ds, code)
                                   /\ Issue(ds, code)[i] = ds[i]
         /\ Len(Issue(ds, code)) < MaxDiagnostics =>
              \E i \in DOMAIN Issue(ds, code) : Issue(ds, code)[i] = code
<1>1. CASE Len(ds) < MaxDiagnostics
  <2>1. Issue(ds, code) = Append(ds, code)
    BY <1>1 DEF Issue
  <2>2. Len(ds) + 1 \in DOMAIN Append(ds, code) /\ Append(ds, code)[Len(ds) + 1] = code
    OBVIOUS
  <2>3. QED
    BY <2>1, <2>2
<1>2. CASE ~(Len(ds) < MaxDiagnostics)
  BY <1>2 DEF Issue
<1>3. QED
  BY <1>1, <1>2

LEMMA CopiesGrow ==
  ASSUME NEW ds \in Seq(Code), NEW code \in Code, NEW n \in Nat
  PROVE  /\ Len(ds) <= Len(ds \o Copies(code, n))
         /\ \A i \in DOMAIN ds : i \in DOMAIN (ds \o Copies(code, n))
                                   /\ (ds \o Copies(code, n))[i] = ds[i]
<1>1. Copies(code, n) \in Seq(Code) /\ Len(Copies(code, n)) = n
  BY DEF Copies
<1>2. QED
  BY <1>1

Grows(ds) == /\ Len(diagnostics) <= Len(ds)
             /\ \A i \in DOMAIN diagnostics : i \in DOMAIN ds /\ ds[i] = diagnostics[i]

LEMMA DiagnosticsGrow ==
  ASSUME TypeOK, [Next]_vars
  PROVE  Grows(diagnostics') /\ (cancelled => cancelled')
<1> USE DEF Code
<1>1. diagnostics \in Seq(Code)
  BY DEF TypeOK
<1>2. ASSUME NEW ds, Skip(ds), Grows(ds)
      PROVE  Grows(diagnostics') /\ (cancelled => cancelled')
  BY <1>2 DEF Skip
<1>3. ASSUME NEW code \in Code PROVE Grows(Issue(diagnostics, code))
  <2> HIDE DEF Code
  <2>1. QED
    BY <1>1, IssueGrows DEF Grows
<1>4. Grows(diagnostics)
  BY <1>1 DEF Grows
<1>5. Grows(IF diagnostics = <<>> THEN Issue(diagnostics, "EM0902") ELSE diagnostics)
  BY <1>3, <1>4
<1>6. CASE RejectUnquoted \/ RejectUnresolved
  BY <1>2, <1>3, <1>6 DEF RejectUnquoted, RejectUnresolved
<1>7. ASSUME NEW item \in Path \cup {EntryCall},
             \/ LoadCancelled(item) \/ LoadCycle(item) \/ LoadAgain(item)
             \/ LoadTooDeep(item) \/ LoadTooMany(item) \/ LoadUnreadable(item)
      PROVE  Grows(diagnostics') /\ (cancelled => cancelled')
  BY <1>2, <1>3, <1>4, <1>5, <1>7 DEF LoadCancelled, LoadCycle, LoadAgain,
     LoadTooDeep, LoadTooMany, LoadUnreadable
<1>8. ASSUME NEW item \in Path \cup {EntryCall}
      PROVE  /\ Grows(Parsed(item))
             /\ Grows(Issue(Parsed(item), "EM0908"))
  <2>1. TextOf(item).errors \in Nat
    BY CallType, TextFields
  <2>2. Grows(Parsed(item)) /\ Parsed(item) \in Seq(Code)
    BY <1>1, <2>1, CopiesGrow, ParsedType DEF Parsed, Grows
  <2>3. /\ Len(Parsed(item)) <= Len(Issue(Parsed(item), "EM0908"))
        /\ \A i \in DOMAIN Parsed(item) :
             /\ i \in DOMAIN Issue(Parsed(item), "EM0908")
             /\ Issue(Parsed(item), "EM0908")[i] = Parsed(item)[i]
        /\ Issue(Parsed(item), "EM0908") \in Seq(Code)
    BY <2>2, IssueGrows, IssueType
  <2>4. Grows(Issue(Parsed(item), "EM0908"))
    BY <1>1, <2>2, <2>3 DEF Grows
  <2>5. QED
    BY <2>2, <2>4
<1>9. ASSUME NEW item \in Path \cup {EntryCall},
             LoadTooManyNodes(item) \/ LoadDocument(item)
      PROVE  Grows(diagnostics') /\ (cancelled => cancelled')
  BY <1>8, <1>9 DEF LoadTooManyNodes, LoadDocument, Parse
<1>10. CASE FinishDocument
  <2>1. Collisions \subseteq Name
    <3>1. Top.text \in Text
      BY <1>10, TopType DEF FinishDocument, Frame
    <3>2. QED
      BY <3>1, TextFields DEF Collisions
  <2>2. Cardinality(Collisions) \in Nat
    BY <2>1, NameAssumption, FS_Subset, FS_CardinalityType
  <2>3. QED
    BY <1>1, <1>10, <2>2, CopiesGrow DEF FinishDocument, Grows
<1>11. CASE Cancel \/ UNCHANGED vars
  BY <1>4, <1>11 DEF Cancel, vars
<1>12. QED
  BY <1>6, <1>7, <1>9, <1>10, <1>11 DEF Next, LoadStep

\* Trouble does not go away.
LEMMA CleanBefore ==
  ASSUME TypeOK, [Next]_vars, Clean'
  PROVE  Clean
<1>1. Grows(diagnostics') /\ (cancelled => cancelled')
  BY DiagnosticsGrow
<1>2. Len(diagnostics) \in Nat /\ Len(diagnostics') \in Nat
  BY NextTyped DEF TypeOK
<1>3. Len(diagnostics) < MaxDiagnostics
  BY <1>1, <1>2, LimitAssumption DEF Clean, Grows
<1>4. ~HasErrors
  BY <1>1 DEF Clean, HasErrors, Grows
<1>5. ~cancelled
  BY <1>1 DEF Clean
<1>6. QED
  BY <1>3, <1>4, <1>5 DEF Clean

\* An error handed to issue() is trouble, whether it is kept or dropped.
LEMMA ErrorIsTrouble ==
  ASSUME NEW ds \in Seq(Code), NEW code \in Code, IsError(code),
         diagnostics' = Issue(ds, code)
  PROVE  ~Clean'
BY IssueGrows DEF Clean, HasErrors, IsError

\* A loop moves on cleanly only past a document that is loaded.
LEMMA MovesClean ==
  ASSUME TypeOK, [Next]_vars, Moves, Clean',
         ~Rests, ~Opens, ~FinishDocument
  PROVE  PathOf(Current) \in loaded
<1> USE DEF Code
<1>1. diagnostics \in Seq(Code)
  BY DEF TypeOK
<1>2. \A code \in Code \ {"EM0601"} : diagnostics' # Issue(diagnostics, code)
  BY <1>1, ErrorIsTrouble DEF IsError
<1>3. ~RejectUnquoted /\ ~RejectUnresolved
  BY <1>2 DEF RejectUnquoted, RejectUnresolved, Skip
<1>4. ASSUME NEW item \in Path \cup {EntryCall}
      PROVE  /\ ~LoadCancelled(item) /\ ~LoadCycle(item) /\ ~LoadTooDeep(item)
             /\ ~LoadTooMany(item) /\ ~LoadUnreadable(item)
  <2>1. ~LoadCancelled(item)
    BY DEF LoadCancelled, Skip, Clean
  <2>2. QED
    BY <1>2, <2>1 DEF LoadCycle, LoadTooDeep, LoadTooMany, LoadUnreadable, Skip
<1>5. ASSUME NEW item \in Path \cup {EntryCall}
      PROVE  ~LoadTooManyNodes(item)
  BY ParsedType, ErrorIsTrouble DEF LoadTooManyNodes, IsError
<1>6. ~Cancel /\ ~UNCHANGED vars
  BY DEF Cancel, Clean, vars, Rests, fixed
<1>7. PICK item \in Path \cup {EntryCall} : LoadAgain(item)
  BY <1>3, <1>4, <1>5, <1>6 DEF Next, LoadStep, Opens
<1>8. QED
  BY <1>7 DEF LoadAgain, Calls

LEMMA PassedStep ==
  TypeOK /\ OpenOnce /\ StackShape /\ PassedAreLoaded /\ [Next]_vars
    => PassedAreLoaded'
<1> SUFFICES ASSUME TypeOK, OpenOnce, StackShape, PassedAreLoaded, [Next]_vars,
                    Clean'
             PROVE  PassedAreLoaded'
  BY DEF PassedAreLoaded
<1>1. /\ stack \in Seq(Frame) /\ Len(stack) \in Nat /\ DOMAIN stack = 1..Len(stack)
      /\ \A k \in DOMAIN stack : stack[k].next \in Nat \ {0}
      /\ root \in Nat \ {0}
  <2>1. /\ stack \in Seq(Frame) /\ Len(stack) \in Nat
        /\ DOMAIN stack = 1..Len(stack) /\ root \in Nat \ {0}
    BY DEF TypeOK
  <2>2. \A k \in DOMAIN stack : stack[k] \in Frame
    BY <2>1
  <2>3. QED
    BY <2>1, <2>2 DEF Frame
<1>2. Clean
  BY CleanBefore
<1>3. /\ \A k \in DOMAIN stack : \A i \in 1..(stack[k].next - 1) :
           \/ stack[k].text.includes[i] \in loaded
           \/ k < Len(stack) /\ i = stack[k].next - 1
      /\ \A i \in 1..(root - 1) :
           PathOf(Roots[i]) \in loaded \/ (~AtRoot /\ i = root - 1)
      /\ \A p \in loaded : \A i \in DOMAIN documents[p].includes :
           documents[p].includes[i] \in loaded
  BY <1>2 DEF PassedAreLoaded
<1>4. CASE Rests
  BY <1>2, <1>4, RootsFixed DEF Rests, PassedAreLoaded, AtRoot, loaded, PathOf
<1>5. CASE Moves /\ ~Rests /\ ~Opens /\ ~FinishDocument
  <2>1. /\ DOMAIN stack' = DOMAIN stack /\ Len(stack') = Len(stack)
        /\ \A k \in DOMAIN stack :
             /\ stack'[k].text = stack[k].text
             /\ stack'[k].next = stack[k].next + (IF k = Len(stack) THEN 1 ELSE 0)
    BY <1>5, AdvancedType DEF Moves
  <2>2. PathOf(Current) \in loaded /\ HasItem
    BY <1>5, MovesClean DEF Moves
  <2>3. loaded' = loaded /\ documents' = documents /\ Roots' = Roots
    BY <1>5, MovesStack, RootsFixed DEF Moves
  <2>4. ASSUME NEW k \in DOMAIN stack', NEW i \in 1..(stack'[k].next - 1)
        PROVE  \/ stack'[k].text.includes[i] \in loaded
               \/ k < Len(stack') /\ i = stack'[k].next - 1
    <3>1. k \in DOMAIN stack
      BY <2>1
    <3>2. CASE k # Len(stack)
      BY <1>1, <1>3, <2>1, <3>1, <3>2
    <3>3. CASE k = Len(stack) /\ i < stack[k].next
      BY <1>1, <1>3, <2>1, <3>1, <3>3
    <3>4. CASE k = Len(stack) /\ i = stack[k].next
      <4>1. ~AtRoot /\ Top = stack[k]
        BY <1>1, <3>1, <3>4 DEF AtRoot, Top
      <4>2. Current = stack[k].text.includes[i] /\ Current \in Item
        BY <2>2, <3>4, <4>1, CurrentType DEF Current
      <4>3. QED
        BY <2>1, <2>2, <3>1, <4>2, PathOfItem
    <3>5. QED
      BY <1>1, <2>1, <3>1, <3>2, <3>3, <3>4
  <2>5. ASSUME NEW i \in 1..(root' - 1)
        PROVE  PathOf(Roots[i]) \in loaded \/ (~AtRoot' /\ i = root' - 1)
    <3>1. AtRoot' = AtRoot
      BY <1>1, <2>1, NextTyped DEF AtRoot, TypeOK
    <3>2. CASE AtRoot
      <4>1. root' = root + 1 /\ Current = Roots[root]
        BY <1>5, <3>2 DEF Moves, AdvanceRoot, Current
      <4>2. QED
        BY <1>1, <1>3, <2>2, <3>2, <4>1
    <3>3. CASE ~AtRoot
      <4>1. root' = root
        BY <1>5, <3>3 DEF Moves, AdvanceRoot
      <4>2. QED
        BY <1>3, <3>1, <3>3, <4>1
    <3>4. QED
      BY <3>2, <3>3
  <2>6. QED
    BY <1>3, <2>3, <2>4, <2>5 DEF PassedAreLoaded, PathOf
<1>6. ASSUME NEW item \in Path \cup {EntryCall}, LoadDocument(item)
      PROVE  PassedAreLoaded'
  <2>1. /\ Len(stack') = Len(stack) + 1
        /\ DOMAIN stack' = 1..(Len(stack) + 1)
        /\ stack'[Len(stack) + 1] = NewFrame(item)
        /\ \A k \in DOMAIN stack :
             /\ stack'[k].text = stack[k].text
             /\ stack'[k].next = stack[k].next + (IF k = Len(stack) THEN 1 ELSE 0)
    BY <1>6, OpensStack, AdvancedType
  <2>2. NewFrame(item).next = 1
    BY DEF NewFrame
  <2>3. loaded' = loaded /\ documents' = documents /\ Roots' = Roots
    BY <1>6, RootsFixed DEF LoadDocument, Parse, loaded, fixed
  <2>4. ASSUME NEW k \in DOMAIN stack', NEW i \in 1..(stack'[k].next - 1)
        PROVE  \/ stack'[k].text.includes[i] \in loaded
               \/ k < Len(stack') /\ i = stack'[k].next - 1
    <3>1. k # Len(stack) + 1 /\ k \in DOMAIN stack
      BY <1>1, <2>1, <2>2, <2>4
    <3>2. CASE k # Len(stack)
      <4>1. stack'[k].next = stack[k].next
        BY <1>1, <2>1, <3>1, <3>2
      <4>2. QED
        BY <1>1, <1>3, <2>1, <3>1, <4>1
    <3>3. CASE k = Len(stack)
      <4>1. stack'[k].next = stack[k].next + 1 /\ stack'[k].text = stack[k].text
        BY <2>1, <3>1, <3>3
      <4>2. k < Len(stack')
        BY <1>1, <2>1, <3>3
      <4>3. stack[k].next \in Nat
        BY <1>1, <3>1
      <4>4. i = stack'[k].next - 1 \/ i \in 1..(stack[k].next - 1)
        BY <2>4, <4>1, <4>3
      <4>5. CASE i \in 1..(stack[k].next - 1)
        <5>1. ~(k < Len(stack))
          BY <1>1, <3>3
        <5>2. \/ stack[k].text.includes[i] \in loaded
              \/ k < Len(stack) /\ i = stack[k].next - 1
          BY <1>3, <3>1, <4>5
        <5>3. QED
          BY <4>1, <5>1, <5>2
      <4>6. QED
        BY <4>2, <4>4, <4>5
    <3>4. QED
      BY <3>2, <3>3
  <2>5. ASSUME NEW i \in 1..(root' - 1)
        PROVE  PathOf(Roots[i]) \in loaded \/ (~AtRoot' /\ i = root' - 1)
    <3>1. ~AtRoot'
      BY <1>1, <2>1, NextTyped DEF AtRoot, TypeOK
    <3>2. root' = IF AtRoot THEN root + 1 ELSE root
      BY <1>6 DEF LoadDocument, Parse, AdvanceRoot
    <3>3. QED
      BY <1>1, <1>3, <3>1, <3>2
  <2>6. QED
    BY <1>3, <2>3, <2>4, <2>5 DEF PassedAreLoaded, PathOf
<1>7. CASE FinishDocument
  <2>1. /\ Len(stack) \in Nat \ {0} /\ Len(stack') = Len(stack) - 1
        /\ DOMAIN stack' = 1..(Len(stack) - 1)
        /\ \A k \in DOMAIN stack' : k \in DOMAIN stack /\ stack'[k] = stack[k]
    BY <1>7, FinishStack
  <2>2. /\ loaded' = loaded \cup {Top.path} /\ documents'[Top.path] = Top.text
        /\ Top.path \in Path /\ Top.text \in Text
        /\ ~AtRoot /\ ~HasItem
    BY <1>7, FinishLoads DEF FinishDocument
  <2>3. root' = root /\ Roots' = Roots
    BY <1>7, RootsFixed DEF FinishDocument, fixed
  <2>4. ASSUME NEW k \in DOMAIN stack', NEW i \in 1..(stack'[k].next - 1)
        PROVE  \/ stack'[k].text.includes[i] \in loaded'
               \/ k < Len(stack') /\ i = stack'[k].next - 1
    <3>1. k \in DOMAIN stack /\ stack'[k] = stack[k] /\ k \in 1..(Len(stack) - 1)
      BY <2>1
    <3>2. CASE stack[k].text.includes[i] \in loaded
      BY <2>2, <3>1, <3>2
    <3>3. CASE i = stack[k].next - 1 /\ k < Len(stack')
      BY <3>1, <3>3
    <3>4. CASE i = stack[k].next - 1 /\ k = Len(stack')
      <4>1. stack[k + 1] = Top
        BY <1>1, <2>1, <3>4 DEF Top
      <4>2. stack[k].text.includes[i] = Top.path
        BY <3>1, <3>4, <4>1 DEF StackShape
      <4>3. QED
        BY <2>2, <3>1, <4>2
    <3>5. QED
      BY <1>1, <1>3, <2>1, <3>1, <3>2, <3>3, <3>4
  <2>5. ASSUME NEW i \in 1..(root' - 1)
        PROVE  PathOf(Roots[i]) \in loaded' \/ (~AtRoot' /\ i = root' - 1)
    <3>1. CASE PathOf(Roots[i]) \in loaded
      BY <2>2, <3>1
    <3>2. CASE i = root - 1 /\ AtRoot'
      <4>1. Len(stack) = 1
        BY <2>1, <3>2 DEF AtRoot
      <4>2. PathOf(Roots[i]) = Top.path
        BY <2>2, <3>2, <4>1 DEF StackShape, Top
      <4>3. QED
        BY <2>2, <4>2
    <3>3. QED
      BY <1>3, <2>3, <3>1, <3>2
  <2>6. ASSUME NEW p \in loaded', NEW i \in DOMAIN documents'[p].includes
        PROVE  documents'[p].includes[i] \in loaded'
    <3>1. CASE p = Top.path
      <4>1. Top.text.includes \in Seq(Item)
        BY <2>2, TextFields
      <4>2. Len(stack) \in DOMAIN stack /\ Top = stack[Len(stack)]
        BY <1>1, <2>1 DEF Top
      <4>3. i \in 1..(Top.next - 1)
        BY <1>1, <2>2, <3>1, <4>1, <4>2 DEF HasItem
      <4>4. Top.text.includes[i] \in loaded
        BY <1>1, <1>3, <4>2, <4>3
      <4>5. QED
        BY <2>2, <3>1, <4>4
    <3>2. CASE p # Top.path
      <4>1. p \in loaded /\ documents'[p] = documents[p]
        BY <1>7, <2>2, <3>2 DEF FinishDocument, TypeOK, loaded
      <4>2. QED
        BY <1>3, <2>2, <4>1
    <3>3. QED
      BY <3>1, <3>2
  <2>7. QED
    BY <2>3, <2>4, <2>5, <2>6 DEF PassedAreLoaded, PathOf
<1>8. QED
  BY <1>4, <1>5, <1>6, <1>7, StepKinds DEF Opens

LEMMA PassedAlways == Spec => []PassedAreLoaded
<1>1. Init => PassedAreLoaded
  <2> SUFFICES ASSUME Init PROVE PassedAreLoaded
    OBVIOUS
  <2>1. stack = <<>> /\ root = 1 /\ loaded = {}
    BY DEF Init, loaded
  <2>2. QED
    BY <2>1 DEF PassedAreLoaded
<1>2. QED
  BY <1>1, PassedStep, NeverReenters, StackShaped, TypeCorrect, PTL DEF Spec

\* A load that ends below the cap without an error or a cancellation has loaded
\* every import, the shell, the entry and every include of what it loaded.
THEOREM NothingSkipped == Spec => []CleanMeansComplete
<1>1. TypeOK /\ PassedAreLoaded => CleanMeansComplete
  <2> SUFFICES ASSUME TypeOK, PassedAreLoaded, Completed, Clean
               PROVE  /\ \A i \in DOMAIN Roots : PathOf(Roots[i]) \in loaded
                      /\ \A p \in loaded : \A i \in DOMAIN documents[p].includes :
                           documents[p].includes[i] \in loaded
    BY DEF CleanMeansComplete
  <2>1. AtRoot /\ ~(root <= Len(Roots)) /\ root \in Nat /\ Roots \in Seq(Item \cup {EntryCall})
    BY RootsType DEF Completed, HasItem, TypeOK, Item
  <2>2. \A i \in DOMAIN Roots : i \in 1..(root - 1)
    BY <2>1
  <2>3. QED
    BY <2>1, <2>2 DEF PassedAreLoaded
<1>2. QED
  BY <1>1, PassedAlways, TypeCorrect, PTL

-----------------------------------------------------------------------------
(***************************************************************************)
(* The loader implements IncludeOrder.                                     *)
(***************************************************************************)
LEMMA OrderStep ==
  ASSUME TypeOK, OpenOnce, PassedAreLoaded, [Next]_vars
  PROVE  [Order!Next]_(Order!vars)
<1>1. CASE FinishDocument
  <2>1. /\ Top.path \in Path /\ Top.text \in Text /\ Top.path \notin loaded
        /\ ~AtRoot /\ ~HasItem
    BY <1>1, FinishLoads, FinishNew DEF FinishDocument
  <2>2. ~Clean \/ \A i \in DOMAIN Top.text.includes : Top.text.includes[i] \in loaded
    <3>1. /\ Top.text.includes \in Seq(Item) /\ Top.next \in Nat \ {0}
          /\ Len(stack) \in DOMAIN stack /\ Top = stack[Len(stack)]
      BY <2>1, TopType, TextFields DEF Frame, Top, TypeOK
    <3>2. \A i \in DOMAIN Top.text.includes : i \in 1..(Top.next - 1)
      BY <2>1, <3>1 DEF HasItem
    <3>3. QED
      BY <3>1, <3>2 DEF PassedAreLoaded
  <2>3. dependencies' = Append(dependencies, Top.path)
          /\ documents' = [documents EXCEPT ![Top.path] = Top.text]
    BY <1>1 DEF FinishDocument
  <2>4. (~Clean)' \in {~Clean, TRUE}
    BY CleanBefore
  <2>5. Order!Take(Top.path, Top.text)
    BY <2>1, <2>2, <2>3, <2>4 DEF Order!Take, Order!Taken, loaded
  <2>6. QED
    BY <2>1, <2>5 DEF Order!Next
<1>2. CASE UNCHANGED <<documents, dependencies>>
  <2>1. CASE Clean'
    BY <1>2, <2>1, CleanBefore DEF Order!vars
  <2>2. CASE ~Clean'
    BY <1>2, <2>2 DEF Order!Next, Order!GetTroubled
  <2>3. QED
    BY <2>1, <2>2
<1>3. QED
  BY <1>1, <1>2, StepKinds DEF Moves, Opens, LoadDocument, Parse, Rests

\* The detailed loader implements the abstract include order.
THEOREM LoaderRefinesIncludeOrder == Spec => RefinesIncludeOrder
<1>1. Init => Order!Init
  BY DEF Init, Order!Init
<1>2. QED
  BY <1>1, OrderStep, TypeCorrect, NeverReenters, PassedAlways, PTL
     DEF Spec, RefinesIncludeOrder, Order!Spec

-----------------------------------------------------------------------------
(***************************************************************************)
(* Which definition is in force.                                           *)
(***************************************************************************)
LEMMA OverridesStep ==
  TypeOK /\ OpenOnce /\ PassedAreLoaded /\ IncluderOverrides /\ [Next]_vars
    => IncluderOverrides'
<1> SUFFICES ASSUME TypeOK, OpenOnce, PassedAreLoaded, IncluderOverrides,
                    [Next]_vars, Clean'
             PROVE  IncluderOverrides'
  BY DEF IncluderOverrides
<1>1. Clean
  BY CleanBefore
<1>2. CASE FinishDocument
  <2>1. /\ loaded' = loaded \cup {Top.path} /\ documents'[Top.path] = Top.text
        /\ Top.path \in Path /\ Top.text \in Text /\ Top.path \notin loaded
        /\ \A p \in loaded : documents'[p] = documents[p]
    BY <1>2, FinishLoads, FinishNew DEF FinishDocument, TypeOK, loaded
  <2>2. \A n \in Name : registry'[n] = IF n \in Top.text.defines THEN Top.path
                                                                 ELSE registry[n]
    BY <1>2 DEF FinishDocument, MergedRegistry
  <2>3. ASSUME NEW p \in loaded', NEW i \in DOMAIN documents'[p].includes,
               NEW n \in documents'[p].defines, documents'[p].includes[i] # p
        PROVE  registry'[n] # documents'[p].includes[i]
    <3>1. documents'[p] \in Text
      BY <2>1 DEF TypeOK, loaded
    <3>2. n \in Name
      BY <3>1, TextFields
    <3>3. CASE p = Top.path
      BY <2>1, <2>2, <2>3, <3>2, <3>3
    <3>4. CASE p # Top.path
      <4>1. p \in loaded /\ documents'[p] = documents[p]
        BY <2>1, <3>4
      <4>2. documents[p].includes[i] \in loaded
        BY <1>1, <4>1 DEF PassedAreLoaded
      <4>3. registry[n] # documents[p].includes[i]
        BY <1>1, <2>3, <4>1 DEF IncluderOverrides
      <4>4. QED
        BY <2>1, <2>2, <3>2, <4>1, <4>2, <4>3
    <3>5. QED
      BY <3>3, <3>4
  <2>4. QED
    BY <2>3 DEF IncluderOverrides
<1>3. CASE UNCHANGED <<documents, registry>>
  BY <1>1, <1>3 DEF IncluderOverrides, loaded
<1>4. UNCHANGED <<documents, registry>> \/ FinishDocument
  BY DEF Next, LoadStep, RejectUnquoted, RejectUnresolved, LoadCancelled, LoadCycle,
         LoadAgain, LoadTooDeep, LoadTooMany, LoadUnreadable, LoadTooManyNodes,
         LoadDocument, Skip, Parse, Cancel, vars
<1>5. QED
  BY <1>2, <1>3, <1>4

\* No definition of an included document stays in force over its includer's.
THEOREM IncluderWins == Spec => []IncluderOverrides
<1>1. Init => IncluderOverrides
  BY DEF Init, IncluderOverrides, loaded
<1>2. QED
  BY <1>1, OverridesStep, NeverReenters, PassedAlways, TypeCorrect, PTL DEF Spec

-----------------------------------------------------------------------------
(***************************************************************************)
(* Collisions, and the definitions of the entry.                           *)
(***************************************************************************)
\* A frame knows the text of its document: the request's for the entry call.
FramesKnow ==
  \A k \in DOMAIN stack :
    IF stack[k].entry THEN stack[k].path = Entry /\ stack[k].text = request.source
    ELSE stack[k].text = disk[stack[k].path]
\* What a merged document defines stays defined.
StaysDefined ==
  \A p \in loaded : \A n \in documents[p].defines : registry[n] # None

LEMMA AdvancedEntry ==
  ASSUME TypeOK, NEW k \in DOMAIN stack
  PROVE  Advanced[k].entry = stack[k].entry
<1>1. stack \in Seq(Frame) /\ stack[k] \in Frame
  BY DEF TypeOK
<1>2. CASE AtRoot
  BY <1>2 DEF Advanced
<1>3. CASE ~AtRoot /\ k = Len(stack)
  BY <1>1, <1>3 DEF Advanced, Frame
<1>4. CASE ~AtRoot /\ k # Len(stack)
  BY <1>1, <1>4 DEF Advanced
<1>5. QED
  BY <1>2, <1>3, <1>4

LEMMA FramesKnowStep == TypeOK /\ FramesKnow /\ [Next]_vars => FramesKnow'
<1> SUFFICES ASSUME TypeOK, FramesKnow, [Next]_vars PROVE FramesKnow'
  OBVIOUS
<1>1. CASE Moves
  BY <1>1, AdvancedType, AdvancedEntry DEF Moves, FramesKnow
<1>2. ASSUME NEW item \in Path \cup {EntryCall}, LoadDocument(item)
      PROVE  FramesKnow'
  <2>1. /\ DOMAIN stack' = 1..(Len(stack) + 1) /\ DOMAIN stack = 1..Len(stack)
        /\ Len(stack) \in Nat /\ stack'[Len(stack) + 1] = NewFrame(item)
        /\ \A k \in DOMAIN stack : stack'[k] = Advanced[k]
        /\ UNCHANGED <<disk, request>>
    BY <1>2, OpensStack DEF LoadDocument, Parse, fixed
  <2>2. \A k \in DOMAIN stack' : k \in DOMAIN stack \/ k = Len(stack) + 1
    BY <2>1
  <2>3. IF NewFrame(item).entry
        THEN NewFrame(item).path = Entry /\ NewFrame(item).text = request.source
        ELSE NewFrame(item).text = disk[NewFrame(item).path]
    BY DEF NewFrame, PathOf, TextOf
  <2>4. QED
    BY <2>1, <2>2, <2>3, AdvancedType, AdvancedEntry DEF FramesKnow
<1>3. CASE FinishDocument
  BY <1>3, FinishStack DEF FramesKnow, FinishDocument, fixed
<1>4. CASE Rests
  BY <1>4 DEF Rests, FramesKnow
<1>5. QED
  BY <1>1, <1>2, <1>3, <1>4, StepKinds DEF Opens

LEMMA OnlyFinishRegisters ==
  ASSUME [Next]_vars
  PROVE  UNCHANGED <<documents, registry>> \/ FinishDocument
BY DEF Next, LoadStep, RejectUnquoted, RejectUnresolved, LoadCancelled, LoadCycle,
       LoadAgain, LoadTooDeep, LoadTooMany, LoadUnreadable, LoadTooManyNodes,
       LoadDocument, Skip, Parse, Cancel, vars

LEMMA FinishRegisters ==
  ASSUME TypeOK, OpenOnce, FinishDocument
  PROVE  /\ loaded' = loaded \cup {Top.path} /\ documents'[Top.path] = Top.text
         /\ Top.path \in Path /\ Top.text.defines \subseteq Name
         /\ \A p \in loaded : documents'[p] = documents[p] /\ documents[p].defines \subseteq Name
         /\ \A n \in Name : registry'[n] = IF n \in Top.text.defines THEN Top.path
                                                                    ELSE registry[n]
<1>1. /\ loaded' = loaded \cup {Top.path} /\ documents'[Top.path] = Top.text
      /\ Top.path \in Path /\ Top.text \in Text /\ Top.path \notin loaded
  BY FinishLoads, FinishNew
<1>2. \A p \in loaded : documents'[p] = documents[p] /\ documents[p] \in Text
  BY <1>1 DEF FinishDocument, TypeOK, loaded
<1>3. QED
  BY <1>1, <1>2, TextFields DEF FinishDocument, MergedRegistry

LEMMA StaysDefinedStep ==
  TypeOK /\ OpenOnce /\ StaysDefined /\ [Next]_vars => StaysDefined'
<1> SUFFICES ASSUME TypeOK, OpenOnce, StaysDefined, [Next]_vars PROVE StaysDefined'
  OBVIOUS
<1>1. CASE FinishDocument
  <2>1. Top.path # None
    BY <1>1, FinishRegisters, MarkerAssumption DEF Item
  <2>2. QED
    BY <1>1, <2>1, FinishRegisters DEF StaysDefined
<1>2. CASE UNCHANGED <<documents, registry>>
  BY <1>2 DEF StaysDefined, loaded
<1>3. QED
  BY <1>1, <1>2, OnlyFinishRegisters

LEMMA CollisionsStep ==
  TypeOK /\ OpenOnce /\ FramesKnow /\ StaysDefined /\ CollisionsWarned /\ [Next]_vars
    => CollisionsWarned'
<1> SUFFICES ASSUME TypeOK, OpenOnce, FramesKnow, StaysDefined, CollisionsWarned, [Next]_vars
             PROVE  CollisionsWarned'
  OBVIOUS
<1> DEFINE Warned == \E i \in DOMAIN diagnostics : diagnostics[i] = "EM0601"
<1>1. Warned => Warned'
  BY DiagnosticsGrow DEF Grows
<1>2. CASE FinishDocument
  <2>1. ASSUME NEW q \in loaded, Top.path # Entry,
               Top.text.defines \cap documents[q].defines # {}
        PROVE  Warned'
    <3>1. Len(stack) \in DOMAIN stack /\ ~Top.entry
      <4>1. Len(stack) \in DOMAIN stack
        BY <1>2, TopType DEF FinishDocument, TypeOK
      <4>2. QED
        BY <2>1, <4>1 DEF FramesKnow, Top
    <3>2. Collisions = {n \in Top.text.defines : registry[n] # None}
      BY <3>1 DEF Collisions
    <3>3. Collisions # {} /\ Collisions \subseteq Name
      BY <1>2, <2>1, <3>2, FinishRegisters DEF StaysDefined
    <3>4. Cardinality(Collisions) \in Nat /\ Cardinality(Collisions) # 0
      BY <3>3, NameAssumption, FS_Subset, FS_CardinalityType, FS_EmptySet
    <3>5. ASSUME NEW c \in Nat \ {0}, diagnostics' = diagnostics \o Copies("EM0601", c)
          PROVE  Warned'
      <4>1. Copies("EM0601", c) \in Seq(Code) /\ Len(Copies("EM0601", c)) = c
            /\ Copies("EM0601", c)[1] = "EM0601"
        BY DEF Copies, Code
      <4>2. diagnostics \in Seq(Code)
        BY DEF TypeOK
      <4>3. Len(diagnostics) + 1 \in DOMAIN diagnostics'
            /\ diagnostics'[Len(diagnostics) + 1] = "EM0601"
        BY <3>5, <4>1, <4>2
      <4>4. QED
        BY <4>3
    <3>6. QED
      BY <1>2, <3>4, <3>5 DEF FinishDocument
  <2>2. QED
    BY <1>1, <1>2, <2>1, FinishRegisters DEF CollisionsWarned
<1>3. CASE UNCHANGED <<documents, registry>>
  BY <1>1, <1>3 DEF CollisionsWarned, loaded
<1>4. QED
  BY <1>2, <1>3, OnlyFinishRegisters

LEMMA FramesAlwaysKnow == Spec => [](FramesKnow /\ StaysDefined)
<1>1. Init => FramesKnow /\ StaysDefined
  BY DEF Init, FramesKnow, StaysDefined, loaded
<1>2. QED
  BY <1>1, FramesKnowStep, StaysDefinedStep, TypeCorrect, NeverReenters, PTL DEF Spec

\* Two merged documents other than the entry that define one name leave a
\* warning, however full the list is (registry.cpp:9-20).
THEOREM CollisionsAreWarned == Spec => []CollisionsWarned
<1>1. Init => CollisionsWarned
  BY DEF Init, CollisionsWarned, loaded
<1>2. QED
  BY <1>1, CollisionsStep, FramesAlwaysKnow, TypeCorrect, NeverReenters, PTL DEF Spec

\* The entry call is the last of compile()'s loads, and the only one of its kind.
LEMMA EntryCallLast ==
  ASSUME TypeOK
  PROVE  /\ Roots \in Seq(Path \cup {Unresolved, EntryCall})
         /\ Len(Roots) \in Nat \ {0} /\ DOMAIN Roots = 1..Len(Roots)
         /\ Roots[Len(Roots)] = EntryCall
         /\ \A i \in 1..(Len(Roots) - 1) : Roots[i] # EntryCall
<1> DEFINE shell == IF request.shell = None THEN <<>> ELSE <<request.shell>>
           before == request.imports \o shell
<1>1. /\ request.imports \in Seq(Path \cup {Unresolved})
      /\ request.shell \in Path \cup {Unresolved, None}
  BY DEF TypeOK, RequestType
<1>2. shell \in Seq(Path \cup {Unresolved})
  <2>1. CASE request.shell = None
    BY <2>1
  <2>2. CASE request.shell # None
    BY <1>1, <2>2
  <2>3. QED
    BY <2>1, <2>2
<1> HIDE DEF shell
<1>3. before \in Seq(Path \cup {Unresolved})
  BY <1>1, <1>2
<1>4. Roots = before \o <<EntryCall>>
  BY DEF Roots, shell
<1> HIDE DEF before
<1>5. /\ Len(Roots) = Len(before) + 1 /\ Len(before) \in Nat
      /\ \A i \in 1..Len(before) : Roots[i] = before[i] /\ before[i] \in Path \cup {Unresolved}
      /\ Roots[Len(before) + 1] = EntryCall
  BY <1>3, <1>4
<1>6. QED
  BY <1>5, RootsType, MarkerAssumption DEF Item

\* Until the entry call only what the imports and the shell reach is met; after
\* it, the entry's frame is at the bottom until the entry is merged.
EntryWins ==
  Entry \notin ImportedFirst =>
    /\ root <= Len(Roots) =>
         Open \cup loaded \subseteq ImportedFirst /\ \A k \in DOMAIN stack : ~stack[k].entry
    /\ root = Len(Roots) + 1 =>
         /\ ~AtRoot => Entry \notin loaded /\ stack[1].entry
         /\ AtRoot /\ Entry \in loaded =>
              /\ documents[Entry] = request.source
              /\ \A n \in request.source.defines : registry[n] = Entry

LEMMA ImportsReached ==
  ASSUME TypeOK
  PROVE  /\ \A i \in 1..(Len(Roots) - 1) : PathOf(Roots[i]) \in Path => PathOf(Roots[i]) \in ImportedFirst
         /\ \A q \in ImportedFirst : \A i \in DOMAIN disk[q].includes :
              disk[q].includes[i] \in Path => disk[q].includes[i] \in ImportedFirst
         /\ ImportedFirst \subseteq Path
<1> DEFINE S == {PathOf(Roots[i]) : i \in 1..(Len(Roots) - 1)} \cap Path
<1>1. ImportedFirst = ReachableFrom(S)
  BY DEF ImportedFirst
<1>2. \A i \in 1..(Len(Roots) - 1) : PathOf(Roots[i]) \in Path => PathOf(Roots[i]) \in S
  OBVIOUS
<1>3. S \subseteq Path
  OBVIOUS
<1> HIDE DEF S
<1>4. S \subseteq ReachableFrom(S) /\ ReachableFrom(S) \subseteq Path
  BY <1>3 DEF ReachableFrom
<1>5. ASSUME NEW q \in ReachableFrom(S), NEW i \in DOMAIN disk[q].includes,
             disk[q].includes[i] \in Path
      PROVE  disk[q].includes[i] \in ReachableFrom(S)
  BY <1>5 DEF ReachableFrom
<1>6. QED
  BY <1>1, <1>2, <1>4, <1>5

\* The files and the request do not change, nor does what they say.
LEMMA ProjectFixed ==
  ASSUME [Next]_vars
  PROVE  UNCHANGED <<disk, request, Roots, ImportedFirst>>
<1>1. UNCHANGED <<disk, request>>
  BY StepKinds DEF Moves, Opens, LoadDocument, Parse, FinishDocument, Rests, fixed
<1>2. Roots' = Roots
  BY <1>1, RootsFixed
<1>3. ImportedFirst' = ImportedFirst
  BY <1>1, <1>2 DEF ImportedFirst, ReachableFrom, PathOf
<1>4. QED
  BY <1>1, <1>2, <1>3

LEMMA EntryWinsStep ==
  TypeOK /\ OpenOnce /\ StackShape /\ FramesKnow /\ EntryWins /\ [Next]_vars => EntryWins'
<1> SUFFICES ASSUME TypeOK, OpenOnce, StackShape, FramesKnow, EntryWins, [Next]_vars,
                    Entry \notin ImportedFirst
             PROVE  EntryWins'
  BY ProjectFixed DEF EntryWins
<1>1. /\ stack \in Seq(Frame) /\ Len(stack) \in Nat /\ DOMAIN stack = 1..Len(stack)
      /\ root \in Nat \ {0} /\ Len(Roots) \in Nat \ {0} /\ DOMAIN Roots = 1..Len(Roots)
      /\ Roots' = Roots /\ ImportedFirst' = ImportedFirst /\ root <= Len(Roots) + 1
      /\ AtRoot <=> Len(stack) = 0
  BY ProjectFixed, EntryCallLast DEF TypeOK, StackShape, AtRoot
<1>2. CASE Moves /\ UNCHANGED <<documents, registry>>
  <2>1. /\ Open' = Open /\ loaded' = loaded /\ DOMAIN stack' = DOMAIN stack
        /\ Len(stack') = Len(stack)
        /\ \A k \in DOMAIN stack : stack'[k].entry = stack[k].entry
        /\ UNCHANGED <<documents, registry, request>>
    BY <1>2, MovesStack, AdvancedType, AdvancedEntry DEF Moves
  <2>2. AtRoot' = AtRoot
    BY <1>1, <1>2, <2>1, AdvancedType DEF AtRoot, Moves
  <2>3. CASE AtRoot
    <3>1. root' = root + 1 /\ root <= Len(Roots)
      BY <1>2, <2>3 DEF Moves, AdvanceRoot, HasItem
    <3>2. QED
      BY <1>1, <2>1, <2>2, <2>3, <3>1 DEF EntryWins
  <2>4. CASE ~AtRoot
    <3>1. root' = root /\ 1 \in DOMAIN stack
      BY <1>1, <1>2, <2>4 DEF Moves, AdvanceRoot
    <3>2. QED
      BY <1>1, <2>1, <2>2, <2>4, <3>1 DEF EntryWins
  <2>5. QED
    BY <2>3, <2>4
<1>3. ASSUME NEW item \in Path \cup {EntryCall}, LoadDocument(item)
      PROVE  EntryWins'
  <2>1. /\ Len(stack') = Len(stack) + 1 /\ DOMAIN stack' = 1..(Len(stack) + 1)
        /\ stack'[Len(stack) + 1].path = PathOf(item)
        /\ stack'[Len(stack) + 1].entry = (item = EntryCall)
        /\ \A k \in DOMAIN stack : stack'[k].entry = stack[k].entry /\ stack'[k].path = stack[k].path
        /\ UNCHANGED documents /\ loaded' = loaded
        /\ HasItem /\ Current = item /\ AdvanceRoot
    BY <1>3, OpensStack, AdvancedType, AdvancedEntry
       DEF NewFrame, LoadDocument, Parse, Admitted, IsNew, Calls, loaded
  <2>2. Open' = Open \cup {PathOf(item)}
    <3>1. \A k \in DOMAIN stack' : k \in DOMAIN stack \/ k = Len(stack) + 1
      BY <1>1, <2>1
    <3>2. Len(stack) + 1 \in DOMAIN stack' /\ \A k \in DOMAIN stack : k \in DOMAIN stack'
      BY <1>1, <2>1
    <3>3. QED
      BY <2>1, <3>1, <3>2 DEF Open
  <2>3. ~AtRoot'
    BY <1>1, <2>1 DEF AtRoot
  <2>4. CASE AtRoot /\ root < Len(Roots)
    <3>1. item = Roots[root] /\ root' = root + 1 /\ item # EntryCall
      BY <1>1, <2>1, <2>4, EntryCallLast DEF Current, AdvanceRoot
    <3>2. PathOf(item) \in ImportedFirst
      BY <1>1, <2>4, <3>1, ImportsReached, CallType
    <3>3. \A k \in DOMAIN stack' : k = Len(stack) + 1
      BY <1>1, <2>1, <2>4
    <3>4. root' <= Len(Roots) /\ root' # Len(Roots) + 1 /\ root <= Len(Roots)
      BY <1>1, <2>4, <3>1
    <3>5. Open' \cup loaded' \subseteq ImportedFirst
      BY <2>1, <2>2, <3>2, <3>4 DEF EntryWins
    <3>6. \A k \in DOMAIN stack' : ~stack'[k].entry
      BY <2>1, <3>1, <3>3
    <3>7. QED
      BY <1>1, <3>4, <3>5, <3>6 DEF EntryWins
  <2>5. CASE AtRoot /\ root = Len(Roots)
    <3>1. item = EntryCall /\ root' = Len(Roots) + 1 /\ Len(stack) + 1 = 1
      BY <1>1, <2>1, <2>5, EntryCallLast DEF Current, AdvanceRoot
    <3>2. Entry \notin loaded
      <4>1. root <= Len(Roots)
        BY <1>1, <2>5
      <4>2. QED
        BY <4>1 DEF EntryWins
    <3>3. stack'[1].entry /\ ~(root' <= Len(Roots))
      <4>1. stack'[1].entry
        BY <2>1, <3>1
      <4>2. \A n \in Nat : ~(n + 1 <= n)
        OBVIOUS
      <4>3. QED
        BY <1>1, <3>1, <4>1, <4>2
    <3>4. QED
      BY <1>1, <2>1, <2>3, <3>2, <3>3 DEF EntryWins
  <2>6. CASE ~AtRoot /\ root <= Len(Roots)
    <3>1. root' = root /\ item # EntryCall /\ item \in Path
      BY <2>1, <2>6, CurrentType DEF AdvanceRoot
    <3>2. Len(stack) \in DOMAIN stack
      BY <1>1, <2>6
    <3>3. Top.path \in ImportedFirst /\ Top.text = disk[Top.path]
      BY <1>1, <2>6, <3>2 DEF EntryWins, FramesKnow, Top, Open
    <3>4. PathOf(item) = item /\ item = Top.text.includes[Top.next]
          /\ Top.next \in DOMAIN Top.text.includes
      BY <2>1, <2>6, <3>1, CurrentType DEF PathOf, Current
    <3>5. PathOf(item) \in ImportedFirst
      BY <3>1, <3>3, <3>4, ImportsReached
    <3>6. \A k \in DOMAIN stack' : ~stack'[k].entry
      <4>1. \A k \in DOMAIN stack' : k \in DOMAIN stack \/ k = Len(stack) + 1
        BY <1>1, <2>1
      <4>2. QED
        BY <2>1, <2>6, <3>1, <4>1 DEF EntryWins
    <3>7. QED
      BY <1>1, <2>1, <2>2, <2>6, <3>1, <3>5, <3>6 DEF EntryWins
  <2>7. CASE ~AtRoot /\ root = Len(Roots) + 1
    <3>1. root' = root /\ 1 \in DOMAIN stack
      BY <1>1, <2>1, <2>7 DEF AdvanceRoot
    <3>2. QED
      BY <1>1, <2>1, <2>3, <2>7, <3>1 DEF EntryWins
  <2>8. QED
    <3>1. AtRoot => root <= Len(Roots)
      BY <2>1 DEF HasItem
    <3>2. root \in Nat /\ Len(Roots) \in Nat /\ root <= Len(Roots) + 1
      BY <1>1
    <3>3. \A m, n \in Nat : m <= n + 1 => m < n \/ m = n \/ m = n + 1
      OBVIOUS
    <3>4. root < Len(Roots) \/ root = Len(Roots) \/ root = Len(Roots) + 1
      BY <3>2, <3>3
    <3>5. \A m, n \in Nat : m < n \/ m = n => m <= n
      OBVIOUS
    <3>6. root < Len(Roots) \/ root = Len(Roots) => root <= Len(Roots)
      BY <3>2, <3>5
    <3>7. QED
      BY <2>4, <2>5, <2>6, <2>7, <3>1, <3>4, <3>6
<1>4. CASE FinishDocument
  <2>1. /\ Len(stack) \in Nat \ {0} /\ Len(stack') = Len(stack) - 1
        /\ DOMAIN stack' = 1..(Len(stack) - 1)
        /\ \A k \in DOMAIN stack' : k \in DOMAIN stack /\ stack'[k] = stack[k]
        /\ loaded' = loaded \cup {Top.path} /\ Top.path \in Open
        /\ UNCHANGED <<root, request>> /\ ~AtRoot
    <3>1. Len(stack) \in DOMAIN stack
      BY <1>1, <1>4 DEF FinishDocument
    <3>2. QED
      BY <1>4, <3>1, FinishStack, FinishLoads DEF FinishDocument, fixed, Open, Top
  <2>2. CASE root <= Len(Roots)
    <3>1. Open' \subseteq Open
      BY <2>1 DEF Open
    <3>2. \A k \in DOMAIN stack' : ~stack'[k].entry
      BY <2>1, <2>2 DEF EntryWins
    <3>3. Open' \cup loaded' \subseteq ImportedFirst
      BY <2>1, <2>2, <3>1 DEF EntryWins
    <3>4. QED
      BY <1>1, <2>1, <2>2, <3>2, <3>3 DEF EntryWins
  <2>3. CASE root = Len(Roots) + 1
    <3>1. /\ Entry \notin loaded /\ stack[1].entry /\ 1 \in DOMAIN stack
          /\ stack[1].path = Entry /\ stack[1].text = request.source
      BY <1>1, <2>1, <2>3 DEF EntryWins, FramesKnow
    <3>2. CASE Len(stack) = 1
      <4>1. Top = stack[1] /\ AtRoot'
        BY <1>1, <1>4, <2>1, <3>2 DEF Top, AtRoot, FinishDocument
      <4>2. documents'[Entry] = request.source
        BY <1>4, <3>1, <4>1, FinishRegisters
      <4>3. \A n \in request.source.defines : registry'[n] = Entry
        BY <1>4, <3>1, <4>1, FinishRegisters
      <4>4. QED
        BY <1>1, <2>1, <2>3, <4>1, <4>2, <4>3 DEF EntryWins
    <3>3. CASE Len(stack) # 1
      <4>1. 1 \in DOMAIN stack' /\ Len(stack) \in DOMAIN stack
        BY <1>1, <2>1, <3>3
      <4>2. Top.path # Entry
        BY <3>1, <3>3, <4>1 DEF OpenOnce, Top
      <4>3. ~AtRoot' /\ stack'[1].entry /\ Entry \notin loaded'
        BY <2>1, <3>1, <4>1, <4>2 DEF AtRoot
      <4>4. QED
        BY <1>1, <2>1, <2>3, <4>3 DEF EntryWins
    <3>4. QED
      BY <3>2, <3>3
  <2>4. QED
    BY <1>1, <2>2, <2>3
<1>5. CASE Rests /\ UNCHANGED <<documents, registry>>
  BY <1>1, <1>5 DEF Rests, EntryWins, Open, loaded, AtRoot
<1>6. QED
  BY <1>2, <1>3, <1>4, <1>5, StepKinds, OnlyFinishRegisters DEF Opens

\* Before the entry call every text is the disk's; if the entry's path is among
\* what the imports and the shell reach, it is loaded by then, and stays.
EntryFromDisk ==
  /\ root <= Len(Roots) =>
       /\ \A k \in DOMAIN stack : ~stack[k].entry
       /\ \A p \in loaded : documents[p] = disk[p]
  /\ Clean /\ Entry \in ImportedFirst /\ root = Len(Roots) + 1 =>
       Entry \in loaded /\ documents[Entry] = disk[Entry]

\* When only the entry call is left, all that the imports and the shell reach is
\* loaded from the disk.
LEMMA ImportedAreLoaded ==
  ASSUME TypeOK, PassedAreLoaded, EntryFromDisk, Clean, AtRoot, root = Len(Roots)
  PROVE  ImportedFirst \subseteq loaded
<1> DEFINE S == {PathOf(Roots[i]) : i \in 1..(Len(Roots) - 1)} \cap Path
<1>1. Len(Roots) \in Nat \ {0} /\ root <= Len(Roots)
  BY EntryCallLast
<1>2. S \subseteq loaded /\ loaded \in SUBSET Path
  BY <1>1 DEF PassedAreLoaded, loaded
<1>3. \A q \in loaded : \A i \in DOMAIN disk[q].includes : disk[q].includes[i] \in loaded
  BY <1>1 DEF EntryFromDisk, PassedAreLoaded
<1>4. ImportedFirst = ReachableFrom(S)
  BY DEF ImportedFirst
<1> HIDE DEF S
<1>5. QED
  BY <1>2, <1>3, <1>4 DEF ReachableFrom

LEMMA EntryFromDiskStep ==
  TypeOK /\ OpenOnce /\ StackShape /\ FramesKnow /\ PassedAreLoaded /\ EntryFromDisk
    /\ [Next]_vars => EntryFromDisk'
<1> SUFFICES ASSUME TypeOK, OpenOnce, StackShape, FramesKnow, PassedAreLoaded, EntryFromDisk,
                    [Next]_vars
             PROVE  EntryFromDisk'
  OBVIOUS
<1>1. /\ root \in Nat \ {0} /\ Len(Roots) \in Nat \ {0} /\ root <= Len(Roots) + 1
      /\ Roots' = Roots /\ ImportedFirst' = ImportedFirst /\ disk' = disk
      /\ Clean' => Clean
  BY ProjectFixed, EntryCallLast, CleanBefore DEF TypeOK, StackShape
<1>2. CASE HasItem /\ AdvanceRoot /\ UNCHANGED documents
  <2>1. loaded' = loaded
    BY <1>2 DEF loaded
  <2>2. \/ AtRoot /\ root <= Len(Roots) /\ root' = root + 1
        \/ ~AtRoot /\ root' = root
    BY <1>2 DEF AdvanceRoot, HasItem
  <2>3. ASSUME root' <= Len(Roots), NEW k \in DOMAIN stack'
        PROVE  ~stack'[k].entry
    <3>1. root <= Len(Roots) /\ (AtRoot => root < Len(Roots))
      BY <1>1, <2>2, <2>3
    <3>2. \A j \in DOMAIN stack : ~stack[j].entry
      BY <3>1 DEF EntryFromDisk
    <3>3. CASE Moves
      BY <3>2, <3>3, AdvancedType, AdvancedEntry DEF Moves
    <3>4. ASSUME NEW item \in Path \cup {EntryCall}, LoadDocument(item)
          PROVE  ~stack'[k].entry
      <4>1. Current = item
        BY <3>4 DEF LoadDocument, Parse, Admitted, IsNew, Calls
      <4>2. item # EntryCall
        <5>1. CASE AtRoot
          <6>1. root \in 1..(Len(Roots) - 1)
            BY <1>1, <3>1, <5>1
          <6>2. QED
            BY <4>1, <5>1, <6>1, EntryCallLast DEF Current
        <5>2. CASE ~AtRoot
          BY <1>2, <4>1, <5>2, CurrentType
        <5>3. QED
          BY <5>1, <5>2
      <4>3. k \in DOMAIN stack \/ k = Len(stack) + 1
        BY <3>4, OpensStack
      <4>4. CASE k \in DOMAIN stack
        <5>1. stack'[k] = Advanced[k]
          BY <3>4, <4>4, OpensStack
        <5>2. QED
          BY <3>2, <4>4, <5>1, AdvancedEntry
      <4>5. CASE k = Len(stack) + 1
        <5>1. stack'[k] = NewFrame(item)
          BY <3>4, <4>5, OpensStack
        <5>2. NewFrame(item).entry = (item = EntryCall)
          BY Zenon DEF NewFrame
        <5>3. QED
          BY Zenon, <4>2, <5>1, <5>2
      <4>6. QED
        BY <4>3, <4>4, <4>5
    <3>5. CASE FinishDocument
      BY <1>2, <3>5 DEF FinishDocument
    <3>6. CASE Rests
      BY <3>2, <3>6 DEF Rests
    <3>7. QED
      BY <3>3, <3>4, <3>5, <3>6, StepKinds DEF Opens
  <2>4. ASSUME root' <= Len(Roots) PROVE \A p \in loaded' : documents'[p] = disk[p]
    <3>1. root <= Len(Roots)
      BY <1>1, <2>2, <2>4
    <3>2. QED
      BY <1>2, <2>1, <3>1 DEF EntryFromDisk
  <2>5. ASSUME Clean', Entry \in ImportedFirst, root' = Len(Roots) + 1
        PROVE  Entry \in loaded' /\ documents'[Entry] = disk[Entry]
    <3>1. CASE ~AtRoot
      BY <1>1, <1>2, <2>1, <2>2, <2>5, <3>1 DEF EntryFromDisk
    <3>2. CASE AtRoot
      <4>1. root = Len(Roots) /\ root <= Len(Roots)
        BY <1>1, <2>2, <2>5, <3>2
      <4>2. Entry \in loaded
        BY <1>1, <2>5, <3>2, <4>1, ImportedAreLoaded
      <4>3. QED
        BY <1>2, <2>1, <4>1, <4>2 DEF EntryFromDisk
    <3>3. QED
      BY <3>1, <3>2
  <2>6. QED
    BY <1>1, <2>3, <2>4, <2>5 DEF EntryFromDisk
<1>3. CASE FinishDocument
  <2>1. /\ UNCHANGED root
        /\ loaded' = loaded \cup {Top.path} /\ documents'[Top.path] = Top.text
        /\ \A p \in loaded : documents'[p] = documents[p]
        /\ \A k \in DOMAIN stack' : k \in DOMAIN stack /\ stack'[k] = stack[k]
    BY <1>3, FinishRegisters, FinishStack DEF FinishDocument
  <2>2. Len(stack) \in DOMAIN stack
    BY <1>3, FinishStack DEF TypeOK
  <2>3. root <= Len(Roots) => Top.text = disk[Top.path]
    BY <2>2 DEF EntryFromDisk, FramesKnow, Top
  <2>4. QED
    BY <1>1, <2>1, <2>3 DEF EntryFromDisk
<1>4. CASE Rests
  BY <1>1, <1>4 DEF Rests, EntryFromDisk, loaded
<1>5. ASSUME Moves \/ Opens
      PROVE  HasItem /\ AdvanceRoot /\ UNCHANGED documents
  BY <1>5 DEF Moves, Opens, LoadDocument, Parse, Admitted, IsNew, Calls
<1>6. QED
  BY <1>2, <1>3, <1>4, <1>5, StepKinds

\* The entry's text is the request's and its definitions are the ones in force,
\* except when an import or the shell brings the entry's own path in first: then
\* it is the disk's (loader.cpp:96).
THEOREM EntryIsInForce == Spec => []EntryOverrides
<1>1. Init => EntryWins /\ EntryFromDisk
  <2> SUFFICES ASSUME Init PROVE EntryWins /\ EntryFromDisk
    OBVIOUS
  <2>1. stack = <<>> /\ DOMAIN stack = {} /\ loaded = {} /\ root = 1
    BY DEF Init, loaded
  <2>2. Open = {}
    BY <2>1 DEF Open
  <2>3. Len(Roots) \in Nat \ {0} /\ root # Len(Roots) + 1
    BY <2>1, EntryCallLast, InitTyped
  <2>4. QED
    BY <2>1, <2>2, <2>3 DEF EntryWins, EntryFromDisk, AtRoot
<1>2. TypeOK /\ StackShape /\ EntryWins /\ EntryFromDisk /\ CleanMeansComplete
        => EntryOverrides
  <2> SUFFICES ASSUME TypeOK, StackShape, EntryWins, EntryFromDisk, CleanMeansComplete,
                      Completed, Clean
               PROVE  IF Entry \in ImportedFirst THEN documents[Entry] = disk[Entry]
                      ELSE /\ documents[Entry] = request.source
                           /\ \A n \in request.source.defines : registry[n] = Entry
    BY DEF EntryOverrides
  <2>1. AtRoot /\ root = Len(Roots) + 1
    BY EntryCallLast DEF Completed, HasItem, StackShape, TypeOK
  <2>2. Entry \in loaded
    BY EntryCallLast DEF CleanMeansComplete, PathOf
  <2>3. QED
    BY <2>1, <2>2 DEF EntryWins, EntryFromDisk
<1>3. QED
  BY <1>1, <1>2, EntryWinsStep, EntryFromDiskStep, PassedAlways, FramesAlwaysKnow, StackShaped,
     NothingSkipped, TypeCorrect, NeverReenters, PTL DEF Spec

\* Once the flag is set no further text is read, at whatever depth the walk is
\* (loader.cpp:80).
THEOREM CancelEndsReading == Spec => StopsReading
<1>1. TypeOK /\ [Next]_vars => (cancelled => UNCHANGED <<sources, astNodes>>)
  BY SourcesStep DEF Parse, Admitted, IsNew
<1>2. QED
  BY <1>1, TypeCorrect, PTL DEF Spec, StopsReading
=============================================================================
