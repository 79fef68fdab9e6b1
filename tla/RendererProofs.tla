--------------------------- MODULE RendererProofs ---------------------------
(***************************************************************************)
(* Proofs about Renderer, for every document, every set of components and  *)
(* compile data, and limits of every size.                                 *)
(***************************************************************************)
EXTENDS Renderer, SetInduction, FiniteSetTheorems, TLAPS

(***************************************************************************)
(* Types of what the steps are made of.                                    *)
(***************************************************************************)
LEMMA NodeFields ==
  ASSUME NEW node \in NodeType
  PROVE  /\ node.kind \in {"expression", "if", "for"} => node.of \in Expression
         /\ node.kind = "if" => node.then \in Block /\ node.else \in Block
         /\ node.kind = "for" => node.variable \in Name /\ node.body \in Block
         /\ node.kind \in {"reference", "fill"} => node.slot \in Slot
         /\ node.kind = "fill" => node.body \in Block
         /\ node.kind = "call" =>
              /\ node.component \in Component /\ node.arguments \in Seq(Argument)
              /\ node.children \in Block /\ node.selfClosing \in BOOLEAN
         /\ node.kind \in {"text", "expression", "if", "for", "reference", "fill", "call"}
BY DEF NodeType

LEMMA ProgramParts ==
  ASSUME TypeOK
  PROVE  /\ \A b \in Block : Body(b) \in Seq(NodeType)
         /\ \A c \in Component : program.components[c] \in Definition \cup {None}
         /\ program.data \in Bindings /\ program.entry \in Block /\ program.shell \in Block \cup {None}
         /\ warnings \in Nat
<1>1. program \in ProgramType /\ warnings \in Nat
  BY LimitAssumption DEF TypeOK
<1>2. /\ program.blocks \in [Block -> Seq(NodeType)]
      /\ program.components \in [Component -> Definition \cup {None}]
      /\ program.data \in Bindings /\ program.entry \in Block /\ program.shell \in Block \cup {None}
  BY <1>1 DEF ProgramType
<1>3. QED
  BY <1>1, <1>2 DEF Body

LEMMA FrameFields ==
  ASSUME NEW frame \in FrameType
  PROVE  /\ frame.kind \in {"root", "branch", "loop", "slot", "call"}
         /\ frame.nodes \in Seq(NodeType) /\ frame.next \in Nat \ {0} /\ frame.env \in Scope
         /\ frame.slots \in [Slot -> Content \cup {None}] /\ frame.depth \in Nat
         /\ frame.start \in Nat /\ frame.style \in Text \cup {None}
         /\ frame.variable \in Name \cup {None} /\ frame.items \in Seq(Item)
         /\ Len(frame.nodes) \in Nat /\ Len(frame.items) \in Nat
BY DEF FrameType

LEMMA TopParts ==
  ASSUME TypeOK, stack # <<>>
  PROVE  /\ Len(stack) \in Nat /\ Len(stack) >= 1 /\ DOMAIN stack = 1..Len(stack)
         /\ Len(stack) \in DOMAIN stack /\ Top \in FrameType
         /\ \A i \in DOMAIN stack : stack[i] \in FrameType
BY DEF TypeOK, Top

LEMMA NodeTyped == ASSUME TypeOK, HasNode PROVE Node \in NodeType /\ Top.next \in 1..Len(Top.nodes)
<1>1. Top \in FrameType /\ Top.next <= Len(Top.nodes)
  BY TopParts DEF HasNode
<1>2. Top.nodes \in Seq(NodeType) /\ Top.next \in Nat \ {0}
  BY <1>1, FrameFields
<1>3. QED
  BY <1>1, <1>2 DEF Node

LEMMA IssueTyped ==
  ASSUME TypeOK, NEW count \in Nat, NEW n \in Nat
  PROVE  IssueEach(count, n) \in Nat /\ Issue(count) \in Nat
<1>1. warnings \in Nat /\ MaxDiagnostics \in Nat
  BY ProgramParts, LimitAssumption
<1>2. QED
  BY <1>1 DEF IssueEach, Issue

LEMMA FailedTyped ==
  ASSUME TypeOK, NEW e, NEW count \in Nat PROVE Failed(e, count) \in Nat
BY IssueTyped DEF Failed

LEMMA LookupTyped ==
  ASSUME TypeOK, NEW name \in Name, NEW env \in Scope PROVE Lookup(name, env) \in Value \cup {Unset}
BY ProgramParts DEF Lookup, Scope, Bindings

LEMMA EvaluateTyped ==
  ASSUME TypeOK, NEW e \in Expression, NEW env \in Scope PROVE Evaluate(e, env) \in Value \cup {Unset}
<1>1. CASE e \in Name
  BY <1>1, LookupTyped DEF Evaluate
<1>2. CASE e \notin Name
  BY <1>2 DEF Evaluate, Expression
<1>3. QED
  BY <1>1, <1>2

LEMMA BoundTyped ==
  ASSUME NEW env \in Scope, NEW name, NEW item \in Item PROVE Bound(env, name, item) \in Scope
<1> DEFINE locals == [n \in Name |-> IF item.key # Unset /\ n = KeyName[name] THEN item.key
                                     ELSE IF n = name THEN item.value ELSE env.locals[n]]
<1>1. env.locals \in Bindings /\ env.props \in Bindings
      /\ item.value \in Value /\ item.key \in Value \cup {Unset}
  BY DEF Scope, Item
<1>2. locals \in Bindings
  BY <1>1 DEF Bindings
<1>3. Bound(env, name, item) = [env EXCEPT !.locals = locals]
  BY DEF Bound
<1> HIDE DEF locals
<1>4. QED
  BY <1>1, <1>2, <1>3 DEF Scope

LEMMA FrameTyped ==
  ASSUME NEW kind \in {"root", "branch", "loop", "slot", "call"}, NEW nodes \in Seq(NodeType),
         NEW env \in Scope, NEW slots \in [Slot -> Content \cup {None}], NEW depth \in Nat,
         NEW start \in Nat
  PROVE  LET frame == FrameFrom(start, kind, nodes, env, slots, depth)
         IN /\ frame \in FrameType /\ frame.kind = kind /\ frame.start = start /\ frame.depth = depth
            /\ frame.items = <<>> /\ frame.style = None
BY DEF FrameFrom, FrameType

LEMMA RootTyped ==
  ASSUME program \in ProgramType, NEW b \in Block
  PROVE  /\ Root(b) \in FrameType /\ Root(b).kind = "root" /\ Root(b).start = 0
         /\ Root(b).depth = 0 /\ Root(b).items = <<>>
<1>1. Nothing \in Bindings /\ Empty \in [Slot -> Content \cup {None}]
  BY DEF Nothing, Bindings, Empty
<1>2. [locals |-> Nothing, props |-> Nothing] \in Scope
  BY <1>1 DEF Scope
<1>3. Body(b) \in Seq(NodeType)
  BY DEF ProgramType, Body
<1>4. QED
  BY <1>1, <1>2, <1>3, FrameTyped DEF Root

-----------------------------------------------------------------------------
(***************************************************************************)
(* A call: its props, its style and the content of its slots.              *)
(***************************************************************************)
CallType == [env: Scope, supplied: SUBSET (Name \cup {Style}), style: Text \cup {None}, errors: Nat]

LEMMA GivenTyped ==
  ASSUME NEW call \in CallType, NEW name \in Name, NEW value \in Value
  PROVE  [call EXCEPT !.env.props[name] = value] \in CallType
<1>1. call.env \in Scope /\ call.env.props \in Bindings
  BY DEF CallType, Scope
<1>2. [call.env.props EXCEPT ![name] = value] \in Bindings
  BY <1>1 DEF Bindings
<1>3. [call.env EXCEPT !.props = [call.env.props EXCEPT ![name] = value]] \in Scope
  BY <1>1, <1>2 DEF Scope
<1>4. [call EXCEPT !.env.props[name] = value]
        = [call EXCEPT !.env = [call.env EXCEPT !.props = [call.env.props EXCEPT ![name] = value]]]
  BY <1>1 DEF CallType, Scope
<1>5. QED
  BY <1>3, <1>4 DEF CallType

LEMMA CallErrorTyped ==
  ASSUME TypeOK, NEW call \in CallType, NEW e
  PROVE  /\ [call EXCEPT !.errors = @ + 1] \in CallType
         /\ [call EXCEPT !.errors = Issue(@)] \in CallType
         /\ [call EXCEPT !.errors = Failed(e, @)] \in CallType
<1>1. call.errors \in Nat
  BY DEF CallType
<1>2. Issue(call.errors) \in Nat /\ Failed(e, call.errors) \in Nat
  BY <1>1, IssueTyped, FailedTyped
<1>3. QED
  BY <1>1, <1>2 DEF CallType

LEMMA SupplyTyped ==
  ASSUME TypeOK, stack # <<>>, NEW definition \in Definition, NEW call \in CallType,
         NEW argument \in Argument
  PROVE  Supply(definition, call, argument) \in CallType
<1> DEFINE value == Evaluate(argument.of, Top.env)
           declared == {p \in ToSet(definition.props) : p.name = argument.name}
           seen == [call EXCEPT !.supplied = @ \cup {argument.name}]
<1>1. argument.name \in Name \cup {Style} /\ argument.of \in Expression
  BY DEF Argument
<1>2. Top.env \in Scope
  BY TopParts, FrameFields
<1>3. value \in Value \cup {Unset}
  BY <1>1, <1>2, EvaluateTyped
<1>4. seen \in CallType
  BY <1>1 DEF CallType
<1> HIDE DEF value, seen, declared
<1>5. \/ Supply(definition, call, argument) = call
      \/ Supply(definition, call, argument) = [seen EXCEPT !.errors = @ + 1]
      \/ Supply(definition, call, argument) = [seen EXCEPT !.errors = Issue(@)]
      \/ Supply(definition, call, argument) = [seen EXCEPT !.errors = Failed(argument.of, @)]
      \/ value \in Text /\ Supply(definition, call, argument) = [seen EXCEPT !.style = value]
      \/ /\ argument.name # Style /\ value # Unset
         /\ Supply(definition, call, argument) = [seen EXCEPT !.env.props[argument.name] = value]
  BY ZenonT(60) DEF Supply, value, seen, declared
<1>6. value \in Text => [seen EXCEPT !.style = value] \in CallType
  BY <1>4 DEF CallType
<1>7. argument.name # Style /\ value # Unset
        => [seen EXCEPT !.env.props[argument.name] = value] \in CallType
  BY <1>1, <1>3, <1>4, GivenTyped
<1>8. /\ [seen EXCEPT !.errors = @ + 1] \in CallType
      /\ [seen EXCEPT !.errors = Issue(@)] \in CallType
      /\ [seen EXCEPT !.errors = Failed(argument.of, @)] \in CallType
  BY <1>4, CallErrorTyped
<1>9. QED
  BY Zenon, <1>5, <1>6, <1>7, <1>8

LEMMA CompleteTyped ==
  ASSUME TypeOK, NEW call \in CallType, NEW prop \in Prop PROVE Complete(call, prop) \in CallType
<1> DEFINE value == Evaluate(prop.otherwise, call.env)
<1>1. prop.name \in Name /\ prop.otherwise \in Expression \cup {None} /\ call.env \in Scope
  BY DEF Prop, CallType
<1>2. prop.otherwise # None => value \in Value \cup {Unset}
  BY <1>1, EvaluateTyped
<1> HIDE DEF value
<1>3. \/ Complete(call, prop) = call
      \/ Complete(call, prop) = [call EXCEPT !.errors = Issue(@)]
      \/ Complete(call, prop) = [call EXCEPT !.errors = Failed(prop.otherwise, @)]
      \/ /\ prop.otherwise # None /\ value # Unset
         /\ Complete(call, prop) = [call EXCEPT !.env.props[prop.name] = value]
  <2>1. CASE call.env.props[prop.name] # Unset
    BY Zenon, <2>1 DEF Complete
  <2>2. CASE call.env.props[prop.name] = Unset /\ prop.otherwise = None
    BY Zenon, <2>2 DEF Complete
  <2>3. CASE call.env.props[prop.name] = Unset /\ prop.otherwise # None /\ value = Unset
    BY Zenon, <2>3 DEF Complete, value
  <2>4. CASE call.env.props[prop.name] = Unset /\ prop.otherwise # None /\ value # Unset
    BY Zenon, <2>4 DEF Complete, value
  <2>5. QED
    BY <2>1, <2>2, <2>3, <2>4
<1>4. /\ [call EXCEPT !.errors = Failed(prop.otherwise, @)] \in CallType
      /\ [call EXCEPT !.errors = Issue(@)] \in CallType
  BY CallErrorTyped
<1>5. prop.otherwise # None /\ value # Unset => [call EXCEPT !.env.props[prop.name] = value] \in CallType
  BY <1>1, <1>2, GivenTyped
<1>6. QED
  BY Zenon, <1>3, <1>4, <1>5

\* The run of the arguments, and that of the defaults.
LEMMA SuppliedParts ==
  ASSUME TypeOK, stack # <<>>, NEW definition \in Definition, Node.arguments \in Seq(Argument)
  PROVE  \E g :
           /\ \A i \in 0..Len(Node.arguments) : g[i] \in CallType
           /\ g[0] = [env |-> Top.env, supplied |-> {}, style |-> None, errors |-> errors]
           /\ \A i \in 1..Len(Node.arguments) :
                g[i] = Supply(definition, g[i - 1], Node.arguments[i])
           /\ Supplied(definition) = g[Len(Node.arguments)]
<1> DEFINE n == Len(Node.arguments)
           a == [env |-> Top.env, supplied |-> {}, style |-> None, errors |-> errors]
           P(f) == f = [i \in 0..n |-> IF i = 0 THEN a
                                       ELSE Supply(definition, f[i - 1], Node.arguments[i])]
           step == [p \in (1..n) \X CallType |-> Supply(definition, p[2], Node.arguments[p[1]])]
<1>1. n \in Nat /\ \A i \in 1..n : Node.arguments[i] \in Argument
  OBVIOUS
<1>2. a \in CallType
  <2>1. Top.env \in Scope /\ errors \in Nat
    BY TopParts, FrameFields DEF TypeOK
  <2>2. QED
    BY <2>1 DEF CallType
<1>3. step \in [(1..n) \X CallType -> CallType]
  BY <1>1, SupplyTyped
<1>4. \A i \in 1..n, x \in CallType : step[<<i, x>>] = Supply(definition, x, Node.arguments[i])
  OBVIOUS
<1>5. Supplied(definition) = (CHOOSE f : P(f))[n]
  BY Zenon DEF Supplied
<1> HIDE DEF n, a, step
<1>6. PICK f : IsRecursion(f, n, a, step) /\ \A i \in 0..n : f[i] \in CallType
  BY <1>1, <1>2, <1>3, TypedRecursion
<1>7. P(f)
  <2>1. \A i \in 0..n : i # 0 => i \in 1..n /\ f[i - 1] \in CallType
    BY <1>1, <1>6
  <2>2. f = [i \in 0..n |-> IF i = 0 THEN a ELSE step[<<i, f[i - 1]>>]]
    BY <1>6 DEF IsRecursion
  <2>3. QED
    BY <1>4, <2>1, <2>2
<1>8. P(CHOOSE g : P(g))
  BY <1>7, Zenon
<1>9. PICK g : P(g) /\ Supplied(definition) = g[n]
  BY <1>5, <1>8, Zenon
<1> DEFINE S == {i \in Nat : g[i] \in CallType}
<1>10. 0 \in S
  BY <1>1, <1>2, <1>9
<1>11. ASSUME NEW i \in 0..(n - 1), i \in S PROVE i + 1 \in S
  <2>1. i + 1 \in 1..n /\ i + 1 \in 0..n /\ i + 1 # 0 /\ (i + 1) - 1 = i
    BY <1>1
  <2>2. g[i + 1] = Supply(definition, g[i], Node.arguments[i + 1])
    BY <1>9, <2>1
  <2>3. QED
    BY <1>1, <1>11, <2>1, <2>2, SupplyTyped
<1> HIDE DEF S
<1>12. \A i \in 0..n : i \in S
  BY <1>1, <1>10, <1>11, Induction
<1>13. g[0] = a /\ \A i \in 1..n : g[i] = Supply(definition, g[i - 1], Node.arguments[i])
  <2>1. g = [i \in 0..n |-> IF i = 0 THEN a ELSE Supply(definition, g[i - 1], Node.arguments[i])]
    BY <1>9
  <2>2. \A i \in 1..n : i \in 0..n /\ i # 0
    BY <1>1
  <2>3. 0 \in 0..n
    BY <1>1
  <2>4. QED
    BY <2>1, <2>2, <2>3
<1>14. QED
  BY <1>9, <1>12, <1>13 DEF S, n, a

LEMMA SuppliedTyped ==
  ASSUME TypeOK, stack # <<>>, NEW definition \in Definition, Node.arguments \in Seq(Argument)
  PROVE  Supplied(definition) \in CallType
<1>1. Len(Node.arguments) \in 0..Len(Node.arguments)
  OBVIOUS
<1>2. QED
  BY <1>1, SuppliedParts

LEMMA PreparedParts ==
  ASSUME TypeOK, stack # <<>>, NEW definition \in Definition, Node.arguments \in Seq(Argument)
  PROVE  \E g :
           /\ \A i \in 0..Len(definition.props) : g[i] \in CallType
           /\ g[0] = Supplied(definition)
           /\ \A i \in 1..Len(definition.props) : g[i] = Complete(g[i - 1], definition.props[i])
           /\ Prepared(definition) = g[Len(definition.props)]
<1> DEFINE n == Len(definition.props)
           a == Supplied(definition)
           P(f) == f = [i \in 0..n |-> IF i = 0 THEN a ELSE Complete(f[i - 1], definition.props[i])]
           step == [p \in (1..n) \X CallType |-> Complete(p[2], definition.props[p[1]])]
<1>1. definition.props \in Seq(Prop)
  BY DEF Definition
<1>2. n \in Nat /\ \A i \in 1..n : definition.props[i] \in Prop
  BY <1>1
<1>3. a \in CallType
  BY SuppliedTyped
<1>4. step \in [(1..n) \X CallType -> CallType]
  BY <1>2, CompleteTyped
<1>5. \A i \in 1..n, x \in CallType : step[<<i, x>>] = Complete(x, definition.props[i])
  OBVIOUS
<1>6. Prepared(definition) = (CHOOSE f : P(f))[n]
  BY Zenon DEF Prepared
<1> HIDE DEF n, a, step
<1>7. PICK f : IsRecursion(f, n, a, step) /\ \A i \in 0..n : f[i] \in CallType
  BY <1>2, <1>3, <1>4, TypedRecursion
<1>8. P(f)
  <2>1. \A i \in 0..n : i # 0 => i \in 1..n /\ f[i - 1] \in CallType
    BY <1>2, <1>7
  <2>2. f = [i \in 0..n |-> IF i = 0 THEN a ELSE step[<<i, f[i - 1]>>]]
    BY <1>7 DEF IsRecursion
  <2>3. QED
    BY <1>5, <2>1, <2>2
<1>9. P(CHOOSE g : P(g))
  BY <1>8, Zenon
<1>10. PICK g : P(g) /\ Prepared(definition) = g[n]
  BY <1>6, <1>9, Zenon
<1> DEFINE S == {i \in Nat : g[i] \in CallType}
<1>11. 0 \in S
  BY <1>2, <1>3, <1>10
<1>12. ASSUME NEW i \in 0..(n - 1), i \in S PROVE i + 1 \in S
  <2>1. i + 1 \in 1..n /\ i + 1 \in 0..n /\ i + 1 # 0 /\ (i + 1) - 1 = i
    BY <1>2
  <2>2. g[i + 1] = Complete(g[i], definition.props[i + 1])
    BY <1>10, <2>1
  <2>3. QED
    BY <1>2, <1>12, <2>1, <2>2, CompleteTyped
<1> HIDE DEF S
<1>13. \A i \in 0..n : i \in S
  BY <1>2, <1>11, <1>12, Induction
<1>14. g[0] = a /\ \A i \in 1..n : g[i] = Complete(g[i - 1], definition.props[i])
  <2>1. g = [i \in 0..n |-> IF i = 0 THEN a ELSE Complete(g[i - 1], definition.props[i])]
    BY <1>10
  <2>2. \A i \in 1..n : i \in 0..n /\ i # 0
    BY <1>2
  <2>3. 0 \in 0..n
    BY <1>2
  <2>4. QED
    BY <2>1, <2>2, <2>3
<1>15. QED
  BY <1>10, <1>13, <1>14 DEF S, n, a

LEMMA PreparedTyped ==
  ASSUME TypeOK, stack # <<>>, NEW definition \in Definition, Node.arguments \in Seq(Argument)
  PROVE  Prepared(definition) \in CallType
<1>1. Len(definition.props) \in 0..Len(definition.props)
  BY DEF Definition
<1>2. QED
  BY <1>1, PreparedParts

LEMMA RestTyped == ASSUME NEW children \in Seq(NodeType) PROVE RestOf(children) \in Seq(NodeType)
<1> DEFINE n == Len(children)
           X == Seq(NodeType)
           e == <<>>
           P(f) == f = [i \in 0..n |-> IF i = 0 THEN <<>>
                                       ELSE IF children[i].kind = "fill" THEN f[i - 1]
                                       ELSE Append(f[i - 1], children[i])]
           step == [p \in (1..n) \X X |-> IF children[p[1]].kind = "fill" THEN p[2]
                                          ELSE Append(p[2], children[p[1]])]
<1>1. n \in Nat /\ \A i \in 1..n : children[i] \in NodeType
  OBVIOUS
<1>2. e \in X
  OBVIOUS
<1>3. step \in [(1..n) \X X -> X]
  BY <1>1
<1>4. \A i \in 1..n, x \in X :
        step[<<i, x>>] = IF children[i].kind = "fill" THEN x ELSE Append(x, children[i])
  OBVIOUS
<1>5. RestOf(children) = (CHOOSE f : P(f))[n]
  BY Zenon DEF RestOf
<1>6. \A i \in 1..n, x \in X : Append(x, children[i]) \in X
  BY <1>1
<1> HIDE DEF n, X, step
<1>7. PICK f : IsRecursion(f, n, e, step) /\ \A i \in 0..n : f[i] \in X
  BY <1>1, <1>2, <1>3, TypedRecursion
<1>8. P(f)
  <2>1. \A i \in 0..n : i # 0 => i \in 1..n /\ f[i - 1] \in X
    BY <1>1, <1>7
  <2>2. f = [i \in 0..n |-> IF i = 0 THEN e ELSE step[<<i, f[i - 1]>>]]
    BY <1>7 DEF IsRecursion
  <2>3. QED
    BY <1>4, <2>1, <2>2
<1>9. P(CHOOSE g : P(g))
  BY <1>8, Zenon
<1>10. PICK g : P(g) /\ RestOf(children) = g[n]
  BY <1>5, <1>9, Zenon
<1> DEFINE S == {i \in Nat : g[i] \in X}
<1>11. 0 \in S
  BY <1>1, <1>2, <1>10
<1>12. ASSUME NEW i \in 0..(n - 1), i \in S PROVE i + 1 \in S
  <2>1. i + 1 \in 1..n /\ i + 1 \in 0..n /\ i + 1 # 0 /\ (i + 1) - 1 = i
    BY <1>1
  <2>2. g[i + 1] = IF children[i + 1].kind = "fill" THEN g[i] ELSE Append(g[i], children[i + 1])
    BY <1>10, <2>1
  <2>3. QED
    BY <1>6, <1>12, <2>1, <2>2
<1> HIDE DEF S
<1>13. \A i \in 0..n : i \in S
  BY <1>1, <1>11, <1>12, Induction
<1>14. QED
  BY <1>1, <1>10, <1>13 DEF S, X

LEMMA FilledTyped ==
  ASSUME TypeOK, NEW children \in Seq(NodeType), NEW env \in Scope
  PROVE  Filled(children, env) \in [Slot -> Content \cup {None}]
<1> DEFINE fills(s) == {i \in FillsOf(children) : children[i].slot = s}
           last(s) == CHOOSE i \in fills(s) : \A j \in fills(s) : j <= i
<1>1. [nodes |-> RestOf(children), env |-> env] \in Content
  BY RestTyped DEF Content
<1>2. ASSUME NEW s, fills(s) # {}
      PROVE  [nodes |-> Body(children[last(s)].body), env |-> env] \in Content
  <2>1. fills(s) \subseteq 0..Len(children) /\ Len(children) \in Nat
    BY DEF FillsOf
  <2>2. \E m \in fills(s) : \A k \in fills(s) : k <= m
    BY <1>2, <2>1, Greatest
  <2>3. last(s) \in fills(s)
    BY <2>2
  <2>4. children[last(s)] \in NodeType /\ children[last(s)].kind = "fill"
    BY <2>3 DEF FillsOf
  <2>5. Body(children[last(s)].body) \in Seq(NodeType)
    BY <2>4, NodeFields, ProgramParts
  <2>6. QED
    BY <2>5 DEF Content
<1>3. Filled(children, env) = [s \in Slot |->
        IF s = Default /\ RestOf(children) # <<>>
        THEN [nodes |-> RestOf(children), env |-> env]
        ELSE IF fills(s) # {} THEN [nodes |-> Body(children[last(s)].body), env |-> env]
        ELSE None]
  BY DEF Filled
<1> HIDE DEF fills, last
<1>4. QED
  BY <1>1, <1>2, <1>3

LEMMA SlotErrorsTyped ==
  ASSUME NEW definition, NEW children \in Seq(NodeType)
  PROVE  SlotErrors(definition, children) \in Nat
<1> DEFINE fills == FillsOf(children)
           names == {children[i].slot : i \in fills}
           filled == {s \in Slot : Filled(children, Top.env)[s] # None}
           with(status) == {s \in Slot : definition.slots[s] = status}
<1>1. fills \subseteq 1..Len(children) /\ Len(children) \in Nat
  BY DEF FillsOf
<1>2. IsFiniteSet(fills)
  <2>1. IsFiniteSet(1..Len(children))
    BY <1>1, FS_Interval
  <2>2. QED
    BY <1>1, <2>1, FS_Subset
<1>3. Cardinality(fills) \in Nat /\ Cardinality(names) \in Nat
      /\ Cardinality(names) <= Cardinality(fills)
  <2> DEFINE f == [i \in fills |-> children[i].slot]
  <2>1. f \in Surjection(fills, names)
    BY DEF Surjection
  <2> HIDE DEF f, fills, names
  <2>2. IsFiniteSet(names) /\ Cardinality(names) <= Cardinality(fills)
    BY <1>2, <2>1, FS_Surjection
  <2>3. QED
    BY <1>2, <2>2, FS_CardinalityType
<1>4. \A T : T \subseteq Slot => Cardinality(T) \in Nat
  BY MarkerAssumption, FS_Subset, FS_CardinalityType
<1>5. /\ Cardinality(filled \cap with("undeclared")) \in Nat
      /\ Cardinality(with("required") \ filled) \in Nat
  <2>1. filled \cap with("undeclared") \subseteq Slot /\ with("required") \ filled \subseteq Slot
    OBVIOUS
  <2> HIDE DEF filled, with
  <2>2. QED
    BY <1>4, <2>1
<1>6. PICK k \in Nat, l \in Nat :
        SlotErrors(definition, children) =
          (Cardinality(fills) - Cardinality(names)) + Cardinality(filled \cap with("undeclared"))
            + Cardinality(with("required") \ filled) + k + l
  <2> DEFINE count(condition) == IF condition THEN 1 ELSE 0
             k == count(with("undeclared") = Slot /\ children # <<>>)
             l == count(with("required") # {} /\ Node.selfClosing)
  <2>1. SlotErrors(definition, children) =
          (Cardinality(fills) - Cardinality(names)) + Cardinality(filled \cap with("undeclared"))
            + Cardinality(with("required") \ filled) + k + l
    BY Zenon DEF SlotErrors
  <2>2. k \in Nat /\ l \in Nat
    OBVIOUS
  <2> HIDE DEF k, l, fills, names, filled, with
  <2>3. QED
    BY <2>1, <2>2
<1> HIDE DEF fills, names, filled, with
<1>7. QED
  BY <1>3, <1>5, <1>6

-----------------------------------------------------------------------------
(***************************************************************************)
(* Output.                                                                 *)
(***************************************************************************)
LEMMA RestyledTyped ==
  ASSUME NEW fragment \in Seq(Piece), NEW style PROVE Restyled(fragment, style) \in Seq(Piece)
<1> DEFINE I == {i \in 1..Len(fragment) : fragment[i] = "text"}
           tag == SelectInSeq(fragment, LAMBDA piece : piece = "text")
<1>1. tag = IF I # {} THEN Min(I) ELSE 0
  BY Zenon DEF SelectInSeq
<1>2. I # {} => Min(I) \in I
  <2>1. I \subseteq Nat
    OBVIOUS
  <2>2. I # {} => \E n \in I : \A k \in I : n <= k
    BY <2>1, Least
  <2>3. QED
    BY <2>2 DEF Min
<1>3. tag \in 0..Len(fragment) /\ Len(fragment) \in Nat
  BY <1>1, <1>2
<1>4. "style" \in Piece
  BY DEF Piece
<1>5. tag # 0 => InsertAt(fragment, tag + 1, "style") \in Seq(Piece)
  <2> HIDE DEF tag
  <2>1. SUFFICES ASSUME tag # 0 PROVE InsertAt(fragment, tag + 1, "style") \in Seq(Piece)
    OBVIOUS
  <2>2. SubSeq(fragment, 1, (tag + 1) - 1) \in Seq(Piece)
    BY <1>3, <2>1
  <2>3. SubSeq(fragment, tag + 1, Len(fragment)) \in Seq(Piece)
    BY <1>3, <2>1
  <2>4. <<"style">> \in Seq(Piece)
    BY <1>4
  <2>5. QED
    BY <2>2, <2>3, <2>4 DEF InsertAt
<1>6. Restyled(fragment, style) = fragment
      \/ (tag # 0 /\ Restyled(fragment, style) = InsertAt(fragment, tag + 1, "style"))
  BY Zenon DEF Restyled
<1>7. QED
  BY <1>5, <1>6

\* What is cut off at the start of a call.
LEMMA CutParts ==
  ASSUME TypeOK, NEW start \in Nat, start <= Len(output)
  PROVE  /\ Written(start) \in Seq(Piece) /\ Fragment(start) \in Seq(Piece)
         /\ Len(Written(start)) = start
         /\ \A i \in 1..start : Written(start)[i] = output[i]
<1>1. output \in Seq(Piece) /\ Len(output) \in Nat
  BY DEF TypeOK
<1>2. QED
  BY <1>1 DEF Written, Fragment

\* The output goes on from its first "start" pieces, within its limit.
Writes(start) ==
  /\ output' \in Seq(Piece) /\ Len(output') <= MaxHtmlBytes /\ start <= Len(output')
  /\ \A i \in 1..start : output'[i] = output[i]

LEMMA AppendWrites ==
  ASSUME TypeOK, NEW written \in Seq(Piece), NEW pieces \in Seq(Piece), NEW count \in Nat,
         Len(written) <= MaxHtmlBytes, AppendPieces(written, pieces, count)
  PROVE  /\ output' \in Seq(Piece) /\ Len(output') <= MaxHtmlBytes
         /\ Len(written) <= Len(output') /\ \A i \in 1..Len(written) : output'[i] = written[i]
         /\ errors' \in Nat /\ outputLimited' \in BOOLEAN
<1>1. outputLimited \in BOOLEAN /\ Issue(count) \in Nat
  BY IssueTyped DEF TypeOK
<1>2. CASE /\ Len(written) + Len(pieces) <= MaxHtmlBytes
           /\ output' = written \o pieces
           /\ errors' = count
           /\ UNCHANGED outputLimited
  BY <1>1, <1>2
<1>3. CASE /\ output' = written
           /\ errors' = IF outputLimited THEN count ELSE Issue(count)
           /\ outputLimited' = TRUE
  BY <1>1, <1>3
<1>4. QED
  BY <1>2, <1>3 DEF AppendPieces

-----------------------------------------------------------------------------
(***************************************************************************)
(* What a step does to the calls: the top one goes on, it calls another,   *)
(* it returns, or the rendering of the document or of the shell ends.      *)
(***************************************************************************)
\* A frame at another point of its run.
GoesOn(frame, later) ==
  /\ later \in FrameType /\ later.kind = frame.kind
  /\ later.start = frame.start /\ later.depth = frame.depth
  /\ Len(later.items) <= Len(frame.items)

TopAs(later) == [stack EXCEPT ![Len(stack)] = later]

Moves ==
  /\ stack # <<>> /\ \E later : GoesOn(Top, later) /\ stack' = TopAs(later)
  /\ Writes(Len(output))
  /\ UNCHANGED <<phase, loopIterations>>

Enters ==
  /\ stack # <<>>
  /\ \E later, callee \in FrameType :
       /\ GoesOn(Top, later) /\ stack' = Append(TopAs(later), callee)
       /\ callee.kind # "root" /\ callee.start = Len(output)
       /\ callee.kind = "call" => Top.depth < MaxExpansionDepth /\ callee.depth = Top.depth + 1
       /\ callee.kind # "call" => callee.depth = Top.depth
       /\ loopIterations' = loopIterations + Len(callee.items)
       /\ callee.items # <<>> => loopIterations' <= MaxLoopIterations
  /\ UNCHANGED <<phase, output>>

Leaves ==
  /\ Len(stack) > 1 /\ stack' = Front(stack)
  /\ Writes(Top.start)
  /\ UNCHANGED <<phase, loopIterations>>

Finishes ==
  \/ /\ phase = "document" /\ phase' = "shell"
     /\ \E b \in Block : stack' = <<Root(b)>>
     /\ output' = <<>> /\ loopIterations' = 0
  \/ phase' = "done" /\ stack' = <<>> /\ UNCHANGED <<output, loopIterations>>

Rests == UNCHANGED <<phase, stack, output, loopIterations>>

\* The rest of the state after a step.
Aside ==
  /\ program' = program /\ warnings' = warnings
  /\ phase' \in {"document", "shell", "done"}
  /\ content' \in Seq(Piece) \cup {None} /\ errors' \in Nat
  /\ outputLimited' \in BOOLEAN /\ cancelled' \in BOOLEAN

Steps == Aside /\ (Moves \/ Enters \/ Leaves \/ Finishes \/ Rests)

LEMMA TopGoesOn ==
  ASSUME TypeOK, stack # <<>>
  PROVE  /\ GoesOn(Top, [Top EXCEPT !.next = Top.next + 1])
         /\ GoesOn(Top, [Top EXCEPT !.next = Len(Top.nodes) + 1])
         /\ Advanced = TopAs([Top EXCEPT !.next = Top.next + 1])
         /\ Left = TopAs([Top EXCEPT !.next = Len(Top.nodes) + 1])
<1>1. Top \in FrameType /\ Top.next \in Nat \ {0} /\ Len(Top.nodes) \in Nat
  BY TopParts, FrameFields
<1>2. ASSUME NEW next \in Nat \ {0} PROVE GoesOn(Top, [Top EXCEPT !.next = next])
  <2>1. [Top EXCEPT !.next = next] \in FrameType
    BY <1>1, <1>2 DEF FrameType
  <2> DEFINE later == [Top EXCEPT !.next = next]
  <2>2. later.kind = Top.kind /\ later.start = Top.start /\ later.depth = Top.depth
        /\ later.items = Top.items
    BY <1>1 DEF FrameType
  <2>3. Len(Top.items) \in Nat
    BY <1>1, FrameFields
  <2> HIDE DEF later
  <2>4. later \in FrameType
    BY <2>1 DEF later
  <2>5. GoesOn(Top, later)
    BY <2>2, <2>3, <2>4 DEF GoesOn
  <2>6. QED
    BY <2>5 DEF later
<1>3. Top.next + 1 \in Nat \ {0} /\ Len(Top.nodes) + 1 \in Nat \ {0}
  BY <1>1
<1>4. Advanced = TopAs([Top EXCEPT !.next = Top.next + 1])
      /\ Left = TopAs([Top EXCEPT !.next = Len(Top.nodes) + 1])
  BY DEF Advanced, Left, TopAs, Top
<1>5. QED
  BY <1>2, <1>3, <1>4

LEMMA OutputStays ==
  ASSUME TypeOK, FragmentsNest, output' = output PROVE Writes(Len(output))
BY DEF TypeOK, FragmentsNest, Writes

LEMMA QuietAside ==
  ASSUME TypeOK, NEW frames, NEW count \in Nat, Quietly(frames, count)
  PROVE  Aside /\ stack' = frames /\ UNCHANGED <<phase, output, loopIterations>>
BY DEF Quietly, Aside, TypeOK

\* A node that issues a diagnostic, or nothing, and is passed.
LEMMA Passes ==
  ASSUME TypeOK, FragmentsNest, stack # <<>>, NEW count \in Nat,
         Quietly(Advanced, count) \/ Quietly(Left, count)
  PROVE  Steps
<1>1. Aside /\ stack' \in {Advanced, Left} /\ UNCHANGED <<phase, output, loopIterations>>
  BY QuietAside
<1>2. \E later : GoesOn(Top, later) /\ stack' = TopAs(later)
  BY <1>1, TopGoesOn
<1>3. Moves
  BY <1>1, <1>2, OutputStays DEF Moves
<1>4. QED
  BY <1>1, <1>3 DEF Steps

LEMMA EmitPasses ==
  ASSUME TypeOK, FragmentsNest, stack # <<>>, NEW pieces \in Seq(Piece), Emit(pieces)
  PROVE  Steps
<1>1. output \in Seq(Piece) /\ Len(output) <= MaxHtmlBytes /\ errors \in Nat
  BY DEF TypeOK, FragmentsNest
<1>2. AppendPieces(output, pieces, errors)
  BY DEF Emit
<1>3. Writes(Len(output)) /\ errors' \in Nat /\ outputLimited' \in BOOLEAN
  BY <1>1, <1>2, AppendWrites DEF Writes
<1>4. Aside
  BY <1>3 DEF Aside, Emit, TypeOK
<1>5. Moves
  BY <1>3, TopGoesOn DEF Moves, Emit
<1>6. QED
  BY <1>4, <1>5 DEF Steps

\* A node that calls another frame without iterations.
LEMMA QuietEnters ==
  ASSUME TypeOK, stack # <<>>, NEW count \in Nat, NEW callee \in FrameType,
         Quietly(Append(Advanced, callee), count), callee.items = <<>>, callee.kind # "root",
         callee.start = Len(output),
         callee.kind = "call" => Top.depth < MaxExpansionDepth /\ callee.depth = Top.depth + 1,
         callee.kind # "call" => callee.depth = Top.depth
  PROVE  Steps
<1>1. Aside /\ stack' = Append(Advanced, callee) /\ UNCHANGED <<phase, output, loopIterations>>
  BY QuietAside
<1>2. loopIterations' = loopIterations + Len(callee.items)
  BY <1>1 DEF TypeOK
<1>3. GoesOn(Top, [Top EXCEPT !.next = Top.next + 1])
      /\ Advanced = TopAs([Top EXCEPT !.next = Top.next + 1])
  BY TopGoesOn
<1>4. [Top EXCEPT !.next = Top.next + 1] \in FrameType
  BY <1>3 DEF GoesOn
<1>5. Enters
  BY <1>1, <1>2, <1>3, <1>4 DEF Enters
<1>6. QED
  BY <1>1, <1>5 DEF Steps

LEMMA FrameEnters ==
  ASSUME TypeOK, stack # <<>>, NEW kind \in {"branch", "slot"}, NEW nodes \in Seq(NodeType),
         NEW env \in Scope, NEW count \in Nat,
         Quietly(Append(Advanced, Frame(kind, nodes, env, Top.slots, Top.depth)), count)
  PROVE  Steps
<1>1. /\ Top.slots \in [Slot -> Content \cup {None}] /\ Top.depth \in Nat /\ Len(output) \in Nat
  BY TopParts, FrameFields DEF TypeOK
<1> DEFINE callee == Frame(kind, nodes, env, Top.slots, Top.depth)
<1>2. /\ callee \in FrameType /\ callee.kind = kind /\ callee.start = Len(output)
      /\ callee.depth = Top.depth /\ callee.items = <<>>
  BY <1>1, FrameTyped DEF Frame
<1> HIDE DEF callee
<1>3. Quietly(Append(Advanced, callee), count)
  BY DEF callee
<1>4. QED
  BY <1>2, <1>3, QuietEnters

LEMMA ForSteps == ASSUME TypeOK, FragmentsNest, RenderFor PROVE Steps
<1>1. HasNode /\ stack # <<>> /\ Node.kind = "for"
  BY DEF RenderFor, Renders, HasNode
<1>2. /\ Node.variable \in Name /\ Body(Node.body) \in Seq(NodeType) /\ Node.of \in Expression
  BY <1>1, NodeTyped, NodeFields, ProgramParts
<1>3. /\ Top.env \in Scope /\ Top.slots \in [Slot -> Content \cup {None}] /\ Top.depth \in Nat
      /\ Len(output) \in Nat /\ errors \in Nat /\ loopIterations \in Nat
  BY <1>1, TopParts, FrameFields DEF TypeOK
<1>4. PICK value \in {Evaluate(Node.of, Top.env)} \ {Unset} :
        LET items == Elements[value] IN
          \/ items = None /\ Quietly(Advanced, Issue(errors))
          \/ items # None /\ ~Charge(items) /\ Quietly(Advanced, Issue(errors))
          \/ /\ items # None /\ Charge(items)
             /\ loopIterations' = loopIterations + Len(items)
             /\ stack' = Append(Advanced, LoopFrame(items))
             /\ UNCHANGED <<program, phase, output, content, warnings, errors,
                            outputLimited, cancelled>>
  BY DEF RenderFor
<1> DEFINE items == Elements[value]
<1>5. items \in Seq(Item) \cup {None}
  <2>1. value \in Value
    BY <1>2, <1>3, EvaluateTyped
  <2>2. QED
    BY <2>1, ValueAssumption
<1> HIDE DEF items
<1>6. CASE Quietly(Advanced, Issue(errors))
  BY <1>1, <1>3, <1>6, IssueTyped, Passes
<1>7. CASE /\ items # None /\ Charge(items)
           /\ loopIterations' = loopIterations + Len(items)
           /\ stack' = Append(Advanced, LoopFrame(items))
           /\ UNCHANGED <<program, phase, output, content, warnings, errors,
                          outputLimited, cancelled>>
  <2> DEFINE frame == Frame("loop", Body(Node.body), Top.env, Top.slots, Top.depth)
             callee == LoopFrame(items)
             next == Len(Body(Node.body)) + 1
  <2>1. /\ frame \in FrameType /\ frame.kind = "loop" /\ frame.start = Len(output)
        /\ frame.depth = Top.depth
    BY <1>2, <1>3, FrameTyped DEF Frame
  <2>2. callee = [frame EXCEPT !.next = next, !.variable = Node.variable, !.items = items]
    BY DEF LoopFrame
  <2>3. items \in Seq(Item) /\ next \in Nat \ {0}
    BY <1>2, <1>5, <1>7
  <2> HIDE DEF frame, callee, next
  <2>4. /\ callee \in FrameType /\ callee.kind = "loop" /\ callee.start = Len(output)
        /\ callee.depth = Top.depth /\ callee.items = items
    BY <1>2, <2>1, <2>2, <2>3 DEF FrameType
  <2>5. GoesOn(Top, [Top EXCEPT !.next = Top.next + 1])
        /\ Advanced = TopAs([Top EXCEPT !.next = Top.next + 1])
    BY <1>1, TopGoesOn
  <2>6. [Top EXCEPT !.next = Top.next + 1] \in FrameType
    BY <2>5 DEF GoesOn
  <2>7. /\ stack' = Append(Advanced, callee) /\ loopIterations' = loopIterations + Len(callee.items)
        /\ loopIterations' <= MaxLoopIterations
    BY <1>7, <2>4 DEF callee, Charge
  <2>8. Enters
    BY <1>1, <1>7, <2>4, <2>5, <2>6, <2>7 DEF Enters
  <2>9. Aside
    BY <1>7 DEF Aside, TypeOK
  <2>10. QED
    BY <2>8, <2>9 DEF Steps
<1>8. QED
  BY <1>4, <1>6, <1>7 DEF items

Entered(frame, env, items) == [frame EXCEPT !.env = env, !.next = 1, !.items = items]

LEMMA EnteredTyped ==
  ASSUME NEW frame \in FrameType, NEW env \in Scope, NEW items \in Seq(Item)
  PROVE  LET entered == Entered(frame, env, items)
         IN /\ entered \in FrameType /\ entered.items = items /\ entered.kind = frame.kind
            /\ entered.start = frame.start /\ entered.depth = frame.depth
<1> DEFINE entered == Entered(frame, env, items)
           first == [frame EXCEPT !.env = env]
           one == 1
           second == [first EXCEPT !.next = one]
           third == [second EXCEPT !.items = items]
<1>1. first \in FrameType /\ first.kind = frame.kind /\ first.start = frame.start
      /\ first.depth = frame.depth
  BY DEF FrameType
<1>2. one \in Nat \ {0}
  OBVIOUS
<1> HIDE DEF first, one
<1>3. second \in FrameType /\ second.kind = frame.kind /\ second.start = frame.start
      /\ second.depth = frame.depth
  BY <1>1, <1>2 DEF FrameType
<1> HIDE DEF second
<1>4. third \in FrameType /\ third.kind = frame.kind /\ third.start = frame.start
      /\ third.depth = frame.depth /\ third.items = items
  BY <1>3 DEF FrameType
<1>5. entered = third
  BY DEF first, second, third, entered, one, Entered
<1>6. QED
  BY <1>4, <1>5

LEMMA LeftTyped ==
  ASSUME NEW frame \in FrameType
  PROVE  LET left == [frame EXCEPT !.items = <<>>]
         IN /\ left \in FrameType /\ left.items = <<>> /\ left.kind = frame.kind
            /\ left.start = frame.start /\ left.depth = frame.depth
<1> DEFINE e == <<>>
<1>1. e \in Seq(Item)
  OBVIOUS
<1> HIDE DEF e
<1>2. LET left == [frame EXCEPT !.items = e]
      IN /\ left \in FrameType /\ left.items = e /\ left.kind = frame.kind
         /\ left.start = frame.start /\ left.depth = frame.depth
  BY <1>1 DEF FrameType
<1>3. QED
  BY <1>2 DEF e

LEMMA NextItemSteps == ASSUME TypeOK, FragmentsNest, NextItem PROVE Steps
<1> DEFINE entered == [Top EXCEPT !.env = Bound(@, Top.variable, Head(Top.items)),
                                  !.next = 1, !.items = Tail(@)]
           left == [Top EXCEPT !.items = <<>>]
<1>1. /\ stack # <<>> /\ Top.items # <<>>
      /\ Quietly([stack EXCEPT ![Len(stack)] = IF cancelled THEN left ELSE entered], errors)
  BY DEF NextItem
<1>2. /\ Top \in FrameType /\ Top.items \in Seq(Item) /\ Top.env \in Scope
      /\ Len(Top.items) \in Nat /\ errors \in Nat
  BY <1>1, TopParts, FrameFields DEF TypeOK
<1>3. Head(Top.items) \in Item /\ Tail(Top.items) \in Seq(Item)
      /\ Len(Tail(Top.items)) = Len(Top.items) - 1
  BY <1>1, <1>2
<1>4. Bound(Top.env, Top.variable, Head(Top.items)) \in Scope
  BY <1>2, <1>3, BoundTyped
<1>5. entered \in FrameType /\ entered.items = Tail(Top.items) /\ entered.kind = Top.kind
      /\ entered.start = Top.start /\ entered.depth = Top.depth
  <2> DEFINE env == Bound(Top.env, Top.variable, Head(Top.items))
             rest == Tail(Top.items)
  <2>1. entered = Entered(Top, env, rest)
    BY DEF entered, Entered
  <2>2. env \in Scope /\ rest \in Seq(Item)
    BY <1>3, <1>4
  <2> HIDE DEF entered, env, rest
  <2>3. /\ entered \in FrameType /\ entered.items = rest /\ entered.kind = Top.kind
        /\ entered.start = Top.start /\ entered.depth = Top.depth
    BY <1>2, <2>1, <2>2, EnteredTyped
  <2>4. QED
    BY <2>3 DEF rest
<1>6. left \in FrameType /\ left.items = <<>> /\ left.kind = Top.kind
      /\ left.start = Top.start /\ left.depth = Top.depth
  BY <1>2, LeftTyped
<1> HIDE DEF entered, left
<1>7. GoesOn(Top, entered) /\ GoesOn(Top, left)
  BY <1>2, <1>3, <1>5, <1>6 DEF GoesOn
<1>8. \E later : GoesOn(Top, later) /\ stack' = TopAs(later)
  BY <1>1, <1>7 DEF Quietly, TopAs
<1>9. Aside /\ UNCHANGED <<phase, output, loopIterations>>
  BY <1>1, <1>2, QuietAside
<1>10. Moves
  BY <1>1, <1>8, <1>9, OutputStays DEF Moves
<1>11. QED
  BY <1>9, <1>10 DEF Steps

LEMMA Joined ==
  ASSUME NEW X, NEW s \in Seq(X), NEW t \in Seq(X)
  PROVE  /\ s \o t \in Seq(X) /\ Len(s \o t) = Len(s) + Len(t)
         /\ \A i \in 1..Len(s) : (s \o t)[i] = s[i]
OBVIOUS

LEMMA ShellContentSteps == ASSUME TypeOK, FragmentsNest, RenderShellContent PROVE Steps
<1> DEFINE room == MaxHtmlBytes - Len(output)
<1>1. /\ stack # <<>> /\ content # None
      /\ IF Len(content) <= room THEN Emit(content)
         ELSE /\ output' = output \o SubSeq(content, 1, room)
              /\ errors' = Issue(errors)
              /\ outputLimited' = TRUE
              /\ stack' = Advanced
              /\ UNCHANGED <<program, phase, content, warnings, loopIterations, cancelled>>
  BY DEF RenderShellContent, Renders, HasNode
<1>2. content \in Seq(Piece) /\ output \in Seq(Piece) /\ errors \in Nat
  BY <1>1 DEF TypeOK
<1>3. Len(output) \in Nat /\ Len(content) \in Nat /\ room \in Nat
  BY <1>2, LimitAssumption DEF FragmentsNest
<1>4. CASE Len(content) <= room
  BY <1>1, <1>2, <1>4, EmitPasses
<1>5. CASE Len(content) > room
  <2>1. SubSeq(content, 1, room) \in Seq(Piece) /\ Len(SubSeq(content, 1, room)) = room
    BY <1>2, <1>3, <1>5
  <2>2. output' = output \o SubSeq(content, 1, room) /\ errors' \in Nat /\ stack' = Advanced
        /\ outputLimited' = TRUE
        /\ UNCHANGED <<program, phase, content, warnings, loopIterations, cancelled>>
    <3>1. Issue(errors) \in Nat
      BY <1>2, IssueTyped
    <3> HIDE DEF room
    <3>2. ~(Len(content) <= room)
      BY <1>3, <1>5
    <3>3. QED
      BY <1>1, <3>1, <3>2
  <2> DEFINE pieces == SubSeq(content, 1, room)
  <2>3. pieces \in Seq(Piece) /\ Len(pieces) = room /\ output' = output \o pieces
    BY <2>1, <2>2
  <2> HIDE DEF pieces
  <2>4. Writes(Len(output))
    <3>1. output' \in Seq(Piece) /\ Len(output') = Len(output) + Len(pieces)
          /\ \A i \in 1..Len(output) : output'[i] = output[i]
      BY <1>2, <2>3, Joined
    <3>2. Len(pieces) = room
      BY <2>3
    <3>3. MaxHtmlBytes \in Nat
      BY LimitAssumption
    <3>4. QED
      BY <1>3, <2>3, <3>1, <3>2, <3>3 DEF Writes
  <2>5. Moves
    BY <1>1, <2>2, <2>4, TopGoesOn DEF Moves
  <2>6. Aside
    BY <2>2 DEF Aside, TypeOK
  <2>7. QED
    BY <2>5, <2>6 DEF Steps
<1>6. QED
  BY <1>3, <1>4, <1>5

LEMMA ReferenceSteps == ASSUME TypeOK, FragmentsNest, RenderReference PROVE Steps
<1> DEFINE filled == Top.slots[Node.slot]
<1>1. /\ HasNode /\ stack # <<>> /\ Node.kind = "reference"
      /\ Quietly(IF filled = None THEN Advanced ELSE Append(Advanced, SlotFrame(filled)), errors)
  BY DEF RenderReference, Renders, HasNode
<1>2. Node.slot \in Slot
  BY <1>1, NodeTyped, NodeFields
<1>3. filled \in Content \cup {None} /\ errors \in Nat
  BY <1>1, <1>2, TopParts, FrameFields DEF TypeOK
<1> HIDE DEF filled
<1>4. CASE filled = None
  BY <1>1, <1>3, <1>4, Passes
<1>5. CASE filled # None
  <2>1. filled.nodes \in Seq(NodeType) /\ filled.env \in Scope
    BY <1>3, <1>5 DEF Content
  <2>2. Quietly(Append(Advanced, Frame("slot", filled.nodes, filled.env, Top.slots, Top.depth)), errors)
    BY <1>1, <1>5 DEF SlotFrame
  <2>3. QED
    BY <1>1, <1>3, <2>1, <2>2, FrameEnters
<1>6. QED
  BY <1>4, <1>5

LEMMA CallSteps == ASSUME TypeOK, FragmentsNest, RenderCall PROVE Steps
<1> DEFINE definition == program.components[Node.component]
           children == Body(Node.children)
<1>1. HasNode /\ stack # <<>> /\ Node.kind = "call" /\ errors \in Nat
  BY DEF RenderCall, Renders, HasNode, TypeOK
<1>2. \/ Quietly(Advanced, Issue(errors))
      \/ /\ Top.depth < MaxExpansionDepth /\ definition # None
         /\ LET call == Prepared(definition)
            IN Quietly(Append(Advanced, CallFrame(definition, call, Filled(children, Top.env))),
                       IssueEach(call.errors, SlotErrors(definition, children)))
  BY DEF RenderCall
<1>3. /\ Node.component \in Component /\ Node.arguments \in Seq(Argument)
      /\ definition \in Definition \cup {None} /\ children \in Seq(NodeType)
  BY <1>1, NodeTyped, NodeFields, ProgramParts
<1> HIDE DEF definition, children
<1>4. CASE Quietly(Advanced, Issue(errors))
  BY <1>1, <1>4, IssueTyped, Passes
<1>5. ASSUME Top.depth < MaxExpansionDepth, definition # None,
             Quietly(Append(Advanced, CallFrame(definition, Prepared(definition), Filled(children, Top.env))),
                     IssueEach(Prepared(definition).errors, SlotErrors(definition, children)))
      PROVE  Steps
  <2> DEFINE call == Prepared(definition)
             frame == Frame("call", Body(definition.body), call.env, Filled(children, Top.env), Top.depth + 1)
             callee == CallFrame(definition, call, Filled(children, Top.env))
             count == IssueEach(call.errors, SlotErrors(definition, children))
  <2>1. definition \in Definition /\ definition.body \in Block
    BY <1>3, <1>5 DEF Definition
  <2>2. call \in CallType
    BY <1>1, <1>3, <2>1, PreparedTyped
  <2>3. Filled(children, Top.env) \in [Slot -> Content \cup {None}] /\ SlotErrors(definition, children) \in Nat
    BY <1>1, <1>3, TopParts, FrameFields, FilledTyped, SlotErrorsTyped
  <2>4. /\ Body(definition.body) \in Seq(NodeType) /\ Top.depth \in Nat /\ Len(output) \in Nat
    BY <1>1, <2>1, ProgramParts, TopParts, FrameFields DEF TypeOK
  <2> HIDE DEF call
  <2>5. call.env \in Scope /\ call.style \in Text \cup {None} /\ call.errors \in Nat
    BY <2>2 DEF CallType
  <2>6. count \in Nat
    BY <2>3, <2>5, IssueTyped
  <2>7. /\ frame \in FrameType /\ frame.kind = "call" /\ frame.start = Len(output)
        /\ frame.depth = Top.depth + 1 /\ frame.items = <<>>
    <3> DEFINE slots == Filled(children, Top.env)
    <3>1. Top.depth + 1 \in Nat /\ slots \in [Slot -> Content \cup {None}]
      BY <2>3, <2>4
    <3>2. frame = FrameFrom(Len(output), "call", Body(definition.body), call.env, slots, Top.depth + 1)
      BY DEF Frame
    <3> HIDE DEF slots, frame
    <3>3. QED
      BY <2>4, <2>5, <3>1, <3>2, FrameTyped
  <2>8. callee = [frame EXCEPT !.style = call.style]
    BY DEF CallFrame
  <2> HIDE DEF frame, callee, count
  <2>9. /\ callee \in FrameType /\ callee.kind = "call" /\ callee.start = Len(output)
        /\ callee.depth = Top.depth + 1 /\ callee.items = <<>>
    BY <2>5, <2>7, <2>8 DEF FrameType
  <2>10. Quietly(Append(Advanced, callee), count)
    BY <1>5 DEF callee, count, call
  <2>11. QED
    BY <1>1, <1>5, <2>6, <2>9, <2>10, QuietEnters
<1>6. QED
  BY <1>2, <1>4, <1>5

LEMMA IfSteps == ASSUME TypeOK, RenderIf PROVE Steps
<1>1. HasNode /\ stack # <<>> /\ Node.kind = "if" /\ errors \in Nat
  BY DEF RenderIf, Renders, HasNode, TypeOK
<1>2. Node.then \in Block /\ Node.else \in Block /\ Top.env \in Scope
  BY <1>1, NodeTyped, NodeFields, TopParts, FrameFields
<1>3. PICK branch \in {Node.then, Node.else} :
        Quietly(Append(Advanced, Frame("branch", Body(branch), Top.env, Top.slots, Top.depth)), errors)
  BY DEF RenderIf
<1>4. Body(branch) \in Seq(NodeType)
  BY <1>2, ProgramParts
<1>5. QED
  BY <1>1, <1>2, <1>3, <1>4, FrameEnters

LEMMA ExpressionSteps == ASSUME TypeOK, FragmentsNest, RenderExpression PROVE Steps
<1>1. HasNode /\ stack # <<>> /\ Node.kind = "expression" /\ errors \in Nat
  BY DEF RenderExpression, Renders, HasNode, TypeOK
<1>2. PICK value : \/ value \in Emittable /\ Emit(<<value>>)
                   \/ Quietly(Advanced, Issue(errors))
  BY DEF RenderExpression
<1>3. CASE value \in Emittable /\ Emit(<<value>>)
  <2>1. value \in Piece
    BY <1>3, ValueAssumption DEF Piece
  <2>2. <<value>> \in Seq(Piece)
    BY <2>1
  <2>3. QED
    BY <1>1, <1>3, <2>2, EmitPasses
<1>4. CASE Quietly(Advanced, Issue(errors))
  BY <1>1, <1>4, IssueTyped, Passes
<1>5. QED
  BY <1>2, <1>3, <1>4

LEMMA PlainSteps ==
  ASSUME TypeOK, FragmentsNest,
         RenderCancelled \/ RenderLimited \/ RenderText \/ EvaluationFails \/ RenderFill
  PROVE  Steps
<1>1. errors \in Nat /\ Failed(Node.of, errors) \in Nat /\ Issue(errors) \in Nat
  <2>1. errors \in Nat
    BY DEF TypeOK
  <2>2. QED
    BY <2>1, IssueTyped, FailedTyped
<1>2. CASE RenderText
  <2>1. <<"text">> \in Seq(Piece)
    BY DEF Piece
  <2>2. stack # <<>> /\ Emit(<<"text">>)
    BY <1>2 DEF RenderText, Renders, HasNode
  <2>3. QED
    BY <2>1, <2>2, EmitPasses
<1>3. CASE RenderCancelled \/ RenderLimited \/ EvaluationFails \/ RenderFill
  <2>1. stack # <<>>
    BY <1>3 DEF RenderCancelled, RenderLimited, EvaluationFails, RenderFill, Renders, HasNode
  <2>2. \E count \in Nat : Quietly(Advanced, count) \/ Quietly(Left, count)
    BY <1>1, <1>3 DEF RenderCancelled, RenderLimited, EvaluationFails, RenderFill
  <2>3. QED
    BY <2>1, <2>2, Passes
<1>4. QED
  BY <1>2, <1>3

LEMMA ReturnSteps == ASSUME TypeOK, FragmentsNest, Return PROVE Steps
<1>1. stack # <<>> /\ Len(stack) > 1 /\ Quietly(Front(stack), errors) /\ errors \in Nat
  BY DEF Return, Ended, TypeOK
<1>2. Aside /\ stack' = Front(stack) /\ UNCHANGED <<phase, output, loopIterations>>
  BY <1>1, QuietAside
<1>3. Top.start <= Len(output) /\ Top.start \in Nat /\ Len(output) \in Nat
  BY <1>1, TopParts, FrameFields DEF FragmentsNest, Top, TypeOK
<1>4. Writes(Len(output))
  BY <1>2, OutputStays
<1>5. Writes(Top.start)
  BY <1>2, <1>3, <1>4 DEF Writes
<1>6. Leaves
  BY <1>1, <1>2, <1>5 DEF Leaves
<1>7. QED
  BY <1>2, <1>6 DEF Steps

LEMMA ReturnStyledSteps == ASSUME TypeOK, FragmentsNest, ReturnStyled PROVE Steps
<1> DEFINE count == IF Top.style \in Unresolvable THEN errors + 1 ELSE errors
           pieces == Restyled(Fragment(Top.start), Top.style)
<1>1. /\ stack # <<>> /\ Len(stack) > 1 /\ Restyle(Top.start, Top.style, count)
      /\ stack' = Front(stack)
      /\ UNCHANGED <<program, phase, content, warnings, loopIterations, cancelled>>
  BY DEF ReturnStyled, Ended
<1>2. Top.start <= Len(output) /\ Top.start \in Nat /\ Len(output) \in Nat
      /\ Len(output) <= MaxHtmlBytes /\ MaxHtmlBytes \in Nat
  BY <1>1, TopParts, FrameFields, LimitAssumption DEF FragmentsNest, Top, TypeOK
<1>3. /\ Written(Top.start) \in Seq(Piece) /\ Fragment(Top.start) \in Seq(Piece)
      /\ Len(Written(Top.start)) = Top.start
      /\ \A i \in 1..Top.start : Written(Top.start)[i] = output[i]
  BY <1>2, CutParts
<1>4. pieces \in Seq(Piece)
  BY <1>3, RestyledTyped
<1>5. count \in Nat
  BY DEF TypeOK
<1>6. AppendPieces(Written(Top.start), pieces, count)
  BY <1>1 DEF Restyle
<1>7. Len(Written(Top.start)) <= MaxHtmlBytes
  BY <1>2, <1>3
<1> HIDE DEF count, pieces
<1>8. /\ output' \in Seq(Piece) /\ Len(output') <= MaxHtmlBytes
      /\ Len(Written(Top.start)) <= Len(output')
      /\ \A i \in 1..Len(Written(Top.start)) : output'[i] = Written(Top.start)[i]
      /\ errors' \in Nat /\ outputLimited' \in BOOLEAN
  BY <1>3, <1>4, <1>5, <1>6, <1>7, AppendWrites
<1>9. Writes(Top.start)
  BY <1>3, <1>8 DEF Writes
<1>10. Leaves
  BY <1>1, <1>9 DEF Leaves
<1>11. Aside
  BY <1>1, <1>8 DEF Aside, TypeOK
<1>12. QED
  BY <1>10, <1>11 DEF Steps

LEMMA FinishSteps == ASSUME TypeOK, Finish PROVE Steps
<1>1. CASE phase = "document" /\ program.shell # None /\ errors = 0
  <2>1. program.shell \in Block
    BY <1>1, ProgramParts
  <2>2. /\ phase' = "shell" /\ stack' = <<Root(program.shell)>> /\ content' = output
        /\ output' = <<>> /\ loopIterations' = 0 /\ outputLimited' = FALSE
        /\ UNCHANGED <<program, warnings, errors, cancelled>>
    BY <1>1 DEF Finish
  <2>3. Finishes
    BY <1>1, <2>1, <2>2 DEF Finishes
  <2>4. Aside
    BY <2>2 DEF Aside, TypeOK
  <2>5. QED
    BY <2>3, <2>4 DEF Steps
<1>2. CASE ~(phase = "document" /\ program.shell # None /\ errors = 0)
  <2>1. /\ phase' = "done" /\ stack' = <<>>
        /\ UNCHANGED <<content, output, loopIterations, outputLimited>>
        /\ UNCHANGED <<program, warnings, errors, cancelled>>
    BY <1>2 DEF Finish
  <2>2. Finishes
    BY <2>1 DEF Finishes
  <2>3. Aside
    BY <2>1 DEF Aside, TypeOK
  <2>4. QED
    BY <2>2, <2>3 DEF Steps
<1>3. QED
  BY <1>1, <1>2

LEMMA NextSteps == ASSUME TypeOK, FragmentsNest, [Next]_vars PROVE Steps
<1>1. CASE RenderCancelled \/ RenderLimited \/ RenderText \/ EvaluationFails \/ RenderFill
  BY <1>1, PlainSteps
<1>2. CASE RenderExpression
  BY <1>2, ExpressionSteps
<1>3. CASE RenderIf
  BY <1>3, IfSteps
<1>4. CASE RenderFor
  BY <1>4, ForSteps
<1>5. CASE NextItem
  BY <1>5, NextItemSteps
<1>6. CASE RenderShellContent
  BY <1>6, ShellContentSteps
<1>7. CASE RenderReference
  BY <1>7, ReferenceSteps
<1>8. CASE RenderCall
  BY <1>8, CallSteps
<1>9. CASE Return
  BY <1>9, ReturnSteps
<1>10. CASE ReturnStyled
  BY <1>10, ReturnStyledSteps
<1>11. CASE Finish
  BY <1>11, FinishSteps
<1>12. CASE Cancel
  BY <1>12 DEF Cancel, Steps, Rests, Aside, TypeOK
<1>13. CASE UNCHANGED vars
  BY <1>13 DEF vars, Steps, Rests, Aside, TypeOK
<1>14. QED
  BY <1>1, <1>2, <1>3, <1>4, <1>5, <1>6, <1>7, <1>8, <1>9, <1>10, <1>11, <1>12, <1>13
     DEF Next, Advance

-----------------------------------------------------------------------------
(***************************************************************************)
(* The calls before and after a step.                                      *)
(***************************************************************************)
Alike(later, frame) ==
  /\ later.kind = frame.kind /\ later.start = frame.start /\ later.depth = frame.depth
  /\ Len(later.items) <= Len(frame.items)

LEMMA AlikeItself == ASSUME TypeOK PROVE \A i \in DOMAIN stack : Alike(stack[i], stack[i])
<1>1. \A i \in DOMAIN stack : Len(stack[i].items) \in Nat
  BY FrameFields DEF TypeOK
<1>2. QED
  BY <1>1 DEF Alike

LEMMA TopAsParts ==
  ASSUME TypeOK, stack # <<>>, NEW later, GoesOn(Top, later)
  PROVE  /\ TopAs(later) \in Seq(FrameType) /\ Len(TopAs(later)) = Len(stack)
         /\ \A i \in DOMAIN stack : Alike(TopAs(later)[i], stack[i])
<1>1. stack \in Seq(FrameType) /\ later \in FrameType
  BY DEF TypeOK, GoesOn
<1>2. TopAs(later) \in Seq(FrameType) /\ Len(TopAs(later)) = Len(stack)
  BY <1>1 DEF TopAs
<1>3. ASSUME NEW i \in DOMAIN stack PROVE Alike(TopAs(later)[i], stack[i])
  <2>1. CASE i = Len(stack)
    BY <1>1, <2>1 DEF TopAs, Top, GoesOn, Alike
  <2>2. CASE i # Len(stack)
    BY <1>1, <2>2, AlikeItself DEF TopAs
  <2>3. QED
    BY <2>1, <2>2
<1>4. QED
  BY <1>2, <1>3

LEMMA MovesParts ==
  ASSUME TypeOK, Moves
  PROVE  /\ stack' \in Seq(FrameType) /\ Len(stack') = Len(stack)
         /\ \A i \in DOMAIN stack : Alike(stack'[i], stack[i])
BY TopAsParts DEF Moves

LEMMA EntersParts ==
  ASSUME TypeOK, Enters
  PROVE  /\ stack' \in Seq(FrameType) /\ Len(stack') = Len(stack) + 1
         /\ \A i \in DOMAIN stack : Alike(stack'[i], stack[i])
         /\ LET callee == stack'[Len(stack) + 1]
            IN /\ callee \in FrameType /\ callee.kind # "root" /\ callee.start = Len(output)
               /\ callee.kind = "call" => Top.depth < MaxExpansionDepth /\ callee.depth = Top.depth + 1
               /\ callee.kind # "call" => callee.depth = Top.depth
               /\ loopIterations' = loopIterations + Len(callee.items)
               /\ callee.items # <<>> => loopIterations' <= MaxLoopIterations
<1>1. PICK later, callee \in FrameType :
        /\ GoesOn(Top, later) /\ stack' = Append(TopAs(later), callee)
        /\ callee.kind # "root" /\ callee.start = Len(output)
        /\ callee.kind = "call" => Top.depth < MaxExpansionDepth /\ callee.depth = Top.depth + 1
        /\ callee.kind # "call" => callee.depth = Top.depth
        /\ loopIterations' = loopIterations + Len(callee.items)
        /\ callee.items # <<>> => loopIterations' <= MaxLoopIterations
  BY DEF Enters
<1>2. /\ TopAs(later) \in Seq(FrameType) /\ Len(TopAs(later)) = Len(stack)
      /\ \A i \in DOMAIN stack : Alike(TopAs(later)[i], stack[i])
  BY <1>1, TopAsParts DEF Enters
<1>3. DOMAIN stack = 1..Len(stack) /\ Len(stack) \in Nat
  BY DEF TypeOK
<1>4. /\ stack' \in Seq(FrameType) /\ Len(stack') = Len(stack) + 1
      /\ stack'[Len(stack) + 1] = callee
      /\ \A i \in 1..Len(stack) : stack'[i] = TopAs(later)[i]
  BY <1>1, <1>2, <1>3
<1>5. QED
  BY <1>1, <1>2, <1>3, <1>4

LEMMA LeavesParts ==
  ASSUME TypeOK, Leaves
  PROVE  /\ stack' \in Seq(FrameType) /\ Len(stack') = Len(stack) - 1 /\ Len(stack) > 1
         /\ \A i \in 1..(Len(stack) - 1) : stack'[i] = stack[i] /\ Alike(stack'[i], stack[i])
<1>1. stack \in Seq(FrameType) /\ Len(stack) \in Nat /\ Len(stack) > 1 /\ DOMAIN stack = 1..Len(stack)
  BY DEF TypeOK, Leaves
<1>2. stack' = SubSeq(stack, 1, Len(stack) - 1)
  BY DEF Leaves, Front
<1>3. stack' \in Seq(FrameType) /\ Len(stack') = Len(stack) - 1
  BY <1>1, <1>2
<1>4. \A i \in 1..(Len(stack) - 1) : stack'[i] = stack[i]
  BY <1>1, <1>2
<1>5. QED
  BY <1>1, <1>3, <1>4, AlikeItself

LEMMA FinishesParts ==
  ASSUME TypeOK, Finishes
  PROVE  /\ stack' \in Seq(FrameType) /\ Len(stack') \in {0, 1}
         /\ Len(stack') = 1 =>
              /\ phase' # phase /\ loopIterations' = 0 /\ output' = <<>>
              /\ stack'[1].kind = "root" /\ stack'[1].start = 0
              /\ stack'[1].depth = 0 /\ stack'[1].items = <<>>
         /\ output' \in {output, <<>>} /\ loopIterations' \in {loopIterations, 0}
<1>1. CASE phase' = "done" /\ stack' = <<>> /\ UNCHANGED <<output, loopIterations>>
  <2>1. stack' \in Seq(FrameType) /\ Len(stack') = 0
    BY <1>1
  <2>2. QED
    BY <1>1, <2>1
<1>2. ASSUME NEW b \in Block, stack' = <<Root(b)>>, phase = "document", phase' = "shell",
             output' = <<>>, loopIterations' = 0
      PROVE  /\ stack' \in Seq(FrameType) /\ Len(stack') = 1 /\ phase' # phase
             /\ stack'[1].kind = "root" /\ stack'[1].start = 0
             /\ stack'[1].depth = 0 /\ stack'[1].items = <<>>
  <2>1. /\ Root(b) \in FrameType /\ Root(b).kind = "root" /\ Root(b).start = 0
        /\ Root(b).depth = 0 /\ Root(b).items = <<>>
    BY RootTyped DEF TypeOK
  <2> DEFINE root == Root(b)
  <2> HIDE DEF root
  <2>2. root \in FrameType /\ stack' = <<root>>
    BY <1>2, <2>1 DEF root
  <2>3. stack' \in Seq(FrameType) /\ Len(stack') = 1 /\ stack'[1] = root
    BY <2>2
  <2>4. QED
    BY <1>2, <2>1, <2>3 DEF root
<1>3. QED
  BY <1>1, <1>2 DEF Finishes

-----------------------------------------------------------------------------
(***************************************************************************)
(* Types, and the parts of the output that belong to the calls.            *)
(***************************************************************************)
LEMMA NestKept == ASSUME TypeOK, FragmentsNest, Steps PROVE FragmentsNest'
<1>1. /\ stack \in Seq(FrameType) /\ Len(stack) \in Nat /\ DOMAIN stack = 1..Len(stack)
      /\ Len(output) \in Nat /\ \A i \in DOMAIN stack : stack[i].start \in Nat
  BY FrameFields DEF TypeOK
<1>2. /\ \A i, j \in DOMAIN stack : i <= j => stack[i].start <= stack[j].start
      /\ \A i \in DOMAIN stack : stack[i].start <= Len(output)
      /\ Len(output) <= MaxHtmlBytes
  BY DEF FragmentsNest
<1>3. MaxHtmlBytes \in Nat
  BY LimitAssumption
<1>4. SUFFICES /\ \A i, j \in DOMAIN stack' : i <= j => stack'[i].start <= stack'[j].start
               /\ \A i \in DOMAIN stack' : stack'[i].start <= Len(output')
               /\ Len(output') <= MaxHtmlBytes
  BY DEF FragmentsNest
<1>5. CASE Moves
  <2>1. DOMAIN stack' = DOMAIN stack /\ \A i \in DOMAIN stack : stack'[i].start = stack[i].start
    BY <1>1, <1>5, MovesParts DEF Alike
  <2>2. Len(output') \in Nat /\ Len(output) <= Len(output') /\ Len(output') <= MaxHtmlBytes
    BY <1>5 DEF Moves, Writes
  <2>3. QED
    BY <1>1, <1>2, <2>1, <2>2
<1>6. CASE Enters
  <2>1. /\ DOMAIN stack' = 1..(Len(stack) + 1) /\ output' = output
        /\ \A i \in DOMAIN stack : stack'[i].start = stack[i].start
        /\ stack'[Len(stack) + 1].start = Len(output)
    <3>1. output' = output
      BY <1>6 DEF Enters
    <3>2. /\ stack' \in Seq(FrameType) /\ Len(stack') = Len(stack) + 1
          /\ \A i \in DOMAIN stack : Alike(stack'[i], stack[i])
          /\ stack'[Len(stack) + 1].start = Len(output)
      BY <1>6, EntersParts
    <3>3. DOMAIN stack' = 1..(Len(stack) + 1)
      BY <3>2
    <3>4. \A i \in DOMAIN stack : stack'[i].start = stack[i].start
      BY <3>2 DEF Alike
    <3>5. QED
      BY <3>1, <3>2, <3>3, <3>4
  <2>2. \A i \in DOMAIN stack' : i \in DOMAIN stack \/ i = Len(stack) + 1
    BY <1>1, <2>1
  <2>3. \A i \in DOMAIN stack' : stack'[i].start <= Len(output)
    BY <1>1, <1>2, <2>1, <2>2
  <2>4. ASSUME NEW i \in DOMAIN stack', NEW j \in DOMAIN stack', i <= j
        PROVE  stack'[i].start <= stack'[j].start
    <3>1. CASE j = Len(stack) + 1
      BY <2>1, <2>3, <3>1
    <3>2. CASE j \in DOMAIN stack
      <4>1. i \in DOMAIN stack
        BY <1>1, <2>1, <2>4, <3>2
      <4>2. QED
        BY <1>2, <2>1, <2>4, <3>2, <4>1
    <3>3. QED
      BY <2>2, <3>1, <3>2
  <2>5. QED
    BY <1>2, <2>1, <2>3, <2>4
<1>7. CASE Leaves
  <2>1. /\ DOMAIN stack' = 1..(Len(stack) - 1)
        /\ \A i \in 1..(Len(stack) - 1) : stack'[i] = stack[i]
    BY <1>1, <1>7, LeavesParts
  <2>2. /\ Len(output') \in Nat /\ Top.start <= Len(output') /\ Len(output') <= MaxHtmlBytes
        /\ Len(stack) > 1
    BY <1>7 DEF Leaves, Writes
  <2>3. \A i \in DOMAIN stack' : i \in DOMAIN stack /\ stack[i].start <= Top.start
    BY <1>1, <1>2, <2>1, <2>2 DEF Top
  <2>4. Top.start \in Nat
    BY <1>1, <2>2 DEF Top
  <2>5. \A i \in DOMAIN stack' : stack'[i].start = stack[i].start /\ stack'[i].start \in Nat
    BY <1>1, <2>1, <2>3
  <2>6. \A i, j \in DOMAIN stack' : i <= j => stack'[i].start <= stack'[j].start
    BY <1>2, <2>3, <2>5
  <2>7. \A i \in DOMAIN stack' : stack'[i].start <= Len(output')
    BY <2>2, <2>3, <2>4, <2>5
  <2>8. QED
    BY <2>2, <2>6, <2>7
<1>8. CASE Finishes
  <2>1. /\ DOMAIN stack' \subseteq {1} /\ Len(output') <= MaxHtmlBytes
        /\ 1 \in DOMAIN stack' => stack'[1].start = 0 /\ output' = <<>>
    BY <1>2, <1>3, <1>8, FinishesParts
  <2>2. QED
    BY <2>1
<1>9. CASE Rests
  BY <1>2, <1>9 DEF Rests
<1>10. QED
  BY <1>5, <1>6, <1>7, <1>8, <1>9 DEF Steps

LEMMA TypesKept == ASSUME TypeOK, Steps PROVE TypeOK'
<1>1. Aside
  BY DEF Steps
<1>2. /\ program' \in ProgramType /\ phase' \in {"document", "shell", "done"}
      /\ content' \in Seq(Piece) \cup {None} /\ warnings' \in Warnings /\ errors' \in Nat
      /\ outputLimited' \in BOOLEAN /\ cancelled' \in BOOLEAN
  BY <1>1 DEF Aside, TypeOK
<1>3. stack' \in Seq(FrameType)
  <2>1. CASE Moves
    BY <2>1, MovesParts
  <2>2. CASE Enters
    BY <2>2, EntersParts
  <2>3. CASE Leaves
    BY <2>3, LeavesParts
  <2>4. CASE Finishes
    BY <2>4, FinishesParts
  <2>5. CASE Rests
    BY <2>5 DEF Rests, TypeOK
  <2>6. QED
    BY <2>1, <2>2, <2>3, <2>4, <2>5 DEF Steps
<1>4. output' \in Seq(Piece)
  <2>1. output \in Seq(Piece) /\ <<>> \in Seq(Piece)
    BY DEF TypeOK
  <2>2. CASE Finishes
    BY <2>1, <2>2, FinishesParts
  <2>3. CASE Moves \/ Enters \/ Leaves \/ Rests
    BY <2>1, <2>3 DEF Moves, Enters, Leaves, Rests, Writes
  <2>4. QED
    BY <2>2, <2>3 DEF Steps
<1>5. loopIterations' \in Nat
  <2>1. loopIterations \in Nat /\ 0 \in Nat
    BY DEF TypeOK
  <2>2. CASE Enters
    <3>1. Len(stack'[Len(stack) + 1].items) \in Nat
          /\ loopIterations' = loopIterations + Len(stack'[Len(stack) + 1].items)
      BY <2>2, EntersParts, FrameFields
    <3>2. QED
      BY <2>1, <3>1
  <2>3. CASE Finishes
    BY <2>1, <2>3, FinishesParts
  <2>4. CASE Moves \/ Leaves \/ Rests
    BY <2>1, <2>4 DEF Moves, Leaves, Rests
  <2>5. QED
    BY <2>2, <2>3, <2>4 DEF Steps
<1>6. QED
  BY <1>2, <1>3, <1>4, <1>5 DEF TypeOK

LEMMA InitParts ==
  ASSUME Init
  PROVE  /\ stack \in Seq(FrameType) /\ Len(stack) = 1
         /\ stack[1].kind = "root" /\ stack[1].start = 0
         /\ stack[1].depth = 0 /\ stack[1].items = <<>>
<1>1. program \in ProgramType /\ program.entry \in Block
  BY ProgramAssumption DEF Init, ProgramType
<1> DEFINE root == Root(program.entry)
<1>2. /\ root \in FrameType /\ root.kind = "root" /\ root.start = 0
      /\ root.depth = 0 /\ root.items = <<>>
  BY <1>1, RootTyped
<1>3. stack = <<root>>
  BY DEF Init
<1> HIDE DEF root
<1>4. stack \in Seq(FrameType) /\ Len(stack) = 1 /\ stack[1] = root
  BY <1>2, <1>3
<1>5. QED
  BY <1>2, <1>4

LEMMA InitTyped == Init => TypeOK
<1>1. SUFFICES ASSUME Init PROVE TypeOK
  OBVIOUS
<1>2. program \in ProgramType
  BY <1>1, ProgramAssumption DEF Init
<1>3. output \in Seq(Piece)
  BY <1>1 DEF Init
<1>4. QED
  BY <1>1, <1>2, <1>3, InitParts DEF Init, TypeOK

LEMMA InitNests == Init => FragmentsNest
<1>1. SUFFICES ASSUME Init PROVE FragmentsNest
  OBVIOUS
<1>2. output = <<>> /\ Len(output) = 0 /\ MaxHtmlBytes \in Nat
  BY <1>1, LimitAssumption DEF Init
<1>3. DOMAIN stack = {1} /\ stack[1].start = 0
  BY <1>1, InitParts
<1>4. QED
  BY <1>2, <1>3 DEF FragmentsNest

\* Types.  The restyled fragment of a call is cut off at its start, so its type
\* depends on the nesting of the fragments.
LEMMA TypedAndNested == Spec => [](TypeOK /\ FragmentsNest)
<1>1. Init => TypeOK /\ FragmentsNest
  BY InitTyped, InitNests
<1>2. (TypeOK /\ FragmentsNest) /\ [Next]_vars => (TypeOK /\ FragmentsNest)'
  BY NextSteps, TypesKept, NestKept
<1>3. QED
  BY <1>1, <1>2, PTL DEF Spec

\* Every step of a rendering leaves the state well typed (renderer.cpp:40-455).
THEOREM TypeCorrect == Spec => []TypeOK
BY TypedAndNested, PTL

-----------------------------------------------------------------------------
(***************************************************************************)
(* Depth: what each active call carries, told by the call below it.        *)
(***************************************************************************)
DepthsChain ==
  \A i \in DOMAIN stack :
    /\ stack[i].depth <= MaxExpansionDepth
    /\ stack[i].kind = "call" => i > 1 /\ stack[i].depth = stack[i - 1].depth + 1
    /\ stack[i].kind # "call" => stack[i].depth = IF i = 1 THEN 0 ELSE stack[i - 1].depth

LEMMA DepthsKept == ASSUME TypeOK, DepthsChain, Steps PROVE DepthsChain'
<1>1. /\ stack \in Seq(FrameType) /\ Len(stack) \in Nat /\ DOMAIN stack = 1..Len(stack)
      /\ \A i \in DOMAIN stack : stack[i].depth \in Nat
      /\ MaxExpansionDepth \in Nat
  BY FrameFields, LimitAssumption DEF TypeOK
<1>2. CASE Moves
  <2>1. /\ DOMAIN stack' = 1..Len(stack)
        /\ \A i \in DOMAIN stack : stack'[i].kind = stack[i].kind /\ stack'[i].depth = stack[i].depth
    BY <1>1, <1>2, MovesParts DEF Alike
  <2>2. \A i \in DOMAIN stack : i # 1 => i - 1 \in DOMAIN stack
    BY <1>1
  <2>3. QED
    BY <1>1, <2>1, <2>2 DEF DepthsChain
<1>3. CASE Enters
  <2>1. /\ DOMAIN stack' = 1..(Len(stack) + 1) /\ Len(stack) >= 1
        /\ \A i \in DOMAIN stack : stack'[i].kind = stack[i].kind /\ stack'[i].depth = stack[i].depth
    <3>1. stack # <<>>
      BY <1>3 DEF Enters
    <3>2. /\ stack' \in Seq(FrameType) /\ Len(stack') = Len(stack) + 1
          /\ \A i \in DOMAIN stack : Alike(stack'[i], stack[i])
      BY <1>3, EntersParts
    <3>3. Len(stack) >= 1
      BY <1>1, <3>1
    <3>4. DOMAIN stack' = 1..(Len(stack) + 1)
      BY <3>2
    <3>5. \A i \in DOMAIN stack : stack'[i].kind = stack[i].kind /\ stack'[i].depth = stack[i].depth
      BY <3>2 DEF Alike
    <3>6. QED
      BY <3>3, <3>4, <3>5
  <2>2. \A i \in DOMAIN stack : i # 1 => i - 1 \in DOMAIN stack
    BY <1>1
  <2> DEFINE n == Len(stack) + 1
  <2>3. /\ stack'[n].kind = "call" => Top.depth < MaxExpansionDepth /\ stack'[n].depth = Top.depth + 1
        /\ stack'[n].kind # "call" => stack'[n].depth = Top.depth
    BY <1>3, EntersParts
  <2>4. /\ n - 1 = Len(stack) /\ n > 1 /\ n # 1 /\ n - 1 \in DOMAIN stack
        /\ Top = stack[n - 1] /\ Top.depth \in Nat
    BY <1>1, <2>1 DEF Top
  <2>5. stack'[n - 1].depth = Top.depth /\ Top.depth <= MaxExpansionDepth
    BY <2>1, <2>4 DEF DepthsChain
  <2>6. \A i \in DOMAIN stack' : i \in DOMAIN stack \/ i = n
    BY <1>1, <2>1
  <2>7. ASSUME NEW i \in DOMAIN stack
        PROVE  /\ stack'[i].depth <= MaxExpansionDepth
               /\ stack'[i].kind = "call" => i > 1 /\ stack'[i].depth = stack'[i - 1].depth + 1
               /\ stack'[i].kind # "call" => stack'[i].depth = IF i = 1 THEN 0 ELSE stack'[i - 1].depth
    BY <1>1, <2>1, <2>2, <2>7 DEF DepthsChain
  <2> HIDE DEF n
  <2>8. /\ stack'[n].depth <= MaxExpansionDepth
        /\ stack'[n].kind = "call" => n > 1 /\ stack'[n].depth = stack'[n - 1].depth + 1
        /\ stack'[n].kind # "call" => stack'[n].depth = IF n = 1 THEN 0 ELSE stack'[n - 1].depth
    BY <1>1, <2>3, <2>4, <2>5
  <2>9. QED
    BY <2>6, <2>7, <2>8 DEF DepthsChain
<1>4. CASE Leaves
  <2>1. /\ DOMAIN stack' = 1..(Len(stack) - 1)
        /\ \A i \in 1..(Len(stack) - 1) : stack'[i] = stack[i]
    BY <1>1, <1>4, LeavesParts
  <2>2. \A i \in DOMAIN stack' : i \in DOMAIN stack /\ (i # 1 => i - 1 \in DOMAIN stack')
    BY <1>1, <2>1
  <2>3. QED
    BY <1>1, <2>1, <2>2 DEF DepthsChain
<1>5. CASE Finishes
  <2>1. /\ DOMAIN stack' \subseteq {1}
        /\ 1 \in DOMAIN stack' => stack'[1].kind = "root" /\ stack'[1].depth = 0
    BY <1>5, FinishesParts
  <2>2. QED
    BY <1>1, <2>1 DEF DepthsChain
<1>6. CASE Rests
  BY <1>6 DEF Rests, DepthsChain
<1>7. QED
  BY <1>2, <1>3, <1>4, <1>5, <1>6 DEF Steps

LEMMA ChainCounts == ASSUME TypeOK, DepthsChain PROVE DepthExact
<1> DEFINE n == Len(stack)
           calls(i) == {j \in 1..i : stack[j].kind = "call"}
           S == {i \in Nat : i + 1 > n \/ Cardinality(calls(i + 1)) = stack[i + 1].depth}
<1>1. SUFFICES ASSUME stack # <<>>
               PROVE  Top.depth = Cardinality(Calls) /\ Top.depth <= MaxExpansionDepth
  BY DEF DepthExact
<1>2. /\ n \in Nat /\ n >= 1 /\ DOMAIN stack = 1..n
      /\ \A i \in 1..n : stack[i].depth \in Nat
  BY <1>1, FrameFields DEF TypeOK
<1>3. 0 \in S
  <2>1. 1 \in 1..n
    BY <1>2
  <2>2. stack[1].kind # "call" /\ stack[1].depth = 0
    BY <1>2, <2>1 DEF DepthsChain
  <2>3. calls(1) = {}
    BY <2>2
  <2>4. Cardinality(calls(1)) = 0
    BY <2>3, FS_EmptySet
  <2>5. QED
    BY <2>2, <2>4
<1>4. ASSUME NEW i \in 0..(n - 1), i \in S PROVE i + 1 \in S
  <2>1. i \in Nat /\ i + 1 \in Nat /\ (i + 1) + 1 = i + 2
    BY <1>2
  <2>2. CASE i + 2 > n
    BY <2>1, <2>2
  <2>3. CASE i + 2 <= n
    <3>1. Cardinality(calls(i + 1)) = stack[i + 1].depth
      BY <1>2, <1>4, <2>1, <2>3
    <3>2. IsFiniteSet(calls(i + 1))
      <4>1. IsFiniteSet(1..(i + 1))
        BY <2>1, FS_Interval
      <4>2. QED
        BY <4>1, FS_Subset
    <3>3. i + 2 \in 1..n /\ (i + 2) - 1 = i + 1 /\ i + 2 # 1 /\ i + 1 \in 1..n
      BY <1>2, <2>1, <2>3
    <3>4. i + 2 \notin calls(i + 1)
      BY <2>1
    <3>5. CASE stack[i + 2].kind = "call"
      <4>1. calls(i + 2) = calls(i + 1) \cup {i + 2}
        BY <2>1, <3>5
      <4>2. Cardinality(calls(i + 2)) = Cardinality(calls(i + 1)) + 1
        <5> HIDE DEF calls
        <5>1. QED
          BY <3>2, <3>4, <4>1, FS_AddElement
      <4>3. stack[i + 2].depth = stack[i + 1].depth + 1
        BY <1>2, <3>3, <3>5 DEF DepthsChain
      <4>4. QED
        BY <2>1, <3>1, <4>2, <4>3
    <3>6. CASE stack[i + 2].kind # "call"
      <4>1. calls(i + 2) = calls(i + 1)
        BY <2>1, <3>6
      <4>2. stack[i + 2].depth = stack[i + 1].depth
        BY <1>2, <3>3, <3>6 DEF DepthsChain
      <4>3. QED
        BY <2>1, <3>1, <4>1, <4>2
    <3>7. QED
      BY <3>5, <3>6
  <2>4. QED
    BY <1>2, <2>1, <2>2, <2>3
<1> HIDE DEF S
<1>5. \A i \in 0..n : i \in S
  BY <1>2, <1>3, <1>4, Induction
<1>6. n - 1 \in S /\ (n - 1) + 1 = n
  BY <1>2, <1>5
<1>7. Cardinality(calls(n)) = stack[n].depth
  <2> HIDE DEF n, calls
  <2>1. (n - 1) + 1 > n \/ Cardinality(calls((n - 1) + 1)) = stack[(n - 1) + 1].depth
    BY <1>6 DEF S
  <2>2. ~((n - 1) + 1 > n)
    BY <1>2, <1>6
  <2>3. QED
    BY <1>6, <2>1, <2>2
<1>8. Calls = calls(n)
  BY <1>2 DEF Calls
<1>9. stack[n].depth <= MaxExpansionDepth
  BY <1>2 DEF DepthsChain
<1>10. QED
  BY <1>7, <1>8, <1>9 DEF Top

-----------------------------------------------------------------------------
(***************************************************************************)
(* Iterations: what the loops of a sequence of calls have yet to run.      *)
(***************************************************************************)
IsWaiting(f, calls) ==
  f = [i \in 0..Len(calls) |-> IF i = 0 THEN 0 ELSE f[i - 1] + Len(calls[i].items)]

WaitingOf(calls) == CHOOSE f : IsWaiting(f, calls)

LEMMA WaitingIs == Waiting = WaitingOf(stack)
BY Zenon DEF Waiting, WaitingOf, IsWaiting

LEMMA WaitingParts ==
  ASSUME NEW calls \in Seq(FrameType)
  PROVE  /\ WaitingOf(calls)[0] = 0
         /\ \A i \in 1..Len(calls) :
              WaitingOf(calls)[i] = WaitingOf(calls)[i - 1] + Len(calls[i].items)
         /\ \A i \in 0..Len(calls) : WaitingOf(calls)[i] \in Nat
<1> DEFINE n == Len(calls)
           step == [p \in (1..n) \X Nat |-> p[2] + Len(calls[p[1]].items)]
<1>1. n \in Nat /\ \A i \in 1..n : Len(calls[i].items) \in Nat
  BY FrameFields
<1>2. step \in [(1..n) \X Nat -> Nat]
  BY <1>1
<1>3. \A i \in 1..n, x \in Nat : step[<<i, x>>] = x + Len(calls[i].items)
  OBVIOUS
<1>4. 0 \in Nat
  OBVIOUS
<1> HIDE DEF step, n
<1>5. PICK f : IsRecursion(f, n, 0, step) /\ \A i \in 0..n : f[i] \in Nat
  BY <1>1, <1>2, <1>4, TypedRecursion
<1>6. IsWaiting(f, calls)
  <2>1. \A i \in 0..n : i # 0 => i \in 1..n /\ f[i - 1] \in Nat
    BY <1>1, <1>5
  <2>2. f = [i \in 0..n |-> IF i = 0 THEN 0 ELSE step[<<i, f[i - 1]>>]]
    BY <1>5 DEF IsRecursion
  <2>3. f = [i \in 0..n |-> IF i = 0 THEN 0 ELSE f[i - 1] + Len(calls[i].items)]
    BY <1>3, <2>1, <2>2
  <2>4. QED
    BY <2>3 DEF IsWaiting, n
<1>7. IsWaiting(WaitingOf(calls), calls)
  BY <1>6, Zenon DEF WaitingOf
<1> DEFINE g == WaitingOf(calls)
<1> HIDE DEF g
<1>8. g = [i \in 0..n |-> IF i = 0 THEN 0 ELSE g[i - 1] + Len(calls[i].items)]
  BY <1>7 DEF g, IsWaiting, n
<1>9. g[0] = 0 /\ \A i \in 1..n : g[i] = g[i - 1] + Len(calls[i].items)
  BY <1>1, <1>8
<1> DEFINE S == {i \in Nat : g[i] \in Nat}
<1>10. 0 \in S
  BY <1>9
<1>11. ASSUME NEW i \in 0..(n - 1), i \in S PROVE i + 1 \in S
  <2>1. i + 1 \in 1..n /\ (i + 1) - 1 = i /\ i + 1 \in Nat
    BY <1>1
  <2>2. g[i + 1] = g[i] + Len(calls[i + 1].items) /\ Len(calls[i + 1].items) \in Nat
    BY <1>1, <1>9, <2>1
  <2>3. QED
    BY <1>11, <2>1, <2>2
<1> HIDE DEF S
<1>12. \A i \in 0..n : i \in S
  BY <1>1, <1>10, <1>11, Induction
<1>13. \A i \in 0..n : g[i] \in Nat
  BY <1>12 DEF S
<1>14. QED
  BY <1>9, <1>13 DEF g, n

LEMMA WaitingShrinks ==
  ASSUME NEW calls \in Seq(FrameType), NEW later \in Seq(FrameType), NEW n \in Nat,
         n <= Len(calls), n <= Len(later),
         \A i \in 1..n : Len(later[i].items) <= Len(calls[i].items)
  PROVE  WaitingOf(later)[n] <= WaitingOf(calls)[n]
<1> DEFINE f == WaitingOf(calls)
           g == WaitingOf(later)
           S == {i \in Nat : g[i] <= f[i]}
<1>1. Len(calls) \in Nat /\ Len(later) \in Nat
  OBVIOUS
<1>2. /\ f[0] = 0 /\ g[0] = 0
      /\ \A i \in 1..n : f[i] = f[i - 1] + Len(calls[i].items) /\ g[i] = g[i - 1] + Len(later[i].items)
      /\ \A i \in 0..n : f[i] \in Nat /\ g[i] \in Nat
  <2>1. 1..n \subseteq 1..Len(calls) /\ 1..n \subseteq 1..Len(later)
        /\ 0..n \subseteq 0..Len(calls) /\ 0..n \subseteq 0..Len(later)
    BY <1>1
  <2>2. QED
    BY <2>1, WaitingParts
<1> HIDE DEF f, g
<1>3. 0 \in S
  BY <1>2
<1>4. ASSUME NEW i \in 0..(n - 1), i \in S PROVE i + 1 \in S
  <2>1. i + 1 \in 1..n /\ (i + 1) - 1 = i /\ i + 1 \in Nat /\ i \in 0..n
    BY <1>4
  <2>2. g[i + 1] = g[i] + Len(later[i + 1].items) /\ f[i + 1] = f[i] + Len(calls[i + 1].items)
    BY <1>2, <2>1
  <2>3. Len(later[i + 1].items) <= Len(calls[i + 1].items)
    BY <2>1
  <2>4. Len(later[i + 1].items) \in Nat /\ Len(calls[i + 1].items) \in Nat
    <3>1. later[i + 1] \in FrameType /\ calls[i + 1] \in FrameType
      BY <1>1, <2>1
    <3>2. QED
      BY <3>1, FrameFields
  <2>5. g[i] <= f[i] /\ g[i] \in Nat /\ f[i] \in Nat
    BY <1>2, <1>4, <2>1
  <2>6. QED
    BY <2>1, <2>2, <2>3, <2>4, <2>5
<1> HIDE DEF S
<1>5. \A i \in 0..n : i \in S
  BY <1>3, <1>4, Induction
<1>6. n \in S
  BY <1>5
<1>7. QED
  BY <1>6 DEF S, f, g

LEMMA ShrinksTo ==
  ASSUME TypeOK, stack' \in Seq(FrameType), NEW n \in Nat, n <= Len(stack), n <= Len(stack'),
         \A i \in 1..n : Len(stack'[i].items) <= Len(stack[i].items)
  PROVE  WaitingOf(stack')[n] <= WaitingOf(stack)[n] /\ WaitingOf(stack')[n] \in Nat
<1>1. stack \in Seq(FrameType) /\ n \in 0..Len(stack')
  BY DEF TypeOK
<1>2. WaitingOf(stack')[n] <= WaitingOf(stack)[n]
  BY <1>1, WaitingShrinks
<1>3. WaitingOf(stack')[n] \in Nat
  BY <1>1, WaitingParts
<1>4. QED
  BY <1>2, <1>3

LEMMA BudgetKept == ASSUME TypeOK, LoopBudget, Steps PROVE LoopBudget'
<1> DEFINE n == Len(stack)
<1>1. /\ stack \in Seq(FrameType) /\ n \in Nat /\ loopIterations \in Nat
      /\ MaxLoopIterations \in Nat
  BY LimitAssumption DEF TypeOK
<1>2. WaitingOf(stack)[n] <= loopIterations /\ loopIterations <= MaxLoopIterations
  BY WaitingIs DEF LoopBudget
<1>3. \A i \in 0..n : WaitingOf(stack)[i] \in Nat
  BY <1>1, WaitingParts
<1>4. SUFFICES /\ WaitingOf(stack')[Len(stack')] <= loopIterations'
               /\ loopIterations' <= MaxLoopIterations
  <2>1. Waiting' = WaitingOf(stack')
    BY Zenon DEF Waiting, WaitingOf, IsWaiting
  <2>2. QED
    BY <2>1 DEF LoopBudget
<1> DEFINE f == WaitingOf(stack)
           g == WaitingOf(stack')
<1>5. CASE Moves
  <2>1. /\ stack' \in Seq(FrameType) /\ Len(stack') = n
        /\ \A i \in 1..n : Len(stack'[i].items) <= Len(stack[i].items)
    BY <1>1, <1>5, MovesParts DEF Alike
  <2>2. g[n] <= f[n] /\ g[n] \in Nat
    BY <1>1, <2>1, ShrinksTo
  <2>3. loopIterations' = loopIterations /\ n \in 0..n
    BY <1>1, <1>5 DEF Moves
  <2> HIDE DEF f, g
  <2>4. f[n] \in Nat /\ f[n] <= loopIterations
    BY <1>2, <1>3, <2>3 DEF f
  <2>5. g[n] <= loopIterations
    BY <1>1, <2>2, <2>4
  <2>6. QED
    BY <1>2, <2>1, <2>3, <2>5 DEF g
<1>6. CASE Enters
  <2> DEFINE callee == stack'[n + 1]
  <2>1. /\ stack' \in Seq(FrameType) /\ Len(stack') = n + 1
        /\ \A i \in 1..n : Len(stack'[i].items) <= Len(stack[i].items)
    BY <1>1, <1>6, EntersParts DEF Alike
  <2>2. /\ callee \in FrameType /\ loopIterations' = loopIterations + Len(callee.items)
        /\ callee.items # <<>> => loopIterations' <= MaxLoopIterations
    BY <1>6, EntersParts
  <2>3. g[n] <= f[n] /\ g[n] \in Nat
    BY <1>1, <2>1, ShrinksTo
  <2>4. g[n + 1] = g[n] + Len(callee.items)
    <3>1. n + 1 \in 1..Len(stack') /\ (n + 1) - 1 = n
      BY <1>1, <2>1
    <3>2. QED
      BY <2>1, <3>1, WaitingParts
  <2>5. Len(callee.items) \in Nat /\ callee.items \in Seq(Item)
    BY <2>2, FrameFields
  <2>6. callee.items = <<>> => Len(callee.items) = 0
    OBVIOUS
  <2> HIDE DEF f, g, callee
  <2>7. f[n] \in Nat /\ f[n] <= loopIterations
    BY <1>1, <1>2, <1>3 DEF f
  <2>8. g[n + 1] <= loopIterations'
    BY <1>1, <2>2, <2>3, <2>4, <2>5, <2>7
  <2>9. loopIterations' <= MaxLoopIterations
    BY <1>1, <1>2, <2>2, <2>6
  <2>10. QED
    BY <2>1, <2>8, <2>9 DEF g
<1>7. CASE Leaves
  <2>1. /\ stack' \in Seq(FrameType) /\ Len(stack') = n - 1 /\ n > 1
        /\ \A i \in 1..(n - 1) : Len(stack'[i].items) <= Len(stack[i].items)
    BY <1>1, <1>7, LeavesParts DEF Alike
  <2>2. n - 1 \in Nat /\ n - 1 \in 0..n /\ n \in 1..n /\ n \in 0..n
    BY <1>1, <2>1
  <2>3. g[n - 1] <= f[n - 1] /\ g[n - 1] \in Nat
    BY <1>1, <2>1, <2>2, ShrinksTo
  <2>4. f[n] = f[n - 1] + Len(stack[n].items) /\ Len(stack[n].items) \in Nat
    BY <1>1, <2>2, WaitingParts, FrameFields
  <2>5. loopIterations' = loopIterations
    BY <1>7 DEF Leaves
  <2> HIDE DEF f, g
  <2>6. f[n] \in Nat /\ f[n - 1] \in Nat /\ f[n] <= loopIterations
    BY <1>1, <1>2, <1>3, <2>2 DEF f
  <2>7. g[n - 1] <= loopIterations
    BY <1>1, <2>3, <2>4, <2>6
  <2>8. QED
    BY <1>2, <2>1, <2>5, <2>7 DEF g
<1>8. CASE Finishes
  <2>1. /\ stack' \in Seq(FrameType) /\ Len(stack') \in {0, 1}
        /\ Len(stack') = 1 => stack'[1].items = <<>> /\ loopIterations' = 0
        /\ loopIterations' \in {loopIterations, 0}
    BY <1>8, FinishesParts
  <2>2. /\ g[0] = 0
        /\ \A i \in 1..Len(stack') : g[i] = g[i - 1] + Len(stack'[i].items)
    BY <2>1, WaitingParts
  <2>3. g[Len(stack')] = 0
    <3>1. CASE Len(stack') = 0
      BY <2>2, <3>1
    <3>2. CASE Len(stack') = 1
      <4>1. Len(stack'[1].items) = 0 /\ 1 \in 1..Len(stack') /\ 1 - 1 = 0
        BY <2>1, <3>2
      <4>2. g[1] = g[1 - 1] + Len(stack'[1].items)
        BY <2>2, <4>1
      <4> HIDE DEF g
      <4>3. g[1] = 0
        BY <2>2, <4>1, <4>2
      <4>4. QED
        BY <3>2, <4>3
    <3>3. QED
      BY <2>1, <3>1, <3>2
  <2>4. QED
    BY <1>1, <1>2, <2>1, <2>3
<1>9. CASE Rests
  BY <1>2, <1>9 DEF Rests
<1>10. QED
  BY <1>5, <1>6, <1>7, <1>8, <1>9 DEF Steps

LEMMA InitLimits == Init => DepthsChain /\ LoopBudget
<1>1. SUFFICES ASSUME Init PROVE DepthsChain /\ LoopBudget
  OBVIOUS
<1>2. /\ stack \in Seq(FrameType) /\ Len(stack) = 1
      /\ stack[1].kind = "root" /\ stack[1].depth = 0 /\ stack[1].items = <<>>
      /\ loopIterations = 0 /\ MaxLoopIterations \in Nat /\ MaxExpansionDepth \in Nat
  BY <1>1, InitParts, LimitAssumption DEF Init
<1>3. DepthsChain
  BY <1>2 DEF DepthsChain
<1>4. WaitingOf(stack)[0] = 0
      /\ WaitingOf(stack)[1] = WaitingOf(stack)[1 - 1] + Len(stack[1].items)
  <2>1. 1 \in 1..Len(stack)
    BY <1>2
  <2>2. QED
    BY <1>2, <2>1, WaitingParts
<1>5. Len(stack[1].items) = 0 /\ 1 - 1 = 0
  BY <1>2
<1> DEFINE w == WaitingOf(stack)
<1> HIDE DEF w
<1>6. w[1] = 0
  BY <1>4, <1>5 DEF w
<1>7. LoopBudget
  BY <1>2, <1>6, WaitingIs DEF LoopBudget, w
<1>8. QED
  BY <1>3, <1>7

\* Whatever the document and the components, the depth that a call carries is
\* the number of component calls it runs in, the iterations that the loops have
\* yet to run were charged to the budget, and the fragments that returns cut off
\* lie within the output (renderer.cpp:237-243, 308, 434-446).
THEOREM LimitsHold == Spec => []WithinLimits
<1> DEFINE Inv == TypeOK /\ FragmentsNest /\ DepthsChain /\ LoopBudget
<1>1. Init => Inv
  BY InitTyped, InitNests, InitLimits
<1>2. Inv /\ [Next]_vars => Inv'
  BY NextSteps, TypesKept, NestKept, DepthsKept, BudgetKept
<1>3. Inv => WithinLimits
  BY ChainCounts DEF WithinLimits
<1>4. QED
  BY <1>1, <1>2, <1>3, PTL DEF Spec

-----------------------------------------------------------------------------
\* The pieces in front of a call.
LEMMA PartKept ==
  ASSUME TypeOK, NEW start \in Nat, NEW end \in Nat, start <= end, end <= Len(output), Writes(end)
  PROVE  SubSeq(output', 1, start) = SubSeq(output, 1, start)
<1>1. output \in Seq(Piece) /\ output' \in Seq(Piece) /\ Len(output) \in Nat /\ Len(output') \in Nat
      /\ start <= Len(output) /\ start <= Len(output')
  BY DEF TypeOK, Writes
<1>2. /\ SubSeq(output, 1, start) = [i \in 1..start |-> output[i]]
      /\ SubSeq(output', 1, start) = [i \in 1..start |-> output'[i]]
  BY <1>1
<1>3. \A i \in 1..start : output'[i] = output[i]
  BY DEF Writes
<1>4. QED
  BY <1>2, <1>3

\* No call changes what was written before it: a styled call gives its attribute
\* to a tag of its own fragment, and a write past the limit drops nothing that
\* was there (renderer.cpp:61-70, 434-446).
THEOREM CallsKeepWhatIsWritten == Spec => WrittenIsKept
<1> DEFINE Kept == phase' = phase =>
             \A i \in DOMAIN stack \cap DOMAIN stack' :
               /\ stack'[i].start = stack[i].start
               /\ SubSeq(output', 1, stack[i].start) = SubSeq(output, 1, stack[i].start)
<1>1. ASSUME TypeOK, FragmentsNest, [Next]_vars PROVE [Kept]_vars
  <2>1. SUFFICES ASSUME phase' = phase, NEW i \in DOMAIN stack, i \in DOMAIN stack'
                 PROVE  /\ stack'[i].start = stack[i].start
                        /\ SubSeq(output', 1, stack[i].start) = SubSeq(output, 1, stack[i].start)
    OBVIOUS
  <2>2. /\ stack \in Seq(FrameType) /\ DOMAIN stack = 1..Len(stack) /\ Len(stack) \in Nat
        /\ stack[i].start \in Nat /\ Len(output) \in Nat /\ stack[i].start <= Len(output)
    BY <1>1, FrameFields DEF TypeOK, FragmentsNest
  <2>3. CASE Moves
    <3>1. stack'[i].start = stack[i].start
      BY <1>1, <2>3, MovesParts DEF Alike
    <3>2. Writes(Len(output))
      BY <2>3 DEF Moves
    <3> DEFINE start == stack[i].start
    <3>3. start \in Nat /\ start <= Len(output) /\ Len(output) \in Nat
      BY <2>2
    <3> HIDE DEF start
    <3>4. SubSeq(output', 1, start) = SubSeq(output, 1, start)
      BY <1>1, <3>2, <3>3, PartKept
    <3>5. QED
      BY <3>1, <3>4 DEF start
  <2>4. CASE Enters
    BY <1>1, <2>4, EntersParts DEF Alike, Enters
  <2>5. CASE Leaves
    <3>1. /\ stack'[i].start = stack[i].start /\ Len(stack) \in DOMAIN stack /\ i <= Len(stack)
      BY <1>1, <2>1, <2>2, <2>5, LeavesParts
    <3>2. stack[i].start <= Top.start /\ Top.start <= Len(output) /\ Top.start \in Nat
      <4>1. Top = stack[Len(stack)] /\ Top \in FrameType
        BY <2>2, <3>1 DEF Top
      <4>2. Top.start \in Nat
        BY <4>1, FrameFields
      <4>3. stack[i].start <= Top.start /\ Top.start <= Len(output)
        BY <1>1, <3>1, <4>1 DEF FragmentsNest
      <4>4. QED
        BY <4>2, <4>3
    <3>3. Writes(Top.start)
      BY <2>5 DEF Leaves
    <3>4. QED
      BY <1>1, <2>2, <3>1, <3>2, <3>3, PartKept
  <2>6. CASE Finishes
    <3>1. Len(stack') = 1
      BY <1>1, <2>1, <2>6, FinishesParts
    <3>2. QED
      BY <1>1, <2>1, <2>6, <3>1, FinishesParts
  <2>7. CASE Rests
    BY <2>7 DEF Rests
  <2>8. QED
    BY <1>1, <2>3, <2>4, <2>5, <2>6, <2>7, NextSteps DEF Steps
<1>2. QED
  BY <1>1, TypedAndNested, PTL DEF Spec, WrittenIsKept

-----------------------------------------------------------------------------
(***************************************************************************)
(* What a document says is well defined.                                   *)
(***************************************************************************)
Out == Seq(Piece) \cup {None}
Slots == [Slot -> Content \cup {None}]

\* Pieces and their absence, the parts of work, the values of arguments and props.
LEMMA NoneIsNoOutput == None \notin Seq(Piece)
BY MarkerAssumption DEF Piece

LEMMA ContentParts ==
  ASSUME NEW slots \in Slots, NEW s \in Slot, slots[s] # None
  PROVE  slots[s].nodes \in Seq(NodeType) /\ slots[s].env \in Scope
BY DEF Slots, Content

LEMMA WorkParts ==
  ASSUME NEW w \in Work
  PROVE  /\ w.nodes \in Seq(NodeType) /\ w.next \in Nat \ {0} /\ w.env \in Scope /\ w.slots \in Slots
         /\ w.variable \in Name \cup {None} /\ w.items \in Seq(Item) /\ Len(w.nodes) \in Nat
         /\ w.next <= Len(w.nodes) => w.nodes[w.next] \in NodeType
BY DEF Work, Slots

LEMMA RemainingTyped ==
  ASSUME NEW nodes \in Seq(NodeType), NEW next \in Nat \ {0}, NEW env \in Scope, NEW slots \in Slots,
         NEW variable \in Name \cup {None}, NEW items \in Seq(Item)
  PROVE  Remaining(nodes, next, env, slots, variable, items) \in Work
BY DEF Remaining, Work, Slots

LEMMA AllOfTyped ==
  ASSUME NEW nodes \in Seq(NodeType), NEW env \in Scope, NEW slots \in Slots
  PROVE  AllOf(nodes, env, slots) \in Work
<1>1. <<>> \in Seq(Item) /\ 1 \in Nat \ {0}
  OBVIOUS
<1>2. QED
  BY <1>1, RemainingTyped DEF AllOf

LEMMA EachOfTyped ==
  ASSUME TypeOK, NEW node \in NodeType, node.kind = "for", NEW env \in Scope, NEW slots \in Slots,
         NEW items \in Seq(Item)
  PROVE  EachOf(node, env, slots, items) \in Work
<1>1. Body(node.body) \in Seq(NodeType) /\ node.variable \in Name
      /\ Len(Body(node.body)) + 1 \in Nat \ {0}
  BY NodeFields, ProgramParts
<1>2. QED
  BY <1>1, RemainingTyped DEF EachOf

\* The first argument of a name.
LEMMA FirstNamed ==
  ASSUME NEW arguments \in Seq(Argument), NEW name \in Named(arguments), NEW env
  PROVE  \E k \in 1..Len(arguments) :
           /\ arguments[k].name = name /\ \A j \in 1..(k - 1) : arguments[j].name # name
           /\ Argued(arguments, name, env) = Evaluate(arguments[k].of, env)
<1> DEFINE ks == {k \in DOMAIN arguments : arguments[k].name = name}
           k == CHOOSE k \in ks : \A j \in ks : k <= j
<1>1. ks \subseteq Nat /\ ks # {} /\ DOMAIN arguments = 1..Len(arguments) /\ Len(arguments) \in Nat
  BY DEF Named
<1>2. k \in ks /\ \A j \in ks : k <= j
  <2>1. \E m \in ks : \A j \in ks : m <= j
    <3> HIDE DEF ks
    <3>1. QED
      BY <1>1, Least
  <2>2. QED
    BY <2>1
<1>3. Argued(arguments, name, env) = Evaluate(arguments[k].of, env)
  BY DEF Argued
<1>4. \A j \in 1..(k - 1) : arguments[j].name # name
  <2>1. SUFFICES ASSUME NEW j \in 1..(k - 1), arguments[j].name = name PROVE FALSE
    OBVIOUS
  <2>2. j \in ks /\ k \in 1..Len(arguments)
    BY <1>1, <1>2, <2>1
  <2>3. k <= j
    BY <1>2, <2>2
  <2>4. QED
    BY <2>1, <2>2, <2>3
<1>5. k \in 1..Len(arguments) /\ arguments[k].name = name
  BY <1>1, <1>2
<1> HIDE DEF k
<1>6. QED
  BY <1>3, <1>4, <1>5

LEMMA ArguedTyped ==
  ASSUME TypeOK, NEW arguments \in Seq(Argument), NEW name \in Named(arguments), NEW env \in Scope
  PROVE  Argued(arguments, name, env) \in Value \cup {Unset}
<1>1. PICK k \in 1..Len(arguments) : Argued(arguments, name, env) = Evaluate(arguments[k].of, env)
  BY FirstNamed
<1>2. arguments[k] \in Argument
  OBVIOUS
<1>3. QED
  BY <1>1, <1>2, EvaluateTyped DEF Argument

LEMMA GivenBindings ==
  ASSUME TypeOK, NEW arguments \in Seq(Argument), NEW env \in Scope
  PROVE  Given(arguments, env) \in Bindings
<1>1. env.props \in Bindings
  BY DEF Scope
<1>2. QED
  BY <1>1, ArguedTyped DEF Given, Bindings

LEMMA DefaultedTyped ==
  ASSUME TypeOK, NEW prop \in Prop, NEW locals \in Bindings, NEW props \in Bindings
  PROVE  Defaulted(prop, locals, props) \in Bindings
<1> DEFINE value == IF prop.otherwise = None THEN Unset
                    ELSE Evaluate(prop.otherwise, [locals |-> locals, props |-> props])
<1>1. prop.name \in Name /\ prop.otherwise \in Expression \cup {None}
  BY DEF Prop
<1>2. [locals |-> locals, props |-> props] \in Scope
  BY DEF Scope
<1>3. value \in Value \cup {Unset}
  BY <1>1, <1>2, EvaluateTyped
<1>4. Defaulted(prop, locals, props) \in {props, [props EXCEPT ![prop.name] = value]}
  BY DEF Defaulted
<1> HIDE DEF value
<1>5. QED
  BY <1>1, <1>3, <1>4 DEF Bindings

\* The run of the defaults.
LEMMA PropsParts ==
  ASSUME TypeOK, NEW definition \in Definition, NEW arguments \in Seq(Argument), NEW env \in Scope
  PROVE  \E f :
           /\ \A i \in 0..Len(definition.props) : f[i] \in Bindings
           /\ f[0] = Given(arguments, env)
           /\ \A i \in 1..Len(definition.props) :
                f[i] = Defaulted(definition.props[i], env.locals, f[i - 1])
           /\ PropsOf(definition, arguments, env) = f[Len(definition.props)]
<1> DEFINE n == Len(definition.props)
           a == Given(arguments, env)
           P(f) == f = [i \in 0..n |-> IF i = 0 THEN a
                                       ELSE Defaulted(definition.props[i], env.locals, f[i - 1])]
           step == [p \in (1..n) \X Bindings |-> Defaulted(definition.props[p[1]], env.locals, p[2])]
<1>1. definition.props \in Seq(Prop) /\ env.locals \in Bindings /\ a \in Bindings
  BY GivenBindings DEF Definition, Scope
<1>2. n \in Nat /\ \A i \in 1..n : definition.props[i] \in Prop
  BY <1>1
<1>3. step \in [(1..n) \X Bindings -> Bindings]
  BY <1>1, <1>2, DefaultedTyped
<1>4. \A i \in 1..n, x \in Bindings : step[<<i, x>>] = Defaulted(definition.props[i], env.locals, x)
  OBVIOUS
<1>5. PropsOf(definition, arguments, env) = (CHOOSE f : P(f))[n]
  BY Zenon DEF PropsOf
<1> HIDE DEF n, a, step
<1>6. PICK f : IsRecursion(f, n, a, step) /\ \A i \in 0..n : f[i] \in Bindings
  BY <1>1, <1>2, <1>3, TypedRecursion
<1>7. P(f)
  <2>1. \A i \in 0..n : i # 0 => i \in 1..n /\ f[i - 1] \in Bindings
    BY <1>2, <1>6
  <2>2. f = [i \in 0..n |-> IF i = 0 THEN a ELSE step[<<i, f[i - 1]>>]]
    BY <1>6 DEF IsRecursion
  <2>3. QED
    BY <1>4, <2>1, <2>2
<1>8. P(CHOOSE g : P(g))
  BY <1>7, Zenon
<1>9. PICK g : P(g) /\ PropsOf(definition, arguments, env) = g[n]
  BY <1>5, <1>8, Zenon
<1>10. g[0] = a /\ \A i \in 1..n : g[i] = Defaulted(definition.props[i], env.locals, g[i - 1])
  BY <1>2, <1>9
<1> DEFINE S == {i \in Nat : g[i] \in Bindings}
<1>11. 0 \in S
  BY <1>1, <1>10
<1>12. ASSUME NEW i \in 0..(n - 1), i \in S PROVE i + 1 \in S
  <2>1. i + 1 \in 1..n /\ (i + 1) - 1 = i /\ i + 1 \in Nat
    BY <1>2
  <2>2. g[i + 1] = Defaulted(definition.props[i + 1], env.locals, g[i])
    BY <1>10, <2>1
  <2>3. QED
    BY <1>1, <1>2, <1>12, <2>1, <2>2, DefaultedTyped
<1> HIDE DEF S
<1>13. \A i \in 0..n : i \in S
  BY <1>2, <1>11, <1>12, Induction
<1>14. \A i \in 0..n : g[i] \in Bindings
  BY <1>13 DEF S
<1>15. QED
  BY <1>9, <1>10, <1>14 DEF n, a

LEMMA PropsOfTyped ==
  ASSUME TypeOK, NEW definition \in Definition, NEW arguments \in Seq(Argument), NEW env \in Scope
  PROVE  PropsOf(definition, arguments, env) \in Bindings
<1>1. Len(definition.props) \in 0..Len(definition.props)
  BY DEF Definition
<1>2. QED
  BY <1>1, PropsParts

\* Joining and styling keep what is not output not output.
LEMMA StyledTyped == ASSUME NEW pieces \in Out, NEW style PROVE Styled(pieces, style) \in Out
<1>1. pieces # None => Restyled(pieces, style) \in Seq(Piece)
  BY RestyledTyped DEF Out
<1>2. QED
  BY <1>1 DEF Styled, Out

LEMMA ThenParts ==
  ASSUME NEW a, NEW b
  PROVE  /\ Then(a, b) \in Out
         /\ Then(a, b) # None => a \in Seq(Piece) /\ b \in Seq(Piece) /\ Then(a, b) = a \o b
BY DEF Then, Out

\* What a component's body is rendered with.
Inside(definition, node, env) ==
  AllOf(Body(definition.body),
        [locals |-> env.locals, props |-> PropsOf(definition, node.arguments, env)],
        Filled(Body(node.children), env))
CallFits(definition, node, env) ==
  /\ ArgumentsFit(definition, node.arguments, env)
  /\ PropsFit(definition, node.arguments, env)
  /\ SlotsFit(definition, node, env)

LEMMA InsideTyped ==
  ASSUME TypeOK, NEW node \in NodeType, node.kind = "call", NEW env \in Scope,
         NEW definition \in Definition
  PROVE  Inside(definition, node, env) \in Work
<1>1. /\ node.arguments \in Seq(Argument) /\ Body(node.children) \in Seq(NodeType)
      /\ definition.body \in Block
  BY NodeFields, ProgramParts DEF Definition
<1>2. Body(definition.body) \in Seq(NodeType) /\ Filled(Body(node.children), env) \in Slots
  BY <1>1, ProgramParts, FilledTyped DEF Slots
<1>3. [locals |-> env.locals, props |-> PropsOf(definition, node.arguments, env)] \in Scope
  <2>1. PropsOf(definition, node.arguments, env) \in Bindings /\ env.locals \in Bindings
    BY <1>1, PropsOfTyped DEF Scope
  <2>2. QED
    BY <2>1 DEF Scope
<1> DEFINE scope == [locals |-> env.locals, props |-> PropsOf(definition, node.arguments, env)]
<1> HIDE DEF scope
<1>4. AllOf(Body(definition.body), scope, Filled(Body(node.children), env)) \in Work
  BY <1>2, <1>3, AllOfTyped DEF scope
<1>5. QED
  BY <1>4 DEF Inside, scope

\* A node needs one thing more at most, and is nothing without it.
Needs(F, w) ==
  \A all, other \in [Work -> Out] :
    /\ F[all] \in Out
    /\ all[w] = None \/ all[w] = other[w] => F[all] = None \/ F[all] = F[other]

LEMMA NeedsNothing ==
  ASSUME NEW F, NEW r \in Out, \A all \in [Work -> Out] : F[all] = r, NEW w
  PROVE  Needs(F, w)
BY DEF Needs

LEMMA NeedsIt ==
  ASSUME NEW F, NEW w \in Work, \A all \in [Work -> Out] : F[all] = all[w]
  PROVE  Needs(F, w)
BY DEF Needs

LEMMA NeedsStyled ==
  ASSUME NEW F, NEW w \in Work, NEW style, \A all \in [Work -> Out] : F[all] = Styled(all[w], style)
  PROVE  Needs(F, w)
<1>1. Styled(None, style) = None
  BY DEF Styled
<1>2. ASSUME NEW all \in [Work -> Out] PROVE F[all] \in Out
  BY StyledTyped
<1>3. QED
  BY <1>1, <1>2 DEF Needs

LEMMA NodeNeeds ==
  ASSUME TypeOK, NEW document \in Out, NEW node \in NodeType, NEW env \in Scope, NEW slots \in Slots
  PROVE  \E w \in Work :
           Needs([all \in [Work -> Out] |-> NodeRendering(all, document, node, env, slots)], w)
<1> DEFINE F == [all \in [Work -> Out] |-> NodeRendering(all, document, node, env, slots)]
<1>1. None \in Out /\ <<>> \in Out /\ <<>> \in Seq(NodeType)
  BY DEF Out
<1>2. PICK w0 \in Work : TRUE
  BY <1>1, AllOfTyped
<1>3. ASSUME NEW all \in [Work -> Out] PROVE F[all] = NodeRendering(all, document, node, env, slots)
  OBVIOUS
<1>4. SUFFICES \E w \in Work : Needs(F, w)
  OBVIOUS
<1> HIDE DEF F
<1>5. CASE node.kind = "text"
  <2>1. \A all \in [Work -> Out] : F[all] = <<"text">>
    BY <1>3, <1>5 DEF NodeRendering
  <2>2. <<"text">> \in Out
    BY DEF Out, Piece
  <2>3. QED
    BY <1>2, <2>1, <2>2, NeedsNothing
<1>6. CASE node.kind = "expression"
  <2> DEFINE r == IF Evaluate(node.of, env) \in Emittable THEN <<Evaluate(node.of, env)>> ELSE None
  <2>1. \A all \in [Work -> Out] : F[all] = r
    BY <1>3, <1>6 DEF NodeRendering
  <2>2. r \in Out
    BY ValueAssumption DEF Out, Piece
  <2> HIDE DEF r
  <2>3. QED
    BY <1>2, <2>1, <2>2, NeedsNothing
<1>7. CASE node.kind = "if"
  <2> DEFINE b == IF Evaluate(node.of, env) \in Truthy THEN node.then ELSE node.else
             w == AllOf(Body(b), env, slots)
  <2>1. w \in Work
    <3>1. Body(b) \in Seq(NodeType)
      BY <1>7, NodeFields, ProgramParts
    <3>2. QED
      BY <3>1, AllOfTyped
  <2>2. \A all \in [Work -> Out] : F[all] = IF Evaluate(node.of, env) = Unset THEN None ELSE all[w]
    BY <1>3, <1>7 DEF NodeRendering
  <2> HIDE DEF w
  <2>3. CASE Evaluate(node.of, env) = Unset
    <3>1. \A all \in [Work -> Out] : F[all] = None
      BY <2>2, <2>3
    <3>2. QED
      BY <1>1, <2>1, <3>1, NeedsNothing
  <2>4. CASE Evaluate(node.of, env) # Unset
    <3>1. \A all \in [Work -> Out] : F[all] = all[w]
      BY <2>2, <2>4
    <3>2. QED
      BY <2>1, <3>1, NeedsIt
  <2>5. QED
    BY <2>3, <2>4
<1>8. CASE node.kind = "for"
  <2> DEFINE items == Elements[Evaluate(node.of, env)]
             w == EachOf(node, env, slots, items)
  <2>1. \A all \in [Work -> Out] : F[all] = IF Evaluate(node.of, env) = Unset THEN None
                          ELSE IF items = None THEN None ELSE all[w]
    BY <1>3, <1>8 DEF NodeRendering
  <2>2. Evaluate(node.of, env) # Unset => items \in Seq(Item) \cup {None}
    <3>1. Evaluate(node.of, env) \in Value \cup {Unset}
      BY <1>8, NodeFields, EvaluateTyped
    <3>2. QED
      BY <3>1, ValueAssumption
  <2>3. items \in Seq(Item) => w \in Work
    BY <1>8, EachOfTyped
  <2> HIDE DEF w, items
  <2>4. CASE Evaluate(node.of, env) = Unset \/ items = None
    <3>1. \A all \in [Work -> Out] : F[all] = None
      BY <2>1, <2>4
    <3>2. QED
      BY <1>1, <1>2, <3>1, NeedsNothing
  <2>5. CASE Evaluate(node.of, env) # Unset /\ items # None
    <3>1. \A all \in [Work -> Out] : F[all] = all[w]
      BY <2>1, <2>5
    <3>2. w \in Work
      BY <2>2, <2>3, <2>5
    <3>3. QED
      BY <3>1, <3>2, NeedsIt
  <2>6. QED
    BY <2>4, <2>5
<1>9. CASE node.kind = "reference"
  <2> DEFINE filled == slots[node.slot]
             w == AllOf(filled.nodes, filled.env, slots)
  <2>1. \A all \in [Work -> Out] : F[all] = IF document # None /\ node.slot = Default THEN document
                          ELSE IF filled = None THEN <<>> ELSE all[w]
    BY <1>3, <1>9 DEF NodeRendering
  <2>2. filled # None => w \in Work
    <3>1. node.slot \in Slot
      BY <1>9, NodeFields
    <3>2. filled # None => filled.nodes \in Seq(NodeType) /\ filled.env \in Scope
      BY <3>1, ContentParts
    <3>3. QED
      BY <3>2, AllOfTyped
  <2> HIDE DEF w, filled
  <2>3. CASE document # None /\ node.slot = Default
    <3>1. \A all \in [Work -> Out] : F[all] = document
      BY <2>1, <2>3
    <3>2. QED
      BY <1>2, <3>1, NeedsNothing
  <2>4. CASE ~(document # None /\ node.slot = Default) /\ filled = None
    <3>1. \A all \in [Work -> Out] : F[all] = <<>>
      BY <2>1, <2>4
    <3>2. QED
      BY <1>1, <1>2, <3>1, NeedsNothing
  <2>5. CASE ~(document # None /\ node.slot = Default) /\ filled # None
    <3>1. \A all \in [Work -> Out] : F[all] = all[w]
      BY <2>1, <2>5
    <3>2. QED
      BY <2>2, <2>5, <3>1, NeedsIt
  <2>6. QED
    BY <2>3, <2>4, <2>5
<1>10. CASE node.kind = "fill"
  <2>1. \A all \in [Work -> Out] : F[all] = None
    BY <1>3, <1>10 DEF NodeRendering
  <2>2. QED
    BY <1>1, <1>2, <2>1, NeedsNothing
<1>11. CASE node.kind = "call"
  <2> DEFINE definition == program.components[node.component]
             w == Inside(definition, node, env)
             style == StyleOf(node.arguments, env)
  <2>1. \A all \in [Work -> Out] :
          F[all] = IF definition = None THEN None
                   ELSE IF CallFits(definition, node, env) THEN Styled(all[w], style) ELSE None
    BY <1>3, <1>11 DEF NodeRendering, Inside, CallFits
  <2>2. definition # None => w \in Work
    <3>1. definition \in Definition \cup {None}
      BY <1>11, NodeFields, ProgramParts
    <3>2. QED
      BY <1>11, <3>1, InsideTyped
  <2> HIDE DEF w, style, definition
  <2>3. CASE definition = None \/ ~CallFits(definition, node, env)
    <3>1. \A all \in [Work -> Out] : F[all] = None
      BY <2>1, <2>3
    <3>2. QED
      BY <1>1, <1>2, <3>1, NeedsNothing
  <2>4. CASE definition # None /\ CallFits(definition, node, env)
    <3>1. \A all \in [Work -> Out] : F[all] = Styled(all[w], style)
      BY <2>1, <2>4
    <3>2. QED
      BY <2>2, <2>4, <3>1, NeedsStyled
  <2>5. QED
    BY <2>3, <2>4
<1>12. QED
  BY <1>5, <1>6, <1>7, <1>8, <1>9, <1>10, <1>11, NodeFields

NextNode(w) == Remaining(w.nodes, w.next + 1, w.env, w.slots, w.variable, w.items)
NextRound(w) ==
  Remaining(w.nodes, 1, Bound(w.env, w.variable, Head(w.items)), w.slots, w.variable, Tail(w.items))

\* What is left after a node, and at the start of an iteration.
LEMMA NextNodeTyped == ASSUME NEW w \in Work PROVE NextNode(w) \in Work
<1>1. w.next + 1 \in Nat \ {0}
  BY WorkParts
<1>2. QED
  BY <1>1, WorkParts, RemainingTyped DEF NextNode

LEMMA NextRoundTyped == ASSUME NEW w \in Work, w.items # <<>> PROVE NextRound(w) \in Work
<1>1. Head(w.items) \in Item /\ Tail(w.items) \in Seq(Item) /\ 1 \in Nat \ {0}
  BY WorkParts
<1>2. Bound(w.env, w.variable, Head(w.items)) \in Scope
  BY <1>1, WorkParts, BoundTyped
<1>3. QED
  BY <1>1, <1>2, WorkParts, RemainingTyped DEF NextRound

\* What work says, given what all work says.
Unfolded(document, all, w) ==
  IF w.next <= Len(w.nodes)
  THEN Then(NodeRendering(all, document, w.nodes[w.next], w.env, w.slots), all[NextNode(w)])
  ELSE IF w.items = <<>> THEN <<>> ELSE all[NextRound(w)]

\* The recursive definition, by its body.
LEMMA RenderingIs ==
  ASSUME NEW document
  PROVE  Rendering(document) = CHOOSE all : all = [w \in Work |-> Unfolded(document, all, w)]
BY Zenon DEF Rendering, Unfolded, NextNode, NextRound

\* One unfolding asks for the sayings of two works at most.
LEMMA UnfoldedNeeds ==
  ASSUME TypeOK, NEW document \in Out, NEW w \in Work
  PROVE  \E u, v \in Work : \A m, other \in [Work -> Out] :
           /\ Unfolded(document, m, w) \in Out
           /\ (m[u] = None \/ m[u] = other[u]) /\ (m[v] = None \/ m[v] = other[v])
                => \/ Unfolded(document, m, w) = None
                   \/ Unfolded(document, m, w) = Unfolded(document, other, w)
<1>1. CASE w.next <= Len(w.nodes)
  <2> DEFINE F == [all \in [Work -> Out] |-> NodeRendering(all, document, w.nodes[w.next], w.env, w.slots)]
  <2>1. w.nodes[w.next] \in NodeType /\ w.env \in Scope /\ w.slots \in Slots
    BY <1>1, WorkParts
  <2>2. PICK u \in Work : Needs(F, u)
    BY <2>1, NodeNeeds
  <2>3. ASSUME NEW m \in [Work -> Out]
        PROVE  Unfolded(document, m, w) = Then(F[m], m[NextNode(w)])
    BY <1>1 DEF Unfolded
  <2> HIDE DEF F
  <2>4. NextNode(w) \in Work
    BY NextNodeTyped
  <2>5. ASSUME NEW m \in [Work -> Out], NEW other \in [Work -> Out]
        PROVE  /\ Unfolded(document, m, w) \in Out
               /\ (m[u] = None \/ m[u] = other[u])
                    /\ (m[NextNode(w)] = None \/ m[NextNode(w)] = other[NextNode(w)])
                  => \/ Unfolded(document, m, w) = None
                     \/ Unfolded(document, m, w) = Unfolded(document, other, w)
    <3>1. m[u] = None \/ m[u] = other[u] => F[m] = None \/ F[m] = F[other]
      BY <2>2 DEF Needs
    <3>2. Then(F[m], m[NextNode(w)]) \in Out
      BY ThenParts
    <3>3. F[m] = None \/ m[NextNode(w)] = None => Then(F[m], m[NextNode(w)]) = None
      BY NoneIsNoOutput DEF Then
    <3>4. QED
      BY <2>3, <3>1, <3>2, <3>3
  <2>6. QED
    BY <2>4, <2>5
<1>2. CASE w.next > Len(w.nodes) /\ w.items = <<>>
  <2>1. \A m : Unfolded(document, m, w) = <<>>
    BY <1>2, WorkParts DEF Unfolded
  <2>2. <<>> \in Out
    BY DEF Out
  <2>3. QED
    BY <2>1, <2>2
<1>3. CASE w.next > Len(w.nodes) /\ w.items # <<>>
  <2>1. \A m : Unfolded(document, m, w) = m[NextRound(w)]
    BY <1>3, WorkParts DEF Unfolded
  <2>2. QED
    BY <1>3, <2>1, NextRoundTyped
<1>4. w.next <= Len(w.nodes) \/ w.next > Len(w.nodes)
  BY WorkParts
<1>5. QED
  BY <1>1, <1>2, <1>3, <1>4

\* What a document says is well defined.
LEMMA RenderingUnfolds ==
  ASSUME TypeOK, NEW document \in Out
  PROVE  /\ Rendering(document) = [w \in Work |-> Unfolded(document, Rendering(document), w)]
         /\ Rendering(document) \in [Work -> Out]
<1> DEFINE U == [m \in [Work -> Out] |-> [w \in Work |-> Unfolded(document, m, w)]]
<1>1. ASSUME NEW w \in Work, NEW m \in [Work -> Out] PROVE Unfolded(document, m, w) \in Out
  BY UnfoldedNeeds
<1>2. U \in [[Work -> Out] -> [Work -> Out]]
  BY <1>1
<1>3. \A m \in [Work -> Out], w \in Work : U[m][w] = Unfolded(document, m, w)
  OBVIOUS
<1>4. \A m \in [Work -> Out] : U[m] = [w \in Work |-> Unfolded(document, m, w)]
  OBVIOUS
<1> HIDE DEF U
<1>5. ASSUME NEW w \in Work
      PROVE  AsksForTwo(U, w, Work, Out, None)
  <2>1. PICK u \in Work, v \in Work : \A m, other \in [Work -> Out] :
          Unfolded(document, m, w) \in Out
          /\ ((m[u] = None \/ m[u] = other[u]) /\ (m[v] = None \/ m[v] = other[v])
            => \/ Unfolded(document, m, w) = None
               \/ Unfolded(document, m, w) = Unfolded(document, other, w))
    BY UnfoldedNeeds
  <2>2. AsksFor(U, w, u, v, Work, Out, None)
    BY <1>3, <2>1 DEF AsksFor
  <2>3. QED
    BY <2>2 DEF AsksForTwo
<1>6. None \in Out
  BY DEF Out
<1>7. PICK g : IsFixed(g, Work, Out, U)
  BY <1>2, <1>5, <1>6, FixedPoint
<1>8. g = [w \in Work |-> Unfolded(document, g, w)]
  BY <1>4, <1>7 DEF IsFixed
<1> DEFINE R == Rendering(document)
<1>9. R = [w \in Work |-> Unfolded(document, R, w)]
  BY <1>8, RenderingIs
<1> HIDE DEF R
<1>10. ASSUME NEW w \in Work, w.next <= Len(w.nodes) \/ w.items = <<>> PROVE R[w] \in Out
  <2>1. R[w] = Unfolded(document, R, w)
    BY <1>9
  <2>2. <<>> \in Out
    BY DEF Out
  <2>3. QED
    BY <1>10, <2>1, <2>2, ThenParts DEF Unfolded
<1> DEFINE S == {n \in Nat : \A w \in Work : Len(w.items) = n => R[w] \in Out}
<1>11. 0 \in S
  <2>1. \A w \in Work : Len(w.items) = 0 => w.items = <<>>
    BY WorkParts
  <2>2. QED
    BY <1>10, <2>1
<1>12. ASSUME NEW n \in Nat, n \in S PROVE n + 1 \in S
  <2>1. SUFFICES ASSUME NEW w \in Work, Len(w.items) = n + 1, ~(w.next <= Len(w.nodes)), w.items # <<>>
                 PROVE  R[w] \in Out
    BY <1>10
  <2>2. NextRound(w) \in Work /\ Len(NextRound(w).items) = n
    <3>1. NextRound(w).items = Tail(w.items)
      BY DEF NextRound, Remaining
    <3>2. Len(Tail(w.items)) = n
      BY <2>1, WorkParts
    <3>3. QED
      BY <2>1, <3>1, <3>2, NextRoundTyped
  <2>3. R[w] = R[NextRound(w)]
    BY <1>9, <2>1 DEF Unfolded
  <2>4. QED
    BY <1>12, <2>2, <2>3
<1>13. ASSUME NEW w \in Work PROVE R[w] \in Out
  <2> DEFINE n == Len(w.items)
  <2>1. n \in Nat
    BY WorkParts
  <2> HIDE DEF S, n
  <2>2. \A i \in 0..(n - 1) : i \in S => i + 1 \in S
    BY <1>12, <2>1
  <2>3. n \in 0..n /\ \A i \in 0..n : i \in S
    BY <1>11, <2>1, <2>2, Induction
  <2>4. QED
    BY <2>3 DEF S, n
<1>14. R \in [Work -> Out]
  BY <1>9, <1>13
<1>15. QED
  BY <1>9, <1>14 DEF R

-----------------------------------------------------------------------------
(***************************************************************************)
(* What the active calls have yet to say.                                  *)
(***************************************************************************)
WorkOf(frame) ==
  Remaining(frame.nodes, frame.next, frame.env, frame.slots, frame.variable, frame.items)
LeftBy(frame) == Rendering(content)[WorkOf(frame)]

\* The output once a call has returned that has written all that is left of it.
Sealed(frame, pieces) ==
  IF pieces = None \/ frame.style = None THEN pieces
  ELSE IF frame.style \in Unresolvable THEN None
  ELSE SubSeq(pieces, 1, frame.start)
         \o Restyled(SubSeq(pieces, frame.start + 1, Len(pieces)), frame.style)
Closed(frame, pieces) == Sealed(frame, Then(pieces, LeftBy(frame)))

\* The outputs after each return, the whole one being the last.
Traced(v, whole) ==
  /\ v \in [0..Len(stack) -> Out] /\ v[Len(stack)] = output /\ v[0] = whole
  /\ \A i \in 1..Len(stack) : v[i - 1] = Closed(stack[i], v[i])

\* Joining in any order; the types of what is left and of what is closed.
LEMMA ThenAssociates ==
  ASSUME NEW a \in Out, NEW b \in Out, NEW c \in Out
  PROVE  Then(Then(a, b), c) = Then(a, Then(b, c))
<1>1. CASE a = None \/ b = None \/ c = None
  BY <1>1, NoneIsNoOutput DEF Then
<1>2. CASE a # None /\ b # None /\ c # None
  <2>1. a \in Seq(Piece) /\ b \in Seq(Piece) /\ c \in Seq(Piece)
    BY <1>2 DEF Out
  <2>2. a \o b \in Seq(Piece) /\ b \o c \in Seq(Piece) /\ (a \o b) \o c = a \o (b \o c)
    BY <2>1
  <2>3. QED
    BY <2>1, <2>2 DEF Then
<1>3. QED
  BY <1>1, <1>2

LEMMA WorkOfTyped ==
  ASSUME NEW frame \in FrameType
  PROVE  /\ WorkOf(frame) \in Work
         /\ WorkOf(frame).nodes = frame.nodes /\ WorkOf(frame).next = frame.next
         /\ WorkOf(frame).env = frame.env /\ WorkOf(frame).slots = frame.slots
         /\ WorkOf(frame).variable = frame.variable /\ WorkOf(frame).items = frame.items
<1>1. WorkOf(frame) \in Work
  BY FrameFields, RemainingTyped DEF WorkOf, Slots
<1>2. QED
  BY <1>1 DEF WorkOf, Remaining

LEMMA LeftByTyped ==
  ASSUME TypeOK, NEW frame \in FrameType
  PROVE  LeftBy(frame) \in Out /\ LeftBy(frame) = Unfolded(content, Rendering(content), WorkOf(frame))
<1>1. content \in Out
  BY DEF TypeOK, Out
<1>2. QED
  BY <1>1, WorkOfTyped, RenderingUnfolds DEF LeftBy

LEMMA ClosedTyped ==
  ASSUME TypeOK, NEW frame \in FrameType, NEW pieces \in Out, pieces = None \/ frame.start <= Len(pieces)
  PROVE  Closed(frame, pieces) \in Out
<1> DEFINE all == Then(pieces, LeftBy(frame))
<1>1. all \in Out /\ frame.start \in Nat
  BY ThenParts, FrameFields
<1>2. all # None => all \in Seq(Piece) /\ frame.start <= Len(all) /\ Len(all) \in Nat
  <2>1. SUFFICES ASSUME all # None PROVE all \in Seq(Piece) /\ frame.start <= Len(all) /\ Len(all) \in Nat
    OBVIOUS
  <2>2. pieces \in Seq(Piece) /\ LeftBy(frame) \in Seq(Piece) /\ all = pieces \o LeftBy(frame)
    BY <2>1, ThenParts
  <2>3. pieces # None
    BY <2>2, NoneIsNoOutput
  <2>4. QED
    BY <1>1, <2>2, <2>3
<1> HIDE DEF all
<1>3. all # None => /\ SubSeq(all, 1, frame.start) \in Seq(Piece)
                    /\ Restyled(SubSeq(all, frame.start + 1, Len(all)), frame.style) \in Seq(Piece)
  <2>1. all # None => /\ SubSeq(all, 1, frame.start) \in Seq(Piece)
                      /\ SubSeq(all, frame.start + 1, Len(all)) \in Seq(Piece)
    BY <1>1, <1>2
  <2>2. QED
    BY <2>1, RestyledTyped
<1>4. Sealed(frame, all) \in Out
  BY <1>1, <1>3 DEF Sealed, Out
<1>5. QED
  BY <1>4 DEF Closed, all

\* What a document says does not depend on how far its rendering is.
LEMMA RenderingSame ==
  ASSUME program' = program, NEW document PROVE Rendering(document)' = Rendering(document)
BY DEF Rendering, NodeRendering, Body, Evaluate, Lookup, Given, Defaulted, Argued, ArgumentsFit,
       PropsFit, PropsOf, SlotsFit, Filled, StyleOf, RestOf, FillsOf

LEMMA ClosedSame ==
  ASSUME program' = program, content' = content, NEW frame, NEW pieces
  PROVE  Closed(frame, pieces)' = Closed(frame, pieces)
<1>1. Rendering(content)' = Rendering(content)
  BY DEF Rendering, NodeRendering, Body, Evaluate, Lookup, Given, Defaulted, Argued, ArgumentsFit,
       PropsFit, PropsOf, SlotsFit, Filled, StyleOf, RestOf, FillsOf
<1>2. QED
  BY <1>1 DEF Closed, Sealed, LeftBy, WorkOf, Remaining, Then

\* What a step writes is what the top call had to write next.
SaidByWriting ==
  \E later \in FrameType :
    /\ later.style = Top.style /\ stack' = TopAs(later)
    /\ Closed(later, output') = Closed(Top, output)
SaidByCalling ==
  \E later, callee \in FrameType :
    /\ later.style = Top.style /\ stack' = Append(TopAs(later), callee)
    /\ output' = output /\ callee.start = Len(output)
    /\ Closed(later, Closed(callee, output)) = Closed(Top, output)
SaidByReturning == Len(stack) > 1 /\ stack' = Front(stack) /\ output' = Closed(Top, output)

Says == /\ stack # <<>> /\ UNCHANGED <<program, phase, content>>
        /\ SaidByWriting \/ SaidByCalling \/ SaidByReturning

OnTheWay(whole) == stack # <<>> /\ stack[1].style = None /\ \E v : Traced(v, whole)

\* A step that says what is next stays on the way to the whole.
LEMMA SaysOn ==
  ASSUME TypeOK, TypeOK', Says, NEW whole, OnTheWay(whole)
  PROVE  /\ stack' # <<>> /\ stack'[1].style = None
         /\ \E v : /\ v \in [0..Len(stack') -> Out] /\ v[Len(stack')] = output' /\ v[0] = whole
                   /\ \A i \in 1..Len(stack') : v[i - 1] = Closed(stack'[i], v[i])
<1> DEFINE n == Len(stack)
<1>1. /\ n \in Nat /\ n >= 1 /\ stack[n] = Top /\ Top \in FrameType
      /\ \A i \in 1..n : stack[i] \in FrameType
      /\ stack \in Seq(FrameType) /\ output' \in Out /\ output \in Out /\ output \in Seq(Piece)
  BY TopParts DEF Says, Top, TypeOK, Out
<1>2. PICK v : /\ v \in [0..n -> Out] /\ v[n] = output /\ v[0] = whole
               /\ \A i \in 1..n : v[i - 1] = Closed(stack[i], v[i])
  BY DEF OnTheWay, Traced
<1>3. v[n - 1] = Closed(Top, output)
  BY <1>1, <1>2
<1> HIDE DEF n
<1>4. CASE SaidByWriting
  <2>1. PICK later \in FrameType :
          /\ later.style = Top.style /\ stack' = TopAs(later)
          /\ Closed(later, output') = Closed(Top, output)
    BY <1>4 DEF SaidByWriting
  <2>2. /\ Len(stack') = n /\ stack'[n] = later /\ \A i \in 1..n : i # n => stack'[i] = stack[i]
    BY <1>1, <2>1 DEF TopAs, n
  <2> DEFINE w == [i \in 0..n |-> IF i = n THEN output' ELSE v[i]]
  <2>3. w \in [0..n -> Out] /\ w[n] = output' /\ w[0] = whole
    BY <1>1, <1>2
  <2>4. ASSUME NEW i \in 1..n PROVE w[i - 1] = Closed(stack'[i], w[i])
    <3>1. w[i - 1] = v[i - 1]
      BY <1>1
    <3>2. CASE i = n
      BY <1>3, <2>1, <2>2, <2>3, <3>1, <3>2
    <3>3. CASE i # n
      <4>1. w[i] = v[i] /\ stack'[i] = stack[i]
        BY <2>2, <3>3
      <4>2. QED
        BY <1>2, <3>1, <4>1
    <3>4. QED
      BY <3>2, <3>3
  <2>5. stack' # <<>> /\ stack'[1].style = None
    BY <1>1, <2>1, <2>2 DEF OnTheWay
  <2> HIDE DEF w
  <2>6. QED
    BY <2>2, <2>3, <2>4, <2>5
<1>5. CASE SaidByCalling
  <2>1. PICK later \in FrameType, callee \in FrameType :
          /\ later.style = Top.style /\ stack' = Append(TopAs(later), callee)
          /\ output' = output /\ callee.start = Len(output)
          /\ Closed(later, Closed(callee, output)) = Closed(Top, output)
    BY <1>5 DEF SaidByCalling
  <2>2. /\ Len(stack') = n + 1 /\ stack'[n] = later /\ stack'[n + 1] = callee
        /\ \A i \in 1..n : i # n => stack'[i] = stack[i]
    BY <1>1, <2>1 DEF TopAs, n
  <2>3. Closed(callee, output) \in Out
    BY <1>1, <2>1, ClosedTyped
  <2> DEFINE w == [i \in 0..(n + 1) |->
                     IF i = n + 1 THEN output' ELSE IF i = n THEN Closed(callee, output) ELSE v[i]]
  <2>4. w \in [0..(n + 1) -> Out] /\ w[n + 1] = output' /\ w[0] = whole /\ w[n] = Closed(callee, output)
    BY <1>1, <1>2, <2>3
  <2>5. ASSUME NEW i \in 1..(n + 1) PROVE w[i - 1] = Closed(stack'[i], w[i])
    <3>1. CASE i = n + 1
      BY <1>1, <2>1, <2>2, <2>4, <3>1
    <3>2. CASE i = n
      <4>1. w[n - 1] = v[n - 1]
        BY <1>1
      <4>2. QED
        BY <1>3, <2>1, <2>2, <2>4, <3>2, <4>1
    <3>3. CASE i # n /\ i # n + 1
      <4>1. i \in 1..n /\ w[i - 1] = v[i - 1] /\ w[i] = v[i]
        BY <1>1, <3>3
      <4>2. QED
        BY <1>2, <2>2, <3>3, <4>1
    <3>4. QED
      BY <3>1, <3>2, <3>3
  <2>6. stack' # <<>> /\ stack'[1].style = None
    <3>1. CASE n = 1
      BY <1>1, <2>1, <2>2, <3>1 DEF OnTheWay
    <3>2. CASE n # 1
      <4>1. 1 \in 1..n
        BY <1>1
      <4>2. QED
        BY <1>1, <2>2, <3>2, <4>1 DEF OnTheWay
    <3>3. QED
      BY <3>1, <3>2
  <2> HIDE DEF w
  <2>7. QED
    BY <2>2, <2>4, <2>5, <2>6
<1>6. CASE SaidByReturning
  <2>1. Len(stack') = n - 1 /\ n > 1 /\ \A i \in 1..(n - 1) : stack'[i] = stack[i]
    BY <1>1, <1>6 DEF SaidByReturning, Front, n
  <2> DEFINE w == [i \in 0..(n - 1) |-> v[i]]
  <2>2. w \in [0..(n - 1) -> Out] /\ w[0] = whole /\ w[n - 1] = output'
    BY <1>1, <1>2, <1>3, <1>6, <2>1 DEF SaidByReturning
  <2>3. ASSUME NEW i \in 1..(n - 1) PROVE w[i - 1] = Closed(stack'[i], w[i])
    <3>1. i \in 1..n /\ w[i - 1] = v[i - 1] /\ w[i] = v[i]
      BY <1>1
    <3>2. QED
      BY <1>2, <2>1, <3>1
  <2>4. stack' # <<>> /\ stack'[1].style = None
    BY <1>1, <2>1 DEF OnTheWay
  <2> HIDE DEF w
  <2>5. QED
    BY <2>1, <2>2, <2>3, <2>4
<1>7. QED
  BY <1>4, <1>5, <1>6 DEF Says

LEMMA StaysOnTheWay ==
  ASSUME TypeOK, TypeOK', Says, NEW whole, OnTheWay(whole)
  PROVE  OnTheWay(whole)'
<1>1. program' = program /\ content' = content
  BY DEF Says
<1>2. \A frame, pieces : Closed(frame, pieces)' = Closed(frame, pieces)
  BY <1>1, ClosedSame
<1>3. PICK v : /\ v \in [0..Len(stack') -> Out] /\ v[Len(stack')] = output' /\ v[0] = whole
               /\ \A i \in 1..Len(stack') : v[i - 1] = Closed(stack'[i], v[i])
  BY SaysOn
<1>4. QED
  BY <1>2, <1>3, SaysOn DEF OnTheWay, Traced

LEMMA SealedAs ==
  ASSUME NEW frame, NEW later, later.style = frame.style, later.start = frame.start, NEW pieces
  PROVE  Sealed(later, pieces) = Sealed(frame, pieces)
BY DEF Sealed

\* The node that is next, and then what is left without it.
LEMMA NodeFirst ==
  ASSUME TypeOK, HasNode
  PROVE  LET node == NodeRendering(Rendering(content), content, Node, Top.env, Top.slots)
             later == [Top EXCEPT !.next = Top.next + 1]
         IN /\ LeftBy(Top) = Then(node, LeftBy(later))
            /\ node \in Out /\ later \in FrameType /\ LeftBy(later) \in Out
            /\ later.style = Top.style /\ later.start = Top.start /\ Advanced = TopAs(later)
            /\ Top \in FrameType /\ output \in Seq(Piece) /\ output \in Out
            /\ Top.env \in Scope /\ Top.slots \in Slots /\ Node \in NodeType
            /\ Rendering(content) \in [Work -> Out]
<1> DEFINE node == NodeRendering(Rendering(content), content, Node, Top.env, Top.slots)
           later == [Top EXCEPT !.next = Top.next + 1]
<1>1. /\ stack # <<>> /\ Top \in FrameType /\ output \in Seq(Piece) /\ output \in Out /\ content \in Out
  BY TopParts DEF HasNode, TypeOK, Out
<1>2. /\ Top.env \in Scope /\ Top.slots \in Slots /\ Node \in NodeType /\ Top.next \in Nat \ {0}
      /\ Top.next <= Len(Top.nodes)
  BY <1>1, FrameFields, NodeTyped DEF HasNode, Slots
<1>3. later \in FrameType /\ Advanced = TopAs(later)
  BY <1>1, TopGoesOn DEF GoesOn
<1>4. later.style = Top.style /\ later.start = Top.start
  BY <1>1 DEF FrameType
<1>5. NextNode(WorkOf(Top)) = WorkOf(later)
  BY <1>1, WorkOfTyped DEF NextNode, WorkOf, FrameType
<1>6. Rendering(content) \in [Work -> Out]
  BY <1>1, RenderingUnfolds
<1>7. node \in Out
  <2> DEFINE R == Rendering(content)
  <2>1. PICK w \in Work : Needs([all \in [Work -> Out] |-> NodeRendering(all, content, Node, Top.env, Top.slots)], w)
    BY <1>1, <1>2, NodeNeeds
  <2>2. R \in [Work -> Out]
    BY <1>6
  <2> HIDE DEF R
  <2>3. NodeRendering(R, content, Node, Top.env, Top.slots) \in Out
    BY <2>1, <2>2 DEF Needs
  <2>4. QED
    BY <2>3 DEF R
<1>8. LeftBy(Top) = Then(node, LeftBy(later))
  <2> DEFINE R == Rendering(content)
  <2>1. LeftBy(Top) = Unfolded(content, R, WorkOf(Top)) /\ LeftBy(later) = R[WorkOf(later)]
    BY <1>1, LeftByTyped DEF LeftBy
  <2>2. /\ WorkOf(Top).next = Top.next /\ WorkOf(Top).nodes = Top.nodes
        /\ WorkOf(Top).env = Top.env /\ WorkOf(Top).slots = Top.slots
    BY <1>1, WorkOfTyped
  <2> HIDE DEF R, later
  <2>3. LeftBy(Top) = Then(NodeRendering(R, content, Node, Top.env, Top.slots), R[WorkOf(later)])
    BY <1>2, <1>5, <2>1, <2>2 DEF Unfolded, Node
  <2>4. QED
    BY <2>1, <2>3 DEF R
<1>9. LeftBy(later) \in Out
  BY <1>3, LeftByTyped
<1>10. QED
  BY <1>1, <1>2, <1>3, <1>4, <1>6, <1>7, <1>8, <1>9

\* A node whose pieces are appended.
LEMMA NodeWritten ==
  ASSUME TypeOK, HasNode, NEW pieces \in Seq(Piece),
         pieces = NodeRendering(Rendering(content), content, Node, Top.env, Top.slots),
         output' = output \o pieces, stack' = Advanced
  PROVE  SaidByWriting
<1> DEFINE node == NodeRendering(Rendering(content), content, Node, Top.env, Top.slots)
           later == [Top EXCEPT !.next = Top.next + 1]
<1>1. /\ LeftBy(Top) = Then(node, LeftBy(later)) /\ later \in FrameType /\ LeftBy(later) \in Out
      /\ later.style = Top.style /\ later.start = Top.start /\ Advanced = TopAs(later)
      /\ output \in Seq(Piece) /\ output \in Out
  BY NodeFirst
<1>2. node = pieces /\ pieces \in Out
  BY DEF Out
<1> HIDE DEF node, later
<1>3. Then(output, pieces) = output \o pieces
  BY <1>1 DEF Then
<1>4. Then(output', LeftBy(later)) = Then(output, LeftBy(Top))
  <2>1. Then(Then(output, node), LeftBy(later)) = Then(output, LeftBy(Top))
    BY <1>1, <1>2, ThenAssociates
  <2>2. output' = Then(output, node)
    BY <1>2, <1>3
  <2>3. QED
    BY <2>1, <2>2
<1>5. Closed(later, output') = Closed(Top, output)
  BY <1>1, <1>4, SealedAs DEF Closed
<1>6. QED
  BY <1>1, <1>5 DEF SaidByWriting

\* The fragment of a call is cut off where it was begun.
LEMMA CutAtStart ==
  ASSUME NEW a \in Seq(Piece), NEW b \in Seq(Piece)
  PROVE  /\ SubSeq(a \o b, 1, Len(a)) = a /\ SubSeq(a \o b, Len(a) + 1, Len(a \o b)) = b
OBVIOUS

\* A call that has just begun.
LEMMA ClosedFresh ==
  ASSUME TypeOK, NEW callee \in FrameType, callee.start = Len(output)
  PROVE  Closed(callee, output) = Then(output, Styled(LeftBy(callee), callee.style))
<1> DEFINE left == LeftBy(callee)
<1>1. left \in Out /\ output \in Seq(Piece)
  BY LeftByTyped DEF TypeOK
<1> HIDE DEF left
<1>2. CASE left = None
  <2>1. Then(output, None) = None /\ Styled(None, callee.style) = None
    BY NoneIsNoOutput DEF Then, Styled
  <2>2. QED
    BY <1>2, <2>1 DEF Closed, Sealed, left
<1>3. CASE left # None
  <2>1. left \in Seq(Piece) /\ Then(output, left) = output \o left /\ output \o left \in Seq(Piece)
    BY <1>1, <1>3 DEF Out, Then
  <2>2. output \o left # None
    BY <2>1, NoneIsNoOutput
  <2>3. CASE callee.style = None
    BY <2>1, <2>3 DEF Closed, Sealed, Styled, left
  <2>4. CASE callee.style # None /\ callee.style \in Unresolvable
    <3>1. Then(output, None) = None
      BY NoneIsNoOutput DEF Then
    <3>2. QED
      BY <1>3, <2>1, <2>2, <2>4, <3>1 DEF Closed, Sealed, Styled, left
  <2>5. CASE callee.style # None /\ callee.style \notin Unresolvable
    <3> DEFINE whole == output \o left
    <3>1. SubSeq(whole, 1, callee.start) = output /\ SubSeq(whole, callee.start + 1, Len(whole)) = left
      BY <1>1, <2>1, CutAtStart
    <3> HIDE DEF whole
    <3>2. Sealed(callee, whole) = output \o Restyled(left, callee.style)
      BY <2>2, <2>5, <3>1 DEF Sealed, whole
    <3>3. Restyled(left, callee.style) \in Seq(Piece)
      BY <2>1, RestyledTyped
    <3>4. Styled(left, callee.style) = Restyled(left, callee.style)
      BY <1>3, <2>5 DEF Styled
    <3>5. Closed(callee, output) = Sealed(callee, whole)
      BY <2>1 DEF Closed, whole, left
    <3>6. QED
      BY <1>1, <3>2, <3>3, <3>4, <3>5 DEF Then, left
  <2>6. QED
    BY <2>3, <2>4, <2>5
<1>4. QED
  BY <1>2, <1>3

\* A node that a call renders.
LEMMA NodeCalled ==
  ASSUME TypeOK, HasNode, NEW callee \in FrameType, callee.start = Len(output),
         Styled(LeftBy(callee), callee.style)
           = NodeRendering(Rendering(content), content, Node, Top.env, Top.slots),
         output' = output, stack' = Append(Advanced, callee)
  PROVE  SaidByCalling
<1> DEFINE node == NodeRendering(Rendering(content), content, Node, Top.env, Top.slots)
           later == [Top EXCEPT !.next = Top.next + 1]
<1>1. /\ LeftBy(Top) = Then(node, LeftBy(later)) /\ later \in FrameType /\ LeftBy(later) \in Out
      /\ later.style = Top.style /\ later.start = Top.start /\ Advanced = TopAs(later)
      /\ output \in Seq(Piece) /\ output \in Out /\ node \in Out
  BY NodeFirst
<1>2. Closed(callee, output) = Then(output, node)
  BY ClosedFresh
<1> HIDE DEF node, later
<1>3. Then(Then(output, node), LeftBy(later)) = Then(output, LeftBy(Top))
  BY <1>1, ThenAssociates
<1>4. Closed(later, Closed(callee, output)) = Closed(Top, output)
  BY <1>1, <1>2, <1>3, SealedAs DEF Closed
<1>5. QED
  BY <1>1, <1>4 DEF SaidByCalling

\* No diagnostic so far, and room for one.
Clean == errors = 0 /\ ~cancelled /\ warnings < MaxDiagnostics

\* A diagnostic for which there is room is counted.
LEMMA IssueLeaves ==
  ASSUME TypeOK, warnings < MaxDiagnostics, NEW count \in Nat, NEW n \in Nat
  PROVE  /\ Issue(count) # 0
         /\ IssueEach(count, n) = 0 => count = 0 /\ n = 0
<1>1. warnings \in Nat /\ MaxDiagnostics \in Nat
  BY ProgramParts, LimitAssumption
<1>2. QED
  BY <1>1 DEF Issue, IssueEach

LEMMA FailedLeaves ==
  ASSUME TypeOK, warnings < MaxDiagnostics, NEW e, NEW count \in Nat PROVE Failed(e, count) # 0
<1>1. Issue(count) # 0 /\ count + 1 # 0
  BY IssueLeaves
<1>2. QED
  BY <1>1 DEF Failed

\* What the two kinds of steps do that end without a diagnostic.
LEMMA CleanQuiet ==
  ASSUME NEW frames, NEW count, Quietly(frames, count), Clean'
  PROVE  /\ stack' = frames /\ count = 0 /\ UNCHANGED <<program, phase, content, output, outputLimited>>
         /\ warnings < MaxDiagnostics
BY DEF Quietly, Clean

LEMMA CleanEmits ==
  ASSUME TypeOK, ~outputLimited, Clean', NEW pieces, Emit(pieces)
  PROVE  /\ output' = output \o pieces /\ stack' = Advanced /\ ~outputLimited'
         /\ UNCHANGED <<program, phase, content>>
<1>1. errors \in Nat /\ warnings' = warnings /\ warnings < MaxDiagnostics /\ errors' = 0
  BY DEF TypeOK, Emit, Clean
<1>2. Issue(errors) # 0
  BY <1>1, IssueLeaves
<1>3. QED
  BY <1>1, <1>2 DEF Emit, AppendPieces

\* What a call of render_nodes without style, and a node that makes one, say.
LEMMA NodePassed ==
  ASSUME TypeOK, HasNode,
         <<>> = NodeRendering(Rendering(content), content, Node, Top.env, Top.slots),
         output' = output, stack' = Advanced
  PROVE  SaidByWriting
<1>1. output \in Seq(Piece) /\ <<>> \in Seq(Piece)
  BY DEF TypeOK
<1>2. output' = output \o <<>>
  BY <1>1
<1>3. QED
  BY <1>1, <1>2, NodeWritten

-----------------------------------------------------------------------------
(***************************************************************************)
(* Each action, when it issues no diagnostic, says what is next.           *)
(***************************************************************************)
LEMMA TextSays == ASSUME TypeOK, ~outputLimited, Clean', RenderText PROVE Says /\ ~outputLimited'
<1>1. HasNode /\ stack # <<>> /\ Node.kind = "text" /\ Emit(<<"text">>)
  BY DEF RenderText, Renders, HasNode
<1>2. <<"text">> = NodeRendering(Rendering(content), content, Node, Top.env, Top.slots)
  BY <1>1 DEF NodeRendering
<1>3. <<"text">> \in Seq(Piece)
  BY DEF Piece
<1>4. SaidByWriting
  BY <1>1, <1>2, <1>3, CleanEmits, NodeWritten
<1>5. QED
  BY <1>1, <1>4, CleanEmits DEF Says

LEMMA ExpressionSays ==
  ASSUME TypeOK, ~outputLimited, Clean', RenderExpression PROVE Says /\ ~outputLimited'
<1> DEFINE value == Evaluate(Node.of, Top.env)
<1>1. HasNode /\ stack # <<>> /\ Node.kind = "expression" /\ errors \in Nat
      /\ ((value \in Emittable /\ Emit(<<value>>)) \/ Quietly(Advanced, Issue(errors)))
  BY DEF RenderExpression, Renders, HasNode, TypeOK
<1> HIDE DEF value
<1>2. ~Quietly(Advanced, Issue(errors))
  BY <1>1, CleanQuiet, IssueLeaves
<1>3. <<value>> = NodeRendering(Rendering(content), content, Node, Top.env, Top.slots)
  BY <1>1, <1>2 DEF NodeRendering, value
<1>4. <<value>> \in Seq(Piece)
  <2>1. value \in Piece
    BY <1>1, <1>2, ValueAssumption DEF Piece
  <2>2. QED
    BY <2>1
<1>5. SaidByWriting
  BY <1>1, <1>2, <1>3, <1>4, CleanEmits, NodeWritten
<1>6. QED
  BY <1>1, <1>2, <1>5, CleanEmits DEF Says

\* The frame of a branch or of a slot.
LEMMA FreshFrame ==
  ASSUME TypeOK, NEW kind \in {"branch", "slot"}, NEW nodes \in Seq(NodeType), NEW env \in Scope,
         NEW slots \in Slots, NEW depth \in Nat
  PROVE  LET callee == Frame(kind, nodes, env, slots, depth)
         IN /\ callee \in FrameType /\ callee.start = Len(output) /\ callee.style = None
            /\ WorkOf(callee) = AllOf(nodes, env, slots)
            /\ Styled(LeftBy(callee), callee.style) = Rendering(content)[AllOf(nodes, env, slots)]
<1> DEFINE callee == Frame(kind, nodes, env, slots, depth)
<1>1. Len(output) \in Nat /\ slots \in [Slot -> Content \cup {None}]
  BY DEF TypeOK, Slots
<1>2. callee \in FrameType /\ callee.start = Len(output) /\ callee.style = None
  BY <1>1, FrameTyped DEF Frame
<1>3. WorkOf(callee) = AllOf(nodes, env, slots)
  BY DEF WorkOf, Frame, FrameFrom, AllOf
<1> HIDE DEF callee
<1>4. QED
  BY <1>2, <1>3 DEF Styled, LeftBy, callee

LEMMA IfSays == ASSUME TypeOK, ~outputLimited, Clean', RenderIf PROVE Says /\ ~outputLimited'
<1> DEFINE value == Evaluate(Node.of, Top.env)
           branch == IF value \in Truthy THEN Node.then ELSE Node.else
           callee == Frame("branch", Body(branch), Top.env, Top.slots, Top.depth)
<1>1. HasNode /\ stack # <<>> /\ Node.kind = "if" /\ value # Unset
      /\ Quietly(Append(Advanced, callee), errors)
  BY DEF RenderIf, Renders, HasNode
<1>2. Body(branch) \in Seq(NodeType)
  BY <1>1, NodeTyped, NodeFields, ProgramParts
<1>3. Top.env \in Scope /\ Top.slots \in Slots /\ Top.depth \in Nat
  BY <1>1, TopParts, FrameFields DEF Slots
<1>4. NodeRendering(Rendering(content), content, Node, Top.env, Top.slots)
        = Rendering(content)[AllOf(Body(branch), Top.env, Top.slots)]
  BY <1>1 DEF NodeRendering
<1> HIDE DEF branch, value
<1>5. callee \in FrameType /\ callee.start = Len(output)
      /\ Styled(LeftBy(callee), callee.style)
           = Rendering(content)[AllOf(Body(branch), Top.env, Top.slots)]
  BY <1>2, <1>3, FreshFrame
<1> HIDE DEF callee
<1>6. /\ stack' = Append(Advanced, callee)
      /\ UNCHANGED <<program, phase, content, output, outputLimited>>
  BY <1>1, CleanQuiet
<1>7. SaidByCalling
  BY <1>1, <1>4, <1>5, <1>6, NodeCalled
<1>8. QED
  BY <1>1, <1>6, <1>7 DEF Says

LEMMA ForSays == ASSUME TypeOK, ~outputLimited, Clean', RenderFor PROVE Says /\ ~outputLimited'
<1> DEFINE value == Evaluate(Node.of, Top.env)
           items == Elements[value]
           callee == LoopFrame(items)
<1>1. /\ HasNode /\ stack # <<>> /\ Node.kind = "for" /\ value # Unset /\ errors \in Nat
      /\ \/ Quietly(Advanced, Issue(errors))
         \/ /\ items # None /\ stack' = Append(Advanced, callee)
            /\ UNCHANGED <<program, phase, output, content, outputLimited>>
  BY DEF RenderFor, Renders, HasNode, TypeOK
<1>2. ~Quietly(Advanced, Issue(errors))
  BY <1>1, CleanQuiet, IssueLeaves
<1>3. /\ Node.variable \in Name /\ Body(Node.body) \in Seq(NodeType) /\ value \in Value \cup {Unset}
      /\ Top.env \in Scope /\ Top.slots \in Slots /\ Top.depth \in Nat /\ Len(output) \in Nat
  <2>1. Node \in NodeType /\ Top.env \in Scope /\ Top.slots \in Slots /\ Top.depth \in Nat
        /\ Len(output) \in Nat
    BY <1>1, NodeTyped, TopParts, FrameFields DEF Slots, TypeOK
  <2>2. QED
    BY <1>1, <2>1, NodeFields, ProgramParts, EvaluateTyped
<1>4. items \in Seq(Item)
  BY <1>1, <1>2, <1>3, ValueAssumption
<1>5. NodeRendering(Rendering(content), content, Node, Top.env, Top.slots)
        = Rendering(content)[EachOf(Node, Top.env, Top.slots, items)]
  BY <1>1, <1>2 DEF NodeRendering
<1> HIDE DEF value, items
<1>6. /\ callee \in FrameType /\ callee.start = Len(output) /\ callee.style = None
      /\ WorkOf(callee) = EachOf(Node, Top.env, Top.slots, items)
  <2> DEFINE body == Body(Node.body)
             frame == Frame("loop", body, Top.env, Top.slots, Top.depth)
             next == Len(body) + 1
             variable == Node.variable
  <2>1. callee = [frame EXCEPT !.next = next, !.variable = variable, !.items = items]
    BY DEF LoopFrame
  <2>2. EachOf(Node, Top.env, Top.slots, items)
          = Remaining(body, next, Top.env, Top.slots, variable, items)
    BY DEF EachOf
  <2>3. body \in Seq(NodeType) /\ next \in Nat \ {0} /\ variable \in Name \cup {None}
    BY <1>3
  <2> HIDE DEF callee, body, next, variable
  <2>4. /\ frame \in FrameType /\ frame.start = Len(output) /\ frame.style = None
        /\ frame.nodes = body /\ frame.env = Top.env /\ frame.slots = Top.slots
    <3>1. Top.slots \in [Slot -> Content \cup {None}]
      BY <1>3 DEF Slots
    <3> DEFINE env == Top.env
               slots == Top.slots
               depth == Top.depth
               f == FrameFrom(Len(output), "loop", body, env, slots, depth)
    <3>2. env \in Scope /\ slots \in [Slot -> Content \cup {None}] /\ depth \in Nat
      BY <1>3, <3>1
    <3>3. frame = f /\ f.nodes = body /\ f.env = env /\ f.slots = slots
      BY DEF Frame, FrameFrom
    <3> HIDE DEF env, slots, depth
    <3> DEFINE start == Len(output)
               kind == "loop"
    <3>4. start \in Nat /\ kind \in {"root", "branch", "loop", "slot", "call"}
      BY <1>3
    <3>5. f = FrameFrom(start, kind, body, env, slots, depth)
      OBVIOUS
    <3> HIDE DEF frame, f, start, kind
    <3>6. f \in FrameType /\ f.start = start /\ f.style = None
      BY <2>3, <3>2, <3>4, <3>5, FrameTyped
    <3> USE DEF start
    <3>7. QED
      BY <3>3, <3>6 DEF env, slots
  <2> HIDE DEF frame
  <2>5. callee \in FrameType /\ callee.start = frame.start /\ callee.style = frame.style
    BY <1>4, <2>1, <2>3, <2>4 DEF FrameType
  <2>6. /\ callee.next = next /\ callee.variable = variable /\ callee.items = items
        /\ callee.nodes = frame.nodes /\ callee.env = frame.env /\ callee.slots = frame.slots
    BY <2>1, <2>4 DEF FrameType
  <2>7. QED
    BY <2>2, <2>4, <2>5, <2>6 DEF WorkOf
<1> HIDE DEF callee
<1>7. Styled(LeftBy(callee), callee.style) = Rendering(content)[EachOf(Node, Top.env, Top.slots, items)]
  BY <1>6 DEF Styled, LeftBy
<1>8. SaidByCalling
  BY <1>1, <1>2, <1>5, <1>6, <1>7, NodeCalled
<1>9. QED
  BY <1>1, <1>2, <1>8 DEF Says

LEMMA NextItemSays == ASSUME TypeOK, ~outputLimited, Clean, Clean', NextItem PROVE Says /\ ~outputLimited'
<1> DEFINE env == Bound(Top.env, Top.variable, Head(Top.items))
           items == Tail(Top.items)
           entered == Entered(Top, env, items)
<1>1. /\ stack # <<>> /\ ~HasNode /\ Top.items # <<>>
      /\ Quietly([stack EXCEPT ![Len(stack)] =
           [Top EXCEPT !.env = Bound(@, Top.variable, Head(Top.items)), !.next = 1, !.items = Tail(@)]],
           errors)
  BY DEF NextItem, Clean
<1>2. entered = [Top EXCEPT !.env = Bound(@, Top.variable, Head(Top.items)), !.next = 1, !.items = Tail(@)]
  BY DEF Entered
<1>3. stack' = TopAs(entered) /\ UNCHANGED <<program, phase, content, output, outputLimited>>
  <2> HIDE DEF entered
  <2>1. Quietly(TopAs(entered), errors)
    BY <1>1, <1>2 DEF TopAs
  <2>2. QED
    BY <2>1, CleanQuiet
<1>4. Top \in FrameType /\ Top.items \in Seq(Item) /\ Top.env \in Scope
  BY <1>1, TopParts, FrameFields
<1>5. Head(Top.items) \in Item /\ items \in Seq(Item)
  BY <1>1, <1>4
<1>6. env \in Scope
  BY <1>4, <1>5, BoundTyped
<1>7. WorkOf(entered) = NextRound(WorkOf(Top))
  <2> DEFINE one == 1
  <2>1. NextRound(WorkOf(Top)) = Remaining(Top.nodes, one, env, Top.slots, Top.variable, items)
    BY <1>4, WorkOfTyped DEF NextRound
  <2> HIDE DEF env, items
  <2>2. /\ entered.nodes = Top.nodes /\ entered.next = one /\ entered.env = env
        /\ entered.slots = Top.slots /\ entered.variable = Top.variable /\ entered.items = items
    BY <1>4 DEF Entered, FrameType
  <2> HIDE DEF entered, one
  <2>3. QED
    BY <2>1, <2>2 DEF WorkOf
<1>8. entered \in FrameType /\ entered.style = Top.style /\ entered.start = Top.start
  <2> HIDE DEF env, items
  <2>1. entered \in FrameType
    BY <1>4, <1>5, <1>6, EnteredTyped
  <2>2. QED
    BY <1>4, <2>1 DEF Entered, FrameType
<1> HIDE DEF entered, env, items
<1>9. LeftBy(Top) = LeftBy(entered)
  <2>1. LeftBy(Top) = Unfolded(content, Rendering(content), WorkOf(Top))
    BY <1>4, LeftByTyped
  <2>2. /\ WorkOf(Top).next = Top.next /\ WorkOf(Top).nodes = Top.nodes
        /\ WorkOf(Top).items = Top.items
    BY <1>4, WorkOfTyped
  <2>3. ~(Top.next <= Len(Top.nodes))
    BY <1>1 DEF HasNode
  <2>4. LeftBy(Top) = Rendering(content)[NextRound(WorkOf(Top))]
    BY <1>1, <2>1, <2>2, <2>3 DEF Unfolded
  <2>5. QED
    BY <1>7, <2>4 DEF LeftBy
<1>10. Closed(entered, output') = Closed(Top, output)
  BY <1>3, <1>8, <1>9, SealedAs DEF Closed
<1>11. SaidByWriting
  BY <1>3, <1>8, <1>10 DEF SaidByWriting
<1>12. QED
  BY <1>1, <1>3, <1>11 DEF Says

LEMMA ShellContentSays ==
  ASSUME TypeOK, ~outputLimited, Clean', RenderShellContent PROVE Says /\ ~outputLimited'
<1>1. /\ HasNode /\ stack # <<>> /\ Node.kind = "reference" /\ content # None /\ Node.slot = Default
      /\ Emit(content) \/ (errors' = Issue(errors) /\ warnings' = warnings)
  BY DEF RenderShellContent, Renders, HasNode
<1>2. Emit(content)
  <2>1. errors \in Nat /\ warnings' = warnings => warnings < MaxDiagnostics
    BY DEF Clean
  <2>2. errors \in Nat /\ errors' = 0
    BY DEF TypeOK, Clean
  <2>3. QED
    BY <1>1, <2>1, <2>2, IssueLeaves
<1>3. content = NodeRendering(Rendering(content), content, Node, Top.env, Top.slots)
  BY <1>1 DEF NodeRendering
<1>4. content \in Seq(Piece)
  BY <1>1 DEF TypeOK
<1>5. SaidByWriting
  BY <1>1, <1>2, <1>3, <1>4, CleanEmits, NodeWritten
<1>6. QED
  BY <1>1, <1>2, <1>5, CleanEmits DEF Says

LEMMA ReferenceSays ==
  ASSUME TypeOK, ~outputLimited, Clean', RenderReference PROVE Says /\ ~outputLimited'
<1> DEFINE filled == Top.slots[Node.slot]
           node == NodeRendering(Rendering(content), content, Node, Top.env, Top.slots)
<1>1. /\ HasNode /\ stack # <<>> /\ Node.kind = "reference"
      /\ content = None \/ Node.slot # Default
      /\ Quietly(IF filled = None THEN Advanced ELSE Append(Advanced, SlotFrame(filled)), errors)
  BY DEF RenderReference, Renders, HasNode
<1>2. Node.slot \in Slot /\ Top.slots \in Slots /\ Top.depth \in Nat
  BY <1>1, NodeTyped, NodeFields, TopParts, FrameFields DEF Slots
<1>3. node = IF filled = None THEN <<>> ELSE Rendering(content)[AllOf(filled.nodes, filled.env, Top.slots)]
  BY <1>1 DEF NodeRendering
<1>4. filled # None => filled.nodes \in Seq(NodeType) /\ filled.env \in Scope
  BY <1>2, ContentParts
<1> HIDE DEF filled, node
<1>5. CASE filled = None
  <2>1. /\ stack' = Advanced /\ UNCHANGED <<program, phase, content, output, outputLimited>>
    BY <1>1, <1>5, CleanQuiet
  <2>2. SaidByWriting
    BY <1>1, <1>3, <1>5, <2>1, NodePassed DEF node
  <2>3. QED
    BY <1>1, <2>1, <2>2 DEF Says
<1>6. CASE filled # None
  <2> DEFINE callee == Frame("slot", filled.nodes, filled.env, Top.slots, Top.depth)
  <2>1. Quietly(Append(Advanced, callee), errors)
    BY <1>1, <1>6 DEF SlotFrame
  <2>2. callee \in FrameType /\ callee.start = Len(output) /\ Styled(LeftBy(callee), callee.style) = node
    BY <1>2, <1>3, <1>4, <1>6, FreshFrame
  <2> HIDE DEF callee
  <2>3. /\ stack' = Append(Advanced, callee)
        /\ UNCHANGED <<program, phase, content, output, outputLimited>>
    BY <2>1, CleanQuiet
  <2>4. SaidByCalling
    BY <1>1, <2>2, <2>3, NodeCalled DEF node
  <2>5. QED
    BY <1>1, <2>3, <2>4 DEF Says
<1>7. QED
  BY <1>5, <1>6

\* A call that has ended has nothing left to say.
LEMMA NothingLeft ==
  ASSUME TypeOK, Ended PROVE Top \in FrameType /\ LeftBy(Top) = <<>> /\ Then(output, LeftBy(Top)) = output
<1>1. stack # <<>> /\ ~(Top.next <= Len(Top.nodes)) /\ Top.items = <<>> /\ Top \in FrameType
  BY TopParts DEF Ended, HasNode
<1>2. WorkOf(Top).next = Top.next /\ WorkOf(Top).nodes = Top.nodes /\ WorkOf(Top).items = Top.items
  BY <1>1, WorkOfTyped
<1>3. LeftBy(Top) = <<>>
  BY <1>1, <1>2, LeftByTyped DEF Unfolded
<1>4. output \in Seq(Piece) /\ <<>> \in Seq(Piece) /\ output \o <<>> = output
  BY DEF TypeOK
<1>5. QED
  BY <1>1, <1>3, <1>4 DEF Then

LEMMA ReturnSays == ASSUME TypeOK, ~outputLimited, Clean', Return PROVE Says /\ ~outputLimited'
<1>1. /\ stack # <<>> /\ Ended /\ Len(stack) > 1 /\ Top.style = None /\ Quietly(Front(stack), errors)
  BY DEF Return, Ended
<1>2. stack' = Front(stack) /\ UNCHANGED <<program, phase, content, output, outputLimited>>
  BY <1>1, CleanQuiet
<1>3. Closed(Top, output) = output
  BY <1>1, NothingLeft DEF Closed, Sealed
<1>4. SaidByReturning
  BY <1>1, <1>2, <1>3 DEF SaidByReturning
<1>5. QED
  BY <1>1, <1>2, <1>4 DEF Says

LEMMA ReturnStyledSays ==
  ASSUME TypeOK, ~outputLimited, Clean', ReturnStyled PROVE Says /\ ~outputLimited'
<1> DEFINE count == IF Top.style \in Unresolvable THEN errors + 1 ELSE errors
           pieces == Restyled(Fragment(Top.start), Top.style)
<1>1. /\ stack # <<>> /\ Ended /\ Len(stack) > 1 /\ Top.style # None
      /\ AppendPieces(Written(Top.start), pieces, count)
      /\ stack' = Front(stack) /\ UNCHANGED <<program, phase, content, warnings>>
  BY DEF ReturnStyled, Ended, Restyle
<1>2. errors \in Nat /\ count \in Nat /\ errors' = 0 /\ warnings < MaxDiagnostics
  BY <1>1 DEF TypeOK, Clean
<1> HIDE DEF pieces
<1>3. output' = Written(Top.start) \o pieces /\ count = 0 /\ ~outputLimited'
  <2> HIDE DEF count
  <2>1. Issue(count) # 0
    BY <1>2, IssueLeaves
  <2>2. QED
    BY <1>1, <1>2, <2>1 DEF AppendPieces
<1>4. Top.style \notin Unresolvable
  BY <1>2, <1>3
<1>5. output # None
  BY NoneIsNoOutput DEF TypeOK
<1>6. Closed(Top, output) = Written(Top.start) \o pieces
  BY <1>1, <1>4, <1>5, NothingLeft DEF Closed, Sealed, Written, Fragment, pieces
<1>7. SaidByReturning
  BY <1>1, <1>3, <1>6 DEF SaidByReturning
<1>8. QED
  BY <1>1, <1>3, <1>7 DEF Says

\* What does not go on without a diagnostic.
LEMMA NoOtherGoesOn ==
  ASSUME TypeOK, ~outputLimited, Clean, Clean'
  PROVE  ~(RenderCancelled \/ RenderLimited \/ EvaluationFails \/ RenderFill)
<1>1. errors \in Nat /\ warnings < MaxDiagnostics
  BY DEF TypeOK, Clean
<1>2. Issue(errors) # 0 /\ Failed(Node.of, errors) # 0
  BY <1>1, IssueLeaves, FailedLeaves
<1>3. QED
  BY <1>1, <1>2, CleanQuiet DEF RenderCancelled, RenderLimited, EvaluationFails, RenderFill, Clean

-----------------------------------------------------------------------------
(***************************************************************************)
(* A component call that leaves no error has the props, the style and the  *)
(* slots that the reference definitions give it.                           *)
(***************************************************************************)
\* A call without errors of its slots.
LEMMA SlotsFitWithoutErrors ==
  ASSUME TypeOK, HasNode, Node.kind = "call", NEW definition,
         SlotErrors(definition, Body(Node.children)) = 0
  PROVE  SlotsFit(definition, Node, Top.env)
<1> DEFINE children == Body(Node.children)
           fills == FillsOf(children)
           names == {children[i].slot : i \in fills}
           filled == {s \in Slot : Filled(children, Top.env)[s] # None}
           with(status) == {s \in Slot : definition.slots[s] = status}
           f == [i \in fills |-> children[i].slot]
           count(condition) == IF condition THEN 1 ELSE 0
           k == count(with("undeclared") = Slot /\ children # <<>>)
           l == count(with("required") # {} /\ Node.selfClosing)
<1>1. fills \subseteq 1..Len(children) /\ Len(children) \in Nat
  <2>1. children \in Seq(NodeType)
    BY NodeTyped, NodeFields, ProgramParts
  <2>2. QED
    BY <2>1 DEF FillsOf
<1>2. IsFiniteSet(fills)
  <2>1. IsFiniteSet(1..Len(children))
    BY <1>1, FS_Interval
  <2>2. QED
    BY <1>1, <2>1, FS_Subset
<1>3. f \in Surjection(fills, names)
  BY DEF Surjection
<1>4. \A T : T \subseteq Slot => IsFiniteSet(T) /\ Cardinality(T) \in Nat
  BY MarkerAssumption, FS_Subset, FS_CardinalityType
<1>5. filled \cap with("undeclared") \subseteq Slot /\ with("required") \ filled \subseteq Slot
  OBVIOUS
<1>6. SlotErrors(definition, children) =
        (Cardinality(fills) - Cardinality(names)) + Cardinality(filled \cap with("undeclared"))
          + Cardinality(with("required") \ filled) + k + l
  BY Zenon DEF SlotErrors
<1>7. k \in Nat /\ l \in Nat
  OBVIOUS
<1>8. /\ k = 0 => (with("undeclared") = Slot => children = <<>>)
      /\ l = 0 => (with("required") # {} => ~Node.selfClosing)
  OBVIOUS
<1>9. f \in Injection(fills, names) =>
        \A i, j \in fills : children[i].slot = children[j].slot => i = j
  BY DEF Injection, IsInjective
<1>10. SlotsFit(definition, Node, Top.env) <=>
         /\ \A i, j \in fills : children[i].slot = children[j].slot => i = j
         /\ filled \cap with("undeclared") = {}
         /\ with("required") \subseteq filled
         /\ with("undeclared") = Slot => children = <<>>
         /\ with("required") # {} => ~Node.selfClosing
  BY Zenon DEF SlotsFit
<1> DEFINE a == filled \cap with("undeclared")
           b == with("required") \ filled
<1>11. b = {} => with("required") \subseteq filled
  OBVIOUS
<1>12. SlotErrors(definition, children) = 0
  OBVIOUS
<1> HIDE DEF k, l, f, fills, names, filled, with, children
<1>13. /\ IsFiniteSet(a) /\ Cardinality(a) \in Nat /\ IsFiniteSet(b) /\ Cardinality(b) \in Nat
  BY <1>4, <1>5
<1>14. /\ Cardinality(fills) \in Nat /\ IsFiniteSet(names) /\ Cardinality(names) \in Nat
       /\ Cardinality(names) <= Cardinality(fills)
       /\ Cardinality(names) = Cardinality(fills) <=> f \in Injection(fills, names)
  BY <1>2, <1>3, FS_Surjection, FS_CardinalityType
<1>15. SlotErrors(definition, children) =
         (Cardinality(fills) - Cardinality(names)) + Cardinality(a) + Cardinality(b) + k + l
  BY <1>6
<1> HIDE DEF a, b
<1>16. /\ Cardinality(fills) = Cardinality(names) /\ Cardinality(a) = 0 /\ Cardinality(b) = 0
       /\ k = 0 /\ l = 0
  <2>1. ASSUME NEW x \in Nat, NEW y \in Nat, y <= x, NEW u \in Nat, NEW v \in Nat, NEW k1 \in Nat,
               NEW l1 \in Nat, (x - y) + u + v + k1 + l1 = 0
        PROVE  x = y /\ u = 0 /\ v = 0 /\ k1 = 0 /\ l1 = 0
    BY <2>1
  <2>2. (Cardinality(fills) - Cardinality(names)) + Cardinality(a) + Cardinality(b) + k + l = 0
    BY <1>12, <1>15
  <2>3. QED
    BY <1>7, <1>13, <1>14, <2>1, <2>2
<1>17. a = {} /\ b = {}
  BY <1>13, <1>16, FS_EmptySet
<1>18. QED
  BY <1>8, <1>9, <1>10, <1>11, <1>14, <1>16, <1>17 DEF a

\* The first argument of a name.
LEMMA ArguedFirst ==
  ASSUME NEW arguments \in Seq(Argument), NEW k \in 1..Len(arguments), NEW env,
         \A j \in 1..(k - 1) : arguments[j].name # arguments[k].name
  PROVE  Argued(arguments, arguments[k].name, env) = Evaluate(arguments[k].of, env)
<1>1. arguments[k].name \in Named(arguments)
  BY DEF Named
<1>2. PICK i \in 1..Len(arguments) :
        /\ arguments[i].name = arguments[k].name
        /\ \A j \in 1..(i - 1) : arguments[j].name # arguments[k].name
        /\ Argued(arguments, arguments[k].name, env) = Evaluate(arguments[i].of, env)
  BY <1>1, FirstNamed
<1>3. i = k
  <2>1. ~(i < k) /\ ~(k < i)
    BY <1>2
  <2>2. QED
    BY <2>1
<1>4. QED
  BY <1>2, <1>3

\* What an argument without errors does.
Accepted(definition, name, value) ==
  IF name = Style THEN value \in Text
  ELSE /\ value # Unset
       /\ \E p \in ToSet(definition.props) : p.name = name
       /\ \A p \in ToSet(definition.props) : p.name = name => value \in p.accepts

\* An argument without errors is accepted, and sets its prop or the style.
LEMMA SupplyAccepts ==
  ASSUME TypeOK, stack # <<>>, warnings < MaxDiagnostics, NEW definition \in Definition,
         NEW call \in CallType, NEW argument \in Argument,
         Supply(definition, call, argument).errors = 0
  PROVE  /\ call.errors = 0
         /\ Supply(definition, call, argument).supplied = call.supplied \cup {argument.name}
         /\ argument.name \in call.supplied => Supply(definition, call, argument) = call
         /\ argument.name \notin call.supplied =>
              /\ Accepted(definition, argument.name, Evaluate(argument.of, Top.env))
              /\ Supply(definition, call, argument).style =
                   IF argument.name = Style THEN Evaluate(argument.of, Top.env) ELSE call.style
              /\ Supply(definition, call, argument).env.locals = call.env.locals
              /\ \A m \in Name : Supply(definition, call, argument).env.props[m] =
                   IF m = argument.name THEN Evaluate(argument.of, Top.env) ELSE call.env.props[m]
<1> DEFINE value == Evaluate(argument.of, Top.env)
           name == argument.name
           declared == {p \in ToSet(definition.props) : p.name = argument.name}
           seen == [call EXCEPT !.supplied = @ \cup {argument.name}]
           later == Supply(definition, call, argument)
<1>1. argument.name \in Name \cup {Style} /\ argument.of \in Expression
  BY DEF Argument
<1>2. value \in Value \cup {Unset}
  BY <1>1, TopParts, FrameFields, EvaluateTyped
<1>3. seen \in CallType /\ seen.supplied = call.supplied \cup {argument.name}
      /\ seen.env = call.env /\ seen.style = call.style /\ seen.errors = call.errors
  BY <1>1 DEF CallType
<1>4. call.errors \in Nat /\ call.errors + 1 # 0
  BY DEF CallType
<1>5. Issue(call.errors) # 0 /\ Failed(argument.of, call.errors) # 0
  BY <1>4, IssueLeaves, FailedLeaves
<1>6. /\ ([seen EXCEPT !.errors = @ + 1]).errors # 0 /\ ([seen EXCEPT !.errors = Issue(@)]).errors # 0
      /\ ([seen EXCEPT !.errors = Failed(argument.of, @)]).errors # 0
  BY <1>3, <1>4, <1>5 DEF CallType
<1>7. CASE argument.name \in call.supplied
  <2>1. later = call
    BY <1>7 DEF Supply
  <2>2. call.supplied = call.supplied \cup {argument.name}
    BY <1>7
  <2> HIDE DEF later
  <2>3. QED
    BY <1>7, <2>1, <2>2 DEF later
<1>8. CASE argument.name \notin call.supplied
  <2>1. value # Unset
    BY <1>6, <1>8 DEF Supply
  <2>2. CASE argument.name = Style
    <3>1. value \in Text
      BY <1>6, <1>8, <2>1, <2>2 DEF Supply
    <3>2. later = [seen EXCEPT !.style = value]
      BY <1>8, <2>1, <2>2, <3>1 DEF Supply
    <3> HIDE DEF later, seen, value
    <3>3. /\ later.supplied = seen.supplied /\ later.env = seen.env /\ later.style = value
          /\ later.errors = seen.errors
      BY <1>3, <3>2 DEF CallType
    <3>4. call.errors = 0
      BY <1>3, <3>3 DEF later
    <3>5. \A m \in Name : m # argument.name
      BY <2>2, MarkerAssumption
    <3>6. QED
      BY <1>3, <1>8, <2>2, <3>1, <3>3, <3>4, <3>5 DEF Accepted, later, value
  <2>3. CASE argument.name # Style
    <3>1. declared # {} /\ \A p \in declared : value \in p.accepts
      BY <1>6, <1>8, <2>1, <2>3 DEF Supply
    <3>2. later = [seen EXCEPT !.env.props[argument.name] = value]
      BY <1>8, <2>1, <2>3, <3>1 DEF Supply
    <3>3. Accepted(definition, name, value)
      BY <2>1, <2>3, <3>1 DEF Accepted
    <3> HIDE DEF later, seen, value
    <3>4. /\ later.supplied = seen.supplied /\ later.style = seen.style
          /\ later.env = [seen.env EXCEPT !.props[argument.name] = value]
          /\ later.errors = seen.errors
      BY <1>3, <3>2 DEF CallType
    <3>5. call.errors = 0
      BY <1>3, <3>4 DEF later
    <3>6. /\ later.env.locals = call.env.locals
          /\ \A m \in Name : later.env.props[m] = IF m = argument.name THEN value ELSE call.env.props[m]
      <4>1. call.env \in Scope /\ call.env.props \in Bindings /\ argument.name \in Name
        BY <1>1, <2>3 DEF CallType, Scope
      <4>2. QED
        BY <1>3, <3>4, <4>1 DEF Scope, Bindings
    <3>7. QED
      BY <1>3, <1>8, <2>3, <3>3, <3>4, <3>5, <3>6 DEF later, value
  <2>4. QED
    BY <2>2, <2>3
<1>9. QED
  BY <1>7, <1>8

\* The names of the first arguments.
First(arguments, i) == {arguments[k].name : k \in 1..i}

\* What the arguments read so far have set, when none of them was an error.
Reads(call, definition, arguments, i, env) ==
  call.errors = 0 =>
    /\ errors = 0 /\ call.supplied = First(arguments, i)
    /\ call.env.locals = env.locals
    /\ \A m \in Name : call.env.props[m] = IF m \in First(arguments, i) THEN Argued(arguments, m, env)
                                           ELSE env.props[m]
    /\ call.style = IF Style \in First(arguments, i) THEN Argued(arguments, Style, env) ELSE None
    /\ \A m \in First(arguments, i) : Accepted(definition, m, Argued(arguments, m, env))

\* One argument more.
LEMMA ReadsOn ==
  ASSUME TypeOK, stack # <<>>, warnings < MaxDiagnostics, NEW definition \in Definition,
         NEW arguments \in Seq(Argument), NEW i \in Nat, i + 1 \in 1..Len(arguments),
         NEW call \in CallType, Reads(call, definition, arguments, i, Top.env)
  PROVE  Reads(Supply(definition, call, arguments[i + 1]), definition, arguments, i + 1, Top.env)
<1> DEFINE argument == arguments[i + 1]
           name == argument.name
           value == Evaluate(argument.of, Top.env)
           later == Supply(definition, call, argument)
           before == First(arguments, i)
           after == First(arguments, i + 1)
<1>1. SUFFICES ASSUME later.errors = 0 PROVE Reads(later, definition, arguments, i + 1, Top.env)
  BY DEF Reads
<1>2. argument \in Argument /\ name \in Name \cup {Style}
  <2>1. argument \in Argument
    OBVIOUS
  <2>2. QED
    BY <2>1 DEF Argument
<1>3. /\ call.errors = 0
      /\ later.supplied = call.supplied \cup {name}
      /\ name \in call.supplied => later = call
      /\ name \notin call.supplied =>
           /\ Accepted(definition, name, value)
           /\ later.style = IF name = Style THEN value ELSE call.style
           /\ later.env.locals = call.env.locals
           /\ \A m \in Name : later.env.props[m] = IF m = name THEN value ELSE call.env.props[m]
  <2>1. Supply(definition, call, argument).errors = 0 /\ argument \in Argument
    BY <1>1, <1>2
  <2> HIDE DEF argument
  <2>2. QED
    BY <2>1, SupplyAccepts
<1>4. after = before \cup {name}
  <2>1. 1..(i + 1) = (1..i) \cup {i + 1}
    OBVIOUS
  <2>2. QED
    BY <2>1 DEF First
<1>5. /\ errors = 0 /\ call.supplied = before /\ call.env.locals = Top.env.locals
      /\ \A m \in Name : call.env.props[m] = IF m \in before THEN Argued(arguments, m, Top.env)
                                             ELSE Top.env.props[m]
      /\ call.style = IF Style \in before THEN Argued(arguments, Style, Top.env) ELSE None
      /\ \A m \in before : Accepted(definition, m, Argued(arguments, m, Top.env))
  BY <1>3 DEF Reads
<1>6. CASE name \in before
  <2>1. after = before /\ later = call
    BY <1>3, <1>4, <1>5, <1>6
  <2> HIDE DEF later, after, before
  <2>2. QED
    BY <1>5, <2>1 DEF Reads, after, before
<1>7. CASE name \notin before
  <2>1. Argued(arguments, name, Top.env) = value
    <3>1. \A j \in 1..((i + 1) - 1) : arguments[j].name # arguments[i + 1].name
      BY <1>7 DEF First
    <3>2. QED
      BY <3>1, ArguedFirst
  <2> HIDE DEF later, after, before, value, name
  <2>2. \A m \in after : Accepted(definition, m, Argued(arguments, m, Top.env))
    BY <1>3, <1>4, <1>5, <1>7, <2>1
  <2>3. later.supplied = after /\ later.env.locals = Top.env.locals
    BY <1>3, <1>4, <1>5, <1>7
  <2>4. \A m \in Name : later.env.props[m] = IF m \in after THEN Argued(arguments, m, Top.env)
                                             ELSE Top.env.props[m]
    BY <1>3, <1>4, <1>5, <1>7, <2>1
  <2>5. later.style = IF Style \in after THEN Argued(arguments, Style, Top.env) ELSE None
    BY <1>3, <1>4, <1>5, <1>7, <2>1
  <2>6. QED
    BY <1>5, <2>2, <2>3, <2>4, <2>5 DEF Reads, after
<1>8. QED
  BY <1>6, <1>7

\* So are what its arguments set.
LEMMA SuppliedReads ==
  ASSUME TypeOK, stack # <<>>, warnings < MaxDiagnostics, NEW definition \in Definition,
         Node.arguments \in Seq(Argument), Supplied(definition).errors = 0
  PROVE  /\ errors = 0
         /\ Supplied(definition).env
              = [locals |-> Top.env.locals, props |-> Given(Node.arguments, Top.env)]
         /\ Supplied(definition).style = StyleOf(Node.arguments, Top.env)
         /\ ArgumentsFit(definition, Node.arguments, Top.env)
<1> DEFINE arguments == Node.arguments
           n == Len(arguments)
           call == Supplied(definition)
<1>1. PICK g : /\ \A i \in 0..n : g[i] \in CallType
               /\ g[0] = [env |-> Top.env, supplied |-> {}, style |-> None, errors |-> errors]
               /\ \A i \in 1..n : g[i] = Supply(definition, g[i - 1], arguments[i])
               /\ call = g[n]
  BY SuppliedParts
<1>2. n \in Nat /\ arguments \in Seq(Argument) /\ Top.env \in Scope
  BY TopParts, FrameFields
<1> DEFINE S == {i \in Nat : Reads(g[i], definition, arguments, i, Top.env)}
<1>3. 0 \in S
  <2>1. First(arguments, 0) = {}
    BY DEF First
  <2>2. g[0].supplied = {} /\ g[0].env = Top.env /\ g[0].style = None /\ g[0].errors = errors
    BY <1>1
  <2>3. QED
    BY <2>1, <2>2 DEF Reads
<1> HIDE DEF arguments, n, call
<1>4. ASSUME NEW i \in 0..(n - 1), i \in S PROVE i + 1 \in S
  <2>1. i \in Nat /\ i \in 0..n /\ i + 1 \in 1..n /\ (i + 1) - 1 = i /\ i + 1 \in Nat
    BY <1>2
  <2>2. g[i] \in CallType /\ g[i + 1] = Supply(definition, g[i], arguments[i + 1])
    BY <1>1, <2>1
  <2>3. Reads(g[i + 1], definition, arguments, i + 1, Top.env)
    BY <1>2, <1>4, <2>1, <2>2, ReadsOn DEF n
  <2>4. QED
    BY <2>1, <2>3
<1> HIDE DEF S
<1>5. \A i \in 0..n : i \in S
  BY <1>2, <1>3, <1>4, Induction
<1>6. Reads(call, definition, arguments, n, Top.env) /\ call \in CallType
  BY <1>1, <1>2, <1>5 DEF S
<1>7. call.errors = 0
  BY DEF call
<1>8. First(arguments, n) = Named(arguments)
  <2>1. DOMAIN arguments = 1..n
    BY <1>2 DEF n
  <2>2. QED
    BY <2>1 DEF First, Named
<1>9. /\ errors = 0 /\ call.env.locals = Top.env.locals
      /\ \A m \in Name : call.env.props[m] = IF m \in Named(arguments) THEN Argued(arguments, m, Top.env)
                                             ELSE Top.env.props[m]
      /\ call.style = IF Style \in Named(arguments) THEN Argued(arguments, Style, Top.env) ELSE None
      /\ \A m \in Named(arguments) : Accepted(definition, m, Argued(arguments, m, Top.env))
  BY <1>6, <1>7, <1>8 DEF Reads
<1>10. call.style = StyleOf(arguments, Top.env)
  BY <1>9 DEF StyleOf
<1>11. ArgumentsFit(definition, arguments, Top.env)
  BY <1>9 DEF ArgumentsFit, Accepted
<1>12. call.env = [locals |-> Top.env.locals, props |-> Given(arguments, Top.env)]
  <2>1. call.env \in Scope /\ call.env.props \in Bindings
    BY <1>6 DEF CallType, Scope
  <2>2. call.env.props = Given(arguments, Top.env)
    BY <1>9, <2>1 DEF Given, Bindings
  <2>3. QED
    BY <1>9, <2>1, <2>2 DEF Scope
<1>13. QED
  BY <1>9, <1>10, <1>11, <1>12 DEF call, arguments

\* What a default without errors does.
LEMMA CompleteDefaults ==
  ASSUME TypeOK, warnings < MaxDiagnostics, NEW call \in CallType, NEW prop \in Prop,
         Complete(call, prop).errors = 0
  PROVE  /\ call.errors = 0
         /\ Complete(call, prop).style = call.style
         /\ Complete(call, prop).env.locals = call.env.locals
         /\ Complete(call, prop).env.props = Defaulted(prop, call.env.locals, call.env.props)
         /\ Defaulted(prop, call.env.locals, call.env.props)[prop.name] # Unset
         /\ \A n \in Name : call.env.props[n] # Unset =>
              Defaulted(prop, call.env.locals, call.env.props)[n] # Unset
<1> DEFINE value == Evaluate(prop.otherwise, call.env)
           later == Complete(call, prop)
           props == call.env.props
           locals == call.env.locals
           defaulted == Defaulted(prop, locals, props)
<1>1. /\ prop.name \in Name /\ prop.otherwise \in Expression \cup {None} /\ call.env \in Scope
      /\ call.errors \in Nat /\ props \in Bindings /\ locals \in Bindings
      /\ call.env = [locals |-> locals, props |-> props]
  BY DEF Prop, CallType, Scope
<1>2. Failed(prop.otherwise, call.errors) # 0 /\ Issue(call.errors) # 0
  BY <1>1, IssueLeaves, FailedLeaves
<1>3. /\ ([call EXCEPT !.errors = Failed(prop.otherwise, @)]).errors # 0
      /\ ([call EXCEPT !.errors = Issue(@)]).errors # 0
  BY <1>2 DEF CallType
<1>4. defaulted = IF props[prop.name] # Unset THEN props
                  ELSE [props EXCEPT ![prop.name] = IF prop.otherwise = None THEN Unset ELSE value]
  BY <1>1 DEF Defaulted
<1>5. CASE props[prop.name] # Unset
  <2>1. later = call /\ defaulted = props
    BY <1>4, <1>5 DEF Complete
  <2> HIDE DEF later, defaulted
  <2>2. QED
    BY <1>5, <2>1 DEF later, defaulted
<1>6. CASE props[prop.name] = Unset
  <2>1. prop.otherwise # None /\ value # Unset
    BY <1>3, <1>6 DEF Complete
  <2>2. later = [call EXCEPT !.env.props[prop.name] = value]
    BY <1>6, <2>1 DEF Complete
  <2>3. defaulted = [props EXCEPT ![prop.name] = value]
    BY <1>4, <1>6, <2>1
  <2> HIDE DEF value, later, defaulted
  <2>4. /\ later.errors = call.errors /\ later.style = call.style
        /\ later.env = [call.env EXCEPT !.props[prop.name] = value]
    BY <2>2 DEF CallType
  <2>5. later.env.locals = locals /\ later.env.props = [props EXCEPT ![prop.name] = value]
    BY <1>1, <2>4 DEF Scope
  <2>6. defaulted[prop.name] # Unset /\ \A n \in Name : props[n] # Unset => defaulted[n] # Unset
    BY <1>1, <2>1, <2>3 DEF Bindings
  <2>7. call.errors = 0
    BY <2>4 DEF later
  <2>8. QED
    BY <2>3, <2>4, <2>5, <2>6, <2>7 DEF later, defaulted
<1>7. QED
  BY <1>5, <1>6

\* What the defaults read so far have set, when none of them was an error.
Defaults(call, supplied, definition, i, env, props) ==
  call.errors = 0 =>
    /\ supplied.errors = 0 /\ call.style = supplied.style
    /\ call.env.locals = env.locals /\ call.env.props = props
    /\ \A k \in 1..i : props[definition.props[k].name] # Unset

\* The props and the style of a call without errors are those that are meant.
LEMMA PreparedSays ==
  ASSUME TypeOK, stack # <<>>, warnings < MaxDiagnostics, NEW definition \in Definition,
         Node.arguments \in Seq(Argument), Prepared(definition).errors = 0
  PROVE  /\ errors = 0
         /\ Prepared(definition).env
              = [locals |-> Top.env.locals, props |-> PropsOf(definition, Node.arguments, Top.env)]
         /\ Prepared(definition).style = StyleOf(Node.arguments, Top.env)
         /\ ArgumentsFit(definition, Node.arguments, Top.env)
         /\ PropsFit(definition, Node.arguments, Top.env)
<1> DEFINE n == Len(definition.props)
           arguments == Node.arguments
           env == Top.env
           supplied == Supplied(definition)
           call == Prepared(definition)
<1>1. /\ arguments \in Seq(Argument) /\ env \in Scope /\ definition.props \in Seq(Prop) /\ n \in Nat
      /\ \A i \in 1..n : definition.props[i] \in Prop
      /\ ToSet(definition.props) = {definition.props[i] : i \in 1..n}
  <2>1. definition.props \in Seq(Prop)
    BY DEF Definition
  <2>2. n \in Nat /\ \A i \in 1..n : definition.props[i] \in Prop
    BY <2>1
  <2>3. ToSet(definition.props) = {definition.props[i] : i \in 1..n}
    <3>1. DOMAIN definition.props = 1..n
      BY <2>1
    <3>2. QED
      BY <3>1, Zenon DEF ToSet
  <2>4. env \in Scope
    BY TopParts, FrameFields
  <2>5. QED
    BY <2>1, <2>2, <2>3, <2>4
<1>2. PICK g : /\ \A i \in 0..n : g[i] \in CallType
               /\ g[0] = supplied
               /\ \A i \in 1..n : g[i] = Complete(g[i - 1], definition.props[i])
               /\ call = g[n]
  BY PreparedParts
<1>3. PICK f : /\ \A i \in 0..n : f[i] \in Bindings
               /\ f[0] = Given(arguments, env)
               /\ \A i \in 1..n : f[i] = Defaulted(definition.props[i], env.locals, f[i - 1])
               /\ PropsOf(definition, arguments, env) = f[n]
  BY <1>1, PropsParts
<1>4. supplied.errors = 0 =>
        /\ errors = 0
        /\ supplied.env = [locals |-> env.locals, props |-> Given(arguments, env)]
        /\ supplied.style = StyleOf(arguments, env)
        /\ ArgumentsFit(definition, arguments, env)
  BY SuppliedReads
<1> DEFINE S == {i \in Nat : Defaults(g[i], supplied, definition, i, env, f[i])}
<1>5. call.errors = 0
  OBVIOUS
<1> HIDE DEF n, arguments, env, supplied, call
<1>6. 0 \in S
  BY <1>2, <1>3, <1>4 DEF Defaults
<1>7. ASSUME NEW i \in 0..(n - 1), i \in S PROVE i + 1 \in S
  <2>1. i \in Nat /\ i \in 0..n /\ i + 1 \in 1..n /\ i + 1 \in 0..n /\ (i + 1) - 1 = i /\ i + 1 \in Nat
    BY <1>1
  <2>2. /\ g[i] \in CallType /\ g[i + 1] = Complete(g[i], definition.props[i + 1])
        /\ f[i] \in Bindings /\ f[i + 1] = Defaulted(definition.props[i + 1], env.locals, f[i])
        /\ definition.props[i + 1] \in Prop
    BY <1>1, <1>2, <1>3, <2>1
  <2>3. SUFFICES ASSUME g[i + 1].errors = 0 PROVE Defaults(g[i + 1], supplied, definition, i + 1, env, f[i + 1])
    BY <2>1 DEF Defaults
  <2> DEFINE prop == definition.props[i + 1]
             before == g[i]
             bound == f[i]
  <2>4. /\ before.errors = 0 /\ g[i + 1].style = before.style
        /\ g[i + 1].env.locals = before.env.locals
        /\ g[i + 1].env.props = Defaulted(prop, before.env.locals, before.env.props)
        /\ Defaulted(prop, before.env.locals, before.env.props)[prop.name] # Unset
        /\ \A m \in Name : before.env.props[m] # Unset =>
             Defaulted(prop, before.env.locals, before.env.props)[m] # Unset
    <3>1. prop \in Prop /\ before \in CallType /\ g[i + 1] = Complete(before, prop)
          /\ Complete(before, prop).errors = 0
      BY <2>2, <2>3
    <3> HIDE DEF prop, before
    <3>2. QED
      BY <3>1, CompleteDefaults
  <2>5. /\ supplied.errors = 0 /\ before.style = supplied.style
        /\ before.env.locals = env.locals /\ before.env.props = bound
        /\ \A k \in 1..i : bound[definition.props[k].name] # Unset
    BY <1>7, <2>4 DEF Defaults
  <2>6. f[i + 1] = Defaulted(prop, env.locals, bound)
    BY <2>2
  <2>7. \A k \in 1..i : definition.props[k].name \in Name
    BY <1>1, <2>1 DEF Prop
  <2>8. ASSUME NEW k \in 1..(i + 1) PROVE f[i + 1][definition.props[k].name] # Unset
    <3>1. CASE k = i + 1
      BY <2>4, <2>5, <2>6, <3>1
    <3>2. CASE k # i + 1
      <4>1. k \in 1..i
        BY <2>1, <3>2
      <4> HIDE DEF bound, prop
      <4>2. QED
        BY <2>4, <2>5, <2>6, <2>7, <4>1
    <3>3. QED
      BY <3>1, <3>2
  <2>9. QED
    BY <2>4, <2>5, <2>6, <2>8 DEF Defaults
<1> HIDE DEF S
<1>8. \A i \in 0..n : i \in S
  BY <1>1, <1>6, <1>7, Induction
<1>9. Defaults(call, supplied, definition, n, env, f[n]) /\ call \in CallType
  BY <1>1, <1>2, <1>8 DEF S
<1>10. /\ supplied.errors = 0 /\ call.style = supplied.style
       /\ call.env.locals = env.locals /\ call.env.props = f[n]
       /\ \A k \in 1..n : f[n][definition.props[k].name] # Unset
  BY <1>5, <1>9 DEF Defaults
<1>11. PropsFit(definition, arguments, env)
  BY <1>1, <1>3, <1>10 DEF PropsFit
<1>12. call.env = [locals |-> env.locals, props |-> PropsOf(definition, arguments, env)]
  <2>1. call.env \in Scope
    BY <1>9 DEF CallType
  <2>2. QED
    BY <1>3, <1>10, <2>1 DEF Scope
<1>13. QED
  BY <1>4, <1>10, <1>11, <1>12 DEF call, arguments, env

\* A component call without a diagnostic.
LEMMA CallSays ==
  ASSUME TypeOK, ~outputLimited, Clean, Clean', RenderCall PROVE Says /\ ~outputLimited'
<1> DEFINE definition == program.components[Node.component]
           children == Body(Node.children)
           call == Prepared(definition)
           slots == Filled(children, Top.env)
           env == [locals |-> Top.env.locals, props |-> PropsOf(definition, Node.arguments, Top.env)]
           style == StyleOf(Node.arguments, Top.env)
           frame == Frame("call", Body(definition.body), env, slots, Top.depth + 1)
           callee == CallFrame(definition, call, slots)
           count == IssueEach(call.errors, SlotErrors(definition, children))
<1>1. HasNode /\ stack # <<>> /\ Node.kind = "call" /\ errors = 0 /\ warnings < MaxDiagnostics
      /\ Node \in NodeType /\ 0 \in Nat
  BY NodeTyped DEF RenderCall, Renders, HasNode, Clean
<1>2. ~Quietly(Advanced, Issue(errors))
  BY <1>1, CleanQuiet, IssueLeaves
<1>3. definition # None /\ Quietly(Append(Advanced, callee), count)
  BY <1>2 DEF RenderCall
<1>4. /\ Node.arguments \in Seq(Argument) /\ definition \in Definition /\ children \in Seq(NodeType)
      /\ Top.env \in Scope /\ Top.depth \in Nat /\ Len(output) \in Nat
  <2>1. /\ Node.component \in Component /\ Node.arguments \in Seq(Argument)
        /\ definition \in Definition \cup {None} /\ children \in Seq(NodeType)
    BY <1>1, NodeFields, ProgramParts
  <2>2. Top.env \in Scope /\ Top.depth \in Nat /\ Len(output) \in Nat
    BY <1>1, TopParts, FrameFields DEF TypeOK
  <2>3. QED
    BY <1>3, <2>1, <2>2
<1>5. /\ stack' = Append(Advanced, callee) /\ count = 0
      /\ UNCHANGED <<program, phase, content, output, outputLimited>>
  <2> DEFINE frames == Append(Advanced, callee)
  <2>1. Quietly(frames, count)
    BY <1>3
  <2> HIDE DEF callee, count
  <2>2. SUFFICES /\ stack' = frames /\ count = 0
                 /\ UNCHANGED <<program, phase, content, output, outputLimited>>
    OBVIOUS
  <2> HIDE DEF frames
  <2>3. QED
    BY <2>1, CleanQuiet
<1>6. call.errors = 0 /\ SlotErrors(definition, children) = 0 /\ call.style \in Text \cup {None}
  <2>1. call \in CallType /\ SlotErrors(definition, children) \in Nat
    BY <1>1, <1>4, PreparedTyped, SlotErrorsTyped
  <2> HIDE DEF call, definition, children
  <2>2. call.errors \in Nat /\ call.style \in Text \cup {None}
    BY <2>1 DEF CallType
  <2>3. QED
    BY <1>1, <1>5, <2>1, <2>2, IssueLeaves
<1>7. /\ call.env = env /\ call.style = style
      /\ ArgumentsFit(definition, Node.arguments, Top.env)
      /\ PropsFit(definition, Node.arguments, Top.env)
  <2> HIDE DEF definition
  <2>1. QED
    BY <1>1, <1>4, <1>6, PreparedSays
<1>8. SlotsFit(definition, Node, Top.env)
  BY <1>1, <1>6, SlotsFitWithoutErrors
<1>9. NodeRendering(Rendering(content), content, Node, Top.env, Top.slots)
        = Styled(Rendering(content)[Inside(definition, Node, Top.env)], style)
  BY <1>1, <1>3, <1>7, <1>8 DEF NodeRendering, Inside
<1>10. Inside(definition, Node, Top.env) = AllOf(Body(definition.body), env, slots)
  BY DEF Inside
<1>11. env \in Scope /\ slots \in [Slot -> Content \cup {None}] /\ Body(definition.body) \in Seq(NodeType)
  <2>1. env.props \in Bindings /\ env.locals \in Bindings
    BY <1>4, PropsOfTyped DEF Scope
  <2>2. slots \in [Slot -> Content \cup {None}]
    BY <1>1, <1>4, TopParts, FrameFields, FilledTyped
  <2>3. definition.body \in Block
    BY <1>4 DEF Definition
  <2>4. QED
    BY <2>1, <2>2, <2>3, ProgramParts DEF Scope
<1>12. callee = [frame EXCEPT !.style = style]
  <2> HIDE DEF call, env, style, definition
  <2>1. QED
    BY <1>7 DEF CallFrame
<1> DEFINE nodes == Body(definition.body)
<1>13. /\ frame \in FrameType /\ frame.start = Len(output)
       /\ WorkOf(frame) = AllOf(nodes, env, slots)
  <2>1. frame = FrameFrom(Len(output), "call", nodes, env, slots, Top.depth + 1)
    BY DEF Frame
  <2>2. Top.depth + 1 \in Nat /\ nodes \in Seq(NodeType)
    BY <1>4, <1>11
  <2>3. WorkOf(frame) = AllOf(nodes, env, slots)
    BY DEF WorkOf, Frame, FrameFrom, AllOf
  <2> DEFINE start == Len(output)
             depth == Top.depth + 1
             kind == "call"
  <2>4. /\ frame = FrameFrom(start, kind, nodes, env, slots, depth) /\ start \in Nat /\ depth \in Nat
        /\ kind \in {"root", "branch", "loop", "slot", "call"}
        /\ env \in Scope /\ slots \in [Slot -> Content \cup {None}] /\ nodes \in Seq(NodeType)
    BY <1>4, <1>11, <2>1
  <2>5. SUFFICES frame \in FrameType /\ frame.start = start /\ frame.style = None
    BY <2>3
  <2> HIDE DEF frame, env, slots, nodes, start, depth, kind, definition
  <2>6. QED
    BY <2>4, FrameTyped
<1>14. /\ callee \in FrameType /\ callee.start = Len(output) /\ callee.style = style
       /\ WorkOf(callee) = AllOf(nodes, env, slots)
  <2>1. style \in Text \cup {None}
    BY <1>6, <1>7
  <2> HIDE DEF frame, callee, style
  <2>2. callee \in FrameType /\ callee.start = frame.start /\ callee.style = style
    BY <1>12, <1>13, <2>1 DEF FrameType
  <2>3. /\ callee.nodes = frame.nodes /\ callee.next = frame.next /\ callee.env = frame.env
        /\ callee.slots = frame.slots /\ callee.variable = frame.variable /\ callee.items = frame.items
    BY <1>12, <1>13 DEF FrameType
  <2>4. WorkOf(callee) = WorkOf(frame)
    BY <2>3 DEF WorkOf
  <2>5. QED
    BY <1>13, <2>2, <2>4
<1> HIDE DEF callee, frame, style, env, slots, definition, nodes
<1>15. Styled(LeftBy(callee), callee.style)
         = NodeRendering(Rendering(content), content, Node, Top.env, Top.slots)
  BY <1>9, <1>10, <1>14 DEF LeftBy, nodes
<1>16. SaidByCalling
  BY <1>1, <1>5, <1>14, <1>15, NodeCalled
<1>17. QED
  BY <1>1, <1>5, <1>16 DEF Says

\* Diagnostics are never withdrawn.
LEMMA CleanBefore == ASSUME TypeOK, [Next]_vars, Clean' PROVE Clean
<1>1. errors \in Nat
  BY DEF TypeOK
<1>2. /\ warnings' = warnings /\ warnings < MaxDiagnostics
      /\ ~cancelled
  <2> DEFINE Keeps == warnings' = warnings /\ (cancelled' = cancelled \/ cancelled')
  <2> SUFFICES Keeps
    BY DEF Clean
  <2>1. ASSUME NEW frames, NEW count, Quietly(frames, count) PROVE Keeps
    BY <2>1 DEF Quietly
  <2>2. ASSUME NEW pieces, Emit(pieces) PROVE Keeps
    BY <2>2 DEF Emit
  <2>3. CASE RenderCancelled \/ RenderLimited \/ EvaluationFails \/ RenderFill \/ RenderIf
             \/ RenderReference \/ NextItem \/ Return
    <3> HIDE DEF Keeps
    <3>1. QED
      BY <2>1, <2>3 DEF RenderCancelled, RenderLimited, EvaluationFails, RenderFill, RenderIf,
         RenderReference, NextItem, Return
  <2>4. CASE RenderText \/ RenderExpression
    <3> HIDE DEF Keeps
    <3>1. QED
      BY <2>1, <2>2, <2>4 DEF RenderText, RenderExpression
  <2>5. CASE RenderFor
    BY <2>1, <2>5 DEF RenderFor
  <2>6. CASE RenderShellContent
    BY <2>2, <2>6 DEF RenderShellContent
  <2>7. CASE RenderCall
    <3> HIDE DEF Keeps
    <3>1. QED
      BY <2>1, <2>7 DEF RenderCall
  <2>8. CASE ReturnStyled \/ Finish \/ Cancel \/ UNCHANGED vars
    BY <2>8 DEF ReturnStyled, Finish, Cancel, vars
  <2>9. QED
    BY <2>3, <2>4, <2>5, <2>6, <2>7, <2>8 DEF Next, Advance
<1>3. errors' = 0 /\ Issue(errors) # 0 /\ Failed(Node.of, errors) # 0 /\ errors + 1 # 0
  BY <1>1, <1>2, IssueLeaves, FailedLeaves DEF Clean
<1>4. ASSUME NEW pieces, NEW written, NEW count \in Nat, AppendPieces(written, pieces, count) PROVE count = 0
  <2>1. Issue(count) # 0
    BY <1>2, IssueLeaves
  <2>2. QED
    BY <1>3, <1>4, <2>1 DEF AppendPieces
<1>5. ASSUME NEW pieces, Emit(pieces) PROVE errors = 0
  BY <1>1, <1>4, <1>5 DEF Emit
<1>6. ASSUME NEW frames, NEW count, Quietly(frames, count) PROVE count = 0
  BY <1>3, <1>6 DEF Quietly
<1>7. errors = 0
  <2>1. CASE RenderCancelled \/ RenderLimited \/ EvaluationFails \/ RenderFill \/ RenderIf
             \/ RenderReference \/ NextItem \/ Return
    BY <1>3, <1>6, <2>1 DEF RenderCancelled, RenderLimited, EvaluationFails, RenderFill, RenderIf,
       RenderReference, NextItem, Return
  <2>2. CASE RenderText \/ RenderExpression \/ RenderFor \/ RenderShellContent
    BY <1>3, <1>5, <1>6, <2>2 DEF RenderText, RenderExpression, RenderFor, RenderShellContent
  <2>3. CASE RenderCall
    <3> DEFINE definition == program.components[Node.component]
               children == Body(Node.children)
               call == Prepared(definition)
               slots == Filled(children, Top.env)
    <3>1. HasNode /\ stack # <<>> /\ Node.kind = "call" /\ Node \in NodeType
      BY <2>3, NodeTyped DEF RenderCall, Renders, HasNode
    <3>2. \/ Quietly(Advanced, Issue(errors))
          \/ /\ definition # None
             /\ Quietly(Append(Advanced, CallFrame(definition, call, slots)),
                        IssueEach(call.errors, SlotErrors(definition, children)))
      BY <2>3 DEF RenderCall
    <3>3. /\ definition # None
          /\ IssueEach(call.errors, SlotErrors(definition, children)) = 0
      <4> HIDE DEF definition, children, call, slots
      <4>1. QED
        BY <1>3, <1>6, <3>2
    <3>4. /\ Node.arguments \in Seq(Argument) /\ definition \in Definition /\ children \in Seq(NodeType)
      BY <3>1, <3>3, NodeFields, ProgramParts
    <3>5. call \in CallType /\ SlotErrors(definition, children) \in Nat
      BY <3>1, <3>4, PreparedTyped, SlotErrorsTyped
    <3> HIDE DEF definition, children
    <3>6. call.errors = 0
      <4> HIDE DEF call
      <4>1. call.errors \in Nat
        BY <3>5 DEF CallType
      <4>2. QED
        BY <1>2, <3>3, <3>5, <4>1, IssueLeaves
    <3>7. QED
      BY <1>2, <3>1, <3>4, <3>6, PreparedSays
  <2>4. CASE ReturnStyled
    <3> DEFINE count == IF Top.style \in Unresolvable THEN errors + 1 ELSE errors
    <3>1. AppendPieces(Written(Top.start), Restyled(Fragment(Top.start), Top.style), count)
          /\ count \in Nat
      BY <1>1, <2>4 DEF ReturnStyled, Restyle
    <3>2. count = 0
      <4> HIDE DEF count
      <4>1. QED
        BY <1>4, <3>1
    <3>3. QED
      BY <1>3, <3>2
  <2>5. CASE Finish \/ Cancel \/ UNCHANGED vars
    BY <1>3, <2>5 DEF Finish, Cancel, vars
  <2>6. QED
    BY <2>1, <2>2, <2>3, <2>4, <2>5 DEF Next, Advance
<1>8. QED
  BY <1>2, <1>7 DEF Clean

-----------------------------------------------------------------------------
(***************************************************************************)
(* The inductive invariant: until the first diagnostic, the output and what *)
(* the active calls have left make up all that the document says.          *)
(***************************************************************************)
\* The document and the shell around it, whole.
DocumentWhole == Rendering(None)[Outermost(program.entry)]
ShellWhole == Rendering(content)[Outermost(program.shell)]

\* Until the first diagnostic, the output is on the way to all that is said.
Underway ==
  Clean =>
    /\ ~outputLimited
    /\ phase = "document" => content = None /\ \E whole : whole = DocumentWhole /\ OnTheWay(whole)
    /\ phase = "shell" =>
         /\ program.shell # None /\ content = DocumentWhole /\ content # None
         /\ \E whole : whole = ShellWhole /\ OnTheWay(whole)
    /\ phase = "done" =>
         /\ stack = <<>>
         /\ IF program.shell = None THEN output = DocumentWhole
            ELSE content = DocumentWhole /\ output = ShellWhole

\* A rendering that begins, and one that ends.
LEMMA RootOnTheWay ==
  ASSUME TypeOK, NEW b \in Block, stack = <<Root(b)>>, output = <<>>
  PROVE  \E whole : whole = Rendering(content)[Outermost(b)] /\ OnTheWay(whole)
<1> DEFINE root == Root(b)
           whole == Rendering(content)[Outermost(b)]
           v == [i \in 0..1 |-> IF i = 0 THEN whole ELSE <<>>]
<1>1. root \in FrameType
  BY RootTyped DEF TypeOK
<1>2. WorkOf(root) = Outermost(b) /\ root.style = None
  BY DEF WorkOf, Root, FrameFrom, Outermost, AllOf
<1>3. LeftBy(root) = whole
  BY <1>2 DEF LeftBy
<1>4. whole \in Out
  <2> HIDE DEF root, whole
  <2>1. QED
    BY <1>1, <1>3, LeftByTyped
<1> HIDE DEF root, whole
<1>5. stack # <<>> /\ Len(stack) = 1 /\ stack[1] = root
  BY DEF root
<1>6. Then(<<>>, whole) = whole
  BY <1>4 DEF Then, Out
<1>7. Closed(root, <<>>) = whole
  BY <1>2, <1>3, <1>6 DEF Closed, Sealed
<1>8. v \in [0..1 -> Out] /\ v[0] = whole /\ v[1] = <<>>
  BY <1>4 DEF Out
<1> HIDE DEF v
<1>9. Traced(v, whole)
  BY <1>5, <1>7, <1>8 DEF Traced
<1>10. QED
  BY <1>2, <1>5, <1>9 DEF OnTheWay, whole

LEMMA EndIsWhole ==
  ASSUME TypeOK, Ended, Len(stack) = 1, NEW whole, OnTheWay(whole)
  PROVE  output = whole
<1>1. PICK v : Traced(v, whole)
  BY DEF OnTheWay
<1>2. v[1] = output /\ v[0] = whole /\ v[0] = Closed(stack[1], v[1])
  BY <1>1 DEF Traced
<1>3. Top = stack[1] /\ Top.style = None
  BY DEF Top, OnTheWay
<1>4. Closed(Top, output) = output
  BY <1>3, NothingLeft DEF Closed, Sealed
<1>5. QED
  BY <1>2, <1>3, <1>4

\* A step without a diagnostic says what is next, or ends a rendering.
LEMMA GoesOnSaying ==
  ASSUME TypeOK, ~outputLimited, Clean, Clean', Next PROVE (Says /\ ~outputLimited') \/ Finish
<1>1. ~Cancel
  BY DEF Cancel, Clean
<1>2. QED
  BY <1>1, NoOtherGoesOn, TextSays, ExpressionSays, IfSays, ForSays, NextItemSays, ShellContentSays,
     ReferenceSays, CallSays, ReturnSays, ReturnStyledSays DEF Next, Advance

\* It holds at first.
LEMMA InitUnderway == Init => Underway
<1>1. SUFFICES ASSUME Init PROVE Underway
  OBVIOUS
<1>2. /\ TypeOK /\ stack = <<Root(program.entry)>> /\ output = <<>> /\ program.entry \in Block
      /\ phase = "document" /\ content = None /\ ~outputLimited
  <2>1. TypeOK
    BY <1>1, InitTyped
  <2>2. QED
    BY <1>1, <2>1, ProgramParts DEF Init
<1>3. \E whole : whole = Rendering(content)[Outermost(program.entry)] /\ OnTheWay(whole)
  BY <1>2, RootOnTheWay
<1>4. QED
  BY <1>2, <1>3 DEF Underway, DocumentWhole

\* The shell begins.
AtShell ==
  /\ TypeOK /\ program.shell # None /\ stack = <<Root(program.shell)>> /\ output = <<>>

ShellOnTheWay == \E whole : whole = ShellWhole /\ OnTheWay(whole)

LEMMA ShellBegins == AtShell => ShellOnTheWay
<1>1. SUFFICES ASSUME AtShell PROVE ShellOnTheWay
  OBVIOUS
<1>2. TypeOK /\ program.shell \in Block /\ stack = <<Root(program.shell)>> /\ output = <<>>
  BY <1>1, ProgramParts DEF AtShell
<1>3. QED
  BY <1>2, RootOnTheWay DEF ShellWhole, ShellOnTheWay

LEMMA ShellBegun == AtShell' => ShellOnTheWay'
BY ShellBegins, PTL

LEMMA OutermostSame == ASSUME program' = program, NEW b PROVE Outermost(b)' = Outermost(b)
BY DEF Outermost, AllOf, Body, Remaining, Nothing, Empty

\* Steps that leave the program and the content alone.
LEMMA SaidSame ==
  ASSUME program' = program
  PROVE  DocumentWhole' = DocumentWhole /\ (content' = content => ShellWhole' = ShellWhole)
<1>1. \A document : Rendering(document)' = Rendering(document)
  BY RenderingSame
<1>2. \A b : Outermost(b)' = Outermost(b)
  BY OutermostSame
<1>3. QED
  BY <1>1, <1>2 DEF DocumentWhole, ShellWhole

LEMMA OnTheWaySame ==
  ASSUME UNCHANGED <<program, content, stack, output>>, NEW whole, OnTheWay(whole)
  PROVE  OnTheWay(whole)'
<1>1. \A frame, pieces : Closed(frame, pieces)' = Closed(frame, pieces)
  BY ClosedSame
<1>2. QED
  BY <1>1 DEF OnTheWay, Traced

\* The invariant is kept.
LEMMA UnderwayKept == ASSUME TypeOK, TypeOK', Underway, [Next]_vars PROVE Underway'
<1>1. SUFFICES ASSUME Clean' PROVE Underway'
  BY DEF Underway
<1>2. Clean
  BY <1>1, CleanBefore
<1>3. /\ ~outputLimited
      /\ phase = "document" => content = None /\ \E whole : whole = DocumentWhole /\ OnTheWay(whole)
      /\ phase = "shell" =>
           /\ program.shell # None /\ content = DocumentWhole /\ content # None
           /\ \E whole : whole = ShellWhole /\ OnTheWay(whole)
      /\ phase = "done" =>
           /\ stack = <<>>
           /\ IF program.shell = None THEN output = DocumentWhole
              ELSE content = DocumentWhole /\ output = ShellWhole
  BY <1>2 DEF Underway
<1>4. phase \in {"document", "shell", "done"}
  BY DEF TypeOK
<1>5. CASE UNCHANGED vars
  <2>1. UNCHANGED <<program, phase, content, stack, output, outputLimited>>
    BY <1>5 DEF vars
  <2>2. DocumentWhole' = DocumentWhole /\ ShellWhole' = ShellWhole
    BY <2>1, SaidSame
  <2>3. \A whole : OnTheWay(whole) => OnTheWay(whole)'
    BY <2>1, OnTheWaySame
  <2>4. QED
    BY <1>3, <2>1, <2>2, <2>3 DEF Underway
<1>6. CASE Says /\ ~outputLimited'
  <2>1. UNCHANGED <<program, phase, content>> /\ stack # <<>>
    BY <1>6 DEF Says
  <2>2. DocumentWhole' = DocumentWhole /\ ShellWhole' = ShellWhole
    BY <2>1, SaidSame
  <2>3. \A whole : OnTheWay(whole) => OnTheWay(whole)'
    BY <1>6, StaysOnTheWay
  <2>4. QED
    BY <1>3, <1>6, <2>1, <2>2, <2>3 DEF Underway
<1>7. CASE Finish
  <2>1. Ended /\ Len(stack) = 1 /\ program' = program /\ stack # <<>>
    BY <1>7 DEF Finish, Ended
  <2>2. \A whole : OnTheWay(whole) => output = whole
    BY <2>1, EndIsWhole
  <2>3. phase \in {"document", "shell"}
    BY <1>3, <1>4, <2>1
  <2>4. DocumentWhole' = DocumentWhole /\ (content' = content => ShellWhole' = ShellWhole)
    BY <2>1, SaidSame
  <2>5. CASE phase = "document" /\ program.shell # None
    <3>1. /\ phase' = "shell" /\ stack' = <<Root(program.shell)>> /\ content' = output
          /\ output' = <<>> /\ outputLimited' = FALSE
      BY <1>2, <1>7, <2>5 DEF Finish, Clean
    <3>2. Root(program.shell)' = Root(program.shell)
      BY <2>1 DEF Root, FrameFrom, Body, Nothing, Empty
    <3>3. AtShell'
      BY <2>1, <2>5, <3>1, <3>2 DEF AtShell
    <3>4. \E whole : whole = ShellWhole' /\ OnTheWay(whole)'
      BY <3>3, ShellBegun DEF ShellOnTheWay
    <3>5. output = DocumentWhole /\ output # None
      BY <1>3, <2>2, <2>5, NoneIsNoOutput DEF TypeOK
    <3>6. QED
      BY <2>1, <2>4, <2>5, <3>1, <3>4, <3>5 DEF Underway
  <2>6. CASE ~(phase = "document" /\ program.shell # None)
    <3>1. /\ phase' = "done" /\ stack' = <<>> /\ UNCHANGED <<content, output, outputLimited>>
      BY <1>7, <2>6 DEF Finish
    <3>2. CASE phase = "document"
      <4>1. program.shell = None /\ output = DocumentWhole
        BY <1>3, <2>2, <2>6, <3>2
      <4>2. QED
        BY <1>3, <2>1, <2>4, <3>1, <4>1 DEF Underway
    <3>3. CASE phase = "shell"
      <4>1. program.shell # None /\ content = DocumentWhole /\ output = ShellWhole
        BY <1>3, <2>2, <3>3
      <4>2. QED
        BY <1>3, <2>1, <2>4, <3>1, <4>1 DEF Underway
    <3>4. QED
      BY <2>3, <3>2, <3>3
  <2>7. QED
    BY <2>5, <2>6
<1>8. CASE Cancel
  BY <1>1, <1>8 DEF Cancel, Clean
<1>9. QED
  BY <1>1, <1>2, <1>3, <1>5, <1>6, <1>7, GoesOnSaying

\* A rendering that ends without an error has written all that the document says,
\* and so has its shell (renderer.cpp:40-455, compiler.cpp:85-128).
THEOREM OkIsComplete == Spec => []CompleteWhenOk
<1>1. Init => TypeOK /\ FragmentsNest /\ Underway
  BY InitTyped, InitNests, InitUnderway
<1>2. (TypeOK /\ FragmentsNest /\ Underway) /\ [Next]_vars => (TypeOK /\ FragmentsNest /\ Underway)'
  BY NextSteps, TypesKept, NestKept, UnderwayKept
<1>3. TypeOK /\ Underway => CompleteWhenOk
  BY DEF Underway, CompleteWhenOk, Clean, Ok, DocumentWhole, ShellWhole, TypeOK
<1>4. QED
  BY <1>1, <1>2, <1>3, PTL DEF Spec
=============================================================================
