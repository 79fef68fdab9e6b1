------------------------------ MODULE Renderer ------------------------------
(***************************************************************************)
(* Rendering of a loaded document and of its shell: class Renderer         *)
(* (email-markup-core/src/rendering/renderer.cpp) and the rendering half   *)
(* of compile() (compilation/compiler.cpp:85-128).                         *)
(*                                                                         *)
(* The AST is a set of blocks, each a sequence of nodes that name the      *)
(* blocks below them.  The mutual recursion of render_nodes and the        *)
(* render_node overloads is the stack of frames below: a frame is a call   *)
(* of render_nodes with the loop, slot, branch or component that made it.  *)
(* A step renders one node, starts an iteration, or ends a call.           *)
(*                                                                         *)
(* A piece of output has size one: a text node, an emitted value, or the   *)
(* style attribute that a call adds to its root tag.  Every diagnostic     *)
(* issued here is an error; "warnings" counts those that the loader left   *)
(* (registry.cpp:13).                                                      *)
(***************************************************************************)
EXTENDS SequencesExt

CONSTANTS
  Name,          \* props, loop bindings, top-level names of the compile data
  Component, Slot, Block,
  Value,         \* JSON values
  Truthy,        \* the values truthy() accepts
  Emittable,     \* the values emit_scalar() accepts
  Text,          \* the values that are strings
  Unresolvable,  \* the strings whose style layers do not resolve
  Elements,      \* the elements of each array or object, None of other values
  KeyName,       \* the name bound to the key beside a loop variable, or None
  Warnings,      \* the numbers of warnings considered
  Programs,      \* the loaded documents and compile data considered
  Default,       \* the slot named "default"
  Style,         \* the argument named "style" or "css"
  Null,          \* JSON null
  Invalid,       \* an expression whose evaluation fails whatever the scope
  Broken,        \* an interpolated string that evaluate() itself refuses
  Unset, None,
  MaxExpansionDepth, MaxLoopIterations, MaxHtmlBytes, MaxDiagnostics,
  MayCancel

\* An expression is a path, a constant or one that fails.
Expression == Name \cup Value \cup {Invalid, Broken}
Bindings == [Name -> Value \cup {Unset}]
Argument == [name: Name \cup {Style}, of: Expression]
Item == [value: Value, key: Value \cup {Unset}]     \* no key in an array

NodeType ==
  [kind: {"text"}]
    \cup [kind: {"expression"}, of: Expression]
    \cup [kind: {"if"}, of: Expression, then: Block, else: Block]
    \cup [kind: {"for"}, of: Expression, variable: Name, body: Block]
    \cup [kind: {"reference"}, slot: Slot]
    \cup [kind: {"fill"}, slot: Slot, body: Block]
    \cup [kind: {"call"}, component: Component, arguments: Seq(Argument),
          children: Block, selfClosing: BOOLEAN]

\* "accepts" is what validate_prop() lets through; "otherwise" is the default
\* expression, Null for an optional prop without one, None for a required prop.
Prop == [name: Name, accepts: SUBSET Value, otherwise: Expression \cup {None}]
Definition == [props: Seq(Prop), slots: [Slot -> {"required", "optional", "undeclared"}],
               body: Block]

ProgramType ==
  [blocks: [Block -> Seq(NodeType)], components: [Component -> Definition \cup {None}],
   data: Bindings, entry: Block, shell: Block \cup {None}]

ASSUME ProgramAssumption == Programs \subseteq ProgramType
ASSUME ValueAssumption ==
  /\ Null \in Value \ (Truthy \cup Emittable)
  /\ Truthy \subseteq Value /\ Text \subseteq Emittable /\ Emittable \subseteq Value
  /\ Unresolvable \subseteq Text
  /\ Elements \in [Value -> Seq(Item) \cup {None}]
  /\ \A v \in Emittable \cup {Null} : Elements[v] = None
  /\ KeyName \in [Name -> Name \cup {None}]
ASSUME MarkerAssumption ==
  /\ Unset \notin Value /\ {Invalid, Broken} \cap (Name \cup Value) = {}
  /\ None \notin Definition \cup Expression \cup Block \cup Seq(Item)
  /\ None \notin Seq(Value \cup {"text", "style"})
  /\ Default \in Slot /\ IsFiniteSet(Slot) /\ Style \notin Name
ASSUME LimitAssumption ==
  /\ MaxExpansionDepth \in Nat /\ MaxLoopIterations \in Nat
  /\ MaxHtmlBytes \in Nat /\ MaxDiagnostics \in Nat /\ Warnings \subseteq Nat
ASSUME CancelAssumption == MayCancel \in BOOLEAN

VARIABLES
  program,
  phase,           \* "document", then "shell" if there is one, then "done"
  stack,           \* the active calls of render_nodes, innermost last
  output,          \* output_.html, one element for each piece appended
  content,         \* shell_content_: the rendered document, once in the shell
  warnings, errors, \* the diagnostics, by severity
  loopIterations,
  outputLimited,
  cancelled

vars == <<program, phase, stack, output, content, warnings, errors, loopIterations,
          outputLimited, cancelled>>

-----------------------------------------------------------------------------
Nothing == [n \in Name |-> Unset]
Empty == [s \in Slot |-> None]

Top == stack[Len(stack)]
Body(b) == program.blocks[b]
HasNode == stack # <<>> /\ Top.next <= Len(Top.nodes)
Node == Top.nodes[Top.next]

\* diagnostic() drops what does not fit under maximum_diagnostics; the errors of
\* evaluate_expression and validate_prop are inserted past it.
IssueEach(count, n) ==
  LET room == MaxDiagnostics - (warnings + count)
  IN IF room <= 0 THEN count ELSE IF n <= room THEN count + n ELSE count + room
Issue(count) == IssueEach(count, 1)

\* Path lookup: loop bindings, then props, then the compile data.
Lookup(name, env) ==
  IF env.locals[name] # Unset THEN env.locals[name]
  ELSE IF env.props[name] # Unset THEN env.props[name]
  ELSE program.data[name]

\* The value of an expression, or Unset if its evaluation fails.
Evaluate(e, env) ==
  IF e \in Name THEN Lookup(e, env) ELSE IF e \in {Invalid, Broken} THEN Unset ELSE e

\* The errors after the evaluation of an expression has failed: evaluate() passes
\* on the error of evaluate_expression past the cap, its own goes to diagnostic().
Failed(e, count) == IF e = Broken THEN Issue(count) ELSE count + 1

\* The loop of the top call, past its node.
Advanced == [stack EXCEPT ![Len(stack)].next = @ + 1]
\* The top call returns early.
Left == [stack EXCEPT ![Len(stack)].next = Len(Top.nodes) + 1]

FrameFrom(start, kind, nodes, env, slots, depth) ==
  [kind |-> kind, nodes |-> nodes, next |-> 1, env |-> env, slots |-> slots,
   depth |-> depth, start |-> start, style |-> None, variable |-> None, items |-> <<>>]
Frame(kind, nodes, env, slots, depth) ==
  FrameFrom(Len(output), kind, nodes, env, slots, depth)

Root(b) == FrameFrom(0, "root", Body(b), [locals |-> Nothing, props |-> Nothing], Empty, 0)

Init ==
  /\ program \in Programs
  /\ phase = "document"
  /\ output = <<>>
  /\ stack = <<Root(program.entry)>>
  /\ content = None
  /\ warnings \in Warnings
  /\ errors = 0
  /\ loopIterations = 0
  /\ outputLimited = FALSE
  /\ cancelled = FALSE

-----------------------------------------------------------------------------
\* The rendering goes on without a change to the output.
Quietly(frames, count) ==
  /\ stack' = frames
  /\ errors' = count
  /\ UNCHANGED <<program, phase, output, content, warnings, loopIterations,
                 outputLimited, cancelled>>

\* append() to an output that holds "written", after "count" errors.
\* Mutant: the limit is not tested.
AppendUnlimited(written, pieces, count) ==
  /\ output' = written \o pieces
  /\ errors' = count
  /\ UNCHANGED outputLimited
AppendPieces(written, pieces, count) ==
  \/ /\ Len(written) + Len(pieces) <= MaxHtmlBytes
     /\ output' = written \o pieces
     /\ errors' = count
     /\ UNCHANGED outputLimited
  \/ /\ Len(written) + Len(pieces) > MaxHtmlBytes
     /\ output' = written
     /\ errors' = IF outputLimited THEN count ELSE Issue(count)
     /\ outputLimited' = TRUE

Emit(pieces) ==
  /\ AppendPieces(output, pieces, errors)
  /\ stack' = Advanced
  /\ UNCHANGED <<program, phase, content, warnings, loopIterations, cancelled>>

\* render_nodes tests the token and the limit before every node.
RenderCancelled ==
  HasNode /\ cancelled /\ Quietly(Left, Issue(errors))
RenderLimited ==
  HasNode /\ ~cancelled /\ outputLimited /\ Quietly(Left, errors)
Renders(kind) ==
  HasNode /\ ~cancelled /\ ~outputLimited /\ Node.kind = kind

RenderText == Renders("text") /\ Emit(<<"text">>)

EvaluationFails ==
  /\ \E kind \in {"expression", "if", "for"} : Renders(kind)
  /\ Evaluate(Node.of, Top.env) = Unset
  /\ Quietly(Advanced, Failed(Node.of, errors))

RenderExpression ==
  /\ Renders("expression")
  /\ \E value \in {Evaluate(Node.of, Top.env)} \ {Unset} :
       \/ value \in Emittable /\ Emit(<<value>>)
       \/ value \notin Emittable /\ Quietly(Advanced, Issue(errors))

RenderIf ==
  /\ Renders("if")
  /\ \E value \in {Evaluate(Node.of, Top.env)} \ {Unset} :
       LET branch == IF value \in Truthy THEN Node.then ELSE Node.else
       IN Quietly(Append(Advanced, Frame("branch", Body(branch), Top.env, Top.slots, Top.depth)),
                  errors)

\* Every iteration is charged before the first one runs.  The frame of a loop
\* starts behind its body: NextItem begins each iteration.
LoopFrame(items) ==
  [Frame("loop", Body(Node.body), Top.env, Top.slots, Top.depth) EXCEPT
     !.next = Len(Body(Node.body)) + 1, !.variable = Node.variable, !.items = items]

\* Mutant: the budget is tested against this loop alone.
ChargeAlone(items) == Len(items) <= MaxLoopIterations
Charge(items) == loopIterations + Len(items) <= MaxLoopIterations

RenderFor ==
  /\ Renders("for")
  /\ \E value \in {Evaluate(Node.of, Top.env)} \ {Unset} :
       LET items == Elements[value] IN
       \/ items = None /\ Quietly(Advanced, Issue(errors))
       \/ items # None /\ ~Charge(items) /\ Quietly(Advanced, Issue(errors))
       \/ /\ items # None /\ Charge(items)
          /\ loopIterations' = loopIterations + Len(items)
          /\ stack' = Append(Advanced, LoopFrame(items))
          /\ UNCHANGED <<program, phase, output, content, warnings, errors,
                         outputLimited, cancelled>>

\* The binding of an iteration, and of its key if it has one.
Bound(env, name, item) ==
  [env EXCEPT !.locals = [n \in Name |->
     IF item.key # Unset /\ n = KeyName[name] THEN item.key
     ELSE IF n = name THEN item.value ELSE env.locals[n]]]

\* Mutant: the item is not consumed.
NextItemAgain ==
  /\ stack # <<>> /\ ~HasNode /\ Top.items # <<>>
  /\ Quietly([stack EXCEPT ![Len(stack)] =
       [Top EXCEPT !.env = Bound(@, Top.variable, Head(Top.items)), !.next = 1]], errors)
NextItem ==
  /\ stack # <<>> /\ ~HasNode /\ Top.items # <<>>
  /\ LET entered == [Top EXCEPT !.env = Bound(@, Top.variable, Head(Top.items)),
                                !.next = 1, !.items = Tail(@)]
         left == [Top EXCEPT !.items = <<>>]
     IN Quietly([stack EXCEPT ![Len(stack)] = IF cancelled THEN left ELSE entered], errors)

-----------------------------------------------------------------------------
\* In a shell the default slot, wherever it is written, is the document.  What
\* fits of it is appended.
RenderShellContent ==
  /\ Renders("reference")
  /\ content # None /\ Node.slot = Default
  /\ LET room == MaxHtmlBytes - Len(output)
     IN IF Len(content) <= room THEN Emit(content)
        ELSE /\ output' = output \o SubSeq(content, 1, room)
             /\ errors' = Issue(errors)
             /\ outputLimited' = TRUE
             /\ stack' = Advanced
             /\ UNCHANGED <<program, phase, content, warnings, loopIterations, cancelled>>

\* The content of a slot has the variables of the place that filled it, and the
\* slots of the place that references it.  A slot without content is skipped.
\* Mutant: it has the variables of the place that references it.
SlotFrameOfCallee(filled) == Frame("slot", filled.nodes, Top.env, Top.slots, Top.depth)
SlotFrame(filled) == Frame("slot", filled.nodes, filled.env, Top.slots, Top.depth)

RenderReference ==
  /\ Renders("reference")
  /\ content = None \/ Node.slot # Default
  /\ LET filled == Top.slots[Node.slot]
     IN Quietly(IF filled = None THEN Advanced ELSE Append(Advanced, SlotFrame(filled)), errors)

\* A fill that is not directly inside a call.
RenderFill == Renders("fill") /\ Quietly(Advanced, Issue(errors))

-----------------------------------------------------------------------------
\* One argument of a call: the first of its name counts.
\* Mutant: a style need not be a string.
SupplyAnyStyle(definition, call, argument) ==
  LET value == Evaluate(argument.of, Top.env)
      declared == {p \in ToSet(definition.props) : p.name = argument.name}
      seen == [call EXCEPT !.supplied = @ \cup {argument.name}]
  IN IF argument.name \in call.supplied THEN call
     ELSE IF value = Unset THEN [seen EXCEPT !.errors = Failed(argument.of, @)]
     ELSE IF argument.name = Style THEN [seen EXCEPT !.style = value]
     ELSE IF declared = {} THEN [seen EXCEPT !.errors = Issue(@)]
     ELSE [seen EXCEPT !.env.props[argument.name] = value]
Supply(definition, call, argument) ==
  LET value == Evaluate(argument.of, Top.env)
      declared == {p \in ToSet(definition.props) : p.name = argument.name}
      seen == [call EXCEPT !.supplied = @ \cup {argument.name}]
  IN IF argument.name \in call.supplied THEN call
     ELSE IF value = Unset THEN [seen EXCEPT !.errors = Failed(argument.of, @)]
     ELSE IF argument.name = Style
          THEN IF value \in Text THEN [seen EXCEPT !.style = value]
               ELSE [seen EXCEPT !.errors = Issue(@)]
     ELSE IF declared = {} THEN [seen EXCEPT !.errors = Issue(@)]
     ELSE IF \E p \in declared : value \notin p.accepts THEN [seen EXCEPT !.errors = @ + 1]
     ELSE [seen EXCEPT !.env.props[argument.name] = value]

\* One declared prop of a call whose arguments are read: its default, evaluated
\* among the props so far, unless the component already sees a prop of its name.
Complete(call, prop) ==
  LET value == Evaluate(prop.otherwise, call.env)
  IN IF call.env.props[prop.name] # Unset THEN call
     ELSE IF prop.otherwise = None THEN [call EXCEPT !.errors = Issue(@)]
     ELSE IF value = Unset THEN [call EXCEPT !.errors = Failed(prop.otherwise, @)]
     ELSE [call EXCEPT !.env.props[prop.name] = value]

\* The body starts from the variables of the caller.
Supplied(definition) ==
  LET call[i \in 0..Len(Node.arguments)] ==
        IF i = 0 THEN [env |-> Top.env, supplied |-> {}, style |-> None, errors |-> errors]
        ELSE Supply(definition, call[i - 1], Node.arguments[i])
  IN call[Len(Node.arguments)]
Prepared(definition) ==
  LET call[i \in 0..Len(definition.props)] ==
        IF i = 0 THEN Supplied(definition) ELSE Complete(call[i - 1], definition.props[i])
  IN call[Len(definition.props)]

FillsOf(children) == {i \in DOMAIN children : children[i].kind = "fill"}
RestOf(children) ==
  LET rest[i \in 0..Len(children)] ==
        IF i = 0 THEN <<>>
        ELSE IF children[i].kind = "fill" THEN rest[i - 1] ELSE Append(rest[i - 1], children[i])
  IN rest[Len(children)]

\* Named fills, the last of each name, and the other children as the default.
Filled(children, env) ==
  LET fills(s) == {i \in FillsOf(children) : children[i].slot = s}
      last(s) == CHOOSE i \in fills(s) : \A j \in fills(s) : j <= i
  IN [s \in Slot |->
        IF s = Default /\ RestOf(children) # <<>>
        THEN [nodes |-> RestOf(children), env |-> env]
        ELSE IF fills(s) # {}
        THEN [nodes |-> Body(children[last(s)].body), env |-> env]
        ELSE None]

\* Mutant: a slot that is filled twice is not reported.
SlotErrorsOfFilled(definition, children) ==
  LET filled == {s \in Slot : Filled(children, Top.env)[s] # None}
      with(status) == {s \in Slot : definition.slots[s] = status}
      count(condition) == IF condition THEN 1 ELSE 0
  IN Cardinality(filled \cap with("undeclared"))
       + Cardinality(with("required") \ filled)
       + count(with("undeclared") = Slot /\ children # <<>>)
       + count(with("required") # {} /\ Node.selfClosing)
SlotErrors(definition, children) ==
  LET fills == FillsOf(children)
      filled == {s \in Slot : Filled(children, Top.env)[s] # None}
      with(status) == {s \in Slot : definition.slots[s] = status}
      count(condition) == IF condition THEN 1 ELSE 0
  IN (Cardinality(fills) - Cardinality({children[i].slot : i \in fills}))
       + Cardinality(filled \cap with("undeclared"))
       + Cardinality(with("required") \ filled)
       + count(with("undeclared") = Slot /\ children # <<>>)
       + count(with("required") # {} /\ Node.selfClosing)

\* The caller's slots are not the callee's.
\* Mutant: the callee runs at the depth of its caller.
CallFrameSameDepth(definition, call, slots) ==
  [Frame("call", Body(definition.body), call.env, slots, Top.depth)
     EXCEPT !.style = call.style]
CallFrame(definition, call, slots) ==
  [Frame("call", Body(definition.body), call.env, slots, Top.depth + 1)
     EXCEPT !.style = call.style]

RenderCall ==
  /\ Renders("call")
  /\ LET definition == program.components[Node.component]
         children == Body(Node.children)
     IN \/ /\ Top.depth >= MaxExpansionDepth \/ definition = None
           /\ Quietly(Advanced, Issue(errors))
        \/ /\ Top.depth < MaxExpansionDepth /\ definition # None
           /\ LET call == Prepared(definition)
              IN Quietly(Append(Advanced, CallFrame(definition, call, Filled(children, Top.env))),
                         IssueEach(call.errors, SlotErrors(definition, children)))

-----------------------------------------------------------------------------
\* apply_root_styles adds an attribute to the first tag, if there is one; what
\* an expression emits is escaped and holds no tag.
Restyled(fragment, style) ==
  LET tag == SelectInSeq(fragment, LAMBDA piece : piece = "text")
  IN IF tag = 0 \/ style \in Unresolvable THEN fragment
     ELSE InsertAt(fragment, tag + 1, "style")

Ended == stack # <<>> /\ ~HasNode /\ Top.items = <<>>

Return ==
  /\ Ended /\ Len(stack) > 1 /\ Top.style = None
  /\ Quietly(Front(stack), errors)

\* The fragment that a styled call has written is cut off and appended again.
\* Mutant: the style goes to the first tag of the whole output.
Written(start) == SubSeq(output, 1, start)
Fragment(start) == SubSeq(output, start + 1, Len(output))
RestyleFirstTag(start, style, count) ==
  AppendPieces(Restyled(Written(start), style), Fragment(start), count)
Restyle(start, style, count) ==
  AppendPieces(Written(start), Restyled(Fragment(start), style), count)

ReturnStyled ==
  /\ Ended /\ Len(stack) > 1 /\ Top.style # None
  /\ Restyle(Top.start, Top.style, IF Top.style \in Unresolvable THEN errors + 1 ELSE errors)
  /\ stack' = Front(stack)
  /\ UNCHANGED <<program, phase, content, warnings, loopIterations, cancelled>>

\* compile() renders the shell, with a renderer of its own, around a document
\* that has no error.
Finish ==
  /\ Ended /\ Len(stack) = 1
  /\ IF phase = "document" /\ program.shell # None /\ errors = 0
     THEN /\ phase' = "shell"
          /\ stack' = <<Root(program.shell)>>
          /\ content' = output
          /\ output' = <<>>
          /\ loopIterations' = 0
          /\ outputLimited' = FALSE
     ELSE /\ phase' = "done"
          /\ stack' = <<>>
          /\ UNCHANGED <<content, output, loopIterations, outputLimited>>
  /\ UNCHANGED <<program, warnings, errors, cancelled>>

Cancel ==
  /\ MayCancel /\ ~cancelled /\ phase # "done"
  /\ cancelled' = TRUE
  /\ UNCHANGED <<program, phase, stack, output, content, warnings, errors,
                 loopIterations, outputLimited>>

Advance ==
  \/ RenderCancelled \/ RenderLimited \/ RenderText \/ EvaluationFails
  \/ RenderExpression \/ RenderIf \/ RenderFor \/ NextItem
  \/ RenderShellContent \/ RenderReference \/ RenderFill \/ RenderCall
  \/ Return \/ ReturnStyled \/ Finish

Next == Advance \/ Cancel

Spec == Init /\ [][Next]_vars
\* The thread that compiles is not suspended for ever.
FairSpec == Spec /\ WF_vars(Advance)

-----------------------------------------------------------------------------
Scope == [locals: Bindings, props: Bindings]
Content == [nodes: Seq(NodeType), env: Scope]
FrameType ==
  [kind: {"root", "branch", "loop", "slot", "call"},
   nodes: Seq(NodeType), next: Nat \ {0}, env: Scope,
   slots: [Slot -> Content \cup {None}], depth: Nat, start: Nat,
   style: Text \cup {None}, variable: Name \cup {None}, items: Seq(Item)]
Piece == Value \cup {"text", "style"}

\* The type invariant.
TypeOK ==
  /\ program \in ProgramType
  /\ phase \in {"document", "shell", "done"}
  /\ stack \in Seq(FrameType)
  /\ output \in Seq(Piece)
  /\ content \in Seq(Piece) \cup {None}
  /\ warnings \in Warnings /\ errors \in Nat
  /\ loopIterations \in Nat
  /\ outputLimited \in BOOLEAN /\ cancelled \in BOOLEAN

Calls == {i \in DOMAIN stack : stack[i].kind = "call"}

\* The depth argument counts the active component calls, through loops,
\* branches and slots, and the expansion limit holds (renderer.cpp:308, 435).
DepthExact ==
  stack # <<>> => Top.depth = Cardinality(Calls) /\ Top.depth <= MaxExpansionDepth

\* The iterations that the first i active calls have yet to run.
Waiting[i \in 0..Len(stack)] == IF i = 0 THEN 0 ELSE Waiting[i - 1] + Len(stack[i].items)

\* The iterations that the active loops have yet to run are part of what the
\* budget was charged with, and the charge is within it (renderer.cpp:237-243).
LoopBudget == Waiting[Len(stack)] <= loopIterations /\ loopIterations <= MaxLoopIterations

\* The fragment of a call begins within the fragment of its caller and within
\* the output, and the output is within its limit: the cut of
\* renderer.cpp:441-445 is always in range.
FragmentsNest ==
  /\ \A i, j \in DOMAIN stack : i <= j => stack[i].start <= stack[j].start
  /\ \A i \in DOMAIN stack : stack[i].start <= Len(output)
  /\ Len(output) <= MaxHtmlBytes

\* Each limit counts what it is meant to count, through calls, loops and slots.
WithinLimits == DepthExact /\ LoopBudget /\ FragmentsNest

\* Whatever a call does to its output, what was written before it stays as it
\* was (renderer.cpp:434-446).
WrittenIsKept ==
  [][phase' = phase =>
       \A i \in DOMAIN stack \cap DOMAIN stack' :
         /\ stack'[i].start = stack[i].start
         /\ SubSeq(output', 1, stack[i].start) = SubSeq(output, 1, stack[i].start)]_vars

-----------------------------------------------------------------------------
(***************************************************************************)
(* What a document says: the pieces that its nodes stand for, without      *)
(* limits, diagnostics, frames or an output to write to; None where a      *)
(* diagnostic is due.  Variables and slots are found as in the code.       *)
(***************************************************************************)
\* What is to be rendered: the nodes from the next one on, and then all of them
\* once more for each item.
Work ==
  [nodes: Seq(NodeType), next: Nat \ {0}, env: Scope, slots: [Slot -> Content \cup {None}],
   variable: Name \cup {None}, items: Seq(Item)]
Remaining(nodes, next, env, slots, variable, items) ==
  [nodes |-> nodes, next |-> next, env |-> env, slots |-> slots, variable |-> variable,
   items |-> items]
AllOf(nodes, env, slots) == Remaining(nodes, 1, env, slots, None, <<>>)
EachOf(node, env, slots, items) ==
  Remaining(Body(node.body), Len(Body(node.body)) + 1, env, slots, node.variable, items)

Then(before, after) ==
  IF before \in Seq(Piece) /\ after \in Seq(Piece) THEN before \o after ELSE None
Styled(pieces, style) ==
  IF style = None \/ pieces = None THEN pieces
  ELSE IF style \in Unresolvable THEN None ELSE Restyled(pieces, style)

\* The first argument of a name counts.
Named(arguments) == {arguments[k].name : k \in DOMAIN arguments}
Argued(arguments, name, env) ==
  LET ks == {k \in DOMAIN arguments : arguments[k].name = name}
  IN Evaluate(arguments[CHOOSE k \in ks : \A j \in ks : k <= j].of, env)
StyleOf(arguments, env) ==
  IF Style \in Named(arguments) THEN Argued(arguments, Style, env) ELSE None

\* The props of the caller, those of the call, and the defaults one by one.
Given(arguments, env) ==
  [n \in Name |-> IF n \in Named(arguments) THEN Argued(arguments, n, env) ELSE env.props[n]]
Defaulted(prop, locals, props) ==
  IF props[prop.name] # Unset THEN props
  ELSE [props EXCEPT ![prop.name] =
          IF prop.otherwise = None THEN Unset
          ELSE Evaluate(prop.otherwise, [locals |-> locals, props |-> props])]
PropsOf(definition, arguments, env) ==
  LET props[i \in 0..Len(definition.props)] ==
        IF i = 0 THEN Given(arguments, env)
        ELSE Defaulted(definition.props[i], env.locals, props[i - 1])
  IN props[Len(definition.props)]

\* The conditions on a call.
ArgumentsFit(definition, arguments, env) ==
  \A n \in Named(arguments) :
    LET value == Argued(arguments, n, env) IN
    IF n = Style THEN value \in Text
    ELSE /\ value # Unset
         /\ \E p \in ToSet(definition.props) : p.name = n
         /\ \A p \in ToSet(definition.props) : p.name = n => value \in p.accepts
PropsFit(definition, arguments, env) ==
  \A p \in ToSet(definition.props) : PropsOf(definition, arguments, env)[p.name] # Unset
SlotsFit(definition, node, env) ==
  LET children == Body(node.children)
      filled == {s \in Slot : Filled(children, env)[s] # None}
      with(status) == {s \in Slot : definition.slots[s] = status}
  IN /\ \A i, j \in FillsOf(children) : children[i].slot = children[j].slot => i = j
     /\ filled \cap with("undeclared") = {}
     /\ with("required") \subseteq filled
     /\ with("undeclared") = Slot => children = <<>>
     /\ with("required") # {} => ~node.selfClosing

\* Of one node, "all" being what work says, in the shell of "document" if there is one.
NodeRendering(all, document, node, env, slots) ==
  CASE node.kind = "text" -> <<"text">>
    [] node.kind = "expression" ->
         IF Evaluate(node.of, env) \in Emittable THEN <<Evaluate(node.of, env)>> ELSE None
    [] node.kind = "if" ->
         IF Evaluate(node.of, env) = Unset THEN None
         ELSE all[AllOf(Body(IF Evaluate(node.of, env) \in Truthy THEN node.then ELSE node.else),
                        env, slots)]
    [] node.kind = "for" ->
         LET value == Evaluate(node.of, env) IN
         IF value = Unset THEN None
         ELSE IF Elements[value] = None THEN None
         ELSE all[EachOf(node, env, slots, Elements[value])]
    [] node.kind = "reference" ->
         LET filled == slots[node.slot] IN
         IF document # None /\ node.slot = Default THEN document
         ELSE IF filled = None THEN <<>> ELSE all[AllOf(filled.nodes, filled.env, slots)]
    [] node.kind = "fill" -> None
    [] node.kind = "call" ->
         LET definition == program.components[node.component] IN
         IF definition = None THEN None
         ELSE IF /\ ArgumentsFit(definition, node.arguments, env)
                 /\ PropsFit(definition, node.arguments, env)
                 /\ SlotsFit(definition, node, env)
         THEN Styled(all[AllOf(Body(definition.body),
                               [locals |-> env.locals,
                                props |-> PropsOf(definition, node.arguments, env)],
                               Filled(Body(node.children), env))],
                     StyleOf(node.arguments, env))
         ELSE None

Rendering(document) ==
  LET all[w \in Work] ==
        IF w.next <= Len(w.nodes)
        THEN Then(NodeRendering(all, document, w.nodes[w.next], w.env, w.slots),
                  all[Remaining(w.nodes, w.next + 1, w.env, w.slots, w.variable, w.items)])
        ELSE IF w.items = <<>> THEN <<>>
        ELSE all[Remaining(w.nodes, 1, Bound(w.env, w.variable, Head(w.items)), w.slots,
                           w.variable, Tail(w.items))]
  IN all
Outermost(b) == AllOf(Body(b), [locals |-> Nothing, props |-> Nothing], Empty)

Ok == phase = "done" /\ errors = 0

\* A rendering that ends without an error has written all that the document
\* says, each iteration, slot, default and style, and so has the shell: no early
\* return of renderer.cpp goes unreported.  Not meant are one that was cancelled,
\* and a list of diagnostics that warnings have filled (renderer.cpp:96).
CompleteWhenOk ==
  Ok /\ ~cancelled /\ warnings < MaxDiagnostics =>
    LET document == Rendering(None)[Outermost(program.entry)] IN
    IF program.shell = None THEN output = document
    ELSE content = document /\ output = Rendering(document)[Outermost(program.shell)]

\* Rendering ends, also when components call themselves and loops nest, unless a
\* component passes the content of a slot on (see RecursionBounded).
Terminates == <>(phase = "done")

-----------------------------------------------------------------------------
(***************************************************************************)
(* What the documents say of the renderer, and the code does not do.       *)
(***************************************************************************)
\* EMAIL-MARKUP.md:111, "Filled content evaluates in the call-site scope": from
\* one call to the next the active calls of render_nodes descend the document
\* or go from a slot to the site of a call further out.
RecursionBounded ==
  Len(stack) <= (MaxExpansionDepth + 1) * (MaxExpansionDepth + 1) * Cardinality(Block)

\* EMAIL-MARKUP.md:106, "Calls reject missing required props": a call that
\* supplies no argument for a required prop leaves an error.
RequiredPropDemanded ==
  \A i \in Calls \ {1} :
    LET call == stack[i - 1].nodes[stack[i - 1].next - 1]
        names == {call.arguments[k].name : k \in DOMAIN call.arguments}
    IN (\E p \in ToSet(program.components[call.component].props) :
          p.otherwise = None /\ p.name \notin names) => errors > 0
=============================================================================
