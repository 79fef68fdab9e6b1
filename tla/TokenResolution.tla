-------------------------- MODULE TokenResolution --------------------------
(***************************************************************************)
(* Evaluation of the design tokens of a compilation: resolve_tokens        *)
(* (email-markup-core/src/compilation/tokens.cpp).                         *)
(*                                                                         *)
(* The tokens of the registry are visited in the iteration order of an     *)
(* unordered_map, which the model leaves open.  A token first resolves     *)
(* every token its expression mentions, in textual order, and is then      *)
(* evaluated with those that resolved.  A value is memoised; a failure is  *)
(* not.  The recursion of the resolve lambda is the stack of frames below. *)
(* Whether a token resolves depends on which tokens its evaluation reads,  *)
(* never on their values, so "output" keeps the names only.                *)
(***************************************************************************)
EXTENDS Naturals, Sequences, FiniteSets

CONSTANTS
  Token,        \* token names
  Definition,   \* the token definitions considered
  Undefined     \* no definition of that name in the registry

\* "mentions" are the matches of the token.<name> pattern, in order; "reads" are
\* those the evaluation looks up (a match inside a string literal, or behind a
\* short-circuited operator, is not read).  "outcome" is the evaluation's when
\* everything it reads is there: a scalar, an array or object, an evaluation
\* error, or an interpolated part that emit_scalar rejects, which fails without
\* a diagnostic.
DefinitionType ==
  [mentions: Seq(Token), reads: SUBSET Token,
   outcome: {"scalar", "composite", "error", "rejected_part"}]

ASSUME TokenAssumption == IsFiniteSet(Token)
ASSUME DefinitionAssumption ==
  /\ Definition \subseteq DefinitionType
  /\ \A d \in Definition : \A t \in d.reads : \E i \in DOMAIN d.mentions : d.mentions[i] = t
  /\ Undefined \notin Definition

VARIABLES
  tokens,       \* registry.tokens
  todo,         \* names the loop over registry.tokens has not reached
  stack,        \* the active calls of resolve, innermost last
  visiting,
  output,       \* names with a memoised value
  diagnostics

vars == <<tokens, todo, stack, visiting, output, diagnostics>>

Code == {"EM0602", "EM0603", "EM1200"}
Frame == [name: Token, next: Nat \ {0}, context: SUBSET Token]

Defined == {t \in Token : tokens[t] # Undefined}
Top == stack[Len(stack)]
TopDefinition == tokens[Top.name]
Idle == stack = <<>>
Mentioned == TopDefinition.mentions[Top.next]
HasMention == ~Idle /\ Top.next <= Len(TopDefinition.mentions)

Init ==
  /\ tokens \in [Token -> Definition \cup {Undefined}]
  /\ todo = {t \in Token : tokens[t] # Undefined}
  /\ stack = <<>>
  /\ visiting = {}
  /\ output = {}
  /\ diagnostics = <<>>

\* resolve enters a token: it is marked as visiting and starts with an empty
\* context.
\* Mutant: the loop over the mentions starts one before the first.
EnterAtZero(frames, t) ==
  /\ stack' = Append(frames, [name |-> t, next |-> 0, context |-> {}])
  /\ visiting' = visiting \cup {t}
Enter(frames, t) ==
  /\ stack' = Append(frames, [name |-> t, next |-> 1, context |-> {}])
  /\ visiting' = visiting \cup {t}

\* The frames with the top one past its mention, which resolved or did not.
\* Mutant: the loop over the mentions does not move on.
PastForgotten(found) ==
  [stack EXCEPT ![Len(stack)].context = @ \cup found]
Past(found) ==
  [stack EXCEPT ![Len(stack)].next = @ + 1,
                ![Len(stack)].context = @ \cup found]

-----------------------------------------------------------------------------
\* The loop over registry.tokens takes a name; order is the hash table's.
VisitMemoised(t) ==
  /\ Idle /\ t \in todo /\ t \in output
  /\ todo' = todo \ {t}
  /\ UNCHANGED <<tokens, stack, visiting, output, diagnostics>>

Visit(t) ==
  /\ Idle /\ t \in todo /\ t \notin output
  /\ todo' = todo \ {t}
  /\ Enter(stack, t)
  /\ UNCHANGED <<tokens, output, diagnostics>>

\* The loop over the mentions of the top token calls resolve.
MentionMemoised ==
  /\ HasMention /\ Mentioned \in output
  /\ stack' = Past({Mentioned})
  /\ UNCHANGED <<tokens, todo, visiting, output, diagnostics>>

MentionUndefined ==
  /\ HasMention /\ Mentioned \notin output \cup Defined
  /\ stack' = Past({})
  /\ UNCHANGED <<tokens, todo, visiting, output, diagnostics>>

\* Mutant: a token that is being evaluated counts as one without a value.
MentionVisitingSilently ==
  /\ HasMention /\ Mentioned \in Defined \ output
  /\ Mentioned \in visiting
  /\ stack' = Past({})
  /\ UNCHANGED <<tokens, todo, visiting, output, diagnostics>>
MentionVisiting ==
  /\ HasMention /\ Mentioned \in Defined \ output
  /\ Mentioned \in visiting
  /\ diagnostics' = Append(diagnostics, "EM0602")
  /\ stack' = Past({})
  /\ UNCHANGED <<tokens, todo, visiting, output>>

MentionNew ==
  /\ HasMention /\ Mentioned \in Defined \ (output \cup visiting)
  /\ Enter(stack, Mentioned)
  /\ UNCHANGED <<tokens, todo, output, diagnostics>>

\* The mentions are done: the expression is evaluated and resolve returns.
Evaluates == ~Idle /\ ~HasMention
\* Mutant: a token without a value reads as an empty one.
ReadableLeniently == TRUE
Readable == TopDefinition.reads \subseteq Top.context

\* The caller's frame, at the call that now returns "found".
Callers(found) ==
  IF Len(stack) = 1 THEN <<>>
  ELSE [SubSeq(stack, 1, Len(stack) - 1) EXCEPT
          ![Len(stack) - 1].next = @ + 1,
          ![Len(stack) - 1].context = @ \cup found]

\* resolve returns.
Return(found) ==
  /\ stack' = Callers(found)
  /\ visiting' = visiting \ {Top.name}

\* Mutant: the value is returned but not memoised.
EvaluateToScalarUnmemoised ==
  /\ Evaluates /\ Readable /\ TopDefinition.outcome = "scalar"
  /\ Return({Top.name})
  /\ UNCHANGED <<tokens, todo, output, diagnostics>>
EvaluateToScalar ==
  /\ Evaluates /\ Readable /\ TopDefinition.outcome = "scalar"
  /\ output' = output \cup {Top.name}
  /\ Return({Top.name})
  /\ UNCHANGED <<tokens, todo, diagnostics>>

EvaluateToComposite ==
  /\ Evaluates /\ Readable /\ TopDefinition.outcome = "composite"
  /\ diagnostics' = Append(diagnostics, "EM0603")
  /\ Return({})
  /\ UNCHANGED <<tokens, todo, output>>

\* A missing path is an evaluation error too.
EvaluateToError ==
  /\ Evaluates /\ (~Readable \/ TopDefinition.outcome = "error")
  /\ diagnostics' = Append(diagnostics, "EM1200")
  /\ Return({})
  /\ UNCHANGED <<tokens, todo, output>>

EvaluateToRejectedPart ==
  /\ Evaluates /\ Readable /\ TopDefinition.outcome = "rejected_part"
  /\ Return({})
  /\ UNCHANGED <<tokens, todo, output, diagnostics>>

Resolved == Idle /\ todo = {}

Step ==
  \/ \E t \in Token : VisitMemoised(t) \/ Visit(t)
  \/ MentionMemoised \/ MentionUndefined \/ MentionVisiting \/ MentionNew
  \/ EvaluateToScalar \/ EvaluateToComposite \/ EvaluateToError
  \/ EvaluateToRejectedPart

\* The last disjunct keeps a finished resolution from counting as a deadlock.
Next == Step \/ (Resolved /\ UNCHANGED vars)

\* resolve_tokens is plain sequential code: it takes its next step.
Spec == Init /\ [][Next]_vars
FairSpec == Spec /\ WF_vars(Step)

-----------------------------------------------------------------------------
(***************************************************************************)
(* Properties.                                                             *)
(***************************************************************************)
\* The type of every variable; the fields of a frame are the locals of resolve.
TypeOK ==
  /\ tokens \in [Token -> Definition \cup {Undefined}]
  /\ todo \in SUBSET Token
  /\ stack \in Seq(Frame)
  /\ visiting \in SUBSET Token
  /\ output \in SUBSET Token
  /\ diagnostics \in Seq(Code)

\* "visiting" is the active calls, none twice, none with a value yet: the cycle
\* test is exact and the recursion cannot go deeper than there are tokens
\* (tokens.cpp:16-27, 94).
VisitingIsStack ==
  /\ visiting = {stack[k].name : k \in DOMAIN stack}
  /\ \A j, k \in DOMAIN stack : stack[j].name = stack[k].name => j = k
  /\ visiting \subseteq Defined \ output

\* The tokens that have a value by the definitions alone: the least set closed
\* under "a scalar whose reads are in it".
Closed(S) ==
  \A t \in Defined :
    tokens[t].outcome = "scalar" /\ tokens[t].reads \subseteq S => t \in S
Resolvable == {t \in Token : \A S \in SUBSET Token : Closed(S) => t \in S}

\* Every memoised token is one the definitions give a value: no token is
\* evaluated with a dependency that has none.
OutputSound == output \subseteq Resolvable

\* Whatever order the hash table gives, exactly those tokens resolve: a failure
\* met inside another token's cycle never sticks (tokens.cpp:95-103 memoises
\* values only).
OrderIrrelevant == Resolved => output = Resolvable

\* A token that reaches itself through mentions of defined tokens.
Reaches(t) ==
  {u \in Token : \A S \in SUBSET Token :
     /\ \A s \in S \cup {t} : s \in Defined =>
          \A i \in DOMAIN tokens[s].mentions : tokens[s].mentions[i] \in S
     => u \in S}

\* Every cycle of mentions is diagnosed, wherever the visit enters it, and
\* nothing else is called a cycle (tokens.cpp:21-27).
CyclesDiagnosed ==
  Resolved =>
    ((\E i \in DOMAIN diagnostics : diagnostics[i] = "EM0602")
       <=> \E t \in Defined : t \in Reaches(t))

\* Every call of resolve returns.
Terminates == <>Resolved

-----------------------------------------------------------------------------
(***************************************************************************)
(* The strengthening that makes the invariants inductive.                  *)
(***************************************************************************)
\* The loop goes over definitions only.
TodoDefined == todo \subseteq Defined

\* A context holds only tokens that have a value.
ContextsMemoised == \A k \in DOMAIN stack : stack[k].context \subseteq output

\* A call that is not the innermost waits in the mention it called for.
Waits(k) ==
  LET mentions == tokens[stack[k].name].mentions IN
    stack[k].next \in DOMAIN mentions /\ mentions[stack[k].next] = stack[k + 1].name
CallersWait == \A k \in 1..(Len(stack) - 1) : Waits(k)

\* The tokens that have a value when those of V have none.
ClosedBut(V, S) ==
  \A t \in Defined \ V :
    tokens[t].outcome = "scalar" /\ tokens[t].reads \subseteq S => t \in S
Without(V) == {t \in Token : \A S \in SUBSET Token : ClosedBut(V, S) => t \in S}
Active(k) == {stack[j].name : j \in 1..k}

\* A mention that brought no value has none but through a call that is active.
MissingBlocked ==
  \A k \in DOMAIN stack : \A i \in DOMAIN tokens[stack[k].name].mentions :
    i < stack[k].next =>
      LET m == tokens[stack[k].name].mentions[i] IN
        m \in stack[k].context \/ m \notin Without(Active(k))

\* The loop over the registry leaves a token with its value, or without any.
VisitedDecided ==
  \A t \in Defined \ todo :
    t \in output \/ (~Idle /\ t = stack[1].name) \/ t \notin Resolvable

=============================================================================
