----------------------------- MODULE MCRenderer -----------------------------
(***************************************************************************)
(* Small instances of Renderer, and the reference its output is compared   *)
(* with: what a document means when every component is closed, its props   *)
(* are the ones the call supplies or the defaults, and the content of a    *)
(* slot belongs to the place it is written in.                             *)
(***************************************************************************)
EXTENDS Renderer, TLC

CONSTANTS
  item, itemKey, title, tone, size, who, list, dict, flag, missing,   \* names
  a, b, key, yes, no, empty, pair, object,                      \* values
  Card, Wrap, Undefined,                                        \* components
  Side                                                          \* a named slot

\* The blocks.
main == "main"
kids == "kids"
fill == "fill"
loop == "loop"
branch == "branch"
card == "card"
wrap == "wrap"
wrapKids == "wrapKids"
shell == "shell"
none == "none"
MCBlock == {main, kids, fill, loop, branch, card, wrap, wrapKids, shell, none}

MCName == {item, itemKey, title, tone, size, who, list, dict, flag, missing}
MCValue == {a, b, key, yes, no, empty, pair, object, Null}
MCElements ==
  [v \in MCValue |->
     CASE v = empty -> <<>>
       [] v = pair -> <<[value |-> a, key |-> Unset], [value |-> b, key |-> Unset]>>
       [] v = object -> <<[value |-> b, key |-> key]>>
       [] OTHER -> None]
MCKeyName == [n \in MCName |-> IF n = item THEN itemKey ELSE None]
MCData ==
  [n \in MCName |-> CASE n = who -> a [] n = list -> pair [] n = dict -> object
                      [] n = flag -> no [] OTHER -> Unset]

-----------------------------------------------------------------------------
\* The meaning of nodes in a scope [env, slots]; a filled slot holds its nodes
\* and the whole scope they are written in.
Closed(env, slots) == [env |-> env, slots |-> slots]

GivenProps(arguments, env) ==
  [n \in Name |-> IF n \in Named(arguments) THEN Argued(arguments, n, env) ELSE Unset]

\* Defaults see the props that are supplied, and the compile data.
AllProps(definition, arguments, env) ==
  LET given == GivenProps(arguments, env)
      missed == {k \in DOMAIN definition.props : given[definition.props[k].name] = Unset}
      inside == [locals |-> Nothing, props |-> given]
  IN [n \in Name |->
        IF \E k \in missed : definition.props[k].name = n
        THEN Evaluate(definition.props[CHOOSE k \in missed : definition.props[k].name = n].otherwise,
                      inside)
        ELSE given[n]]

RECURSIVE Meaning(_, _, _)
MeaningOfNode(node, scope, document) ==
  CASE node.kind = "text" -> <<"text">>
    [] node.kind = "expression" -> <<Evaluate(node.of, scope.env)>>
    [] node.kind = "if" ->
         Meaning(Body(IF Evaluate(node.of, scope.env) \in Truthy THEN node.then ELSE node.else),
                 scope, document)
    [] node.kind = "for" ->
         LET items == Elements[Evaluate(node.of, scope.env)]
         IN FlattenSeq([i \in DOMAIN items |->
              Meaning(Body(node.body),
                      Closed(Bound(scope.env, node.variable, items[i]), scope.slots), document)])
    [] node.kind = "reference" ->
         IF document # None /\ node.slot = Default THEN document
         ELSE LET filled == scope.slots[node.slot]
              IN IF filled = None THEN <<>> ELSE Meaning(filled.nodes, filled.scope, document)
    [] node.kind = "fill" -> <<>>
    [] node.kind = "call" ->
         LET definition == program.components[node.component]
             children == Body(node.children)
             written(nodes) == [nodes |-> nodes, scope |-> scope]
             rest == RestOf(children)
             fills(s) == {i \in DOMAIN children : children[i].kind = "fill" /\ children[i].slot = s}
             slots == [s \in Slot |->
                         IF fills(s) # {}
                         THEN written(Body(children[CHOOSE i \in fills(s) : TRUE].body))
                         ELSE IF s = Default /\ rest # <<>> THEN written(rest) ELSE None]
             props == AllProps(definition, node.arguments, scope.env)
             body == Meaning(Body(definition.body),
                             Closed([locals |-> Nothing, props |-> props], slots), document)
             style == StyleOf(node.arguments, scope.env)
         IN IF style = None THEN body ELSE Restyled(body, style)
Meaning(nodes, scope, document) ==
  FlattenSeq([i \in DOMAIN nodes |-> MeaningOfNode(nodes[i], scope, document)])

OuterScope == Closed([locals |-> Nothing, props |-> Nothing], Empty)
DocumentMeaning ==
  LET document == Meaning(Body(program.entry), OuterScope, None)
  IN IF program.shell = None THEN document
     ELSE Meaning(Body(program.shell), OuterScope, document)

\* Documents that keep the names of loops, props and data apart and do not
\* forward a slot mean what EMAIL-MARKUP.md:62-112 says, in the scopes they are
\* written in, although the code looks names up in the scopes of its callers.
MeansAsWritten == Ok /\ ~cancelled => output = DocumentMeaning

-----------------------------------------------------------------------------
Words == [kind |-> "text"]
Expr(e) == [kind |-> "expression", of |-> e]
If(e, then, else) == [kind |-> "if", of |-> e, then |-> then, else |-> else]
For(e, body) == [kind |-> "for", of |-> e, variable |-> item, body |-> body]
Reference(s) == [kind |-> "reference", slot |-> s]
Fill(s, body) == [kind |-> "fill", slot |-> s, body |-> body]
Arg(n, e) == [name |-> n, of |-> e]
Call(c, arguments, children) ==
  [kind |-> "call", component |-> c, arguments |-> arguments, children |-> children,
   selfClosing |-> FALSE]
SelfClosing(c, arguments) == [Call(c, arguments, none) EXCEPT !.selfClosing = TRUE]

MCProp(n, e) == [name |-> n, accepts |-> {a, b, key, Null}, otherwise |-> e]
Required(n) == [name |-> n, accepts |-> {a, b, key}, otherwise |-> None]
CardDefinition ==
  [props |-> <<Required(title), MCProp(tone, title)>>,
   slots |-> [s \in {Default, Side} |-> "optional"], body |-> card]
WrapDefinition ==
  [props |-> <<MCProp(size, who)>>,
   slots |-> [s \in {Default, Side} |-> IF s = Default THEN "optional" ELSE "undeclared"],
   body |-> wrap]
MCComponents ==
  [c \in {Card, Wrap, Undefined} |->
     CASE c = Card -> CardDefinition [] c = Wrap -> WrapDefinition [] c = Undefined -> None]
\* Card demands its default slot and takes no other; Wrap takes no body.
StrictComponents ==
  [MCComponents EXCEPT
     ![Card].slots = [s \in {Default, Side} |-> IF s = Default THEN "required" ELSE "undeclared"],
     ![Wrap].slots = [s \in {Default, Side} |-> "undeclared"]]

Program(blocks, components, outer) ==
  [blocks |-> [n \in MCBlock |-> IF n \in DOMAIN blocks THEN blocks[n] ELSE <<>>],
   components |-> components, data |-> MCData, entry |-> main, shell |-> outer]

\* Documents that keep the names of loops, props and data apart, and do not
\* forward a slot: loops over calls, calls over loops, content that uses the
\* variables of its site, two components deep, with and without a shell.
MainNodes ==
  {Words, Expr(who), If(flag, branch, loop), If(who, loop, branch), For(list, loop),
   For(dict, loop), Call(Card, <<Arg(title, who)>>, kids),
   Call(Card, <<Arg(title, a), Arg(Style, b)>>, kids), Call(Wrap, <<>>, none)}
Documents ==
  {Program([main |-> m, kids |-> k, loop |-> l, branch |-> <<For(list, fill)>>,
            fill |-> <<Expr(item)>>, card |-> c,
            wrap |-> <<Call(Card, <<Arg(title, size), Arg(tone, b)>>, wrapKids)>>,
            wrapKids |-> w, shell |-> <<Words, Reference(Default), Words>>],
           MCComponents, outer) :
     m \in {<<n>> : n \in MainNodes} \cup
          {<<n1, n2>> : n1 \in {Words, For(list, loop), Call(Card, <<Arg(title, b)>>, kids)},
                       n2 \in MainNodes},
     k \in {<<>>, <<Words>>, <<Expr(title)>>, <<Fill(Side, branch), Expr(who)>>},
     l \in {<<Expr(item)>>, <<Expr(itemKey)>>, <<Call(Card, <<Arg(title, item)>>, kids)>>},
     c \in {<<Words, Reference(Default)>>,
            <<Expr(title), If(tone, branch, none), Words, Reference(Side), Reference(Default)>>},
     w \in {<<Expr(size)>>, <<Words, Fill(Side, kids)>>},
     outer \in {None, shell}}

\* One wrong node, or two, of every kind.
WrongNodes ==
  {Words, Expr(missing), Expr(Null), Expr(Invalid), Expr(Broken), Fill(Side, fill), For(who, loop),
   If(missing, loop, loop), Reference(Default), Call(Undefined, <<>>, none),
   Call(Card, <<>>, kids), SelfClosing(Card, <<Arg(title, a)>>), Call(Wrap, <<>>, kids),
   Call(Card, <<Arg(title, a)>>, kids),
   Call(Card, <<Arg(title, no), Arg(title, a)>>, kids),
   Call(Card, <<Arg(title, a), Arg(size, a), Arg(tone, missing)>>, kids),
   Call(Card, <<Arg(title, a), Arg(Style, no)>>, kids),
   Call(Card, <<Arg(title, a), Arg(Style, key)>>, kids)}
WrongDocuments ==
  {Program([main |-> m, kids |-> k, loop |-> <<Expr(item)>>, fill |-> <<Words>>,
            card |-> <<Words, Expr(tone), Reference(Default)>>, wrap |-> <<Words>>,
            shell |-> <<Reference(Default), n>>], cs, outer) :
     m \in {<<n1, n2>> : n1 \in WrongNodes, n2 \in {Words, Expr(missing), Expr(Broken)}},
     k \in {<<Words>>, <<Fill(Side, fill), Fill(Side, none)>>},
     cs \in {MCComponents, StrictComponents}, outer \in {None, shell}, n \in {Words, Expr(missing)}}

\* The documents of the run that compares the output with the meaning.
AllDocuments == Documents \cup WrongDocuments

\* Loops in loops, components that call themselves or each other, styled or
\* not, with text before, between and after.
DeepDocuments ==
  {Program([main |-> m, loop |-> l, card |-> c, wrap |-> <<SelfClosing(Card, <<Arg(title, a)>>)>>,
            kids |-> <<Words>>, shell |-> <<Words, Reference(Default), Words>>],
           MCComponents, outer) :
     m \in {<<For(list, loop), Words>>, <<Words, Call(Card, <<Arg(title, a), Arg(Style, b)>>, kids), Words>>,
            <<For(dict, loop), Call(Card, <<Arg(title, a), Arg(Style, key)>>, kids)>>},
     l \in {<<Words, For(list, branch)>>, <<Call(Card, <<Arg(title, a), Arg(Style, a)>>, kids)>>,
            <<For(list, loop)>>},
     c \in {<<Words, SelfClosing(Card, <<Arg(title, a), Arg(Style, b)>>), Reference(Default)>>,
            <<Words, SelfClosing(Wrap, <<>>), Words>>, <<Words, For(list, branch), Reference(Default)>>},
     outer \in {None, shell}}

\* A component passes the content of its slot on to another.
ForwardingDocuments ==
  {Program([main |-> <<Call(Wrap, <<>>, kids)>>, kids |-> <<Words>>,
            wrap |-> <<Call(Card, <<Arg(title, a)>>, wrapKids)>>,
            wrapKids |-> <<Reference(Default)>>, card |-> <<Reference(Default)>>],
           MCComponents, None)}

\* A component with a required prop calls one with a required prop of that name.
InheritingDocuments ==
  {Program([main |-> <<SelfClosing(Wrap, <<Arg(title, a)>>)>>,
            wrap |-> <<SelfClosing(Card, <<>>)>>, card |-> <<Expr(title)>>],
           [MCComponents EXCEPT ![Wrap].props = <<Required(title)>>], None)}
=============================================================================
