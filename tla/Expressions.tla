---------------------------- MODULE Expressions ----------------------------
(***************************************************************************)
(* Evaluation of an expression: the ExpressionParser of                    *)
(* email-markup-core/src/expr.cpp, which computes while it parses.         *)
(*                                                                         *)
(* Integers have the range of a signed type of any width, decimals are     *)
(* exact fractions of bounded size, strings are sequences of numbers.  An  *)
(* integer of the data may be above the signed range (nlohmann's unsigned  *)
(* numbers).  A thrown diagnostic is the value Error, undefined behaviour  *)
(* the value Undefined.                                                    *)
(***************************************************************************)
EXTENDS Integers, Sequences, TLC

CONSTANTS
  MaxInt,      \* std::numeric_limits<std::int64_t>::max()
  MaxDecimal   \* std::numeric_limits<double>::max()

MinInt == -MaxInt - 1

Null == [type |-> "null"]
Error == [type |-> "error"]
Undefined == [type |-> "undefined"]
Bool(b) == [type |-> "boolean", b |-> b]
Str(s) == [type |-> "string", s |-> s]
IntegerOf(n) == [type |-> "integer", n |-> n, d |-> 1]
Decimal(n, d) == [type |-> "decimal", n |-> n, d |-> d]
Obj(fields) == [type |-> "object", fields |-> fields]
Thrown(v) == v.type \in {"error", "undefined"}
Numeric(v) == v.type \in {"integer", "decimal"}

\* What get<std::int64_t> returns: an unsigned number above the range wraps.
Signed(v) == IF v.n > MaxInt THEN v.n + 2 * MinInt ELSE v.n

Abs(n) == IF n < 0 THEN -n ELSE n
\* Quotient and remainder of C++.
Quotient(a, b) == LET q == Abs(a) \div Abs(b) IN IF (a < 0) = (b < 0) THEN q ELSE -q
Remainder(a, b) == a - b * Quotient(a, b)

Less(s, t) ==
  \E k \in 0..Len(s) : /\ k < Len(t) /\ SubSeq(s, 1, k) = SubSeq(t, 1, k)
                       /\ (k = Len(s) \/ s[k + 1] < t[k + 1])

Truthy(v) ==
  CASE v.type = "boolean" -> v.b
    [] Numeric(v) -> v.n # 0
    [] v.type = "string" -> v.s # <<>>
    [] v.type = "object" -> DOMAIN v.fields # {}
    [] v.type = "null" -> FALSE

-----------------------------------------------------------------------------
\* The operators by precedence, lowest first.
Operators == <<{"or"}, {"and"}, {"==", "!=", "<", "<=", ">", ">="}, {"+", "-"}, {"*", "/", "%"}>>

Orders(op, less, equal) ==
  CASE op = "==" -> equal         [] op = "!=" -> ~equal
    [] op = "<" -> less           [] op = "<=" -> less \/ equal
    [] op = ">" -> ~(less \/ equal) [] op = ">=" -> ~less

Compare(op, l, r) ==
  IF \/ ~(Numeric(l) /\ Numeric(r)) /\ l.type # r.type
     \/ l.type \in {"object", "null"}
     \/ l.type = "boolean" /\ op \notin {"==", "!="}
  THEN Error
  ELSE Bool(CASE Numeric(l) -> Orders(op, l.n * r.d < r.n * l.d, l.n * r.d = r.n * l.d)
              [] l.type = "string" -> Orders(op, Less(l.s, r.s), l.s = r.s)
              [] l.type = "boolean" -> Orders(op, FALSE, l.b = r.b))

\* The tests before the operation on two integers.
Overflows(op, l, r) ==
  CASE op = "+" -> \/ r > 0 /\ l > MaxInt - r
                   \/ r < 0 /\ l < MinInt - r
    [] op = "-" -> \/ r < 0 /\ l > MaxInt + r
                   \/ r > 0 /\ l < MinInt + r
    [] op = "*" ->
         /\ l # 0 /\ r # 0
         /\ CASE l = -1 -> r = MinInt
              [] l # -1 /\ r = -1 -> l = MinInt
              [] l > 0 /\ r > 0 -> l > Quotient(MaxInt, r)
              [] l > 0 /\ r < -1 -> r < Quotient(MinInt, l)
              [] l < -1 /\ r > 0 -> l < Quotient(MinInt, r)
              [] l < -1 /\ r < -1 -> l < Quotient(MaxInt, r)

OnIntegers(op, l, r) ==
  CASE op = "+" -> l + r
    [] op = "-" -> l - r
    [] op = "*" -> l * r

OnDecimals(op, l, r) ==
  CASE op = "+" -> Decimal(l.n * r.d + r.n * l.d, l.d * r.d)
    [] op = "-" -> Decimal(l.n * r.d - r.n * l.d, l.d * r.d)
    [] op = "*" -> Decimal(l.n * r.n, l.d * r.d)
    [] op = "/" -> Decimal(IF r.n < 0 THEN -(l.n * r.d) ELSE l.n * r.d, l.d * Abs(r.n))
    [] op = "%" -> Decimal(Remainder(l.n * r.d, r.n * l.d), l.d * r.d)

Arithmetic(l, r, op) ==
  CASE ~Numeric(l) \/ ~Numeric(r) -> Error
    [] Numeric(l) /\ Numeric(r) /\ op \in {"/", "%"} /\ r.n = 0 -> Error
    [] OTHER ->
         IF l.type = "integer" /\ r.type = "integer" /\ op # "/"
         THEN LET a == Signed(l)  b == Signed(r) IN
              CASE op = "%" -> IF b = 0 \/ (a = MinInt /\ b = -1) THEN Undefined
                               ELSE IntegerOf(Remainder(a, b))
                [] op # "%" -> IF Overflows(op, a, b) THEN Error
                               ELSE IntegerOf(OnIntegers(op, a, b))
         ELSE LET v == OnDecimals(op, l, r) IN
              CASE v.n > MaxDecimal * v.d -> Error
                [] v.n < -MaxDecimal * v.d -> Undefined  \* no test before the cast
                [] OTHER -> v

\* What a binary operator computes once both operands are evaluated.
Combine(op, l, r) ==
  CASE op \in {"or", "and"} -> r
    [] op \in Operators[3] -> Compare(op, l, r)
    [] op = "+" /\ l.type = "string" /\ r.type = "string" -> Str(l.s \o r.s)
    [] OTHER -> Arithmetic(l, r, op)

Negated(v) ==
  CASE ~Numeric(v) -> Error
    [] v.type = "integer" -> IF Signed(v) = MinInt THEN Error ELSE IntegerOf(-Signed(v))
    [] v.type = "decimal" -> Decimal(-v.n, v.d)

\* resolve_path: the innermost scope that has the root of the path, then one
\* field after the other.
Scopes(context) ==
  <<context.locals, context.props, [root \in {"token"} |-> Obj(context.tokens)], context.data>>
RECURSIVE Field(_, _)
Field(v, keys) ==
  IF keys = <<>> THEN v
  ELSE IF v.type = "object" /\ Head(keys) \in DOMAIN v.fields
       THEN Field(v.fields[Head(keys)], Tail(keys))
       ELSE Error
ResolvePath(context, path) ==
  LET scopes == Scopes(context)
      having == {i \in DOMAIN scopes : Head(path) \in DOMAIN scopes[i]} IN
  IF having = {} THEN Error
  ELSE LET first == CHOOSE i \in having : \A j \in having : i <= j IN
       Field(scopes[first][Head(path)], Tail(path))

-----------------------------------------------------------------------------
\* The parser.  A call returns the position after what it took and the value;
\* where an operand is not enabled, it is parsed but not evaluated.
Op(text) == [kind |-> "op", text |-> text]
Open == [kind |-> "lparen"]
Close == [kind |-> "rparen"]
Literal(v) == [kind |-> "literal", value |-> v]
Path(p) == [kind |-> "identifier", path |-> p]
End == [kind |-> "end"]

Peek(ts, at) == IF at > Len(ts) THEN End ELSE ts[at]
IsOp(token, ops) == token.kind = "op" /\ token.text \in ops
At(at, v) == [at |-> at, value |-> v]

\* The first operand decides.
\* Mutant: "and" and "or" evaluate both operands.
ShortNever(op, l) == FALSE
Short(op, l) == (op = "or" /\ Truthy(l)) \/ (op = "and" /\ ~Truthy(l))

RECURSIVE Parse(_, _, _, _, _), Chain(_, _, _, _, _), Unary(_, _, _, _)
\* parse_or, parse_and, parse_comparison, parse_add and parse_multiply.
Parse(ts, context, level, at, enabled) ==
  IF level > Len(Operators) THEN Unary(ts, context, at, enabled)
  ELSE Chain(ts, context, level, Parse(ts, context, level + 1, at, enabled), enabled)
Chain(ts, context, level, left, enabled) ==
  LET token == Peek(ts, left.at) IN
  IF Thrown(left.value) \/ ~IsOp(token, Operators[level]) THEN left
  ELSE LET shorted == enabled /\ Short(token.text, left.value)
           right == Parse(ts, context, level + 1, left.at + 1, enabled /\ ~shorted)
       IN IF Thrown(right.value) THEN right
          ELSE Chain(ts, context, level,
                     At(right.at, IF ~enabled \/ shorted THEN left.value
                                  ELSE Combine(token.text, left.value, right.value)),
                     enabled)

Primary(ts, context, at, enabled) ==
  LET token == ts[at] IN
  CASE token.kind = "literal" ->
         At(at + 1, CASE ~enabled -> Null
                      [] enabled /\ token.value.type = "integer" /\ token.value.n > MaxInt -> Error
                      [] OTHER -> token.value)
    [] token.kind = "identifier" ->
         At(at + 1, IF enabled THEN ResolvePath(context, token.path) ELSE Null)
    [] OTHER -> At(at, Error)

Unary(ts, context, at, enabled) ==
  LET token == Peek(ts, at) IN
  CASE IsOp(token, {"not", "-"}) ->
         LET v == Unary(ts, context, at + 1, enabled) IN
         CASE Thrown(v.value) -> v
           [] ~Thrown(v.value) /\ ~enabled -> At(v.at, Null)
           [] OTHER -> At(v.at, IF token.text = "not" THEN Bool(~Truthy(v.value))
                                ELSE Negated(v.value))
    [] token = Open ->
         LET v == Parse(ts, context, 1, at + 1, enabled) IN
         CASE Thrown(v.value) -> v
           [] ~Thrown(v.value) /\ Peek(ts, v.at) # Close -> At(v.at, Error)
           [] OTHER -> At(v.at + 1, v.value)
    [] token = End -> At(at, Error)
    [] OTHER -> Primary(ts, context, at, enabled)

\* evaluate_expression.
EvaluateExpression(ts, context) ==
  LET result == Parse(ts, context, 1, 1, TRUE) IN
  IF Thrown(result.value) \/ result.at > Len(ts) THEN result.value ELSE Error

-----------------------------------------------------------------------------
(***************************************************************************)
(* The reference: expressions as trees, written down with no parenthesis   *)
(* that the precedences of EMAIL-MARKUP.md:40-49 make unnecessary, and     *)
(* their values by exact arithmetic.                                       *)
(***************************************************************************)
LevelOf(t) ==
  CASE t.node = "binary" -> CHOOSE k \in DOMAIN Operators : t.op \in Operators[k]
    [] t.node = "unary" -> 6
    [] t.node = "leaf" -> 7
RECURSIVE Written(_, _)
Written(t, level) ==
  LET own == LevelOf(t)
      bare == CASE t.node = "binary" ->
                     Written(t.left, own) \o <<Op(t.op)>> \o Written(t.right, own + 1)
                [] t.node = "unary" -> <<Op(t.op)>> \o Written(t.right, own)
                [] t.node = "leaf" -> <<t.token>>
  IN IF own < level THEN <<Open>> \o bare \o <<Close>> ELSE bare

\* A whole number in range stays an integer unless it is a quotient.
Exact(op, l, r) ==
  LET v == OnDecimals(op, l, r) IN
  IF l.type = "integer" /\ r.type = "integer" /\ op # "/"
  THEN IF v.n \in MinInt..MaxInt THEN IntegerOf(v.n) ELSE Error
  ELSE IF Abs(v.n) > MaxDecimal * v.d THEN Error ELSE v

\* What is innermost hides the rest (EMAIL-MARKUP.md:56-57).
Visible(context) ==
  context.locals @@ context.props @@ ("token" :> Obj(context.tokens)) @@ context.data
RECURSIVE Denoted(_, _)
Denoted(t, context) ==
  CASE t.node = "leaf" ->
         (CASE t.token.kind = "identifier" -> Field(Obj(Visible(context)), t.token.path)
            [] t.token.value = IntegerOf(MaxInt + 1) -> Error
            [] OTHER -> t.token.value)
    [] t.node = "unary" ->
         LET v == Denoted(t.right, context) IN
         (CASE v = Error -> v
            [] v # Error /\ t.op = "not" -> Bool(~Truthy(v))
            [] v # Error /\ t.op = "-" -> IF Numeric(v) THEN Exact("-", IntegerOf(0), v) ELSE Error)
    [] t.node = "binary" ->
         LET l == Denoted(t.left, context)  r == Denoted(t.right, context) IN
         CASE l = Error -> l
           [] l # Error /\ t.op = "or" -> IF Truthy(l) THEN l ELSE r
           [] l # Error /\ t.op = "and" -> IF Truthy(l) THEN r ELSE l
           [] OTHER ->
                CASE r = Error -> r
                  [] r # Error /\ t.op \in Operators[3] -> Compare(t.op, l, r)
                  [] OTHER ->
                       CASE l.type = "string" /\ r.type = "string" /\ t.op = "+" -> Str(l.s \o r.s)
                         [] Numeric(l) /\ Numeric(r) /\ ~(t.op \in {"/", "%"} /\ r.n = 0) ->
                              Exact(t.op, l, r)
                         [] OTHER -> Error

\* An expression has the value its precedences and exact arithmetic give it, or
\* an error where that has none or one out of range; an operand behind "and" or
\* "or" counts only if it is needed (expr.cpp:123-287).  Not promised: the
\* remainder by -1 and decimals below the range, which are undefined.
EvaluatesAsWritten(t, context) ==
  EvaluateExpression(Written(t, 1), context) \in {Denoted(t, context), Undefined}
=============================================================================
