---------------------------- MODULE Expressions ----------------------------
(***************************************************************************)
(* Computed channels: expressions over channels, as the viewer             *)
(* (gui/src/computed.rs) and the web binding (Parser and Expr of           *)
(* wasm/src/lib.rs) parse and evaluate them.  An expression is the         *)
(* sequence of its tokens: a number, an operator, a parenthesis, a comma,  *)
(* a function of the web binding, or else the name of a channel.           *)
(*                                                                         *)
(* Values and times are whole numbers; a quotient is cut to one.  Gap      *)
(* stands for a value that is not a number.                                *)
(***************************************************************************)
EXTENDS Decimation

NumberOf == "1" :> 1 @@ "2" :> 2 @@ "3" :> 3
Operators == {"+", "-", "*", "/"}
Punctuation == Operators \cup {"(", ")", ","}
Functions == "abs" :> 1 @@ "sqrt" :> 1 @@ "min" :> 2 @@ "max" :> 2

Node(op, args) == [op |-> op, args |-> args]
Leaf(token) == Node(token, <<>>)
IsName(token) == token \notin DOMAIN NumberOf \cup Punctuation

\* A parse so far: the tree, the next token, and whether it still stands.
At(tree, p) == [tree |-> tree, pos |-> p, ok |-> TRUE]
Bad == [tree |-> Leaf("1"), pos |-> 0, ok |-> FALSE]

Peek(t, p) == IF p <= Len(t) THEN t[p] ELSE "end"

\* MAX_EXPRESSION_DEPTH of the viewer, and how deep the web binding goes.
MaxExpressionDepth == 3
Unbounded == 0
Deeper(room) == IF room = Unbounded THEN Unbounded ELSE room - 1

\* Mutant of Combined: the right operand takes the rest of the sum.
CombinedFromTheRight(lhs, op, rhs) ==
    IF rhs.tree.op = op /\ rhs.tree.args # <<>>
    THEN At(Node(op, <<Node(op, <<lhs.tree, rhs.tree.args[1]>>), rhs.tree.args[2]>>), rhs.pos)
    ELSE At(Node(op, <<rhs.tree, lhs.tree>>), rhs.pos)

Combined(lhs, op, rhs) == At(Node(op, <<lhs.tree, rhs.tree>>), rhs.pos)

RECURSIVE Parse(_, _, _, _), More(_, _, _, _)

\* The levels of an expression: sums, products, and parts with a sign.
OperatorsAt == <<{"+", "-"}, {"*", "/"}>>

\* The loops of parse_add_sub and parse_mul_div: to the left, as long as there is more.
More(t, lhs, room, level) ==
    IF ~lhs.ok \/ Peek(t, lhs.pos) \notin OperatorsAt[level] THEN lhs
    ELSE LET rhs == Parse(t, lhs.pos + 1, room, level + 1)
         IN  IF rhs.ok THEN More(t, Combined(lhs, t[lhs.pos], rhs), room, level) ELSE Bad

Expression(t, p, room) == Parse(t, p, room, 1)

\* parse_atom: a parenthesis is one level, too.
Atom(t, p, room) ==
    LET inner == IF room = 1 THEN Bad ELSE Expression(t, p + 1, Deeper(room))
    IN  CASE Peek(t, p) = "(" -> IF inner.ok /\ Peek(t, inner.pos) = ")" THEN At(inner.tree, inner.pos + 1) ELSE Bad
          [] p > Len(t) \/ Peek(t, p) \in Punctuation -> Bad
          [] OTHER -> At(Leaf(t[p]), p + 1)

\* atom of the web binding: a function name is followed by one or two
\* arguments, as many as it takes.
WebAtom(t, p) ==
    LET inner == Expression(t, p + 1, Unbounded)
        a == Expression(t, p + 2, Unbounded)
        two == a.ok /\ Peek(t, a.pos) = ","
        b == Expression(t, a.pos + 1, Unbounded)
        args == IF two THEN <<a.tree, b.tree>> ELSE <<a.tree>>
        end == IF two THEN b.pos ELSE a.pos
    IN  CASE p > Len(t) -> Bad
          [] t[p] = "(" -> IF inner.ok /\ Peek(t, inner.pos) = ")" THEN At(inner.tree, inner.pos + 1) ELSE Bad
          [] t[p] \in DOMAIN Functions ->
                 IF Peek(t, p + 1) = "(" /\ a.ok /\ (two => b.ok) /\ Peek(t, end) = ")" /\ Functions[t[p]] = Len(args)
                 THEN At(Node(t[p], args), end + 1) ELSE Bad
          [] t[p] \in Punctuation -> Bad
          [] OTHER -> At(Leaf(t[p]), p + 1)

\* parse_unary: a sign is one level; the web binding has no unary plus.
Unary(t, p, room) ==
    LET arg == IF room = 1 THEN Bad ELSE Parse(t, p + 1, Deeper(room), 3)
    IN  CASE Peek(t, p) = "-" -> IF arg.ok THEN At(Node("neg", <<arg.tree>>), arg.pos) ELSE Bad
          [] Peek(t, p) = "+" /\ room # Unbounded -> arg
          [] OTHER -> IF room = Unbounded THEN WebAtom(t, p) ELSE Atom(t, p, room)

Parse(t, p, room, level) ==
    IF level = 3 THEN Unary(t, p, room) ELSE More(t, Parse(t, p, room, level + 1), room, level)

Whole(t, e) == IF e.ok /\ e.pos = Len(t) + 1 THEN e ELSE Bad

\* parse_expr of the viewer.  Its depth counts from nought: so many levels
\* more than none are allowed.
ParseViewer(t) == Whole(t, Expression(t, 1, MaxExpressionDepth + 1))

\* Parser::parse of the web binding.
ParseWeb(t) == Whole(t, Expression(t, 1, Unbounded))

\* referenced_channels, or refs: each name once, in order of appearance.
RECURSIVE Referenced(_)
Referenced(e) ==
    IF e.args = <<>> THEN IF IsName(e.op) THEN <<e.op>> ELSE <<>>
    ELSE LET names == FoldLeft(LAMBDA acc, a : acc \o Referenced(a), <<>>, e.args)
             first == {i \in DOMAIN names : \A j \in 1..(i - 1) : names[j] # names[i]}
         IN  [k \in 1..Cardinality(first) |-> names[CHOOSE i \in first : Cardinality({j \in first : j < i}) = k - 1]]

(***************************************************************************)
(* Evaluation.                                                             *)
(***************************************************************************)

\* Of two numbers; what is not a number makes nothing that is, but for the
\* least and the greatest, which are then the other's.
Apply(op, x, y) ==
    CASE op \in {"min", "max"} /\ Gap \in {x, y} -> IF x = Gap THEN y ELSE x
      [] op = "min" -> IF x < y THEN x ELSE y
      [] op = "max" -> IF x > y THEN x ELSE y
      [] Gap \in {x, y} \/ (op = "/" /\ y = 0) -> Gap
      [] op = "+" -> x + y [] op = "-" -> x - y [] op = "*" -> x * y [] op = "/" -> x \div y
      [] op = "neg" -> -x [] op = "abs" -> (IF x < 0 THEN -x ELSE x)
      [] op = "sqrt" -> (IF \E r \in 0..x : r * r <= x THEN CHOOSE r \in 0..x : r * r <= x /\ (r + 1) * (r + 1) > x ELSE Gap)

\* eval of the web binding, eval_scalar and the values of eval_point.
RECURSIVE Eval(_, _)
Eval(e, value) ==
    CASE e.args = <<>> -> IF IsName(e.op) THEN value[e.op] ELSE NumberOf[e.op]
      [] Len(e.args) = 1 -> Apply(e.op, Eval(e.args[1], value), 0)
      [] OTHER -> Apply(e.op, Eval(e.args[1], value), Eval(e.args[2], value))

\* The flags of eval_point: every operand's, and no division by nought.
RECURSIVE EvalValid(_, _, _)
EvalValid(e, value, valid) ==
    IF e.args = <<>> THEN IsName(e.op) => valid[e.op] /\ value[e.op] # Gap
    ELSE /\ e.op = "/" => Eval(e.args[2], value) # 0
         /\ \A i \in DOMAIN e.args : EvalValid(e.args[i], value, valid)

\* A decoded operand [t, v, ok], ok being << >> when every sample is valid.
FlagOf(s, i) == IF i \in DOMAIN s.ok THEN s.ok[i] ELSE TRUE

\* resample_linear at one time: the ends hold, a flag needs both neighbours'.
Neighbour(s, x) == Cardinality({i \in DOMAIN s.t : s.t[i] <= x})
Resampled(s, x) ==
    LET n == Len(s.t)
        i == Neighbour(s, x)
    IN  IF n = 0 THEN [v |-> Gap, ok |-> FALSE]
        ELSE IF i = 0 THEN [v |-> s.v[1], ok |-> FlagOf(s, 1)]
        ELSE IF x >= s.t[n] THEN [v |-> s.v[n], ok |-> FlagOf(s, n)]
        ELSE [v |-> IF Gap \in {s.v[i], s.v[i + 1]} THEN Gap
                    ELSE s.v[i] + ((s.v[i + 1] - s.v[i]) * (x - s.t[i])) \div (s.t[i + 1] - s.t[i]),
              ok |-> FlagOf(s, i) /\ FlagOf(s, i + 1)]

SortedSet(S) == [k \in 1..Cardinality(S) |-> CHOOSE x \in S : Cardinality({y \in S : y < x}) = k - 1]

NoSeries == [t |-> <<>>, v |-> <<>>, ok |-> <<>>]

\* eval_expr: on the operands' common times, or on all of them in order; a
\* constant has the times nought and one.
InLockStep(names, operands) == \A n \in names : operands[n].t = operands[CHOOSE m \in names : TRUE].t
Times(names, operands) ==
    IF names = {} THEN <<0, 1>>
    ELSE IF InLockStep(names, operands) THEN operands[CHOOSE m \in names : TRUE].t
    ELSE SortedSet(UNION {ToSet(operands[n].t) : n \in names})

EvalAt(e, times, sample) ==
    LET Value(i) == [n \in DOMAIN sample[i] |-> sample[i][n].v]
        Valid(i) == [n \in DOMAIN sample[i] |-> sample[i][n].ok]
    IN  [t |-> times, v |-> [i \in DOMAIN times |-> Eval(e, Value(i))],
         ok |-> [i \in DOMAIN times |-> EvalValid(e, Value(i), Valid(i))]]

EvalExpr(e, operands) ==
    LET names == ToSet(Referenced(e))
        times == Times(names, operands)
        Sample(n, i) == IF InLockStep(names, operands) THEN [v |-> operands[n].v[i], ok |-> FlagOf(operands[n], i)]
                        ELSE Resampled(operands[n], times[i])
    IN  IF ~(names \subseteq DOMAIN operands) THEN NoSeries
        ELSE IF times = <<>> THEN NoSeries
        ELSE EvalAt(e, times, [i \in DOMAIN times |-> [n \in names |-> Sample(n, i)]])

\* The sample nearest in time, the earlier of two (decode_computed).
NearestAt(t, x) ==
    LET below == Cardinality({i \in DOMAIN t : t[i] < x})
    IN  IF below >= Len(t) THEN Len(t)
        ELSE IF below > 0 /\ x - t[below] <= t[below + 1] - x THEN below ELSE below + 1

\* decode_computed, its references read: their values at the samples nearest
\* to those of the first.
ComputedOf(e, names, series) ==
    LET times == series[1].t
        Index(n) == CHOOSE k \in DOMAIN names : names[k] = n
        At1(k, x) == LET i == NearestAt(series[k].t, x) IN IF i \in DOMAIN series[k].v THEN series[k].v[i] ELSE Gap
    IN  [t |-> times, v |-> [i \in DOMAIN times |-> Eval(e, [n \in ToSet(names) |-> At1(Index(n), times[i])])]]

(***************************************************************************)
(* How an expression is written, with no parenthesis it can do without.    *)
(***************************************************************************)
Level(e) == CASE e.op \in {"+", "-"} /\ e.args # <<>> -> 1 [] e.op \in {"*", "/"} -> 2 [] e.op = "neg" -> 3 [] OTHER -> 4

RECURSIVE Written(_, _)
Written(e, level) ==
    LET body == CASE e.args = <<>> -> <<e.op>>
                  [] e.op = "neg" -> <<"-">> \o Written(e.args[1], 3)
                  [] e.op \in Operators -> Written(e.args[1], Level(e)) \o <<e.op>> \o Written(e.args[2], Level(e) + 1)
                  [] Len(e.args) = 1 -> <<e.op, "(">> \o Written(e.args[1], 1) \o <<")">>
                  [] OTHER -> <<e.op, "(">> \o Written(e.args[1], 1) \o <<",">> \o Written(e.args[2], 1) \o <<")">>
    IN  IF Level(e) < level THEN <<"(">> \o body \o <<")">> ELSE body

\* How many signs and parentheses enclose the innermost part.
RECURSIVE DepthOf(_, _)
DepthOf(e, level) ==
    LET own == (IF Level(e) < level THEN 1 ELSE 0) + (IF e.op = "neg" THEN 1 ELSE 0)
        Sub(i) == CASE e.op = "neg" -> 3 [] e.op \in Operators -> Level(e) + i - 1 [] OTHER -> 1
    IN  IF e.args = <<>> THEN 0 ELSE own + Max({DepthOf(e.args[i], Sub(i)) : i \in DOMAIN e.args})
=============================================================================
