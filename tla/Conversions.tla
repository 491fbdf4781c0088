---------------------------- MODULE Conversions ----------------------------
(***************************************************************************)
(* From a raw sample to a physical one: the conversions of version 4       *)
(* (blocks/conversion.rs) and of version 3 (mdf3/conversions.rs).          *)
(*                                                                         *)
(* A sample is a fraction [n, d]; d = 0 is what IEEE 754 has for a         *)
(* division by zero: not a number when n = 0, an infinity otherwise.       *)
(* Keys, bounds and coefficients of a table are integers, a label is a     *)
(* string.  The transcendental functions are left out.                     *)
(***************************************************************************)
EXTENDS Integers, Sequences

NaN == [n |-> 0, d |-> 0]
Whole(n) == [n |-> n, d |-> 1]

Abs(n) == IF n < 0 THEN -n ELSE n

\* In lowest terms, so that equal numbers are equal records.
Over(n, d) ==
    LET g == CHOOSE k \in 1..(Abs(n) + Abs(d)) :
                 /\ n % k = 0 /\ d % k = 0
                 /\ \A l \in (k + 1)..(Abs(n) + Abs(d)) : n % l # 0 \/ d % l # 0
    IN  IF d = 0 THEN [n |-> IF n = 0 THEN 0 ELSE n \div Abs(n), d |-> 0]
        ELSE IF d < 0 THEN [n |-> (-n) \div g, d |-> (-d) \div g]
        ELSE [n |-> n \div g, d |-> d \div g]

\* The comparisons a raw value x takes part in; NaN compares with nothing.
AtMost(x, key) == x.d > 0 /\ x.n <= key * x.d
Below(x, key)  == x.d > 0 /\ x.n < key * x.d
AtLeast(x, key) == x.d > 0 /\ x.n >= key * x.d
Same(x, key)   == x.d > 0 /\ x.n = key * x.d
Distance(x, key) == Abs(x.n - key * x.d)

Least(s) == CHOOSE i \in s : \A j \in s : i <= j
Greatest(s) == CHOOSE i \in s : \A j \in s : j <= i

\* a * x + b, and the quotient of two parabolas.
Line(a, b, x) == Over(a * x.n + b * x.d, x.d)
Parabola(a, b, c, x) == a * x.n * x.n + b * x.n * x.d + c * x.d * x.d
Quotient(p, x) ==
    IF x.d = 0 THEN NaN ELSE Over(Parabola(p[1], p[2], p[3], x), Parabola(p[4], p[5], p[6], x))

\* The value at x of the line through two points.
Through(k1, v1, k2, v2, x) ==
    Over(v1 * (k2 - k1) * x.d + (x.n - k1 * x.d) * (v2 - v1), (k2 - k1) * x.d)

(***************************************************************************)
(* Version 4.                                                              *)
(***************************************************************************)

\* interpolate: the first segment that has x between its ends.
Interpolate(keys, values, x) ==
    LET n == Len(keys)
        holding == {i \in 1..(n - 1) : AtLeast(x, keys[i]) /\ AtMost(x, keys[i + 1])}
        i == Least(holding)
    IN  CASE n = 0                -> x
          [] AtMost(x, keys[1])   -> Whole(values[1])
          [] AtLeast(x, keys[n])  -> Whole(values[n])
          [] holding = {}         -> x
          [] keys[i] = keys[i + 1] -> Whole(values[i])
          [] OTHER -> Through(keys[i], values[i], keys[i + 1], values[i + 1], x)

\* nearest: the first of the keys that no other is nearer than; the first of
\* all when the distances cannot be compared.
Nearest(keys, values, x) ==
    LET near == {i \in DOMAIN keys : \A j \in DOMAIN keys : Distance(x, keys[i]) <= Distance(x, keys[j])}
    IN  IF keys = <<>> THEN x ELSE IF x.d = 0 THEN Whole(values[1]) ELSE Whole(values[Least(near)])

InRange(x, lower, upper, float) ==
    AtLeast(x, lower) /\ (IF float THEN Below(x, upper) ELSE AtMost(x, upper))

\* Of the ranges that hold x the last one counts; 0 when none does.
RangeOf(c, x, float) ==
    LET holding == {i \in DOMAIN c.keys : InRange(x, c.keys[i], c.upper[i], float)}
    IN  IF holding = {} THEN 0 ELSE Greatest(holding)

KeyOf(c, x) ==
    LET equal == {i \in DOMAIN c.keys : Same(x, c.keys[i])}
    IN  IF equal = {} THEN 0 ELSE Least(equal)

\* The entry a text table selects: <<>> when there is not even a default.
\* An entry is a label or a nested conversion.
Hit(c, x, float) ==
    LET i == IF c.kind = "value to text" THEN KeyOf(c, x) ELSE RangeOf(c, x, float)
    IN  IF i = 0 THEN c.default ELSE <<c.entries[i]>>

Label(text) == [nested |-> FALSE, label |-> text, conversion |-> <<>>]
Nested(c) == [nested |-> TRUE, label |-> "", conversion |-> <<c>>]

TextTables == {"value to text", "range to text"}

Output(c) ==
    CASE c.kind \in TextTables ->
             IF \A e \in {c.entries[i] : i \in DOMAIN c.entries} \cup {c.default[i] : i \in DOMAIN c.default} :
                    e.nested
             THEN "numeric" ELSE "text"
      [] c.kind \in {"text to text", "bitfield"} -> "text"
      [] c.kind = "unsupported" -> "unsupported"
      [] OTHER -> "numeric"

Input(c) == IF c.kind \in {"text to value", "text to text"} THEN "text" ELSE "numeric"

IsIdentity(c) == c.kind = "none" \/ (c.kind = "linear" /\ c.values = <<0, 1>>)

RECURSIVE Convert(_, _, _)
Convert(c, x, float) ==
    CASE c.kind = "none"         -> x
      [] c.kind = "linear"       -> Line(c.values[2], c.values[1], x)
      [] c.kind = "rational"     -> Quotient(c.values, x)
      [] c.kind = "interpolated" -> Interpolate(c.keys, c.values, x)
      [] c.kind = "lookup"       -> Nearest(c.keys, c.values, x)
      [] c.kind = "range"        ->
             LET i == RangeOf(c, x, float)
             IN  IF i > 0 THEN Whole(c.values[i])
                 ELSE IF Len(c.values) > Len(c.keys) THEN Whole(c.values[Len(c.values)]) ELSE NaN
      [] c.kind \in TextTables   ->
             LET hit == Hit(c, x, float)
             IN  IF hit # <<>> /\ hit[1].nested THEN Convert(hit[1].conversion[1], x, float) ELSE NaN
      [] OTHER -> NaN

\* A label, or the number a nested conversion comes to, written out.
Text(label) == [label |-> label, number |-> <<>>]
Written(x) == [label |-> "", number |-> <<x>>]

ConvertText(c, x, float) ==
    LET hit == Hit(c, x, float)
    IN  IF hit = <<>> THEN Text("")
        ELSE IF hit[1].nested THEN Written(Convert(hit[1].conversion[1], x, float))
        ELSE Text(hit[1].label)

(***************************************************************************)
(* Version 3.                                                              *)
(***************************************************************************)

\* partition_point over ascending keys: how many pass the test.
Before(keys, Test(_)) == Len(SelectSeq(keys, Test))

Interpolate3(keys, values, x) ==
    LET n == Len(keys)
        Passed(k) == AtLeast(x, k)
        hi == Before(keys, Passed) + 1
    IN  CASE n = 0               -> x
          [] AtMost(x, keys[1])  -> Whole(values[1])
          [] AtLeast(x, keys[n]) -> Whole(values[n])
          [] OTHER -> Through(keys[hi - 1], values[hi - 1], keys[hi], values[hi], x)

\* Mutant of Nearest3: of two keys equally near, the higher one.
Nearest3Higher(keys, values, x) ==
    LET n == Len(keys)
        Passed(k) == ~AtMost(x, k)
        first == Before(keys, Passed) + 1
        hi == IF first > n THEN n ELSE first
        lo == IF hi = 1 THEN 1 ELSE hi - 1
    IN  IF n = 0 THEN x
        ELSE IF Distance(x, keys[hi]) > Distance(x, keys[lo]) THEN Whole(values[lo])
        ELSE Whole(values[hi])

\* nearest: the two keys around x, the lower one when both are equally near.
Nearest3(keys, values, x) ==
    LET n == Len(keys)
        Passed(k) == ~AtMost(x, k)
        first == Before(keys, Passed) + 1
        hi == IF first > n THEN n ELSE first
        lo == IF hi = 1 THEN 1 ELSE hi - 1
    IN  IF n = 0 THEN x
        ELSE IF Distance(x, keys[hi]) >= Distance(x, keys[lo]) THEN Whole(values[lo])
        ELSE Whole(values[hi])

\* The last range that starts at or before x and the first that ends at or
\* after it are one and the same, or the default stands.
RangeText3(c, x) ==
    LET Started(l) == AtLeast(x, l)
        Ended(u) == x.d > 0 /\ ~AtMost(x, u)
        i1 == Before(c.keys, Started)
        i2 == Before(c.upper, Ended) + 1
    IN  IF i1 > 0 /\ i1 = i2 /\ i2 <= Len(c.entries) THEN c.entries[i2].label ELSE c.default[1].label

Degenerate(p, zero) == \A i \in zero : p[i] = 0

Rational3(p, x) ==
    CASE Degenerate(p, {1, 3, 4, 5}) -> IF p[2] = p[6] THEN x ELSE Over(x.n * p[2], x.d * p[6])
      [] Degenerate(p, {2, 3, 4, 6}) -> IF p[1] = p[5] THEN x ELSE Over(x.n * p[1], x.d * p[5])
      [] OTHER -> Quotient(p, x)

Polynomial3(p, x) ==
    LET s == x.n - (p[5] + p[6]) * x.d
    IN  IF Degenerate(p, {2, 3, 5, 6})
        THEN IF p[1] = p[4] THEN x ELSE Over(p[4] * x.n, p[1] * x.d)
        ELSE Over(p[2] * x.d - p[4] * s, p[3] * s - p[1] * x.d)

IsText3(c) == c.kind \in TextTables

Convert3(c, x) ==
    CASE c.kind = "linear"       -> Line(c.values[2], c.values[1], x)
      [] c.kind = "interpolated" -> Interpolate3(c.keys, c.values, x)
      [] c.kind = "lookup"       -> Nearest3(c.keys, c.values, x)
      [] c.kind = "polynomial"   -> Polynomial3(c.values, x)
      [] c.kind = "rational"     -> Rational3(c.values, x)
      [] OTHER -> x

ConvertText3(c, x) ==
    IF c.kind = "range to text" THEN RangeText3(c, x)
    ELSE LET i == KeyOf(c, x) IN IF i = 0 THEN "" ELSE c.entries[i].label

(***************************************************************************)
(* Algebraic conversions (blocks/formula.rs): a recursive descent over the *)
(* tokens of a formula into an expression tree.  A token is a number "n",  *)
(* the raw value "x", a function name "f", an operator or a parenthesis;   *)
(* splitting the text into tokens is left out.                             *)
(***************************************************************************)
Number == [op |-> "n", args |-> <<>>]
Variable == [op |-> "x", args |-> <<>>]
Node(op, args) == [op |-> op, args |-> args]

\* A parse so far: the tree, the next token, and whether it still stands.
At(tree, p) == [tree |-> tree, pos |-> p, ok |-> TRUE]
Bad == [tree |-> Number, pos |-> 0, ok |-> FALSE]

Peek(t, p) == IF p <= Len(t) THEN t[p] ELSE "end"

RECURSIVE Expression(_, _), Sum(_, _), Term(_, _), Product(_, _), Unary(_, _),
          Power(_, _), Primary(_, _)

\* expression := term (('+' | '-') term)*
Expression(t, p) == Sum(t, Term(t, p))

Sum(t, lhs) ==
    IF ~lhs.ok \/ Peek(t, lhs.pos) \notin {"+", "-"} THEN lhs
    ELSE LET rhs == Term(t, lhs.pos + 1)
         IN  IF ~rhs.ok THEN Bad
             ELSE Sum(t, At(Node(t[lhs.pos], <<lhs.tree, rhs.tree>>), rhs.pos))

\* term := unary (('*' | '/') unary)*
Term(t, p) == Product(t, Unary(t, p))

Product(t, lhs) ==
    IF ~lhs.ok \/ Peek(t, lhs.pos) \notin {"*", "/"} THEN lhs
    ELSE LET rhs == Unary(t, lhs.pos + 1)
         IN  IF ~rhs.ok THEN Bad
             ELSE Product(t, At(Node(t[lhs.pos], <<lhs.tree, rhs.tree>>), rhs.pos))

\* unary := ('-' | '+')* power
Unary(t, p) ==
    CASE Peek(t, p) = "-" -> LET arg == Unary(t, p + 1)
                             IN  IF arg.ok THEN At(Node("neg", <<arg.tree>>), arg.pos) ELSE Bad
      [] Peek(t, p) = "+" -> Unary(t, p + 1)
      [] OTHER            -> Power(t, p)

\* power := primary ('^' unary)?
Power(t, p) ==
    LET base == Primary(t, p)
        exponent == Unary(t, base.pos + 1)
    IN  IF ~base.ok \/ Peek(t, base.pos) # "^" THEN base
        ELSE IF exponent.ok THEN At(Node("^", <<base.tree, exponent.tree>>), exponent.pos)
        ELSE Bad

\* primary := number | variable | func '(' expression ')' | '(' expression ')'
Primary(t, p) ==
    LET open == IF Peek(t, p) = "f" THEN p + 1 ELSE p
        inner == Expression(t, open + 1)
        closed == inner.ok /\ Peek(t, inner.pos) = ")"
    IN  CASE Peek(t, p) = "n" -> At(Number, p + 1)
          [] Peek(t, p) = "x" -> At(Variable, p + 1)
          [] Peek(t, open) = "(" /\ closed ->
                 At(IF open = p THEN inner.tree ELSE Node("f", <<inner.tree>>), inner.pos + 1)
          [] OTHER -> Bad

\* Expr::parse: the whole text, or nothing.
Parse(t) ==
    LET e == Expression(t, 1)
    IN  IF e.ok /\ e.pos = Len(t) + 1 THEN e ELSE Bad

(***************************************************************************)
(* How a formula is written, with no parenthesis that arithmetic can do    *)
(* without: products bind tighter than sums, a power tighter than a sign   *)
(* on its left, sums and products group to the left and powers to the      *)
(* right.                                                                  *)
(***************************************************************************)
Level(e) ==
    CASE e.op \in {"+", "-"} -> 1 [] e.op \in {"*", "/"} -> 2
      [] e.op = "neg" -> 3 [] e.op = "^" -> 4 [] OTHER -> 5

RECURSIVE Spelled(_, _)
Spelled(e, level) ==
    LET body == CASE e.op \in {"+", "-", "*", "/"} ->
                         Spelled(e.args[1], Level(e)) \o <<e.op>> \o Spelled(e.args[2], Level(e) + 1)
                  [] e.op = "neg" -> <<"-">> \o Spelled(e.args[1], 3)
                  [] e.op = "^"   -> Spelled(e.args[1], 5) \o <<"^">> \o Spelled(e.args[2], 3)
                  [] e.op = "f"   -> <<"f", "(">> \o Spelled(e.args[1], 1) \o <<")">>
                  [] OTHER        -> <<e.op>>
    IN  IF Level(e) < level THEN <<"(">> \o body \o <<")">> ELSE body
=============================================================================
