------------------------------- MODULE Curve -------------------------------
(***************************************************************************)
(* The response curves of the cgroups plugin (plugins/cgroups/             *)
(* cgrp-curve.c), through which priorities and OOM scores are mapped: the  *)
(* text of an expression in x is cut into tokens, parsed into reverse      *)
(* Polish notation and evaluated on a stack; its values are tabulated over *)
(* the integers of an input range.                                         *)
(*                                                                         *)
(* A text is a sequence of pieces: characters, numbers and names.  "5" is  *)
(* any number, "ln" a function whose name begins with l, s or c; only      *)
(* "abs" does not.  An expression is a tuple: a leaf <<"x">>, <<"5">> or   *)
(* <<"-5">>, a call <<f, e>> or an operation <<op, e1, e2>>.  Arithmetic   *)
(* is exact.  There are fewer than RPN_MAX_TOKENS tokens and no evaluation *)
(* sets errno.                                                             *)
(***************************************************************************)
EXTENDS Integers, Sequences, FiniteSets, SequencesExt

CONSTANTS
    Depth2,         \* the operators at the root of the expressions that are tried
    InMax,          \* inputs 0..InMax are tabulated
    Ranges,         \* <<p, q>>: curve ranges, p/q long
    OutMin, OutMax, \* the output range
    Values          \* values the function may take

VARIABLE q

vars == <<q>>

Operator == {"+", "-", "*", "/", "^"}

Number == {"5", "-5"}

Called == {"ln", "abs"}

-----------------------------------------------------------------------------
(* The scanner.  A sign right before a digit belongs to the number, blanks *)
(* are skipped, and a name is looked up only if it begins with l, s or c.  *)

signed(text, i) == text[i] \in {"+", "-"} /\ i < Len(text) /\ text[i + 1] = "5"

get_token(text, i) ==
    CASE signed(text, i)   -> IF text[i] = "-" THEN "-5" ELSE "5"
      [] text[i] = "abs"   -> "unknown"
      [] OTHER             -> text[i]

scanned(text) ==
    LET begins(i) == text[i] # " " /\ ~(i > 1 /\ signed(text, i - 1))
        at == SelectSeq([i \in DOMAIN text |-> i], begins)
    IN  [k \in DOMAIN at |-> get_token(text, at[k])]

operator_prec == [o \in Operator |-> CASE o \in {"+", "-"} -> 2 [] o \in {"*", "/"} -> 3
                                       [] OTHER -> 4]

LeftAssoc == Operator \ {"^"}

-----------------------------------------------------------------------------
(* The parser: operators wait on a stack until one that binds less follows. *)

yields(t1, t2) ==
    /\ t2 \in Operator
    /\ \/ t1 \in LeftAssoc /\ operator_prec[t1] <= operator_prec[t2]
       \/ t1 \notin LeftAssoc /\ operator_prec[t1] < operator_prec[t2]

\* The number of topmost stack tokens that satisfy Test, popped one by one.
popped(stack, Test(_)) ==
    LET stop == {i \in DOMAIN stack : ~Test(stack[i])}
        Top(S) == CHOOSE i \in S : \A j \in S : j <= i
    IN  IF stop = {} THEN Len(stack) ELSE Len(stack) - Top(stop)

queue_top(s, n) ==
    [s EXCEPT !.stack = SubSeq(@, 1, Len(@) - n),
              !.out = @ \o Reverse(SubSeq(s.stack, Len(s.stack) - n + 1, Len(s.stack)))]

operator_token_eager(s, t) ==
    LET r == queue_top(s, popped(s.stack, LAMBDA u : u \in Operator))
    IN  [r EXCEPT !.stack = Append(@, t)]

operator_token(s, t) ==
    LET r == queue_top(s, popped(s.stack, LAMBDA u : yields(t, u)))
    IN  [r EXCEPT !.stack = Append(@, t)]

close_token(s) ==
    LET r == queue_top(s, popped(s.stack, LAMBDA u : u \in Operator))
    IN  IF r.stack = <<>> \/ Last(r.stack) # "(" THEN [r EXCEPT !.ok = FALSE]
        ELSE LET p == [r EXCEPT !.stack = Front(@)]
             IN  IF p.stack # <<>> /\ Last(p.stack) \in Called THEN queue_top(p, 1) ELSE p

end_token(s) ==
    LET r == queue_top(s, popped(s.stack, LAMBDA u : u \in Operator))
    IN  [r EXCEPT !.ok = @ /\ r.stack = <<>>]

rpn_parse(text) ==
    LET step(s, t) == CASE ~s.ok -> s
                        [] s.ok /\ t \in {"x"} \cup Number -> [s EXCEPT !.out = Append(@, t)]
                        [] s.ok /\ t \in Called \cup {"("} -> [s EXCEPT !.stack = Append(@, t)]
                        [] s.ok /\ t \in Operator -> operator_token(s, t)
                        [] s.ok /\ t = ")" -> close_token(s)
                        [] s.ok /\ t = "unknown" -> [s EXCEPT !.ok = FALSE]
    IN  end_token(FoldLeft(step, [stack |-> <<>>, out |-> <<>>, ok |-> TRUE], scanned(text)))

\* What the evaluation of an invalid expression returns, whatever x is.
Zero == <<"0.0">>

\* The evaluation, with the expression itself in the place of its value: one
\* item must be left, and none may be missing on the way.
rpn_calc(rpn) ==
    LET args(t) == IF t \in Operator THEN 2 ELSE IF t \in Called THEN 1 ELSE 0
        step(c, t) ==
            LET n == Len(c.st)  k == args(t)
            IN  IF ~c.valid \/ n < k THEN [c EXCEPT !.valid = FALSE]
                ELSE [c EXCEPT !.st = Append(SubSeq(@, 1, n - k), <<t>> \o SubSeq(@, n - k + 1, n))]
        end == FoldLeft(step, [st |-> <<>>, valid |-> TRUE], rpn)
    IN  IF end.valid /\ Len(end.st) = 1 THEN end.st[1] ELSE Zero

-----------------------------------------------------------------------------
(* The tabulated curve.  A curve range p/q long is cut into p * InMax      *)
(* pieces: fn is tabulated at every p-th point of 0..p * InMax, and        *)
(* check_monotonic, whose step is 1 / (imax - imin) whatever the length of *)
(* the range, looks at every q-th.  Adding up the steps it may just miss a *)
(* sample that falls on the end of the range (`miss').                     *)

Points(r) == 0..(r[1] * InMax)

Tabulated(r) == {i \in Points(r) : i % r[1] = 0}

Sampled(r, miss) == {i \in Points(r) : i % r[2] = 0 /\ (miss => i < r[1] * InMax)}

check_monotonic(fn, samples) ==
    \/ \A i, j \in samples : i <= j => fn[i] <= fn[j]
    \/ \A i, j \in samples : i <= j => fn[i] >= fn[j]

\* (int)(n / d + 0.5): halves are added, then the fraction is cut off.
rounded(n, d) ==
    LET up == 2 * n + d
    IN  IF up >= 0 THEN up \div (2 * d) ELSE -((-up) \div (2 * d))

LOCAL Sign(n) == IF n < 0 THEN -1 ELSE 1

\* What an infinity, or no number at all, is converted to.
Undefined == {-2147483647 - 1, 0, 2147483647}

rspcrv_calc(fn, r, i) ==
    LET d == fn[r[1] * InMax] - fn[0]
    IN  IF d = 0 THEN Undefined
        ELSE {rounded(Sign(d) * (OutMin * d + (OutMax - OutMin) * (fn[r[1] * i] - fn[0])), Sign(d) * d)}

curve_create(fn, r) ==
    LET inner == {g \in [1..(InMax - 1) -> UNION {rspcrv_calc(fn, r, i) : i \in 1..(InMax - 1)}] :
                     \A i \in 1..(InMax - 1) : g[i] \in rspcrv_calc(fn, r, i)}
    IN  {[i \in 0..InMax |-> CASE i = 0 -> OutMin [] i = InMax -> OutMax [] OTHER -> g[i]] : g \in inner}

curve_map_unclamped(out, x) == out[IF x < 0 THEN 0 ELSE x % (InMax + 1)]

curve_map(out, x) == out[IF x < 0 THEN 0 ELSE IF x > InMax THEN InMax ELSE x]

-----------------------------------------------------------------------------
(* The expressions that are tried, and how they are written down: with or  *)
(* without blanks.                                                         *)

Leaf == {<<"x">>, <<"5">>, <<"-5">>}

Flat == Leaf \cup {<<f, e>> : f \in Called, e \in Leaf} \cup {<<o, e, <<"x">>>> : o \in Operator, e \in Leaf}
             \cup {<<o, <<"x">>, e>> : o \in Operator, e \in Leaf}

Expr == {<<o, e, f>> : o \in Depth2, e \in Flat, f \in Flat} \cup {<<f, e>> : f \in Called, e \in Flat}

prec(e) == IF e[1] \in Operator THEN operator_prec[e[1]] ELSE 5

LOCAL Bracketed(s) == <<"(">> \o s \o <<")">>

tokens_flat(e) ==
    CASE e \in Leaf         -> e
      [] e[1] \in Called    -> <<e[1]>> \o Bracketed(e[2])
      [] OTHER              -> e[2] \o <<e[1]>> \o e[3]

\* Brackets where the usual reading of precedence and associativity needs them.
tokens(e) ==
    IF e[1] \in Called THEN <<e[1]>> \o Bracketed(tokens_flat(e[2]))
    ELSE LET left  == prec(e[2]) < prec(e) \/ (prec(e[2]) = prec(e) /\ e[1] = "^")
             right == prec(e[3]) < prec(e) \/ (prec(e[3]) = prec(e) /\ e[1] # "^")
             side(f, b) == IF b THEN Bracketed(tokens_flat(f)) ELSE tokens_flat(f)
         IN  side(e[2], left) \o <<e[1]>> \o side(e[3], right)

written(e, blanks) ==
    LET piece(t) == (IF t = "-5" THEN <<"-", "5">> ELSE <<t>>) \o (IF blanks THEN <<" ">> ELSE <<>>)
        ts == tokens(e)
    IN  FlattenSeq([i \in DOMAIN ts |-> piece(ts[i])])

\* No operator can be taken for the sign of the number after it, and no
\* function is called whose name the scanner does not know.
Readable(e, blanks) ==
    LET ts == tokens(e)
    IN  /\ \A i \in 1..(Len(ts) - 1) : ~blanks => ~(ts[i] \in {"+", "-"} /\ ts[i + 1] = "5")
        /\ \A i \in DOMAIN ts : ts[i] # "abs"

NoExpr == <<>>

Init == q = [expr |-> NoExpr, blanks |-> FALSE, rpn |-> [stack |-> <<>>, out |-> <<>>, ok |-> TRUE],
             fn |-> <<>>, range |-> <<>>, samples |-> {}, out |-> <<>>]

parse ==
    /\ q.expr = NoExpr /\ q.fn = <<>>
    /\ \E e \in Expr, b \in BOOLEAN :
          q' = [q EXCEPT !.expr = e, !.blanks = b, !.rpn = rpn_parse(written(e, b))]

rspcrv_create ==
    /\ q.expr = NoExpr /\ q.fn = <<>>
    /\ \E r \in Ranges, miss \in BOOLEAN : \E fn \in [Points(r) -> Values] :
          /\ check_monotonic(fn, Sampled(r, miss))
          /\ \E out \in curve_create(fn, r) :
                q' = [q EXCEPT !.fn = fn, !.range = r, !.samples = Sampled(r, miss), !.out = out]

Next == parse \/ rspcrv_create

Spec == Init /\ [][Next]_vars

\* An expression is never taken for another one.  Readable, it is accepted and
\* evaluates to the very expression that was written; else it is refused or, a
\* constant left without its operator, is 0.0 everywhere.
ParsesAsWritten ==
    q.expr # NoExpr =>
        IF Readable(q.expr, q.blanks) THEN q.rpn.ok /\ rpn_calc(q.rpn.out) = q.expr
        ELSE ~q.rpn.ok \/ rpn_calc(q.rpn.out) = Zero

\* A curve that was accepted stays within the output range and is monotonic,
\* at its tabulated ends and for inputs outside the range too, provided the
\* function differs at the ends of the curve range and every point that is
\* tabulated was one that check_monotonic looked at.
CurveMonotone ==
    q.fn # <<>> /\ q.fn[0] # q.fn[q.range[1] * InMax] /\ Tabulated(q.range) \subseteq q.samples =>
        \A x \in -2..(InMax + 2) :
            /\ curve_map(q.out, x) \in OutMin..OutMax
            /\ x > -2 => curve_map(q.out, x) >= curve_map(q.out, x - 1)

=============================================================================
