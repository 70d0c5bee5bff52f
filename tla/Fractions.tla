----------------------------- MODULE Fractions -----------------------------
(***************************************************************************)
(* The numbers of result processing: a number is a fraction <<n, d>> in    *)
(* lowest terms.  Rounding to two decimals and units are left out.         *)
(***************************************************************************)
EXTENDS Integers, Sequences, SequencesExt

Gcd[p \in Nat \X Nat] == IF p[2] = 0 THEN p[1] ELSE Gcd[<<p[2], p[1] % p[2]>>]
Abs(n)      == IF n < 0 THEN -n ELSE n
Frac(n, d)  == LET g == Gcd[<<Abs(n), d>>] IN <<n \div g, d \div g>>
Whole(n)    == <<n, 1>>
Plus(x, y)  == Frac(x[1] * y[2] + y[1] * x[2], x[2] * y[2])
Times(x, y) == Frac(x[1] * y[1], x[2] * y[2])
Minus(x, y) == Plus(x, Times(Whole(-1), y))
Over(x, y)  == IF y[1] > 0 THEN Frac(x[1] * y[2], x[2] * y[1])
                           ELSE Frac(-x[1] * y[2], x[2] * (-y[1]))
Less(x, y)  == x[1] * y[2] < y[1] * x[2]
Mean(v)     == Over(FoldLeft(Plus, Whole(0), v), Whole(Len(v)))
Spread(v)   == Mean([i \in DOMAIN v |-> Times(Minus(v[i], Mean(v)), Minus(v[i], Mean(v)))])
=============================================================================
