------------------------------- MODULE ModArith -------------------------------
(* Integers and residues, as Python's pow, bit_length and shifts give them.   *)
EXTENDS Integers, Sequences

IsPrime(n) == n > 1 /\ \A k \in 2 .. n - 1 : n % k # 0

Square(x) == x * x

\* pow(b, e, m)
Pow(b, e, m) ==
  LET p[i \in 0 .. e] ==
        IF i = 0 THEN 1 % m
        ELSE LET h == p[i \div 2] IN (((h * h) % m) * (IF i % 2 = 1 THEN b % m ELSE 1)) % m
  IN  p[e]

\* pow(x, -1, m), which raises ValueError when there is none.
Invertible(x, m) == \E y \in 0 .. m - 1 : (x * y) % m = 1 % m
Inv(x, m) == CHOOSE y \in 0 .. m - 1 : (x * y) % m = 1 % m

BitLength(n) == CHOOSE k \in 0 .. n : 2 ^ k > n /\ (k = 0 \/ 2 ^ (k - 1) <= n)

Bit(k, i) == (k \div 2 ^ i) % 2

\* One of two values by a mask of one bit.
Select(bit, x, y) == IF bit = 1 THEN x ELSE y
=============================================================================
