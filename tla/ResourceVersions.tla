-------------------------- MODULE ResourceVersions --------------------------
(***************************************************************************)
(* The resource versions of Kubernetes are decimal numbers that the code   *)
(* compares as strings.  A version is the sequence of its digits here, the *)
(* most significant one first; << >> is no version and below all others.   *)
(***************************************************************************)
EXTENDS Naturals, Sequences

\* v is below w in the first of n digits in which they differ.
LessAt(v, w, n) ==
  \E i \in 1..n : v[i] < w[i] /\ \A j \in 1..(i - 1) : v[j] = w[j]

\* The order of the numbers.
Older(v, w) == Len(v) < Len(w) \/ (Len(v) = Len(w) /\ LessAt(v, w, Len(v)))

\* The order of the strings, which is the one the code uses.
StringLess(v, w) ==
  LET n == IF Len(v) < Len(w) THEN Len(v) ELSE Len(w)
  IN  \/ LessAt(v, w, n)
      \/ Len(v) < Len(w) /\ \A i \in 1..n : v[i] = w[i]

\* The digits of a number below 100.
Digits(n) == IF n < 10 THEN <<n>> ELSE <<n \div 10, n % 10>>

=============================================================================
