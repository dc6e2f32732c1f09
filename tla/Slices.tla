------------------------------- MODULE Slices -------------------------------
(***************************************************************************)
(* Go slices as sequences.                                                 *)
(***************************************************************************)
EXTENDS Naturals, Sequences, SequencesExt, FiniteSets, FiniteSetsExt

\* A slice: a function on 1..n for some n.
IsSlice(s) == s \in Seq(Range(s))

\* A loop that appends the elements at some places of a slice to a new one.
\* SelectSeq would do as well, but nothing can be proved about it.
Pick(s, places) ==
  LET picked[n \in 0..Len(s)] ==
        IF n = 0 THEN << >>
        ELSE IF n \in places THEN Append(picked[n - 1], s[n]) ELSE picked[n - 1]
  IN  picked[Len(s)]

=============================================================================
