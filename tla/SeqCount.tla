------------------------------- MODULE SeqCount -------------------------------
EXTENDS Naturals, Sequences, FiniteSets

\* How often x occurs in the sequence s.
Occurrences(s, x) == Cardinality({k \in 1 .. Len(s) : s[k] = x})
==============================================================================
