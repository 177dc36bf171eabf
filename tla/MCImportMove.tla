---------------------------- MODULE MCImportMove ----------------------------
EXTENDS ImportMove
CONSTANTS a, b, c, d, v1
\* Up to the names of values: what a holds at first is v1, and the last
\* destination is empty or holds that too.
MCStores ==
  {s \in [Cells -> Values \cup {None}] : s[a] \in {None, v1} /\ s[d] \in {None, v1}}
Pair(x, y) == [n \in 1..2 |-> IF n = 1 THEN x ELSE y]
Layout(src, tgt, lists) == [src |-> src, tgt |-> tgt, lists |-> lists]
\* Disjoint, exchanged, chained, one source, one destination, onto itself.
\* The last one has a destination that reads from its first listing.
MCLayouts ==
  {Layout(Pair(a, b), Pair(c, d), FALSE), Layout(Pair(a, b), Pair(b, a), FALSE),
   Layout(Pair(a, b), Pair(b, c), FALSE), Layout(Pair(a, b), Pair(c, a), FALSE),
   Layout(Pair(a, a), Pair(c, d), FALSE), Layout(Pair(a, b), Pair(c, c), FALSE),
   Layout(Pair(a, b), Pair(a, c), FALSE), Layout(Pair(a, a), Pair(c, d), TRUE)}
=============================================================================
