-------------------------- MODULE MCProjectFunding --------------------------
EXTENDS ProjectFunding, TLC
\* The project has no dates, one fiscal year, or three; a partnership may start
\* with the last of them, also when the project ends before it.
SomeSpans == {<<NULL, NULL>>, <<1, 1>>, <<1, 3>>}
SomeOverrides == {<<NULL, NULL>>, <<3, NULL>>}
Symmetry == Permutations(Partners)
===========================================================================
