---- MODULE MCAddSessions ----
\* AddSessions with symmetry: calls of /add, and names, are alike.
EXTENDS AddSessions, TLC

Symmetry == Permutations(Adds) \cup Permutations(Names)
====
