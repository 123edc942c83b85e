------------------------------ MODULE MCPickers ------------------------------
\* The tables' sizes, and symmetry for Pickers.cfg: users are alike, and no
\* property tells of liveness.
EXTENDS Pickers, TLC

MCMaxSessions == [c \in Commands |-> IF c = "search" THEN 2 ELSE 1]

Symmetry == Permutations(Users)

=============================================================================
