---------------------------- MODULE MCAgentWatch ----------------------------
(***************************************************************************)
(* Small instances of AgentWatch for TLC: the .cfg files choose between    *)
(* the rosters defined here.  Goroutines are interchangeable.              *)
(***************************************************************************)
EXTENDS AgentWatch, TLC

CONSTANTS smith, brown

Smith   == [name |-> smith, health |-> Full]
Brown   == [name |-> brown, health |-> Full]
Wounded == [name |-> brown, health |-> Full - 1]

Two    == {<<Smith, Wounded>>}
Shrunk == {<<Smith, Brown>>, <<Smith>>}

\* How often the pods may come; with the first one only, the second outlives it.
Once  == [i \in Positions |-> 1]
Twice == [i \in Positions |-> IF i = 1 THEN 2 ELSE 1]

Symmetry == Permutations(Watchers)

=============================================================================
