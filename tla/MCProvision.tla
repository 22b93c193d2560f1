----------------------------- MODULE MCProvision -----------------------------
(***************************************************************************)
(* Small instances of Provision for TLC: the .cfg files choose between the *)
(* populations of the namespace defined here.                              *)
(***************************************************************************)
EXTENDS Provision, TLC

CONSTANTS first, second

Architects   == first :> "architect" @@ second :> "architect"
OneOracle    == first :> "oracle"
TwoAgents    == first :> "agent" @@ second :> "agent"

\* No agents; or two, whose names are the same in lower case, and a third.
NoRoster   == [s \in Specs |-> <<>>]
NoServices == [n \in {} |-> ""]
Rosters    == [s \in Specs |-> IF s = Unset THEN <<"Smith">> ELSE <<"Jones", "Smith", "SMITH">>]
LowerCased == "Smith" :> "agent-smith" @@ "SMITH" :> "agent-smith" @@ "Jones" :> "agent-jones"

TwoNames   == first :> "architect" @@ second :> "zion"
AsKind     == Kind

\* Two places of which name and namespace, joined by a dash, make the same name.
ZionMain == first :> "zion-main" @@ second :> "zion"
InLevels == first :> "level" @@ second :> "main-level"

Matrix == [p \in Programs |-> "matrix"]
=============================================================================
