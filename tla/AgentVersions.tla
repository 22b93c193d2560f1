--------------------------- MODULE AgentVersions ---------------------------
(***************************************************************************)
(* The two versions of the Agent resource (api/v1alpha1, api/v1beta1) and  *)
(* the conversion between them (api/v1alpha1/agent__conversion.go).  The   *)
(* old version lists names only; the new one, which is the one stored,     *)
(* gives each agent a health.  Neither direction converts the status.      *)
(***************************************************************************)
EXTENDS Integers, Sequences

CONSTANTS
  Names, \* the names agents may have; neither version checks them
  Full   \* the health the old version stands for: 100

ASSUME HealthAssumption == Full \in Nat \ {0}

\* An entry of spec.agents.  Bound: users give no health beyond 0 .. Full.
SingleAgent == [name : Names, health : 0 .. Full]

\* From the old version to the new one: everyone is in full health.
ConvertTo(names) == [i \in 1 .. Len(names) |-> [name |-> names[i], health |-> Full]]

\* From the new version to the old one: the names in their order.
ConvertFrom(agents) == [i \in 1 .. Len(agents) |-> agents[i].name]

\* What is stored of a list that a client read and wrote back in the old version.
ThroughV1alpha1(agents) == ConvertTo(ConvertFrom(agents))
=============================================================================
