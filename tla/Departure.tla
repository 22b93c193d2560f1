----------------------------- MODULE Departure -----------------------------
(***************************************************************************)
(* What deleting a Twins promises, without caches, copies, conflicts or    *)
(* the order of calls.  A Twins that is bound by its finalizer leaves only *)
(* after it was absolved: after a moment, while it was leaving, at which   *)
(* it was a guest of the Merovingian's Deployment or at which no such      *)
(* Deployment was kept by a Merovingian.  Being a guest outlasts the       *)
(* Twins: guests go with their host only.  Module Exile implements it.     *)
(***************************************************************************)
EXTENDS Naturals

CONSTANTS
  Twins,     \* names of the Twins
  Children,  \* what a Twins creates for itself
  Nobody     \* no owner

VARIABLES
  phase,     \* of each Twins: absent, free (no finalizer), bound, leaving
  uid,       \* its incarnation
  home,      \* who each child was made for
  host,      \* the Merovingian's Deployment: none, kept by its owner, orphaned
  guests,    \* the Twins in it
  absolved   \* the Twins that may leave

vars == <<phase, uid, home, host, guests, absolved>>

Twin(t, u) == [name |-> t, uid |-> u]

Init ==
  /\ phase = [t \in Twins |-> "absent"]
  /\ uid = [t \in Twins |-> 0]
  /\ home = [k \in Children |-> Nobody]
  /\ host = "none"
  /\ guests = {}
  /\ absolved = {}

Becomes(t, p) ==
  /\ phase' = [phase EXCEPT ![t] = p]
  /\ UNCHANGED <<home, host, guests>>

Arrive(t) ==
  /\ phase[t] = "absent"
  /\ Becomes(t, "free")
  /\ uid' = [uid EXCEPT ![t] = uid[t] + 1]

Bind(t)     == phase[t] = "free"  /\ Becomes(t, "bound")   /\ UNCHANGED uid
Withdraw(t) == phase[t] = "free"  /\ Becomes(t, "absent")  /\ UNCHANGED uid
Leave(t)    == phase[t] = "bound" /\ Becomes(t, "leaving") /\ UNCHANGED uid

Depart(t) ==
  /\ phase[t] = "leaving"
  /\ t \in absolved
  /\ Becomes(t, "absent")
  /\ UNCHANGED uid

\* An incarnation that is, or was, in one of the phases S.
Has(t, u, S) == u < uid[t] \/ (u = uid[t] /\ phase[t] \in S)

\* A child is made for a Twins only once that is bound.
Settle(k, t, u) ==
  /\ home[k] = Nobody
  /\ Has(t, u, {"bound", "leaving", "absent"})
  /\ home' = [home EXCEPT ![k] = Twin(t, u)]
  /\ UNCHANGED <<phase, uid, host, guests>>

Vacate(k) ==
  /\ \A t \in Twins : home[k] = Twin(t, uid[t]) => phase[t] = "absent"
  /\ home' = [home EXCEPT ![k] = Nobody]
  /\ UNCHANGED <<phase, uid, host, guests>>

HostBecomes(h) == host' = h /\ UNCHANGED <<phase, uid, home>>

HostRises ==
  /\ host = "none"
  /\ \E h \in {"kept", "orphaned"} : HostBecomes(h)
  /\ UNCHANGED guests

HostOrphaned == host = "kept" /\ HostBecomes("orphaned") /\ UNCHANGED guests

HostFalls == host = "orphaned" /\ HostBecomes("none") /\ guests' = {}

\* A guest is one that has left or is leaving, and is the only one of its name.
Admit(t, u) ==
  /\ host # "none"
  /\ Has(t, u, {"leaving", "absent"})
  /\ \A g \in guests : g.name # t
  /\ guests' = guests \cup {Twin(t, u)}
  /\ UNCHANGED <<phase, uid, home, host>>

Step ==
  \/ UNCHANGED <<phase, uid, home, host, guests>>
  \/ \E t \in Twins : Arrive(t) \/ Bind(t) \/ Withdraw(t) \/ Leave(t) \/ Depart(t)
  \/ \E k \in Children : Vacate(k) \/ \E t \in Twins : \E u \in 0 .. uid[t] : Settle(k, t, u)
  \/ HostRises \/ HostOrphaned \/ HostFalls
  \/ \E t \in Twins : \E u \in 0 .. uid[t] : Admit(t, u)

Satisfied(t) == host # "kept" \/ Twin(t, uid[t]) \in guests

\* Absolution is given in a moment that satisfies it; it may be withdrawn (the
\* reconcile that was to let the Twins go ends) and ends with the departure.
Absolution ==
  \A t \in absolved' : phase'[t] = "leaving" /\ (t \in absolved \/ Satisfied(t)')

Next == Step /\ absolved' \subseteq Twins /\ Absolution

Spec == Init /\ [][Next]_vars
=============================================================================
