------------------------------ MODULE Custody ------------------------------
(***************************************************************************)
(* What the controllers promise about the children of the resources they   *)
(* provision, without caches, queues, workers, plans and failing calls.  A *)
(* child in a namespace is made for one incarnation of a program, one that *)
(* has lived, is that one's for as long as it is there, and goes only once *)
(* that incarnation has gone; a child of the whole cluster is nobody's and *)
(* never goes.  What a child says changes with a few kinds of children     *)
(* only.  Module Provision implements it.                                  *)
(***************************************************************************)
EXTENDS Integers

CONSTANTS
  Programs,  \* the resources
  Keys,      \* what children are known by
  Claims,    \* of each program, the children it may have
  Common,    \* the children of the whole cluster
  Amendable, \* the children that are changed after they were made
  Account,   \* what the children of each program may refer to
  First,     \* <<p, k, b>>: for p, the child k is made after the child b only
  Nobody,    \* no owner
  Nothing    \* no reference

VARIABLES
  life,  \* of each program, whether it lives and how often it was born
  child  \* by key: whether it is there, its owner, what it refers to

Init ==
  /\ \A p \in Programs : ~life[p].live /\ life[p].uid = 0
  /\ \A k \in Keys : ~child[k].live

Lives(owner) == life[owner.prog].live /\ life[owner.prog].uid = owner.uid

Alters(p) == UNCHANGED child /\ \A q \in Programs \ {p} : life'[q] = life[q]

Born(p) == ~life[p].live /\ life'[p].live /\ life'[p].uid = life[p].uid + 1 /\ Alters(p)
Dies(p) == ~life'[p].live /\ life'[p].uid = life[p].uid /\ Alters(p)

Writes(k) == UNCHANGED life /\ \A j \in Keys \ {k} : child'[j] = child[j]

\* For an incarnation that lives, or has lived: whoever makes it may come late.
Make(k, p, u) ==
  /\ ~child[k].live /\ k \in Claims[p]
  /\ \A b \in Keys : <<p, k, b>> \in First => child[b].live
  /\ child'[k].live
  /\ child'[k].owner = IF k \in Common THEN Nobody ELSE [prog |-> p, uid |-> u]
  /\ child'[k].ref \in {Nothing, Account[p]}
  /\ Writes(k)

\* On behalf of any program with a claim to it; whose it is does not change.
Amend(k, p) ==
  /\ child[k].live /\ k \in Claims[p] \cap Amendable
  /\ child'[k].live /\ child'[k].owner = child[k].owner
  /\ child'[k].ref \in {child[k].ref, Account[p]}
  /\ Writes(k)

Fall(k) ==
  /\ child[k].live /\ child[k].owner # Nobody /\ ~Lives(child[k].owner)
  /\ ~child'[k].live
  /\ Writes(k)

Next ==
  \/ \E p \in Programs : Born(p) \/ Dies(p)
  \/ \E k \in Keys :
       \/ Fall(k)
       \/ \E p \in Programs : Amend(k, p) \/ \E u \in 1 .. life[p].uid : Make(k, p, u)

Spec == Init /\ [][Next]_<<life, child>>
=============================================================================
