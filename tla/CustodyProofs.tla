---------------------------- MODULE CustodyProofs ----------------------------
(***************************************************************************)
(* Provision implements Custody, for every population of the cluster and   *)
(* every value of the bounds.  What a worker writes it writes for the      *)
(* incarnation it began with, which has lived (LivedInv), and under rights *)
(* that are there (RightsInv of ProvisionProofs); what it writes over is   *)
(* the child as it is (CopiesInv).                                         *)
(***************************************************************************)
EXTENDS ProvisionProofs

-----------------------------------------------------------------------------
(***************************************************************************)
(* Incarnations.                                                           *)
(***************************************************************************)
\* The incarnation u of a program lives or has lived.
Lived(p, u) == u \in 1 .. prog[p].uid

\* What is alive, in the API server or in the cache, and what a worker has in hand, are
\* incarnations that have lived; an owner is a program.
LivedInv ==
  /\ \A p \in Programs :
       /\ prog[p].live => Lived(p, prog[p].uid)
       /\ progC[p].live => Lived(p, progC[p].uid)
  /\ \A k \in Kinds : work[k] # Idle => Lived(work[k].prog, work[k].uid)
  /\ \A k \in Keys : obj[k].owner = Nobody \/ obj[k].owner.prog \in Programs

LEMMA LivedInit == Init => LivedInv
BY DEF Init, LivedInv, NoProgram, NoChild

\* No incarnation is forgotten.
LEMMA LivedStays ==
  ASSUME TypeOK, NEW p \in Programs, NEW u, Lived(p, u), prog'[p].uid \in {prog[p].uid, prog[p].uid + 1}
  PROVE  u \in 1 .. prog'[p].uid
BY DEF TypeOK, Program, Lived

LEMMA UserUids ==
  ASSUME TypeOK, User
  PROVE  /\ UNCHANGED <<progC, obj, objC, objFresh, queue, work>>
         /\ \A p \in Programs :
              /\ prog'[p].uid \in {prog[p].uid, prog[p].uid + 1}
              /\ prog'[p].live => prog[p].live \/ prog'[p].uid = prog[p].uid + 1
<1>0. prog \in [Programs -> Program] /\ \A p \in Programs : prog[p] \in Program
  BY DEF TypeOK
<1>1. PICK p \in Programs : Create(p) \/ Edit(p) \/ Delete(p)
  BY DEF User
<1>2. PICK program : UserWrites(p, program)
                     /\ program.uid \in {prog[p].uid, prog[p].uid + 1}
                     /\ (program.live => prog[p].live \/ program.uid = prog[p].uid + 1)
  <2>1. CASE Create(p)
    BY <2>1 DEF Create
  <2>2. CASE Edit(p)
    BY <1>0, <2>2 DEF Edit, Program
  <2>3. CASE Delete(p)
    BY <2>3 DEF Delete, NoProgram
  <2> QED
    BY <1>1, <2>1, <2>2, <2>3
<1> QED
  BY <1>0, <1>2 DEF UserWrites

LEMMA LivedUser ==
  ASSUME TypeOK, LivedInv, User
  PROVE  LivedInv'
<1>1. UNCHANGED <<progC, obj, work>>
  BY UserUids
<1>2. \A p \in Programs : \A u : Lived(p, u) => u \in 1 .. prog'[p].uid
  BY UserUids, LivedStays
<1>3. \A p \in Programs : prog'[p].live => prog'[p].uid \in 1 .. prog'[p].uid
  <2> SUFFICES ASSUME NEW p \in Programs, prog'[p].live PROVE prog'[p].uid \in 1 .. prog'[p].uid
    OBVIOUS
  <2>1. prog[p].uid \in Nat
    BY DEF TypeOK, Program
  <2>2. prog'[p].uid \in {prog[p].uid, prog[p].uid + 1}
        /\ (prog[p].live \/ prog'[p].uid = prog[p].uid + 1)
    BY UserUids
  <2>3. prog[p].live => prog[p].uid \in 1 .. prog[p].uid
    BY DEF LivedInv, Lived
  <2> QED
    BY <2>1, <2>2, <2>3
<1>4. \A k \in Kinds : work[k] # Idle => work[k].prog \in Programs
  BY CurrentType
<1> QED
  BY <1>1, <1>2, <1>3, <1>4 DEF LivedInv, Lived

\* A worker makes a child for the incarnation it has in hand, or takes over its owner.
LEMMA LivedWorker ==
  ASSUME TypeOK, CopiesInv, LivedInv, NEW k \in Kinds, WorkerStep(k)
  PROVE  LivedInv'
<1>1. UNCHANGED <<prog, progC>> /\ work[k] # Idle
  BY WorkerShape
<1>2. \A j \in Kinds : work'[j] # Idle => work'[j].prog = work[j].prog /\ work'[j].uid = work[j].uid
                                          /\ work[j] # Idle
  <2>1. CASE work' = [work EXCEPT ![k] = Idle]
    BY <2>1 DEF TypeOK
  <2>2. CASE work' = [work EXCEPT ![k] = [work[k] EXCEPT !.step = work[k].step + 1]]
    <3>1. work[k] \in Working
      BY <1>1, CurrentType
    <3>2. [work[k] EXCEPT !.step = work[k].step + 1].uid = work[k].uid
          /\ [work[k] EXCEPT !.step = work[k].step + 1].prog = work[k].prog
      BY <3>1 DEF Working
    <3>3. \A j \in Kinds : work'[j] = IF j = k THEN [work[k] EXCEPT !.step = work[k].step + 1] ELSE work[j]
      BY <2>2 DEF TypeOK
    <3> QED
      BY <1>1, <3>2, <3>3
  <2> QED
    BY <1>1, <2>1, <2>2, WorkerShape, StepType
<1>3. \A j \in Keys : obj'[j].owner = Nobody \/ obj'[j].owner.prog \in Programs
  <2> SUFFICES ASSUME NEW j \in Keys
               PROVE  obj'[j].owner = Nobody \/ obj'[j].owner.prog \in Programs
    OBVIOUS
  <2>1. obj[j].owner = Nobody \/ obj[j].owner.prog \in Programs
    BY DEF LivedInv
  <2>2. CASE obj[j].live \/ obj'[j] = obj[j]
    BY <2>1, <2>2, OwnerKeptWorker
  <2>3. CASE j = CurrentKey(k) /\ obj'[j] = Desired(k)
    <3>1. work[k].prog \in Programs
      BY <1>1, CurrentType
    <3>2. \/ Desired(k).owner = [prog |-> work[k].prog, uid |-> work[k].uid]
          \/ Desired(k).owner = Nobody
      BY <1>1, DesiredType
    <3> QED
      BY <2>3, <3>1, <3>2
  <2>4. CASE j = CurrentKey(k) /\ CurrentKey(k) \in objFresh /\ Updates(k)
    BY <2>2, <2>4 DEF Updates, Cached, CopiesInv
  <2> QED
    BY <1>1, <2>2, <2>3, <2>4, WorkerShape, Written
<1> QED
  BY <1>1, <1>2, <1>3 DEF LivedInv, Lived

LEMMA LivedNext == TypeOK /\ CopiesInv /\ LivedInv /\ [Next]_vars => LivedInv'
<1> SUFFICES ASSUME TypeOK, CopiesInv, LivedInv, [Next]_vars PROVE LivedInv'
  OBVIOUS
<1>1. CASE Cluster
  <2>1. ASSUME NEW k \in Keys, Collect(k) PROVE LivedInv'
    <3>1. \A j \in Keys : obj'[j] = obj[j] \/ obj'[j] = NoChild
      BY <2>1, EmptyType, WriteType DEF Collect
    <3>2. UNCHANGED <<prog, progC, work>>
      BY <2>1 DEF Collect
    <3> QED
      BY <3>1, <3>2 DEF LivedInv, Lived, NoChild
  <2>2. ASSUME NEW k \in Keys, SyncChild(k) PROVE LivedInv'
    BY <2>2 DEF SyncChild, LivedInv, Lived
  <2>3. ASSUME NEW p \in Programs, SyncProgram(p) \/ Resync(p) PROVE LivedInv'
    BY <2>3 DEF SyncProgram, Resync, LivedInv, Lived, TypeOK
  <2> QED
    BY <1>1, <2>1, <2>2, <2>3 DEF Cluster
<1>2. ASSUME NEW p \in Programs, Begin(p) PROVE LivedInv'
  <2>1. UNCHANGED <<prog, progC, obj>>
    BY <1>2 DEF Begin
  <2>2. \A k \in Kinds : \/ work'[k] = work[k]
                         \/ progC[p].live /\ work'[k].prog = p /\ work'[k].uid = progC[p].uid
    BY <1>2 DEF Begin, TypeOK
  <2> QED
    BY <2>1, <2>2 DEF LivedInv, Lived
<1>3. CASE Restart
  BY <1>3 DEF Restart, LivedInv, Lived
<1>4. CASE UNCHANGED vars
  BY <1>4 DEF vars, LivedInv, Lived
<1> QED
  BY <1>1, <1>2, <1>3, <1>4, LivedUser, LivedWorker DEF Next, Controller, WorkerStep

CInv == TypeOK /\ CopiesInv /\ RightsInv /\ LivedInv

LEMMA CustodyInvariant == Spec => []CInv
<1>1. Init => CInv
  BY TypeInit, CopiesInit, RightsInit, LivedInit DEF CInv
<1>2. CInv /\ [Next]_vars => CInv'
  BY TypeNext, CopiesNext, RightsNext, LivedNext DEF CInv
<1> QED
  BY <1>1, <1>2, PTL DEF Spec

-----------------------------------------------------------------------------
(***************************************************************************)
(* Keys under the refinement mapping.                                      *)
(***************************************************************************)
\* Which children are of the whole cluster can be read off their keys, and so can which
\* are the bindings and the ConfigMaps.
LEMMA KeyClass ==
  ASSUME NEW c \in Owned \cup ClusterWide, NEW p \in Programs
  PROVE  /\ Key(c, p) \in Common <=> c \notin Owned
         /\ c \in {"ClusterRoleBinding", "ConfigMap"} => Key(c, p) \in Amendable
<1>1. c \in AgentServices => c \notin Namespaced \cup ClusterWide
  BY ConstantsAssumption DEF AgentServices
<1>2. Key(c, p) \in Keys
  BY KeyType
<1> QED
  BY <1>1, <1>2 DEF Key, Common, Amendable, Owned, Namespaced, ClusterWide

\* A worker is at a child its program may have.
LEMMA CurrentClaimed ==
  ASSUME TypeOK, NEW k \in Kinds, work[k] # Idle
  PROVE  CurrentKey(k) \in Claims[work[k].prog]
<1>1. /\ work[k].prog \in Programs /\ work[k].spec \in Specs
      /\ work[k].step \in DOMAIN Plan(work[k].prog, work[k].spec)
  BY CurrentType DEF Working
<1> QED
  BY <1>1 DEF Claims, CurrentKey, Current

\* A worker that is at a Deployment for which rights are due is past the binding.
LEMMA RightsThere ==
  ASSUME CInv, NEW k \in Kinds, work[k] # Idle, NEW b \in Keys,
         <<work[k].prog, CurrentKey(k), b>> \in First
  PROVE  obj[b].live
<1> DEFINE me == work[k].prog
<1>1. /\ me \in Programs /\ Kind[me] = k /\ work[k] \in Working
      /\ work[k].step \in DOMAIN Plan(me, work[k].spec)
      /\ Current(k) \in Owned \cup ClusterWide
  BY CurrentType DEF CInv
<1>2. /\ Kind[me] \notin Rightless
      /\ CurrentKey(k) = Key("Deployment", me) /\ b = Binding(me)
  BY DEF First, Binding
<1>3. Current(k) = "Deployment"
  BY <1>1, <1>2, KeySort DEF CurrentKey, Owned, Namespaced
<1>4. work[k].step = 5
  BY <1>1, <1>2, <1>3, PlanOrder DEF Current, Working
<1> QED
  BY <1>1, <1>2, <1>4 DEF CInv, RightsInv, PastInv

\* What is made refers to its program, or to nothing.
LEMMA DesiredRef ==
  ASSUME TypeOK, NEW k \in Kinds, work[k] # Idle
  PROVE  /\ Desired(k).ref \in {Nothing, Account[work[k].prog]}
         /\ Current(k) = "ClusterRoleBinding" => Desired(k).ref = Account[work[k].prog]
<1>1. Account[work[k].prog] = <<NamespaceOf[work[k].prog], NameOf[work[k].prog]>>
  BY CurrentType DEF Account
<1> QED
  BY <1>1 DEF Desired, Content

\* A mutation that changes something is one of a binding or of a ConfigMap.
LEMMA MutatedRef ==
  ASSUME TypeOK, NEW k \in Kinds, work[k] # Idle, Mutated(k) # objC[CurrentKey(k)]
  PROVE  /\ Current(k) \in {"ClusterRoleBinding", "ConfigMap"}
         /\ Mutated(k).ref \in {objC[CurrentKey(k)].ref, Account[work[k].prog]}
<1>1. objC[CurrentKey(k)] \in Child
  BY CurrentType DEF TypeOK
<1>2. CASE Current(k) = "ClusterRoleBinding"
  BY <1>1, <1>2, DesiredRef DEF Mutated, Child
<1>3. CASE Current(k) = "ConfigMap"
  BY <1>1, <1>3 DEF Mutated, Child
<1> QED
  BY <1>2, <1>3 DEF Mutated

-----------------------------------------------------------------------------
(***************************************************************************)
(* Steps.                                                                  *)
(***************************************************************************)
Seen == <<[p \in Programs |-> [live |-> prog[p].live, uid |-> prog[p].uid]], obj>>

LEMMA UserSeen ==
  ASSUME TypeOK, User
  PROVE  Abstract!Next \/ UNCHANGED Seen
<1>0. \A p \in Programs : prog[p] \in Program
  BY DEF TypeOK
<1>1. UNCHANGED obj
  BY UserUids
<1>2. PICK p \in Programs : Create(p) \/ Edit(p) \/ Delete(p)
  BY DEF User
<1>3. \A q \in Programs \ {p} : prog'[q] = prog[q]
  BY <1>2 DEF Create, Edit, Delete, UserWrites, TypeOK
<1>4. Abstract!Alters(p)
  BY <1>1, <1>3 DEF Abstract!Alters
<1>5. CASE Create(p)
  <2>1. ~prog[p].live /\ prog'[p].live /\ prog'[p].uid = prog[p].uid + 1
    BY <1>5 DEF Create, UserWrites, TypeOK
  <2>2. Abstract!Born(p)
    BY <1>4, <2>1 DEF Abstract!Born
  <2> QED
    BY <2>2 DEF Abstract!Next
<1>6. CASE Edit(p)
  <2>1. prog'[p].live = prog[p].live /\ prog'[p].uid = prog[p].uid
    <3>1. PICK s \in Specs : UserWrites(p, [prog[p] EXCEPT !.spec = s])
      BY <1>6 DEF Edit
    <3>2. prog'[p] = [prog[p] EXCEPT !.spec = s]
      BY <3>1 DEF UserWrites, TypeOK
    <3> QED
      BY <1>0, <3>2 DEF Program
  <2> QED
    BY <1>1, <1>3, <2>1 DEF Seen
<1>7. CASE Delete(p)
  <2>1. ~prog'[p].live /\ prog'[p].uid = prog[p].uid
    BY <1>7 DEF Delete, UserWrites, NoProgram, TypeOK
  <2>2. Abstract!Dies(p)
    BY <1>4, <2>1 DEF Abstract!Dies
  <2> QED
    BY <2>2 DEF Abstract!Next
<1> QED
  BY <1>2, <1>5, <1>6, <1>7

LEMMA ClusterSeen ==
  ASSUME CInv, Cluster
  PROVE  Abstract!Next \/ UNCHANGED Seen
<1>1. ASSUME NEW k \in Keys, Collect(k) PROVE Abstract!Next
  <2> DEFINE o == obj[k].owner
  <2>1. o.prog \in Programs
    BY <1>1 DEF Collect, CInv, LivedInv
  <2>2. obj[k].live /\ o # Nobody /\ ~Abstract!Lives(o)
    BY <1>1, <2>1 DEF Collect, Abstract!Lives
  <2>3. ~obj'[k].live /\ Abstract!Writes(k)
    BY <1>1, EmptyType, WriteType DEF CInv, Collect, NoChild, Abstract!Writes
  <2>4. Abstract!Fall(k)
    BY <2>2, <2>3 DEF Abstract!Fall
  <2> QED
    BY <2>4 DEF Abstract!Next
<1>2. CASE \/ \E k \in Keys : SyncChild(k)
           \/ \E p \in Programs : SyncProgram(p) \/ Resync(p)
  BY <1>2 DEF SyncChild, SyncProgram, Resync, Seen
<1> QED
  BY <1>1, <1>2 DEF Cluster

\* A worker makes or amends one child, or nothing that is seen happens.
LEMMA WorkerSeen ==
  ASSUME CInv, NEW k \in Kinds, WorkerStep(k)
  PROVE  Abstract!Next \/ UNCHANGED Seen
<1> DEFINE me == work[k].prog
           mine == CurrentKey(k)
<1>1. /\ work[k] # Idle /\ me \in Programs /\ mine \in Keys
      /\ Current(k) \in Owned \cup ClusterWide /\ prog' = prog /\ mine \in Claims[me]
  BY WorkerShape, CurrentType, CurrentClaimed DEF CInv
<1>2. Abstract!Writes(mine)
  BY <1>1, WorkerShape, Written DEF CInv, Abstract!Writes
<1>3. CASE obj' = obj
  BY <1>1, <1>3 DEF Seen
<1>4. CASE ~obj[mine].live /\ obj'[mine] = Desired(k)
  <2>1. Lived(me, work[k].uid)
    BY <1>1 DEF CInv, LivedInv
  <2>2. \A b \in Keys : <<me, mine, b>> \in First => obj[b].live
    BY <1>1, RightsThere
  <2>3. /\ obj'[mine].live
        /\ obj'[mine].owner = IF mine \in Common THEN Nobody ELSE [prog |-> me, uid |-> work[k].uid]
        /\ obj'[mine].ref \in {Nothing, Account[me]}
    BY <1>1, <1>4, DesiredType, DesiredRef, KeyClass DEF CInv, CurrentKey
  <2>4. Abstract!Make(mine, me, work[k].uid)
    BY <1>1, <1>2, <1>4, <2>2, <2>3 DEF Abstract!Make
  <2>5. work[k].uid \in 1 .. [p \in Programs |-> [live |-> prog[p].live, uid |-> prog[p].uid]][me].uid
    BY <1>1, <2>1 DEF Lived
  <2> QED
    BY <1>1, <2>4, <2>5 DEF Abstract!Next
<1>5. CASE Updates(k) /\ mine \in objFresh /\ obj'[mine] = Mutated(k)
  <2>1. objC[mine] = obj[mine] /\ obj[mine].live /\ Mutated(k) # objC[mine]
    BY <1>5 DEF CInv, CopiesInv, Updates, Cached
  <2>2. /\ Mutated(k).live /\ Mutated(k).owner = obj[mine].owner
        /\ Mutated(k).ref \in {obj[mine].ref, Account[me]}
        /\ Current(k) \in {"ClusterRoleBinding", "ConfigMap"}
    BY <1>1, <2>1, MutatedType, MutatedRef DEF CInv
  <2>3. mine \in Amendable
    BY <1>1, <2>2, KeyClass DEF CurrentKey
  <2>4. Abstract!Amend(mine, me)
    BY <1>1, <1>2, <1>5, <2>1, <2>2, <2>3 DEF Abstract!Amend
  <2> QED
    BY <1>1, <2>4 DEF Abstract!Next
<1> QED
  BY <1>1, <1>3, <1>4, <1>5, WorkerShape, Written DEF CInv

-----------------------------------------------------------------------------
\* Provision implements Custody: neither old copies and rivals nor failing calls and
\* restarts ever make a child for an incarnation that never lived or before the rights it
\* needs, change whose it is, or take one from an owner that lives (CreateOrUpdate and
\* SetControllerReference in every Reconcile, reconcilePermissions).
THEOREM CustodyImplemented == Spec => InCustody
<1>1. Init => Abstract!Init
  BY DEF Init, NoProgram, NoChild, Abstract!Init
<1>2. CInv /\ [Next]_vars => Abstract!Next \/ UNCHANGED Seen
  <2> SUFFICES ASSUME CInv, [Next]_vars PROVE Abstract!Next \/ UNCHANGED Seen
    OBVIOUS
  <2>1. CASE \/ \E p \in Programs : Begin(p)
             \/ Restart \/ UNCHANGED vars
    BY <2>1 DEF Begin, Restart, vars, Seen
  <2> QED
    BY <2>1, UserSeen, ClusterSeen, WorkerSeen DEF CInv, Next, Controller, WorkerStep
<1> QED
  BY <1>1, <1>2, CustodyInvariant, PTL DEF Seen, Spec, InCustody, Abstract!Spec
=============================================================================
