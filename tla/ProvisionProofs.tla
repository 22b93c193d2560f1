--------------------------- MODULE ProvisionProofs ---------------------------
(***************************************************************************)
(* Theorems about Provision, for every population of the cluster and every *)
(* value of the bounds.  The invariant has three layers: TypeOK, which is  *)
(* inductive; CopiesInv (a copy marked current is the child itself); and   *)
(* RightsInv (what is bound stays bound, and whoever is past the binding   *)
(* in its plan has one).                                                   *)
(***************************************************************************)
EXTENDS Provision, TLAPS

-----------------------------------------------------------------------------
Binding(p) == Key("ClusterRoleBinding", p)

CopiesInv == \A k \in objFresh : objC[k] = obj[k]

\* Nobody owns a binding, so none is collected, and a copy of one does not outlive it.
BindingsInv ==
  \A p \in Programs :
    /\ obj[Binding(p)].owner = Nobody
    /\ objC[Binding(p)].live => obj[Binding(p)].live

\* The binding is the third child of whoever has one.
PastInv ==
  \A k \in Kinds : (work[k] # Idle /\ k \notin Rightless /\ work[k].step > 3)
                     => obj[Binding(work[k].prog)].live

RightsInv == BindingsInv /\ PastInv /\ BoundBeforeDeployed

-----------------------------------------------------------------------------
(***************************************************************************)
(* Data.                                                                   *)
(***************************************************************************)
\* Plans are sequences of children, never empty.
LEMMA PlanType ==
  ASSUME NEW p \in Programs, NEW spec \in Specs
  PROVE  /\ DOMAIN Plan(p, spec) = 1 .. Len(Plan(p, spec))
         /\ Len(Plan(p, spec)) \in Nat \ {0}
         /\ \A i \in DOMAIN Plan(p, spec) :
              /\ Plan(p, spec)[i] \in Owned \cup ClusterWide
              /\ Kind[p] \in Rightless => Plan(p, spec)[i] \in Owned
<1>1. CASE Kind[p] \notin Rightless
  <2> DEFINE five == <<"ServiceAccount", "ClusterRole", "ClusterRoleBinding", "Service",
                       "Deployment">>
  <2>1. Plan(p, spec) = five
    BY <1>1 DEF Plan, RightsPlan, Rightless
  <2>2. Len(five) = 5 /\ DOMAIN five = 1 .. 5
    OBVIOUS
  <2>3. \A i \in 1 .. 5 : five[i] \in Owned \cup ClusterWide
    BY DEF Namespaced, ClusterWide, Owned
  <2> QED
    BY <1>1, <2>1, <2>2, <2>3
<1>2. CASE Kind[p] = "oracle" /\ spec = Unset
  BY <1>2 DEF Plan, OraclePlan, Namespaced, ClusterWide, Owned, Rightless
<1>3. CASE Kind[p] = "oracle" /\ spec # Unset
  BY <1>3 DEF Plan, OraclePlan, Namespaced, ClusterWide, Owned, Rightless
<1>4. CASE Kind[p] = "agent"
  <2> DEFINE services == ServicePerPod(spec)
  <2>1. Plan(p, spec) = Append(services, "StatefulSet")
    BY <1>4 DEF Plan, AgentPlan, Rightless
  <2>2. services \in Seq(AgentServices)
    BY ConstantsAssumption DEF ServicePerPod, AgentServices
  <2>3. /\ DOMAIN Append(services, "StatefulSet") = 1 .. Len(services) + 1
        /\ Len(Append(services, "StatefulSet")) = Len(services) + 1
        /\ \A i \in 1 .. Len(services) + 1 :
             Append(services, "StatefulSet")[i] \in AgentServices \cup {"StatefulSet"}
    <3> HIDE DEF services
    <3> QED
      BY <2>2
  <2> QED
    BY <2>1, <2>2, <2>3 DEF Owned, Namespaced
<1> QED
  BY <1>1, <1>2, <1>3, <1>4 DEF Rightless

\* Where the binding and the Deployment come in the plan of whoever has rights.
LEMMA PlanOrder ==
  ASSUME NEW p \in Programs, Kind[p] \notin Rightless, NEW spec \in Specs, NEW i \in DOMAIN Plan(p, spec)
  PROVE  /\ i \in 1 .. 5
         /\ i = 1 => Plan(p, spec)[i] = "ServiceAccount"
         /\ i = 2 => Plan(p, spec)[i] = "ClusterRole"
         /\ i = 3 => Plan(p, spec)[i] = "ClusterRoleBinding"
         /\ i = 4 => Plan(p, spec)[i] = "Service"
         /\ i = 5 => Plan(p, spec)[i] = "Deployment"
BY DEF Plan, RightsPlan, Rightless

LEMMA KeyType ==
  ASSUME NEW c \in Owned \cup ClusterWide, NEW p \in Programs
  PROVE  Key(c, p) \in Keys
BY DEF Keys

\* What belongs to the whole cluster is not owned.
LEMMA SortsApart == \A c \in ClusterWide : c \notin Owned
BY ConstantsAssumption DEF ClusterWide, Owned, Namespaced, AgentServices

\* Two keys are the same only for the same sort of child.
LEMMA KeySort ==
  ASSUME NEW c \in Owned \cup ClusterWide, NEW d \in Owned \cup ClusterWide,
         NEW p \in Programs, NEW q \in Programs, Key(c, p) = Key(d, q)
  PROVE  c = d
<1>1. c \in AgentServices => c \notin Kinds \cup Namespaced \cup ClusterWide
  BY ConstantsAssumption DEF AgentServices
<1>2. d \in AgentServices => d \notin Kinds \cup Namespaced \cup ClusterWide
  BY ConstantsAssumption DEF AgentServices
<1>3. Kind[p] \in Kinds /\ Kind[q] \in Kinds
  BY ConstantsAssumption
<1> QED
  BY <1>1, <1>2, <1>3 DEF Key, Owned, Namespaced, ClusterWide

LEMMA EmptyType == NoProgram \in Program /\ NoChild \in Child /\ Nobody \in Owner
BY ConstantsAssumption DEF NoProgram, Program, NoChild, Child, Nobody, Owner, Nothing

\* A busy worker is at a child of a program of its own kind.
LEMMA CurrentType ==
  ASSUME TypeOK, NEW k \in Kinds, work[k] # Idle
  PROVE  /\ work[k] \in Working /\ work[k].prog \in Programs /\ Kind[work[k].prog] = k
         /\ work[k].step \in DOMAIN Plan(work[k].prog, work[k].spec)
         /\ Current(k) \in Owned \cup ClusterWide
         /\ CurrentKey(k) \in Keys
<1>1. /\ work[k] \in Working /\ Kind[work[k].prog] = k
      /\ work[k].step \in DOMAIN Plan(work[k].prog, work[k].spec)
  BY DEF TypeOK
<1>2. work[k].prog \in Programs
  BY <1>1 DEF Working
<1>3. Current(k) \in Owned \cup ClusterWide
  BY <1>1, <1>2, PlanType DEF Current, Working
<1> QED
  BY <1>1, <1>2, <1>3, KeyType DEF CurrentKey

LEMMA DesiredType ==
  ASSUME TypeOK, NEW k \in Kinds, work[k] # Idle
  PROVE  /\ Desired(k) \in Child
         /\ Desired(k).live
         /\ Desired(k).owner = IF Current(k) \in Owned
                                 THEN [prog |-> work[k].prog, uid |-> work[k].uid] ELSE Nobody
<1> DEFINE p == work[k].prog
           content == Content(Current(k), p, work[k].spec)
<1>1. p \in Programs /\ work[k].uid \in Nat /\ work[k].spec \in Specs
  BY CurrentType DEF Working
<1>2. <<NamespaceOf[p], NameOf[p]>> \in Seq(STRING) /\ Nothing \in Seq(STRING)
  BY <1>1, ConstantsAssumption DEF Nothing
<1>3. content.ref \in Seq(STRING) /\ content.spec \in Specs
  BY <1>1, <1>2, ConstantsAssumption DEF Content
<1>4. [prog |-> p, uid |-> work[k].uid] \in Owner /\ Nobody \in Owner
  BY <1>1, EmptyType DEF Owner
<1> QED
  BY <1>3, <1>4 DEF Desired, Child

\* A mutation takes away neither a child nor its owner.
LEMMA MutatedType ==
  ASSUME TypeOK, NEW k \in Kinds, work[k] # Idle
  PROVE  /\ Mutated(k) \in Child
         /\ Mutated(k).live = objC[CurrentKey(k)].live
         /\ Mutated(k).owner = objC[CurrentKey(k)].owner
         /\ Current(k) = "Deployment" => Mutated(k) = objC[CurrentKey(k)]
<1>1. objC[CurrentKey(k)] \in Child
  BY CurrentType DEF TypeOK
<1>2. Desired(k).ref \in Seq(STRING) /\ Desired(k).spec \in Specs
  BY DesiredType DEF Child
<1> QED
  BY <1>1, <1>2 DEF Mutated, Child

LEMMA WriteType ==
  ASSUME TypeOK, NEW k \in Keys, NEW child \in Child, WriteChild(k, child)
  PROVE  /\ obj' \in [Keys -> Child] /\ objC' = objC /\ objFresh' \subseteq Keys
         /\ obj'[k] = child /\ \A j \in Keys : j # k => obj'[j] = obj[j]
         /\ objFresh' = objFresh \ {k}
BY DEF WriteChild, TypeOK

\* What a worker writes, if anything, is its current child.
LEMMA Written ==
  ASSUME TypeOK, NEW k \in Kinds, work[k] # Idle,
         Keeps(k) \/ Creates(k) \/ Updates(k) \/ UNCHANGED <<obj, objC, objFresh>>
  PROVE  /\ obj' \in [Keys -> Child] /\ objC' = objC /\ objFresh' \subseteq objFresh
         /\ \A j \in Keys : j # CurrentKey(k) => obj'[j] = obj[j]
         /\ \A j \in objFresh' : obj'[j] = obj[j]
         /\ \/ obj' = obj
            \/ ~obj[CurrentKey(k)].live /\ obj'[CurrentKey(k)] = Desired(k)
            \/ /\ Updates(k) /\ CurrentKey(k) \in objFresh
               /\ obj'[CurrentKey(k)] = Mutated(k)
<1>1. CASE Keeps(k) \/ UNCHANGED <<obj, objC, objFresh>>
  BY <1>1 DEF Keeps, TypeOK
<1>2. CASE Creates(k)
  <2>1. ~obj[CurrentKey(k)].live /\ WriteChild(CurrentKey(k), Desired(k))
    BY <1>2 DEF Creates
  <2>2. CurrentKey(k) \in Keys /\ Desired(k) \in Child
    BY CurrentType, DesiredType
  <2> QED
    BY <2>1, <2>2, WriteType DEF TypeOK
<1>3. CASE Updates(k)
  <2>1. CurrentKey(k) \in objFresh /\ WriteChild(CurrentKey(k), Mutated(k))
    BY <1>3 DEF Updates
  <2>2. CurrentKey(k) \in Keys /\ Mutated(k) \in Child
    BY CurrentType, MutatedType
  <2> QED
    BY <1>3, <2>1, <2>2, WriteType DEF TypeOK
<1> QED
  BY <1>1, <1>2, <1>3

\* A worker goes on to its next child, or stops.
LEMMA StepType ==
  ASSUME TypeOK, NEW k \in Kinds, work[k] # Idle, Proceed(k) \/ ReturnError(k)
  PROVE  /\ queue' \subseteq Programs
         /\ \/ work' = [work EXCEPT ![k] = Idle]
            \/ /\ Proceed(k)
               /\ work' = [work EXCEPT ![k] = [work[k] EXCEPT !.step = work[k].step + 1]]
               /\ work'[k] \in Working
               /\ work'[k].prog = work[k].prog /\ work'[k].spec = work[k].spec
               /\ work'[k].step = work[k].step + 1
               /\ work'[k].step \in DOMAIN Plan(work[k].prog, work[k].spec)
<1> DEFINE plan == Plan(work[k].prog, work[k].spec)
<1>1. /\ work[k] \in Working /\ work[k].prog \in Programs
      /\ work[k].step \in DOMAIN plan
  BY CurrentType
<1>2. DOMAIN plan = 1 .. Len(plan) /\ Len(plan) \in Nat
  BY <1>1, PlanType
<1>3. CASE Proceed(k) /\ work[k].step # Len(plan)
  <2>1. work[k].step \in Nat /\ work[k].step + 1 \in DOMAIN plan
    BY <1>1, <1>2, <1>3
  <2>2. [work[k] EXCEPT !.step = work[k].step + 1] \in Working
    BY <1>1, <2>1 DEF Working
  <2>3. work' = [work EXCEPT ![k] = [work[k] EXCEPT !.step = work[k].step + 1]]
    BY <1>3 DEF Proceed, ProceedBehind, TypeOK
  <2>4. work'[k] = [work[k] EXCEPT !.step = work[k].step + 1]
    BY <2>3 DEF TypeOK
  <2>5. queue' \subseteq Programs
    BY <1>3 DEF Proceed, ProceedBehind, TypeOK
  <2>6. /\ work'[k] \in Working /\ work'[k].step = work[k].step + 1
        /\ work'[k].prog = work[k].prog /\ work'[k].spec = work[k].spec
    BY <1>1, <2>2, <2>4 DEF Working
  <2> QED
    BY <1>3, <2>1, <2>3, <2>5, <2>6
<1>4. CASE Proceed(k) /\ work[k].step = Len(plan)
  BY <1>4 DEF Proceed, ProceedBehind, TypeOK
<1>5. CASE ReturnError(k)
  BY <1>1, <1>5 DEF ReturnError, TypeOK
<1> QED
  BY <1>3, <1>4, <1>5

\* The binding is the last of the children reconcilePermissions makes.
LEMMA BindingLast ==
  ASSUME TypeOK, NEW k \in Kinds, work[k] # Idle, Current(k) = "ClusterRoleBinding"
  PROVE  work[k].step = 3
<1>1. /\ work[k].prog \in Programs /\ work[k].spec \in Specs
      /\ work[k].step \in DOMAIN Plan(work[k].prog, work[k].spec)
  BY CurrentType DEF Working
<1>2. Kind[work[k].prog] \notin Rightless
  <2>1. "ClusterRoleBinding" \notin Owned
    BY SortsApart DEF ClusterWide
  <2> QED
    BY <1>1, <2>1, PlanType DEF Current
<1> QED
  BY <1>1, <1>2, PlanOrder DEF Current

WorkerStep(k) ==
  CreateOrUpdate(k) \/ CreateOrUpdateFails(k) \/ CallFails(k) \/ ReplyLost(k)

\* What all steps of a worker have in common.
LEMMA WorkerShape ==
  ASSUME TypeOK, NEW k \in Kinds, WorkerStep(k)
  PROVE  /\ work[k] # Idle
         /\ UNCHANGED <<prog, progC>> /\ budget' \in Nat
         /\ Keeps(k) \/ Creates(k) \/ Updates(k) \/ UNCHANGED <<obj, objC, objFresh>>
         /\ Proceed(k) \/ ReturnError(k)
<1>1. CASE CreateOrUpdate(k)
  BY <1>1 DEF CreateOrUpdate, TypeOK
<1>2. CASE CreateOrUpdateFails(k)
  <2>1. /\ work[k] # Idle /\ UNCHANGED <<prog, progC, obj, objC, objFresh, budget>>
        /\ OnError(k, "exists") \/ (Mutated(k) # objC[CurrentKey(k)] /\ OnConflict(k))
    BY <1>2 DEF CreateOrUpdateFails
  <2>2. budget' \in Nat
    BY <2>1 DEF TypeOK
  <2>3. OnError(k, "exists") => Proceed(k) \/ ReturnError(k)
    BY DEF OnError
  <2>4. CASE Mutated(k) # objC[CurrentKey(k)] /\ OnConflict(k)
    <3>1. Current(k) \in {"ClusterRoleBinding", "ConfigMap"}
      BY <2>4 DEF Mutated
    <3>2. ASSUME Current(k) = "ClusterRoleBinding" PROVE Proceed(k)
      <4>1. HelperEnd(k) = work[k].step
        BY <2>1, <3>2, BindingLast, SortsApart DEF HelperEnd, ClusterWide, Owned
      <4>2. ProceedBehind(k, HelperEnd(k))
        BY <2>4, <3>2 DEF OnConflict
      <4> QED
        BY <4>1, <4>2 DEF Proceed, ProceedBehind
    <3>3. ASSUME Current(k) = "ConfigMap" PROVE ReturnError(k)
      BY <2>4, <3>3 DEF OnConflict
    <3> QED
      BY <2>1, <2>2, <3>1, <3>2, <3>3
  <2> QED
    BY <2>1, <2>2, <2>3, <2>4
<1>3. CASE CallFails(k)
  BY <1>3 DEF CallFails, OnError, Disturb, TypeOK
<1>4. CASE ReplyLost(k)
  BY <1>4 DEF ReplyLost, OnError, Disturb, TypeOK
<1> QED
  BY <1>1, <1>2, <1>3, <1>4 DEF WorkerStep

-----------------------------------------------------------------------------
(***************************************************************************)
(* Type correctness.                                                       *)
(***************************************************************************)
LEMMA TypeInit == Init => TypeOK
BY EmptyType, ConstantsAssumption DEF Init, TypeOK

LEMMA TypeUser ==
  ASSUME TypeOK, NEW p \in Programs, Create(p) \/ Edit(p) \/ Delete(p)
  PROVE  TypeOK'
<1>1. \A program \in Program : UserWrites(p, program) /\ budget' \in Nat => TypeOK'
  BY DEF UserWrites, TypeOK
<1>2. prog[p] \in Program
  BY DEF TypeOK
<1>3. CASE Create(p)
  <2>1. PICK s \in Specs :
          /\ UserWrites(p, [live |-> TRUE, uid |-> prog[p].uid + 1, spec |-> s])
          /\ IF Admitted(p, s) THEN UNCHANGED budget ELSE Disturb("unguarded")
    BY <1>3 DEF Create
  <2>2. [live |-> TRUE, uid |-> prog[p].uid + 1, spec |-> s] \in Program
    BY <1>2 DEF Program
  <2>3. budget' \in Nat
    BY <2>1 DEF Disturb, TypeOK
  <2> QED
    BY <1>1, <2>1, <2>2, <2>3
<1>4. CASE Edit(p)
  <2>1. PICK s \in Specs : UserWrites(p, [prog[p] EXCEPT !.spec = s])
    BY <1>4 DEF Edit
  <2>2. [prog[p] EXCEPT !.spec = s] \in Program
    BY <1>2 DEF Program
  <2> QED
    BY <1>1, <1>4, <2>1, <2>2 DEF Edit, Disturb, TypeOK
<1>5. CASE Delete(p)
  <2>1. [NoProgram EXCEPT !.uid = prog[p].uid] \in Program
    BY <1>2, ConstantsAssumption DEF Program, NoProgram
  <2> QED
    BY <1>1, <1>5, <2>1 DEF Delete, Disturb, TypeOK
<1> QED
  BY <1>3, <1>4, <1>5

LEMMA TypeCluster ==
  ASSUME TypeOK, Cluster
  PROVE  TypeOK'
<1>1. ASSUME NEW k \in Keys, Collect(k) PROVE TypeOK'
  BY <1>1, EmptyType, WriteType DEF Collect, TypeOK
<1>2. ASSUME NEW k \in Keys, SyncChild(k) PROVE TypeOK'
  <2>1. obj[k].owner.prog \in Programs \cup {NoOne}
        /\ objC[k].owner.prog \in Programs \cup {NoOne}
    BY DEF TypeOK, Child, Owner
  <2>2. Owners(k) \subseteq Programs
    BY <2>1 DEF Owners
  <2> QED
    BY <1>2, <2>2 DEF SyncChild, TypeOK
<1>3. ASSUME NEW p \in Programs, SyncProgram(p) \/ Resync(p) PROVE TypeOK'
  BY <1>3 DEF SyncProgram, Resync, TypeOK
<1> QED
  BY <1>1, <1>2, <1>3 DEF Cluster

LEMMA TypeBegin ==
  ASSUME TypeOK, NEW p \in Programs, Begin(p)
  PROVE  TypeOK'
<1> DEFINE begun == [prog |-> p, uid |-> progC[p].uid, spec |-> progC[p].spec, step |-> 1]
<1>1. Kind[p] \in Kinds /\ progC[p] \in Program
  BY ConstantsAssumption DEF TypeOK
<1>2. begun \in Working
  BY <1>1 DEF Working, Program
<1>3. 1 \in DOMAIN Plan(p, progC[p].spec)
  BY <1>1, PlanType DEF Program
<1>4. work' = work \/ work' = [work EXCEPT ![Kind[p]] = begun]
  BY DEF Begin
<1>5. work' \in [Kinds -> Working \cup {Idle}]
  BY <1>1, <1>2, <1>4 DEF TypeOK
<1>6. \A k \in Kinds : work'[k] = work[k] \/ (k = Kind[p] /\ work'[k] = begun)
  BY <1>1, <1>4 DEF TypeOK
<1>7. \A k \in Kinds : work'[k] # Idle =>
        /\ Kind[work'[k].prog] = k
        /\ work'[k].step \in DOMAIN Plan(work'[k].prog, work'[k].spec)
  BY <1>3, <1>6 DEF TypeOK
<1> QED
  BY <1>5, <1>7 DEF Begin, TypeOK

LEMMA TypeWorker ==
  ASSUME TypeOK, NEW k \in Kinds, WorkerStep(k)
  PROVE  TypeOK'
<1>1. work[k] # Idle /\ (Proceed(k) \/ ReturnError(k))
  BY WorkerShape
<1>2. /\ prog' \in [Programs -> Program] /\ progC' \in [Programs -> Program]
      /\ obj' \in [Keys -> Child] /\ objC' \in [Keys -> Child] /\ objFresh' \subseteq Keys
      /\ budget' \in Nat
  BY WorkerShape, Written DEF TypeOK
<1>3. Kind[work[k].prog] = k
  BY <1>1, CurrentType
<1>4. work' \in [Kinds -> Working \cup {Idle}]
  BY <1>1, StepType DEF TypeOK
<1>5. \A j \in Kinds : work'[j] # Idle =>
        /\ Kind[work'[j].prog] = j
        /\ work'[j].step \in DOMAIN Plan(work'[j].prog, work'[j].spec)
  <2> TAKE j \in Kinds
  <2>1. CASE j # k
    <3>1. work'[j] = work[j]
      BY <1>1, <2>1, StepType DEF TypeOK
    <3> QED
      BY <3>1 DEF TypeOK
  <2>2. CASE j = k
    BY <1>1, <1>3, <2>2, StepType DEF TypeOK
  <2> QED
    BY <2>1, <2>2
<1> QED
  BY <1>1, <1>2, <1>4, <1>5, StepType DEF TypeOK

LEMMA TypeRestart == TypeOK /\ Restart => TypeOK'
BY DEF Restart, Disturb, TypeOK

LEMMA TypeNext == TypeOK /\ [Next]_vars => TypeOK'
<1> SUFFICES ASSUME TypeOK, [Next]_vars PROVE TypeOK'
  OBVIOUS
<1>1. CASE User
  BY <1>1, TypeUser DEF User
<1>2. CASE Controller
  BY <1>2, TypeBegin, TypeWorker DEF Controller, WorkerStep
<1>3. CASE UNCHANGED vars
  BY <1>3 DEF vars, TypeOK
<1> QED
  BY <1>1, <1>2, <1>3, TypeCluster, TypeRestart DEF Next

\* Every variable keeps its shape; no worker is ever past the end of its plan.
THEOREM TypeCorrect == Spec => []TypeOK
BY TypeInit, TypeNext, PTL DEF Spec

-----------------------------------------------------------------------------
(***************************************************************************)
(* Copies and owners.                                                      *)
(***************************************************************************)
LEMMA CopiesInit == Init => CopiesInv
BY DEF Init, CopiesInv

LEMMA CopiesNext == TypeOK /\ CopiesInv /\ [Next]_vars => CopiesInv'
<1> SUFFICES ASSUME TypeOK, CopiesInv, [Next]_vars PROVE CopiesInv'
  OBVIOUS
<1> USE DEF CopiesInv
<1>1. CASE User
  BY <1>1 DEF User, Create, Edit, Delete, UserWrites
<1>2. CASE Cluster
  <2>1. ASSUME NEW k \in Keys, Collect(k) PROVE CopiesInv'
    BY <2>1, EmptyType, WriteType DEF Collect, TypeOK
  <2>2. ASSUME NEW k \in Keys, SyncChild(k) PROVE CopiesInv'
    BY <2>2 DEF SyncChild, TypeOK
  <2>3. ASSUME NEW p \in Programs, SyncProgram(p) \/ Resync(p) PROVE CopiesInv'
    BY <2>3 DEF SyncProgram, Resync
  <2> QED
    BY <1>2, <2>1, <2>2, <2>3 DEF Cluster
<1>3. ASSUME NEW k \in Kinds, WorkerStep(k) PROVE CopiesInv'
  BY <1>3, WorkerShape, Written
<1>4. ASSUME NEW p \in Programs, Begin(p) PROVE CopiesInv'
  BY <1>4 DEF Begin
<1>5. CASE Restart
  BY <1>5 DEF Restart
<1>6. CASE UNCHANGED vars
  BY <1>6 DEF vars
<1> QED
  BY <1>1, <1>2, <1>3, <1>4, <1>5, <1>6 DEF Next, Controller, WorkerStep

\* A worker changes the owner of no child that stays.
LEMMA OwnerKeptWorker ==
  ASSUME TypeOK, CopiesInv, NEW k \in Kinds, WorkerStep(k),
         NEW j \in Keys, obj[j].live
  PROVE  obj'[j].owner = obj[j].owner /\ obj'[j].live
<1>1. CASE obj' = obj \/ j # CurrentKey(k)
  BY <1>1, WorkerShape, Written
<1>2. CASE /\ j = CurrentKey(k) /\ Updates(k) /\ CurrentKey(k) \in objFresh
           /\ obj'[j] = Mutated(k)
  BY <1>2, WorkerShape, MutatedType DEF CopiesInv
<1> QED
  BY <1>1, <1>2, WorkerShape, Written

\* Whoever comes second never takes over a child of the first.
THEOREM OwnersStay == Spec => OwnerKept
<1> DEFINE Kept == \A k \in Keys :
                     (obj[k].live /\ obj'[k].live) => obj'[k].owner = obj[k].owner
<1>1. TypeOK /\ CopiesInv /\ [Next]_vars => [Kept]_vars
  <2> SUFFICES ASSUME TypeOK, CopiesInv, Next PROVE Kept
    OBVIOUS
  <2>1. CASE User
    BY <2>1 DEF User, Create, Edit, Delete, UserWrites
  <2>2. CASE Cluster
    <3>1. ASSUME NEW k \in Keys, Collect(k) PROVE Kept
      BY <3>1, EmptyType, WriteType DEF Collect, NoChild
    <3>2. ASSUME NEW k \in Keys, SyncChild(k) PROVE Kept
      BY <3>2 DEF SyncChild
    <3>3. ASSUME NEW p \in Programs, SyncProgram(p) \/ Resync(p) PROVE Kept
      BY <3>3 DEF SyncProgram, Resync
    <3> QED
      BY <2>2, <3>1, <3>2, <3>3 DEF Cluster
  <2>3. ASSUME NEW k \in Kinds, WorkerStep(k) PROVE Kept
    BY <2>3, OwnerKeptWorker
  <2>4. ASSUME NEW p \in Programs, Begin(p) PROVE Kept
    BY <2>4 DEF Begin
  <2>5. CASE Restart
    BY <2>5 DEF Restart
  <2> QED
    BY <2>1, <2>2, <2>3, <2>4, <2>5 DEF Next, Controller, WorkerStep
<1> QED
  BY <1>1, TypeInit, TypeNext, CopiesInit, CopiesNext, PTL DEF Spec, OwnerKept

-----------------------------------------------------------------------------
(***************************************************************************)
(* Rights before Deployments.                                              *)
(***************************************************************************)
LEMMA BindingType ==
  ASSUME NEW p \in Programs PROVE Binding(p) \in Keys
BY KeyType DEF Binding, ClusterWide

\* The three parts depend on the children and the workers; this is all that a step must
\* not do to them, the workers apart.
LEMMA RightsKept ==
  ASSUME TypeOK, RightsInv,
         \A p \in Programs : obj'[Binding(p)] = obj[Binding(p)],
         \A p \in Programs : objC'[Binding(p)] \in {objC[Binding(p)], obj[Binding(p)]},
         \A k \in Keys : obj'[k] = obj[k] \/ ~obj'[k].live
  PROVE  BindingsInv' /\ BoundBeforeDeployed'
<1>1. \A p \in Programs : Binding(p) \in Keys /\ Key("Deployment", p) \in Keys
  BY BindingType, KeyType DEF Owned, Namespaced
<1>2. \A p \in Programs : (Key("Deployment", p))' = Key("Deployment", p)
                           /\ (Binding(p))' = Binding(p)
  BY DEF Key, Binding
<1>3. BindingsInv'
  BY DEF RightsInv, BindingsInv, Binding, Key
<1>4. BoundBeforeDeployed'
  <2> SUFFICES ASSUME NEW p \in Programs, Kind[p] \notin Rightless,
                      obj'[Key("Deployment", p)].live,
                      obj'[Key("Deployment", p)].owner.prog = p
               PROVE  obj'[Binding(p)].live
    BY DEF BoundBeforeDeployed, Binding
  <2>1. obj'[Key("Deployment", p)] = obj[Key("Deployment", p)]
    BY <1>1
  <2>2. obj[Binding(p)].live
    BY <2>1 DEF RightsInv, BoundBeforeDeployed, Binding
  <2> QED
    BY <2>2
<1> QED
  BY <1>3, <1>4

LEMMA RightsInit == Init => RightsInv
<1> SUFFICES ASSUME Init PROVE RightsInv
  OBVIOUS
<1>1. \A k \in Keys : obj[k] = NoChild /\ objC[k] = NoChild
  BY DEF Init
<1>2. \A p \in Programs : Binding(p) \in Keys /\ Key("Deployment", p) \in Keys
  BY BindingType, KeyType DEF Owned, Namespaced
<1> QED
  BY <1>1, <1>2 DEF Init, RightsInv, BindingsInv, PastInv, BoundBeforeDeployed, NoChild

LEMMA RightsCluster ==
  ASSUME TypeOK, RightsInv, Cluster
  PROVE  RightsInv'
<1>1. \A p \in Programs : Binding(p) \in Keys /\ obj[Binding(p)].owner = Nobody
  BY BindingType DEF RightsInv, BindingsInv
<1>2. work' = work
  BY DEF Cluster, Collect, SyncChild, SyncProgram, Resync
<1>3. \A p \in Programs : obj'[Binding(p)] = obj[Binding(p)]
  <2>1. ASSUME NEW k \in Keys, Collect(k), NEW p \in Programs
        PROVE  obj'[Binding(p)] = obj[Binding(p)]
    BY <1>1, <2>1, EmptyType, WriteType DEF Collect
  <2>2. ASSUME NEW k \in Keys, SyncChild(k) PROVE obj' = obj
    BY <2>2 DEF SyncChild
  <2>3. ASSUME NEW p \in Programs, SyncProgram(p) \/ Resync(p) PROVE obj' = obj
    BY <2>3 DEF SyncProgram, Resync
  <2> QED
    BY <2>1, <2>2, <2>3 DEF Cluster
<1>4. /\ \A p \in Programs : objC'[Binding(p)] \in {objC[Binding(p)], obj[Binding(p)]}
      /\ \A k \in Keys : obj'[k] = obj[k] \/ ~obj'[k].live
  <2>1. ASSUME NEW k \in Keys, Collect(k)
        PROVE  objC' = objC /\ \A j \in Keys : obj'[j] = obj[j] \/ ~obj'[j].live
    BY <2>1, EmptyType, WriteType DEF Collect, NoChild
  <2>2. ASSUME NEW k \in Keys, SyncChild(k)
        PROVE  obj' = obj /\ \A j \in Keys : objC'[j] \in {objC[j], obj[j]}
    BY <2>2 DEF SyncChild, TypeOK
  <2>3. ASSUME NEW p \in Programs, SyncProgram(p) \/ Resync(p)
        PROVE  UNCHANGED <<obj, objC>>
    BY <2>3 DEF SyncProgram, Resync
  <2> QED
    BY <1>1, <2>1, <2>2, <2>3 DEF Cluster
<1>5. BindingsInv' /\ BoundBeforeDeployed'
  BY <1>3, <1>4, RightsKept
<1>6. PastInv'
  <2>1. \A k \in Kinds : work[k] # Idle => work[k].prog \in Programs
    BY CurrentType
  <2> QED
    BY <1>2, <1>3, <2>1 DEF RightsInv, PastInv, Binding, Key
<1> QED
  BY <1>5, <1>6 DEF RightsInv

LEMMA RightsBegin ==
  ASSUME TypeOK, RightsInv, NEW p \in Programs, Begin(p)
  PROVE  RightsInv'
<1>1. UNCHANGED <<obj, objC>>
  BY DEF Begin
<1>2. BindingsInv' /\ BoundBeforeDeployed'
  BY <1>1, RightsKept
<1>3. \A k \in Kinds : work'[k] = work[k] \/ work'[k].step = 1
  BY DEF Begin, TypeOK
<1>4. PastInv'
  <2> SUFFICES ASSUME NEW k \in Kinds, work'[k] # Idle, k \notin Rightless, work'[k].step > 3
               PROVE  obj'[Binding(work'[k].prog)].live
    BY DEF PastInv, Binding, Key
  <2>1. work'[k] = work[k]
    BY <1>3
  <2> QED
    BY <1>1, <2>1 DEF RightsInv, PastInv
<1> QED
  BY <1>2, <1>4 DEF RightsInv

\* A worker leaves the binding behind only if it is there: the one error that is let pass
\* is a conflict, with a binding that exists.
LEMMA BindingReached ==
  ASSUME TypeOK, BindingsInv, NEW k \in Kinds, WorkerStep(k),
         Current(k) = "ClusterRoleBinding"
  PROVE  ReturnError(k) \/ obj'[CurrentKey(k)].live
<1>1. work[k] # Idle /\ CurrentKey(k) \in Keys /\ work[k].prog \in Programs
  BY WorkerShape, CurrentType
<1>2. CurrentKey(k) = Binding(work[k].prog)
  BY DEF CurrentKey, Binding
<1>3. Cached(k) => obj[CurrentKey(k)].live
  BY <1>1, <1>2 DEF BindingsInv, Cached
<1>4. CASE CreateOrUpdate(k)
  <2>1. CASE Keeps(k)
    BY <1>3, <2>1 DEF Keeps
  <2>2. CASE Creates(k)
    BY <1>1, <2>2, DesiredType, WriteType DEF Creates
  <2>3. CASE Updates(k)
    <3>1. Mutated(k) \in Child /\ Mutated(k).live
      BY <1>1, <2>3, MutatedType DEF Updates, Cached
    <3> QED
      BY <1>1, <2>3, <3>1, WriteType DEF Updates
  <2> QED
    BY <1>4, <2>1, <2>2, <2>3 DEF CreateOrUpdate
<1>5. CASE CreateOrUpdateFails(k)
  <2>1. CASE OnError(k, "exists")
    BY <2>1 DEF OnError, Tolerated
  <2>2. CASE Cached(k) /\ UNCHANGED obj
    BY <1>3, <2>2
  <2> QED
    BY <1>5, <2>1, <2>2 DEF CreateOrUpdateFails
<1>6. CASE CallFails(k) \/ ReplyLost(k)
  <2>1. OnError(k, "failed")
    BY <1>6 DEF CallFails, ReplyLost
  <2> QED
    BY <2>1 DEF OnError, Tolerated
<1> QED
  BY <1>4, <1>5, <1>6 DEF WorkerStep

LEMMA RightsWorker ==
  ASSUME TypeOK, CopiesInv, RightsInv, NEW k \in Kinds, WorkerStep(k)
  PROVE  RightsInv'
<1> DEFINE me == work[k].prog
<1>1. /\ work[k] # Idle /\ work[k] \in Working /\ me \in Programs /\ Kind[me] = k
      /\ work[k].step \in DOMAIN Plan(me, work[k].spec)
      /\ Current(k) \in Owned \cup ClusterWide /\ CurrentKey(k) \in Keys
  BY WorkerShape, CurrentType
<1>2. /\ objC' = objC
      /\ \A j \in Keys : j # CurrentKey(k) => obj'[j] = obj[j]
  BY WorkerShape, Written
<1>3. \A j \in Keys : obj[j].live => obj'[j].live /\ obj'[j].owner = obj[j].owner
  BY OwnerKeptWorker
<1>4. \A p \in Programs : Binding(p) \in Keys /\ Key("Deployment", p) \in Keys
  BY BindingType, KeyType DEF Owned, Namespaced
<1>5. BindingsInv'
  <2> SUFFICES ASSUME NEW p \in Programs
               PROVE  /\ obj'[Binding(p)].owner = Nobody
                      /\ objC'[Binding(p)].live => obj'[Binding(p)].live
    BY DEF BindingsInv, Binding, Key
  <2>1. obj[Binding(p)].owner = Nobody /\ (objC[Binding(p)].live => obj[Binding(p)].live)
    BY DEF RightsInv, BindingsInv
  <2>2. CASE obj[Binding(p)].live \/ Binding(p) # CurrentKey(k) \/ obj' = obj
    BY <1>2, <1>3, <1>4, <2>1, <2>2
  <2>3. CASE Binding(p) = CurrentKey(k) /\ obj'[CurrentKey(k)] = Desired(k)
    <3>1. Current(k) = "ClusterRoleBinding"
      BY <1>1, <2>3, KeySort DEF Binding, CurrentKey, ClusterWide
    <3>2. Current(k) \notin Owned
      BY <3>1, SortsApart DEF ClusterWide
    <3> QED
      BY <1>1, <2>3, <3>2, DesiredType
  <2>4. CASE /\ Binding(p) = CurrentKey(k) /\ CurrentKey(k) \in objFresh /\ Updates(k)
    BY <1>3, <1>4, <2>1, <2>4 DEF Updates, Cached, CopiesInv
  <2> QED
    BY <1>1, <2>2, <2>3, <2>4, WorkerShape, Written
<1>6. PastInv'
  <2> SUFFICES ASSUME NEW j \in Kinds, work'[j] # Idle, j \notin Rightless, work'[j].step > 3
               PROVE  obj'[Binding(work'[j].prog)].live
    BY DEF PastInv, Binding, Key
  <2>1. CASE work'[j] = work[j]
    <3>1. work[j].prog \in Programs /\ obj[Binding(work[j].prog)].live
      BY <2>1, CurrentType DEF RightsInv, PastInv
    <3> QED
      BY <1>3, <1>4, <2>1, <3>1
  <2>2. CASE work'[j] # work[j]
    <3>1. j = k /\ work'[k].prog = me /\ work'[k].step = work[k].step + 1
      BY <1>1, <2>2, WorkerShape, StepType DEF TypeOK
    <3>2. CASE work[k].step > 3
      BY <1>1, <1>3, <1>4, <3>1, <3>2 DEF RightsInv, PastInv
    <3>3. CASE work[k].step <= 3
      <4>1. work[k].step = 3
        BY <1>1, <3>1, <3>3 DEF Working
      <4>2. Current(k) = "ClusterRoleBinding"
        BY <1>1, <3>1, <4>1, PlanOrder DEF Current, Working
      <4>3. ~ReturnError(k)
        BY <3>1 DEF ReturnError, TypeOK
      <4> QED
        BY <3>1, <4>2, <4>3, BindingReached DEF RightsInv, CurrentKey, Binding
    <3> QED
      BY <1>1, <3>2, <3>3 DEF Working
  <2> QED
    BY <2>1, <2>2
<1>7. BoundBeforeDeployed'
  <2> SUFFICES ASSUME NEW p \in Programs, Kind[p] \notin Rightless,
                      obj'[Key("Deployment", p)].live,
                      obj'[Key("Deployment", p)].owner.prog = p
               PROVE  obj'[Binding(p)].live
    BY DEF BoundBeforeDeployed, Binding
  <2>1. CASE obj[Key("Deployment", p)].live
    <3>1. obj[Key("Deployment", p)].owner.prog = p
      BY <1>3, <1>4, <2>1
    <3>2. obj[Binding(p)].live
      BY <2>1, <3>1 DEF RightsInv, BoundBeforeDeployed, Binding
    <3> QED
      BY <1>3, <1>4, <3>2
  <2>2. CASE ~obj[Key("Deployment", p)].live
    <3>1. Key("Deployment", p) = CurrentKey(k)
      BY <1>2, <1>4, <2>2
    <3>2. Current(k) = "Deployment"
      BY <1>1, <3>1, KeySort DEF CurrentKey, Owned, Namespaced
    <3>3. obj'[CurrentKey(k)] = Desired(k)
      <4>1. ~(Updates(k) /\ CurrentKey(k) \in objFresh)
        BY <2>2, <3>1 DEF Updates, Cached, CopiesInv
      <4> QED
        BY <1>1, <2>2, <3>1, <4>1, WorkerShape, Written
    <3>4. p = me
      <4>1. Current(k) \in Owned
        BY <3>2 DEF Owned, Namespaced
      <4>2. Desired(k).owner = [prog |-> me, uid |-> work[k].uid]
        BY <1>1, <4>1, DesiredType
      <4> QED
        BY <3>1, <3>3, <4>2
    <3>5. work[k].step = 5
      BY <1>1, <3>2, <3>4, PlanOrder DEF Current, Working
    <3>6. obj[Binding(p)].live
      BY <1>1, <3>4, <3>5 DEF RightsInv, PastInv
    <3> QED
      BY <1>3, <1>4, <3>6
  <2> QED
    BY <2>1, <2>2
<1> QED
  BY <1>5, <1>6, <1>7 DEF RightsInv

LEMMA RightsNext == TypeOK /\ CopiesInv /\ RightsInv /\ [Next]_vars => RightsInv'
<1> SUFFICES ASSUME TypeOK, CopiesInv, RightsInv, [Next]_vars PROVE RightsInv'
  OBVIOUS
<1>1. CASE User \/ UNCHANGED vars
  BY <1>1 DEF User, Create, Edit, Delete, UserWrites, vars, RightsInv, BindingsInv, PastInv,
              BoundBeforeDeployed, Binding, Key
<1>2. ASSUME NEW p \in Programs, Begin(p) PROVE RightsInv'
  BY <1>2, RightsBegin
<1>3. ASSUME NEW k \in Kinds, WorkerStep(k) PROVE RightsInv'
  BY <1>3, RightsWorker
<1>4. CASE Restart
  <2>1. obj' = obj /\ objC' = obj /\ \A k \in Kinds : work'[k] = Idle
    BY <1>4 DEF Restart
  <2>2. BindingsInv' /\ BoundBeforeDeployed'
    BY <2>1, RightsKept
  <2>3. PastInv'
    BY <2>1 DEF PastInv
  <2> QED
    BY <2>2, <2>3 DEF RightsInv
<1> QED
  BY <1>1, <1>2, <1>3, <1>4, RightsCluster DEF Next, Controller, WorkerStep

\* No Architect or Merovingian has its Deployment before the binding of its rights.
THEOREM RightsComeFirst == Spec => []BoundBeforeDeployed
<1>1. RightsInv => BoundBeforeDeployed
  BY DEF RightsInv
<1> QED
  BY <1>1, TypeInit, TypeNext, CopiesInit, CopiesNext, RightsInit, RightsNext, PTL DEF Spec
=============================================================================
