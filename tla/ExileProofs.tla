---------------------------- MODULE ExileProofs ----------------------------
(***************************************************************************)
(* Theorems about Exile, for every set of Twins and Merovingians and every *)
(* value of the bounds.  The invariant is built in three layers, each      *)
(* inductive given the ones before it: TypeInv (shapes), CopiesInv (what a *)
(* cached or held copy says of the object it was taken from) and ExileInv  *)
(* (what the finalizer has done so far).                                   *)
(***************************************************************************)
EXTENDS Exile, TLAPS

-----------------------------------------------------------------------------
\* Shapes, with what makes the worker's steps well defined: a Deployment that
\* exists has a container, and so has the copy exileTo has just written.
TypeInv ==
  /\ TypeOK
  /\ dep.live => dep.containers # <<>>
  /\ depC.live => depC.containers # <<>>
  /\ pc # "idle" => cur \in Twins
  /\ pc = "status" => item \in todo /\ md # <<>>

\* A copy marked fresh is the object; a copy never is of a later incarnation, and
\* a deletion or a finalizer seen in a copy is never undone.
CopiesInv ==
  /\ \A t \in Twins :
       /\ t \in twFresh => twC[t] = tw[t]
       /\ twC[t].uid <= tw[t].uid
       /\ (twC[t].st = "deleting" /\ twC[t].uid = tw[t].uid) => tw[t].st # "live"
       /\ (twC[t].fin /\ twC[t].uid = tw[t].uid /\ tw[t].st # "absent") => tw[t].fin
       /\ tw[t].st = "absent" => ~tw[t].fin
  /\ depFresh => depC = dep
  /\ pc # "idle" =>
       /\ crFresh => cr = tw[cur]
       /\ cr.uid <= tw[cur].uid
       /\ (cr.st = "deleting" /\ cr.uid = tw[cur].uid) => tw[cur].st # "live"
       /\ (cr.fin /\ cr.uid = tw[cur].uid /\ tw[cur].st # "absent") => tw[cur].fin
  /\ pc \notin {"idle", "finalizer"} => cr.fin
  /\ pc \in {"list", "exile", "status", "release"} => cr.st = "deleting"

\* What was read from or put into the Deployment with uid u is still in there,
\* unless that Deployment has been replaced.
StillIn(u, names, n) ==
  (dep.live /\ dep.uid = u)
    => /\ names \subseteq ContainerNames(dep.containers)
       /\ n <= Len(dep.containers)

\* The finalizer's progress: every listed Merovingian not to be visited any more
\* has got the Twins, the one being visited has it, too.
ExileInv ==
  /\ ~dep.live => dep.containers = <<>>
  /\ dep.live => dep.uid > 0
  /\ \A m \in Merovingians :
       /\ mv[m].from <= dep.uid
       /\ placed[m] <= dep.uid
       /\ mv[m].from > 0 => StillIn(mv[m].from, mv[m].exiled, mv[m].count + 1)
  /\ \A m \in listed \ todo : placed[m] > 0 /\ StillIn(placed[m], {cur}, 0)
  /\ pc = "status" =>
       /\ cur \in ContainerNames(md)
       /\ placed[item] > 0
       /\ StillIn(placed[item], ContainerNames(md), Len(md))
  /\ pc = "release" => todo = {}
  /\ pc = "idle" => listed = {}


-----------------------------------------------------------------------------
(***************************************************************************)
(* Data.                                                                   *)
(***************************************************************************)
\* The names of the containers after one has been appended.
LEMMA AppendedNames ==
  ASSUME NEW S, NEW cs \in Seq(S), NEW c \in S
  PROVE  ContainerNames(Append(cs, c)) = ContainerNames(cs) \cup {c.name}
<1>1. DOMAIN Append(cs, c) = 1..(Len(cs) + 1) /\ DOMAIN cs = 1..Len(cs) /\ Len(cs) \in Nat
  OBVIOUS
<1>2. \A i \in 1..Len(cs) : Append(cs, c)[i] = cs[i]
  OBVIOUS
<1>3. Append(cs, c)[Len(cs) + 1] = c
  OBVIOUS
<1>4. 1..(Len(cs) + 1) = 1..Len(cs) \cup {Len(cs) + 1}
  BY <1>1
<1>5. ASSUME NEW n PROVE n \in ContainerNames(Append(cs, c))
                          <=> n \in ContainerNames(cs) \cup {c.name}
  <2>1. n \in ContainerNames(Append(cs, c)) <=> \E i \in 1..(Len(cs) + 1) : n = Append(cs, c)[i].name
    BY <1>1, Zenon DEF ContainerNames
  <2>2. n \in ContainerNames(cs) <=> \E i \in 1..Len(cs) : n = cs[i].name
    BY <1>1, Zenon DEF ContainerNames
  <2> QED
    BY <1>2, <1>3, <1>4, <2>1, <2>2, Zenon
<1> QED
  BY <1>5, Zenon

\* Container names are names of Twins or Merovingians.
LEMMA NamesOfContainers ==
  ASSUME NEW cs \in Seq(Container)
  PROVE  ContainerNames(cs) \subseteq Names
<1>1. \A i \in DOMAIN cs : cs[i] \in Container
  OBVIOUS
<1>2. \A i \in DOMAIN cs : cs[i].name \in Names
  BY <1>1 DEF Container
<1> QED
  BY <1>2, Zenon DEF ContainerNames

\* The container made of a Twins is well formed.
LEMMA ExileContainerType ==
  ASSUME cur \in Twins, cr \in TwinsObject
  PROVE  ExileContainer \in Container
BY DEF ExileContainer, Container, Names, TwinsObject

\* What exileTo writes is a Deployment that still exists.
LEMMA WithExileType ==
  ASSUME TypeInv, pc # "idle", depC.live
  PROVE  /\ WithExile \in DeploymentObject
         /\ WithExile.live = dep.live
         /\ WithExile.uid = dep.uid
         /\ WithExile.containers = Append(depC.containers, ExileContainer)
         /\ WithExile.containers \in Seq(Container)
         /\ WithExile.containers # <<>>
<1>1. depC.containers \in Seq(Container) /\ depC.containers # <<>> /\ dep \in DeploymentObject
  BY DEF TypeInv, TypeOK, DeploymentObject
<1>2. ExileContainer \in Container
  BY <1>1, ExileContainerType DEF TypeInv, TypeOK
<1>3. Append(depC.containers, ExileContainer) \in Seq(Container)
  BY <1>1, <1>2
<1>4. Append(depC.containers, ExileContainer) # <<>>
  BY <1>1, <1>2
<1> QED
  BY <1>1, <1>3, <1>4 DEF WithExile, DeploymentObject

\* The Deployment a Merovingian gets has one container, its own.
LEMMA NewDeploymentType ==
  ASSUME TypeInv, NEW m \in Merovingians, NEW u \in 1 .. mvC[m].uid
  PROVE  /\ NewDeployment(m, u) \in DeploymentObject
         /\ NewDeployment(m, u).containers = <<HostContainer(m)>>
         /\ NewDeployment(m, u).containers # <<>>
         /\ NewDeployment(m, u).uid = dep.uid + 1
<1>1. HostContainer(m) \in Container
  BY DEF HostContainer, Container, Names
<1>2. <<HostContainer(m)>> \in Seq(Container)
  BY <1>1
<1>3. [name |-> m, uid |-> u] \in Owner
  BY DEF TypeInv, TypeOK, MerovingianObject, Owner, Names
<1>4. dep.uid + 1 \in Nat
  BY DEF TypeInv, TypeOK, DeploymentObject
<1> QED
  BY <1>2, <1>3, <1>4 DEF NewDeployment, DeploymentObject

\* What exileTo writes into the status is a Merovingian.
LEMMA WithStatusType ==
  ASSUME TypeInv, pc = "status"
  PROVE  WithStatus \in MerovingianObject
<1>1. item \in Merovingians /\ md \in Seq(Container) /\ md # <<>>
  BY DEF TypeInv, TypeOK
<1>2. Len(md) - 1 \in Nat
  BY <1>1
<1>3. ContainerNames(md) \ {item} \in SUBSET Names
  BY <1>1, NamesOfContainers
<1>4. mv[item] \in MerovingianObject /\ placed[item] \in Nat
  BY <1>1 DEF TypeInv, TypeOK
<1> QED
  BY <1>2, <1>3, <1>4 DEF WithStatus, MerovingianObject

-----------------------------------------------------------------------------
(***************************************************************************)
(* What a step can do to each object of the API server.                    *)
(***************************************************************************)
\* The Deployment is left as it is, collected, created anew, or given the
\* container of the Twins in the worker's hands.
DeploymentStep ==
  \/ dep' = dep
  \/ dep.live /\ ~Cared /\ dep' = [NoDeployment EXCEPT !.uid = dep.uid]
  \/ \E m \in Merovingians : \E u \in 1 .. mvC[m].uid : ~dep.live /\ dep' = NewDeployment(m, u)
  \/ /\ pc = "exile"
     /\ depC.live
     /\ DeploymentUpdateAccepted
     /\ dep' = WithExile

\* The Twins are left as they are, or one is created, deleted, given its finalizer or
\* let go.
TwinsStep ==
  \/ tw' = tw
  \/ \E t \in Twins :
       /\ tw[t].st = "absent"
       /\ tw' = [tw EXCEPT ![t] = [st |-> "live", fin |-> FALSE, uid |-> tw[t].uid + 1]]
  \/ \E t \in Twins :
       /\ tw[t].st = "live"
       /\ tw' = [tw EXCEPT ![t] =
                  [tw[t] EXCEPT !.st = IF tw[t].fin THEN "deleting" ELSE "absent"]]
  \/ /\ pc = "finalizer" /\ TwinsUpdateAccepted
     /\ tw' = [tw EXCEPT ![cur] = [cr EXCEPT !.fin = TRUE]]
  \/ /\ pc = "release" /\ TwinsUpdateAccepted
     /\ tw' = [tw EXCEPT ![cur] = Released]

\* The Merovingians are left as they are, or one is created, deleted, or given the
\* status exileTo computed.
MerovingianStep ==
  \/ mv' = mv
  \/ \E m \in Merovingians :
       mv' = [mv EXCEPT ![m] = [NoMerovingian EXCEPT !.live = TRUE, !.uid = mv[m].uid + 1]]
  \/ \E m \in Merovingians :
       mv' = [mv EXCEPT ![m] = [NoMerovingian EXCEPT !.uid = mv[m].uid]]
  \/ pc = "status" /\ mv' = [mv EXCEPT ![item] = WithStatus]

\* The caches are left as they are, and what has been written is fresh no more; or a
\* watch event is delivered; or the operator has restarted.
CacheStep ==
  \/ /\ UNCHANGED caches
     /\ twFresh' \subseteq twFresh /\ \A t \in twFresh' : tw'[t] = tw[t]
     /\ mvFresh' \subseteq mvFresh
     /\ depFresh' \in {depFresh, FALSE} /\ (depFresh' => dep' = dep)
  \/ \E t \in Twins :
       /\ twC' = [twC EXCEPT ![t] = tw[t]]
       /\ twFresh' = twFresh \cup {t}
       /\ UNCHANGED <<store, mvC, depC, mvFresh, depFresh>>
  \/ \E m \in Merovingians :
       /\ mvC' = [mvC EXCEPT ![m] = mv[m]]
       /\ mvFresh' = mvFresh \cup {m}
       /\ UNCHANGED <<store, twC, depC, twFresh, depFresh>>
  \/ /\ depC' = dep
     /\ depFresh' = TRUE
     /\ UNCHANGED <<store, twC, mvC, twFresh, mvFresh>>
  \/ /\ twC' = tw /\ mvC' = mv /\ depC' = dep
     /\ twFresh' = Twins /\ mvFresh' = Merovingians /\ depFresh' = TRUE
     /\ UNCHANGED store

\* Every step does one of these to the Deployment.
LEMMA DeploymentSteps ==
  ASSUME TypeInv, [Next]_vars
  PROVE  DeploymentStep
<1> USE DEF store, caches, DeploymentStep
<1>1. CASE User
  BY <1>1 DEF TypeInv, TypeOK, User, CreateTwins, DeleteTwins, EditTwins, CreateMerovingian,
    DeleteMerovingian, EditMerovingian, OthersWriteTwins, OthersWriteMerovingian,
    WriteTwins, WriteMerovingian
<1>2. CASE Cluster
  BY <1>2 DEF TypeInv, TypeOK, Cluster, DeploymentStatus, CollectDeployment, Cared, CollectHome,
    SyncTwins, Requeue, SyncMerovingian, MerovingianReconcile, SyncDeployment, CreateOrUpdate,
    OthersWriteDeployment, WriteDeployment
<1>3. CASE Worker
  <2>1. CASE AddFinalizer
    BY <2>1 DEF TypeInv, TypeOK, AddFinalizer, WriteTwins
  <2>2. CASE \E m \in Merovingians : ExileTo(m)
    BY <2>2 DEF TypeInv, TypeOK, ExileTo, WriteDeployment, DeploymentFound
  <2>3. CASE UpdateStatus
    BY <2>3 DEF TypeInv, TypeOK, UpdateStatus, WriteMerovingian
  <2>4. CASE RemoveFinalizer
    BY <2>4 DEF TypeInv, TypeOK, RemoveFinalizer, WriteTwins
  <2>5. CASE CreateService \/ CreateDeployment
    BY <2>5 DEF CreateService, CreateDeployment
  <2>6. CASE UNCHANGED <<tw, mv, dep>>
    BY <2>6
  <2> QED
    BY <1>3, <2>1, <2>2, <2>3, <2>4, <2>5, <2>6
    DEF Worker, Begin, AddFinalizerRejected, ListMerovingians, ExileToFails,
        UpdateStatusRejected, RemoveFinalizerRejected, AlreadyExists, Rejected
<1>4. CASE Faults
  <2>1. CASE ReplyLost
    BY <2>1 DEF TypeInv, TypeOK, ReplyLost, DeploymentFound, WriteTwins, WriteDeployment,
      WriteMerovingian
  <2> QED
    BY <1>4, <2>1 DEF Faults, CallFails, Restart, Rejected
<1>5. CASE UNCHANGED vars
  BY <1>5 DEF vars
<1> QED
  BY <1>1, <1>2, <1>3, <1>4, <1>5 DEF Next

\* Every step does one of these to the Twins.
LEMMA TwinsSteps ==
  ASSUME TypeInv, [Next]_vars
  PROVE  TwinsStep
<1> USE DEF store, caches, TwinsStep
<1>1. CASE User
  BY ZenonT(30), <1>1 DEF TypeInv, TypeOK, User, CreateTwins, DeleteTwins, EditTwins, CreateMerovingian,
    DeleteMerovingian, EditMerovingian, OthersWriteTwins, OthersWriteMerovingian,
    WriteTwins, WriteMerovingian
<1>2. CASE Cluster
  BY <1>2 DEF TypeInv, TypeOK, Cluster, DeploymentStatus, CollectDeployment, CollectHome,
    SyncTwins, Requeue, SyncMerovingian, MerovingianReconcile, SyncDeployment, CreateOrUpdate,
    OthersWriteDeployment, WriteDeployment
<1>3. CASE Worker
  <2>1. CASE AddFinalizer
    BY <2>1 DEF TypeInv, TypeOK, AddFinalizer, WriteTwins
  <2>2. CASE \E m \in Merovingians : ExileTo(m)
    BY <2>2 DEF TypeInv, TypeOK, ExileTo, WriteDeployment, DeploymentFound
  <2>3. CASE UpdateStatus
    BY <2>3 DEF TypeInv, TypeOK, UpdateStatus, WriteMerovingian
  <2>4. CASE RemoveFinalizer
    BY <2>4 DEF TypeInv, TypeOK, RemoveFinalizer, WriteTwins
  <2>5. CASE CreateService \/ CreateDeployment
    BY <2>5 DEF CreateService, CreateDeployment
  <2>6. CASE UNCHANGED <<tw, mv, dep>>
    BY <2>6
  <2> QED
    BY <1>3, <2>1, <2>2, <2>3, <2>4, <2>5, <2>6
    DEF Worker, Begin, AddFinalizerRejected, ListMerovingians, ExileToFails,
        UpdateStatusRejected, RemoveFinalizerRejected, AlreadyExists, Rejected
<1>4. CASE Faults
  <2>1. CASE ReplyLost
    BY <2>1 DEF TypeInv, TypeOK, ReplyLost, DeploymentFound, WriteTwins, WriteDeployment,
      WriteMerovingian
  <2> QED
    BY <1>4, <2>1 DEF Faults, CallFails, Restart, Rejected
<1>5. CASE UNCHANGED vars
  BY <1>5 DEF vars
<1> QED
  BY <1>1, <1>2, <1>3, <1>4, <1>5 DEF Next

\* Every step does one of these to the Merovingians.
LEMMA MerovingianSteps ==
  ASSUME TypeInv, [Next]_vars
  PROVE  MerovingianStep
<1> USE DEF store, caches, MerovingianStep
<1>1. CASE User
  <2> USE DEF OthersWriteTwins, OthersWriteMerovingian, WriteTwins, WriteMerovingian
  <2>1. ASSUME NEW m \in Merovingians,
               CreateMerovingian(m) \/ DeleteMerovingian(m) \/ EditMerovingian(m)
        PROVE  MerovingianStep
    BY <2>1 DEF TypeInv, TypeOK, CreateMerovingian, DeleteMerovingian, EditMerovingian
  <2> QED
    BY <1>1, <2>1 DEF User, CreateTwins, DeleteTwins, EditTwins
<1>2. CASE Cluster
  BY <1>2 DEF TypeInv, TypeOK, Cluster, DeploymentStatus, CollectDeployment, CollectHome,
    SyncTwins, Requeue, SyncMerovingian, MerovingianReconcile, SyncDeployment, CreateOrUpdate,
    OthersWriteDeployment, WriteDeployment
<1>3. CASE Worker
  <2>1. CASE AddFinalizer
    BY <2>1 DEF TypeInv, TypeOK, AddFinalizer, WriteTwins
  <2>2. CASE \E m \in Merovingians : ExileTo(m)
    BY <2>2 DEF TypeInv, TypeOK, ExileTo, WriteDeployment, DeploymentFound
  <2>3. CASE UpdateStatus
    BY <2>3 DEF TypeInv, TypeOK, UpdateStatus, WriteMerovingian
  <2>4. CASE RemoveFinalizer
    BY <2>4 DEF TypeInv, TypeOK, RemoveFinalizer, WriteTwins
  <2>5. CASE CreateService \/ CreateDeployment
    BY <2>5 DEF CreateService, CreateDeployment
  <2>6. CASE UNCHANGED <<tw, mv, dep>>
    BY <2>6
  <2> QED
    BY <1>3, <2>1, <2>2, <2>3, <2>4, <2>5, <2>6
    DEF Worker, Begin, AddFinalizerRejected, ListMerovingians, ExileToFails,
        UpdateStatusRejected, RemoveFinalizerRejected, AlreadyExists, Rejected
<1>4. CASE Faults
  <2>1. CASE ReplyLost
    BY <2>1 DEF TypeInv, TypeOK, ReplyLost, DeploymentFound, WriteTwins, WriteDeployment,
      WriteMerovingian
  <2> QED
    BY <1>4, <2>1 DEF Faults, CallFails, Restart, Rejected
<1>5. CASE UNCHANGED vars
  BY <1>5 DEF vars
<1> QED
  BY <1>1, <1>2, <1>3, <1>4, <1>5 DEF Next

\* Every step does one of these to the caches.
LEMMA CacheSteps ==
  ASSUME TypeInv, [Next]_vars
  PROVE  CacheStep
<1> USE DEF store, caches, fresh, CacheStep
<1>1. CASE User
  BY <1>1 DEF TypeInv, TypeOK, User, CreateTwins, DeleteTwins, EditTwins, CreateMerovingian, DeleteMerovingian,
    EditMerovingian, OthersWriteTwins, OthersWriteMerovingian, WriteTwins, WriteMerovingian
<1>2. CASE Cluster
  <2>1. CASE DeploymentStatus \/ CollectDeployment \/ \E m \in Merovingians : MerovingianReconcile(m)
    BY <2>1 DEF DeploymentStatus, CollectDeployment, MerovingianReconcile, CreateOrUpdate,
      OthersWriteDeployment, WriteDeployment
  <2>2. CASE (\E k \in Children : CollectHome(k)) \/ \E t \in Twins : Requeue(t)
    BY <2>2 DEF CollectHome, Requeue
  <2>3. CASE \E t \in Twins : SyncTwins(t)
    BY <2>3 DEF SyncTwins
  <2>4. CASE \E m \in Merovingians : SyncMerovingian(m)
    BY <2>4 DEF SyncMerovingian
  <2>5. CASE SyncDeployment
    BY <2>5 DEF SyncDeployment
  <2> QED
    BY <1>2, <2>1, <2>2, <2>3, <2>4, <2>5 DEF Cluster
<1>3. CASE Worker
  <2>1. CASE AddFinalizer \/ RemoveFinalizer
    BY <2>1 DEF TypeInv, TypeOK, AddFinalizer, RemoveFinalizer, WriteTwins
  <2>2. CASE \E m \in Merovingians : ExileTo(m)
    BY <2>2 DEF ExileTo, WriteDeployment
  <2>3. CASE UpdateStatus
    BY <2>3 DEF TypeInv, TypeOK, UpdateStatus, WriteMerovingian
  <2>4. CASE UNCHANGED <<tw, dep, caches, twFresh, mvFresh, depFresh>>
    BY <2>4
  <2> QED
    BY <1>3, <2>1, <2>2, <2>3, <2>4
    DEF Worker, Begin, AddFinalizerRejected, CreateService, CreateDeployment, ListMerovingians,
        ExileToFails, UpdateStatusRejected, RemoveFinalizerRejected, AlreadyExists, Rejected
<1>4. CASE Faults
  <2>1. CASE CallFails
    BY <2>1 DEF CallFails, Rejected
  <2>2. CASE ReplyLost
    BY <2>2 DEF TypeInv, TypeOK, ReplyLost, WriteTwins, WriteDeployment, WriteMerovingian
  <2>3. CASE Restart
    BY <2>3 DEF Restart
  <2> QED
    BY <1>4, <2>1, <2>2, <2>3 DEF Faults
<1>5. CASE UNCHANGED vars
  BY <1>5 DEF vars
<1> QED
  BY <1>1, <1>2, <1>3, <1>4, <1>5 DEF Next

-----------------------------------------------------------------------------
(***************************************************************************)
(* Type correctness.                                                       *)
(***************************************************************************)
ObjectsTyped ==
  /\ tw \in [Twins -> TwinsObject] /\ twC \in [Twins -> TwinsObject]
  /\ mv \in [Merovingians -> MerovingianObject] /\ mvC \in [Merovingians -> MerovingianObject]
  /\ dep \in DeploymentObject /\ depC \in DeploymentObject
  /\ dep.live => dep.containers # <<>>
  /\ depC.live => depC.containers # <<>>
  /\ twFresh \subseteq Twins /\ mvFresh \subseteq Merovingians /\ depFresh \in BOOLEAN

WorkerTyped ==
  /\ pc \in {"idle", "finalizer", "service", "deployment", "list", "exile", "status", "release"}
  /\ cur \in Twins \cup {NoOne} /\ cr \in TwinsObject
  /\ listed \subseteq Merovingians /\ todo \subseteq listed
  /\ item \in Merovingians \cup {NoOne} /\ md \in Seq(Container)
  /\ placed \in [Merovingians -> Nat]
  /\ crFresh \in BOOLEAN /\ itemsFresh \subseteq listed
  /\ pc # "idle" => cur \in Twins
  /\ pc = "status" => item \in todo /\ md # <<>>

\* TypeInv is the shapes of the objects, of the worker's locals and of the rest.
LEMMA TypeInvParts ==
  TypeInv <=> ObjectsTyped /\ WorkerTyped /\ home \in [Children -> Owner] /\ queue \subseteq Twins
                /\ budget \in Nat
BY DEF TypeInv, TypeOK, ObjectsTyped, WorkerTyped

\* An absent object has the shape of its kind.
LEMMA AbsentObjects ==
  /\ NoTwins \in TwinsObject
  /\ NoMerovingian \in MerovingianObject
  /\ NoDeployment \in DeploymentObject
  /\ ~NoDeployment.live
<1>1. NoTwins \in TwinsObject /\ NoMerovingian \in MerovingianObject
  BY DEF NoTwins, NoMerovingian, TwinsObject, MerovingianObject
<1>2. NoDeployment \in DeploymentObject /\ ~NoDeployment.live
  BY DEF NoDeployment, DeploymentObject, Nobody, Owner
<1> QED
  BY <1>1, <1>2

\* Initially every object is absent and the worker idle.
LEMMA TypeInit == Init => TypeInv
<1> SUFFICES ASSUME Init PROVE TypeInv
  OBVIOUS
<1>1. ObjectsTyped
  BY AbsentObjects DEF Init, ObjectsTyped
<1>2. WorkerTyped
  <2>1. md \in Seq(Container)
    BY DEF Init
  <2>2. placed \in [Merovingians -> Nat]
    BY DEF Init
  <2>3. cr \in TwinsObject
    BY AbsentObjects DEF Init
  <2> QED
    BY <2>1, <2>2, <2>3 DEF Init, WorkerTyped
<1>3. home \in [Children -> Owner] /\ queue \subseteq Twins /\ budget \in Nat
  BY ConstantsAssumption DEF Init, Nobody, Owner
<1> QED
  BY <1>1, <1>2, <1>3, TypeInvParts

\* Objects and caches keep their shapes.
LEMMA ObjectsStep ==
  ASSUME TypeInv, [Next]_vars
  PROVE  ObjectsTyped'
<1> USE DEF TypeInv, TypeOK, ObjectsTyped
<1>1. tw' \in [Twins -> TwinsObject]
  <2>1. \A t \in Twins : \A st \in {"absent", "live", "deleting"} :
          [tw[t] EXCEPT !.st = st] \in TwinsObject
    BY DEF TwinsObject
  <2>2. [cr EXCEPT !.fin = TRUE] \in TwinsObject
    BY DEF TwinsObject
  <2>3. cur \in Twins => Released \in TwinsObject
    BY DEF Released, TwinsObject
  <2>4. \A t \in Twins : [st |-> "live", fin |-> FALSE, uid |-> tw[t].uid + 1] \in TwinsObject
    BY DEF TwinsObject
  <2> QED
    BY ZenonT(30), <2>1, <2>2, <2>3, <2>4, TwinsSteps DEF TwinsStep
<1>2. mv' \in [Merovingians -> MerovingianObject]
  <2>1. CASE pc = "status" /\ mv' = [mv EXCEPT ![item] = WithStatus]
    BY <2>1, WithStatusType
  <2>2. \A m \in Merovingians :
          /\ [NoMerovingian EXCEPT !.live = TRUE, !.uid = mv[m].uid + 1] \in MerovingianObject
          /\ [NoMerovingian EXCEPT !.uid = mv[m].uid] \in MerovingianObject
    <3>1. \A obj \in MerovingianObject, u \in Nat :
            /\ [obj EXCEPT !.uid = u] \in MerovingianObject
            /\ [obj EXCEPT !.live = TRUE, !.uid = u] \in MerovingianObject
      BY DEF MerovingianObject
    <3>2. \A m \in Merovingians : mv[m].uid \in Nat /\ mv[m].uid + 1 \in Nat
      BY SMTT(30) DEF MerovingianObject
    <3> QED
      BY <3>1, <3>2, AbsentObjects
  <2> QED
    BY <2>1, <2>2, MerovingianSteps DEF MerovingianStep
<1>3. dep' \in DeploymentObject /\ (dep'.live => dep'.containers # <<>>)
  <2>1. CASE \E m \in Merovingians : \E u \in 1 .. mvC[m].uid : dep' = NewDeployment(m, u)
    BY <2>1, NewDeploymentType
  <2>2. CASE dep' = [NoDeployment EXCEPT !.uid = dep.uid]
    BY <2>2, AbsentObjects DEF DeploymentObject
  <2> QED
    BY <2>1, <2>2, DeploymentSteps, WithExileType DEF DeploymentStep
<1>4. twC' \in [Twins -> TwinsObject] /\ mvC' \in [Merovingians -> MerovingianObject]
  BY CacheSteps DEF CacheStep, caches, store
<1>5. depC' \in DeploymentObject /\ (depC'.live => depC'.containers # <<>>)
  BY CacheSteps DEF CacheStep, caches, store
<1>6. twFresh' \subseteq Twins /\ mvFresh' \subseteq Merovingians /\ depFresh' \in BOOLEAN
  BY CacheSteps DEF CacheStep
<1> QED
  BY <1>1, <1>2, <1>3, <1>4, <1>5, <1>6

\* The locals of Reconcile keep their shapes.
LEMMA WorkerStep ==
  ASSUME TypeInv, [Next]_vars
  PROVE  WorkerTyped'
<1> USE DEF TypeInv, TypeOK, WorkerTyped
<1>1. CASE UNCHANGED <<worker, itemsFresh>> /\ crFresh' \in BOOLEAN
  BY <1>1 DEF worker
<1>2. CASE Return
  <2>1. md' \in Seq(Container)
    BY <1>2 DEF Return
  <2>2. placed' \in [Merovingians -> Nat]
    BY <1>2 DEF Return
  <2>3. cr' \in TwinsObject
    BY <1>2, AbsentObjects DEF Return
  <2> QED
    BY <1>2, <2>1, <2>2, <2>3 DEF Return
<1>3. ASSUME NEW m \in Merovingians,
             CreateMerovingian(m) \/ DeleteMerovingian(m) \/ EditMerovingian(m)
      PROVE  WorkerTyped'
  BY <1>3 DEF CreateMerovingian, DeleteMerovingian, EditMerovingian, OthersWriteMerovingian, worker
<1>4. ASSUME NEW t \in Twins, Begin(t)
      PROVE  WorkerTyped'
  <2>1. CASE twC[t].st = "absent"
    BY <1>4, <2>1 DEF Begin
  <2>2. CASE twC[t].st # "absent"
    BY <1>4, <2>2 DEF Begin, AfterFinalizer
  <2> QED
    BY <2>1, <2>2
<1>5. CASE AddFinalizer
  BY <1>5 DEF AddFinalizer, AfterFinalizer, TwinsObject
<1>6. CASE CreateService
  BY <1>6 DEF CreateService, fresh
<1>7. CASE ListMerovingians
  BY <1>7 DEF ListMerovingians
<1>8. ASSUME NEW m \in Merovingians, ExileTo(m)
      PROVE  WorkerTyped'
  <2>1. pc # "idle" /\ depC.live
    BY <1>8 DEF ExileTo, DeploymentFound
  <2>2. md' \in Seq(Container) /\ md' # <<>>
    BY <1>8, <2>1, WithExileType DEF ExileTo
  <2>3. placed' \in [Merovingians -> Nat]
    BY <1>8 DEF ExileTo, DeploymentObject
  <2> QED
    BY <1>8, <2>2, <2>3 DEF ExileTo
<1>9. CASE UpdateStatus
  BY <1>9 DEF UpdateStatus
<1> QED
  <2>1. User => \/ UNCHANGED <<worker, itemsFresh>> /\ crFresh' \in BOOLEAN
                \/ \E m \in Merovingians :
                     CreateMerovingian(m) \/ DeleteMerovingian(m) \/ EditMerovingian(m)
    BY DEF User, CreateTwins, DeleteTwins, EditTwins, OthersWriteTwins
  <2>2. Cluster => UNCHANGED <<worker, itemsFresh>> /\ crFresh' \in BOOLEAN
    BY DEF Cluster, DeploymentStatus, CollectDeployment, CollectHome, SyncTwins, Requeue,
      SyncMerovingian, MerovingianReconcile, SyncDeployment, CreateOrUpdate,
      OthersWriteDeployment, fresh
  <2>3. Worker => \/ Return \/ AddFinalizer \/ CreateService \/ ListMerovingians \/ UpdateStatus
                  \/ \E t \in Twins : Begin(t)
                  \/ \E m \in Merovingians : ExileTo(m)
    BY DEF Worker, AddFinalizerRejected, CreateDeployment, ExileToFails, UpdateStatusRejected,
      RemoveFinalizer, RemoveFinalizerRejected, AlreadyExists, Rejected, ReturnError, ReturnNil
  <2>4. Faults => Return
    BY DEF Faults, CallFails, ReplyLost, Restart, Rejected, ReturnError
  <2>5. UNCHANGED vars => UNCHANGED <<worker, itemsFresh>> /\ crFresh' \in BOOLEAN
    BY DEF vars, fresh
  <2> QED
    BY <1>1, <1>2, <1>3, <1>4, <1>5, <1>6, <1>7, <1>8, <1>9, <2>1, <2>2, <2>3, <2>4, <2>5 DEF Next

\* The rest: the owners of the Twins' own objects, the work queue, the bound.
LEMMA RestStep ==
  ASSUME TypeInv, [Next]_vars
  PROVE  home' \in [Children -> Owner] /\ queue' \subseteq Twins /\ budget' \in Nat
<1> USE DEF TypeInv, TypeOK, store, caches, worker, fresh
<1>1. CASE User
  <2>1. UNCHANGED <<home, queue>>
    BY <1>1 DEF User, CreateTwins, DeleteTwins, EditTwins, CreateMerovingian, DeleteMerovingian,
      EditMerovingian, OthersWriteTwins, OthersWriteMerovingian, WriteTwins, WriteMerovingian
  <2>2. budget' \in Nat
    <3>1. UNCHANGED budget \/ \E k \in AllDisturbances : Disturb(k)
      BY <1>1 DEF User, CreateTwins, DeleteTwins, EditTwins, CreateMerovingian, DeleteMerovingian,
        EditMerovingian, AllDisturbances
    <3> QED
      BY <3>1 DEF Disturb
  <2> QED
    BY <2>1, <2>2
<1>2. CASE Cluster
  <2>1. CASE \E k \in Children : CollectHome(k)
    BY <2>1 DEF CollectHome, Nobody, Owner
  <2>2. CASE UNCHANGED home /\ queue' \subseteq Twins /\ budget' \in {budget, budget - 1} /\ budget' \in Nat
    BY <2>2
  <2> QED
    BY <1>2, <2>1, <2>2 DEF Cluster, DeploymentStatus, CollectDeployment, SyncTwins, Requeue,
      SyncMerovingian, MerovingianReconcile, SyncDeployment, CreateOrUpdate,
      OthersWriteDeployment, WriteDeployment, Disturb
<1>3. CASE Worker
  <2>1. CASE CreateService \/ CreateDeployment
    <3>1. pc # "idle" /\ UNCHANGED <<queue, budget>>
      BY <2>1 DEF CreateService, CreateDeployment, ReturnNil
    <3>2. [name |-> cur, uid |-> cr.uid] \in Owner
      BY <3>1 DEF Owner, Names, TwinsObject
    <3>3. home' \in [Children -> Owner]
      BY <2>1, <3>2 DEF CreateService, CreateDeployment, Provision, Children
    <3> QED
      BY <3>1, <3>3
  <2>2. CASE UNCHANGED <<home, budget>> /\ queue' \subseteq Twins
    BY <2>2
  <2> QED
    BY <1>3, <2>1, <2>2 DEF Worker, Begin, AddFinalizer, AddFinalizerRejected, ListMerovingians,
      ExileTo, ExileToFails, UpdateStatus, UpdateStatusRejected, RemoveFinalizer,
      RemoveFinalizerRejected, AlreadyExists, Rejected, ReturnError, ReturnNil, WriteTwins, WriteDeployment,
      WriteMerovingian
<1>4. CASE Faults
  <2>1. UNCHANGED home /\ budget' \in Nat
    BY <1>4 DEF Faults, CallFails, ReplyLost, Restart, Rejected, WriteTwins, WriteDeployment,
      WriteMerovingian, Disturb
  <2>2. queue' \subseteq Twins
    BY <1>4 DEF Faults, CallFails, ReplyLost, Restart, Rejected, ReturnError
  <2> QED
    BY <2>1, <2>2
<1>5. CASE UNCHANGED vars
  BY <1>5 DEF vars
<1> QED
  BY <1>1, <1>2, <1>3, <1>4, <1>5 DEF Next

\* TypeInv is inductive.
LEMMA TypeStep == TypeInv /\ [Next]_vars => TypeInv'
<1> SUFFICES ASSUME TypeInv, [Next]_vars PROVE TypeInv'
  OBVIOUS
<1>1. ObjectsTyped' /\ WorkerTyped'
  BY ObjectsStep, WorkerStep
<1>2. home' \in [Children -> Owner] /\ queue' \subseteq Twins /\ budget' \in Nat
  BY RestStep
<1> QED
  BY <1>1, <1>2 DEF TypeInv, TypeOK, ObjectsTyped, WorkerTyped

\* TypeOK holds in every reachable state, whatever the bounds (twins_controller.go
\* and the objects it works on).
THEOREM TypeCorrect == Spec => []TypeOK
<1>1. Init => TypeInv
  BY TypeInit
<1>2. TypeInv /\ [Next]_vars => TypeInv'
  BY TypeStep
<1>3. TypeInv => TypeOK
  BY DEF TypeInv
<1> QED
  BY <1>1, <1>2, <1>3, PTL DEF Spec

-----------------------------------------------------------------------------
(***************************************************************************)
(* Copies, and that no live Twins is exiled.                               *)
(***************************************************************************)
CachedTwinsInv ==
  \A t \in Twins :
    /\ t \in twFresh => twC[t] = tw[t]
    /\ twC[t].uid <= tw[t].uid
    /\ (twC[t].st = "deleting" /\ twC[t].uid = tw[t].uid) => tw[t].st # "live"
    /\ (twC[t].fin /\ twC[t].uid = tw[t].uid /\ tw[t].st # "absent") => tw[t].fin
    /\ tw[t].st = "absent" => ~tw[t].fin

\* What the worker's copy says of the Twins it serves.
HeldTwinsInv ==
  /\ pc # "idle" =>
       /\ crFresh => cr = tw[cur]
       /\ cr.uid <= tw[cur].uid
       /\ (cr.st = "deleting" /\ cr.uid = tw[cur].uid) => tw[cur].st # "live"
       /\ (cr.fin /\ cr.uid = tw[cur].uid /\ tw[cur].st # "absent") => tw[cur].fin
  /\ pc \notin {"idle", "finalizer"} => cr.fin
  /\ pc \in {"list", "exile", "status", "release"} => cr.st = "deleting"

\* A write to a Twins keeps or raises its uid, never revives an incarnation and never
\* takes the finalizer from one that stays.
TwinsProgress(t) ==
  /\ tw[t].uid <= tw'[t].uid
  /\ (tw'[t].uid = tw[t].uid /\ tw[t].st # "live") => tw'[t].st # "live"
  /\ (tw'[t].uid = tw[t].uid /\ tw'[t].st # "absent") => tw[t].st # "absent" /\ (tw[t].fin => tw'[t].fin)
  /\ tw'[t].st = "absent" => ~tw'[t].fin

\* Every step lets each Twins only progress.
LEMMA TwinsOnlyProgress ==
  ASSUME TypeInv, CopiesInv, [Next]_vars
  PROVE  \A t \in Twins : TwinsProgress(t)
<1> USE DEF TypeInv, TypeOK, TwinsObject, TwinsProgress
<1>1. CASE UNCHANGED tw
  BY <1>1 DEF CopiesInv
<1>2. CASE \E t \in Twins :
             /\ tw[t].st = "absent"
             /\ tw' = [tw EXCEPT ![t] = [st |-> "live", fin |-> FALSE, uid |-> tw[t].uid + 1]]
  BY <1>2 DEF CopiesInv
<1>3. CASE \E t \in Twins :
             /\ tw[t].st = "live"
             /\ tw' = [tw EXCEPT ![t] =
                        [tw[t] EXCEPT !.st = IF tw[t].fin THEN "deleting" ELSE "absent"]]
  BY <1>3 DEF CopiesInv
<1>4. CASE pc = "finalizer" /\ TwinsUpdateAccepted /\ tw' = [tw EXCEPT ![cur] = [cr EXCEPT !.fin = TRUE]]
  BY <1>4 DEF CopiesInv, TwinsUpdateAccepted
<1>5. CASE pc = "release" /\ TwinsUpdateAccepted /\ tw' = [tw EXCEPT ![cur] = Released]
  BY <1>5 DEF CopiesInv, Released
<1>6. TwinsStep
  BY TwinsSteps
<1> HIDE DEF TypeInv, TypeOK, TwinsObject, TwinsProgress
<1> QED
  BY <1>1, <1>2, <1>3, <1>4, <1>5, <1>6 DEF TwinsStep

\* The cached Twins stay behind the Twins.
LEMMA CachedTwinsStep == TypeInv /\ CopiesInv /\ [Next]_vars => CachedTwinsInv'
<1> SUFFICES ASSUME TypeInv, CopiesInv, [Next]_vars PROVE CachedTwinsInv'
  OBVIOUS
<1>1. \A t \in Twins : TwinsProgress(t)
  BY TwinsOnlyProgress
<1>2. \A t \in Twins : tw[t] \in TwinsObject /\ twC[t] \in TwinsObject /\ tw'[t] \in TwinsObject
  BY ObjectsStep DEF TypeInv, TypeOK, ObjectsTyped
<1>3. \A t \in Twins : t \in twFresh' => twC'[t] = tw'[t]
  BY ZenonT(30), CacheSteps DEF CacheStep, CopiesInv, TypeInv, TypeOK, caches, store
<1>4. \A t \in Twins : twC'[t] = twC[t] \/ (twC'[t] = tw[t] /\ tw'[t] = tw[t])
  BY CacheSteps DEF CacheStep, TypeInv, TypeOK, caches, store
<1> QED
  BY <1>1, <1>2, <1>3, <1>4 DEF CachedTwinsInv, CopiesInv, TwinsProgress, TwinsObject

\* The worker's copy stays behind its Twins.
LEMMA HeldTwinsStep == TypeInv /\ CopiesInv /\ [Next]_vars => HeldTwinsInv'
<1> SUFFICES ASSUME TypeInv, CopiesInv, [Next]_vars PROVE HeldTwinsInv'
  OBVIOUS
<1>1. \A t \in Twins : TwinsProgress(t)
  BY TwinsOnlyProgress
<1>2. /\ \A t \in Twins : tw[t] \in TwinsObject /\ twC[t] \in TwinsObject /\ tw'[t] \in TwinsObject
      /\ cr \in TwinsObject
  BY ObjectsStep DEF TypeInv, TypeOK, ObjectsTyped
<1>3. pc # "idle" => cur \in Twins
  BY DEF TypeInv
<1>4. ASSUME UNCHANGED <<pc, cur, cr>>,
             pc # "idle" /\ crFresh' => crFresh /\ tw'[cur] = tw[cur]
      PROVE  HeldTwinsInv'
  BY <1>1, <1>2, <1>3, <1>4 DEF HeldTwinsInv, CopiesInv, TwinsProgress, TwinsObject
<1>5. CASE Return
  BY <1>5 DEF Return, HeldTwinsInv
<1>6. ASSUME NEW t \in Twins, Begin(t)
      PROVE  HeldTwinsInv'
  <2>1. CASE twC[t].st = "absent"
    BY <1>6, <2>1, <1>3 DEF Begin, HeldTwinsInv, caches, store
  <2>2. CASE twC[t].st # "absent"
    BY <1>6, <2>2 DEF Begin, AfterFinalizer, HeldTwinsInv, CopiesInv, store
  <2> QED
    BY <2>1, <2>2
<1>7. CASE AddFinalizer
  BY <1>2, <1>3, <1>7 DEF AddFinalizer, AfterFinalizer, TwinsUpdateAccepted, WriteTwins, HeldTwinsInv,
    CopiesInv, TypeInv, TypeOK, TwinsObject
<1>8. CASE ListMerovingians \/ UpdateStatus \/ (\E m \in Merovingians : ExileTo(m)) \/ CreateService
  BY <1>3, <1>8 DEF ListMerovingians, UpdateStatus, ExileTo, CreateService, WriteMerovingian,
    WriteDeployment, HeldTwinsInv, CopiesInv, store, fresh
<1>9. CASE User
  <2>1. UNCHANGED <<pc, cur, cr>>
    BY <1>9 DEF User, CreateTwins, DeleteTwins, EditTwins, CreateMerovingian, DeleteMerovingian,
      EditMerovingian, OthersWriteTwins, OthersWriteMerovingian, worker
  <2>2. ASSUME NEW t \in Twins, NEW obj, OthersWriteTwins(t, obj)
        PROVE  pc # "idle" /\ crFresh' => crFresh /\ tw'[cur] = tw[cur]
    BY <2>2, <1>3 DEF OthersWriteTwins, WriteTwins, TypeInv, TypeOK
  <2>3. ASSUME NEW m \in Merovingians, NEW obj, OthersWriteMerovingian(m, obj)
        PROVE  crFresh' = crFresh /\ tw' = tw
    BY <2>3 DEF OthersWriteMerovingian, WriteMerovingian
  <2>4. pc # "idle" /\ crFresh' => crFresh /\ tw'[cur] = tw[cur]
    BY <1>9, <2>2, <2>3 DEF User, CreateTwins, DeleteTwins, EditTwins, CreateMerovingian,
      DeleteMerovingian, EditMerovingian
  <2> QED
    BY <1>4, <2>1, <2>4
<1>10. CASE Cluster
  BY <1>4, <1>10 DEF Cluster, DeploymentStatus, CollectDeployment, CollectHome, SyncTwins, Requeue,
    SyncMerovingian, MerovingianReconcile, SyncDeployment, CreateOrUpdate, OthersWriteDeployment,
    WriteDeployment, worker, fresh, store
<1>11. CASE UNCHANGED vars
  BY <1>4, <1>11 DEF vars, worker, fresh, store
<1>12. Worker => \/ Return \/ AddFinalizer \/ CreateService \/ ListMerovingians \/ UpdateStatus
                 \/ \E t \in Twins : Begin(t)
                 \/ \E m \in Merovingians : ExileTo(m)
  BY DEF Worker, AddFinalizerRejected, CreateDeployment, ExileToFails, UpdateStatusRejected,
    RemoveFinalizer, RemoveFinalizerRejected, AlreadyExists, Rejected, ReturnError, ReturnNil
<1>13. Faults => Return
  BY DEF Faults, CallFails, ReplyLost, Restart, Rejected, ReturnError
<1> QED
  BY <1>5, <1>6, <1>7, <1>8, <1>9, <1>10, <1>11, <1>12, <1>13 DEF Next

\* CopiesInv is inductive.
LEMMA CopiesStep == TypeInv /\ CopiesInv /\ [Next]_vars => CopiesInv'
<1> SUFFICES ASSUME TypeInv, CopiesInv, [Next]_vars PROVE CopiesInv'
  OBVIOUS
<1>1. CachedTwinsInv' /\ HeldTwinsInv'
  BY CachedTwinsStep, HeldTwinsStep
<1>2. depFresh' => depC' = dep'
  BY CacheSteps DEF CacheStep, CopiesInv, caches, store
<1> QED
  BY <1>1, <1>2 DEF CopiesInv, CachedTwinsInv, HeldTwinsInv

-----------------------------------------------------------------------------
(***************************************************************************)
(* What the Twins own.                                                     *)
(***************************************************************************)
\* An owner is known in that incarnation, and has its finalizer as long as it exists.
Protected(o) ==
  o.name \in Twins =>
    /\ o.uid <= tw[o.name].uid
    /\ (o.uid = tw[o.name].uid /\ tw[o.name].st # "absent") => tw[o.name].fin

HomeInv == \A k \in Children : Protected(home[k])

\* An owner is left as it is, collected, or becomes the Twins the worker serves.
HomeStep ==
  \/ home' = home
  \/ \E k \in Children :
       /\ ~\E t \in Twins : tw[t].st # "absent" /\ home[k] = [name |-> t, uid |-> tw[t].uid]
       /\ UNCHANGED tw
       /\ home' = [home EXCEPT ![k] = Nobody]
  \/ /\ pc \in {"service", "deployment"} /\ UNCHANGED tw
     /\ \E k \in Children : Provision(k)

\* Every step does one of these to the owners.
LEMMA HomeSteps ==
  ASSUME TypeInv, [Next]_vars
  PROVE  HomeStep
<1> USE DEF store
<1>1. CASE User
  BY <1>1 DEF User, CreateTwins, DeleteTwins, EditTwins, CreateMerovingian, DeleteMerovingian,
    EditMerovingian, OthersWriteTwins, OthersWriteMerovingian, WriteTwins, WriteMerovingian, HomeStep
<1>2. CASE Cluster
  BY <1>2 DEF Cluster, DeploymentStatus, CollectDeployment, CollectHome, SyncTwins, Requeue,
    SyncMerovingian, MerovingianReconcile, SyncDeployment, CreateOrUpdate, OthersWriteDeployment,
    WriteDeployment, HomeStep
<1>3. CASE Worker
  <2>1. CASE CreateService \/ CreateDeployment
    BY <2>1 DEF CreateService, CreateDeployment, Children, HomeStep
  <2> QED
    BY <1>3, <2>1 DEF Worker, Begin, AddFinalizer, AddFinalizerRejected, ListMerovingians, ExileTo,
      ExileToFails, UpdateStatus, UpdateStatusRejected, RemoveFinalizer, RemoveFinalizerRejected, AlreadyExists,
      Rejected, WriteTwins, WriteDeployment, WriteMerovingian, HomeStep
<1>4. CASE Faults
  BY <1>4 DEF Faults, CallFails, ReplyLost, Restart, Rejected, WriteTwins, WriteDeployment,
    WriteMerovingian, HomeStep
<1>5. CASE UNCHANGED vars
  BY <1>5 DEF vars, HomeStep
<1> QED
  BY <1>1, <1>2, <1>3, <1>4, <1>5 DEF Next

\* Neither a change of the Twins nor a new owner breaks the protection.
LEMMA HomeInvStep == TypeInv /\ CopiesInv /\ HomeInv /\ [Next]_vars => HomeInv'
<1> SUFFICES ASSUME TypeInv, CopiesInv, HomeInv, [Next]_vars, NEW k \in Children
             PROVE  Protected(home[k])'
  BY DEF HomeInv
<1> USE DEF Protected
<1>1. \A t \in Twins : TwinsProgress(t) /\ tw[t].uid \in Nat /\ tw'[t].uid \in Nat
  BY TwinsOnlyProgress, ObjectsStep DEF TypeInv, TypeOK, ObjectsTyped, TwinsObject
<1>2. Protected(home[k]) /\ home \in [Children -> Owner] /\ home[k].uid \in Nat
  BY DEF HomeInv, TypeInv, TypeOK, Owner
<1>3. CASE home'[k] = home[k]
  BY <1>1, <1>2, <1>3 DEF TwinsProgress
<1>4. CASE home'[k] = Nobody
  BY <1>4, ConstantsAssumption DEF Nobody
<1>5. CASE /\ pc \in {"service", "deployment"} /\ UNCHANGED tw
           /\ home'[k] = [name |-> cur, uid |-> cr.uid]
  BY <1>5 DEF CopiesInv, TypeInv
<1> QED
  BY <1>2, <1>3, <1>4, <1>5, HomeSteps DEF HomeStep, Provision

-----------------------------------------------------------------------------
(***************************************************************************)
(* The containers of the Deployment.                                       *)
(***************************************************************************)
Collected == ~dep'.live /\ dep'.uid = dep.uid /\ dep'.containers = <<>>

Recreated(m) ==
  ~dep.live /\ dep'.live /\ dep'.uid = dep.uid + 1 /\ dep'.containers = <<HostContainer(m)>>

Exiled ==
  /\ pc = "exile"
  /\ dep.live /\ dep'.live /\ dep'.uid = dep.uid
  /\ dep.containers \in Seq(Container) /\ dep.containers # <<>>
  /\ ExileContainer \in Container
  /\ dep'.containers = Append(dep.containers, ExileContainer)

\* What exileTo appends goes behind the containers that are there now, even though
\* it was computed from a cached copy.
LEMMA ContainersStep ==
  ASSUME TypeInv, CopiesInv, [Next]_vars
  PROVE  dep' = dep \/ Collected \/ Exiled \/ \E m \in Merovingians : Recreated(m)
<1>1. CASE dep' = [NoDeployment EXCEPT !.uid = dep.uid]
  BY <1>1 DEF NoDeployment, Collected
<1>2. ASSUME NEW m \in Merovingians, NEW u \in 1 .. mvC[m].uid, ~dep.live, dep' = NewDeployment(m, u)
      PROVE  Recreated(m)
  BY <1>2 DEF NewDeployment, Recreated
<1>3. CASE pc = "exile" /\ depC.live /\ DeploymentUpdateAccepted /\ dep' = WithExile
  <2>1. depC = dep /\ dep.live
    BY <1>3 DEF DeploymentUpdateAccepted, CopiesInv
  <2>2. dep.containers \in Seq(Container) /\ dep.containers # <<>>
    BY <2>1 DEF TypeInv, TypeOK, DeploymentObject
  <2>3. ExileContainer \in Container
    BY <1>3, <2>2, ExileContainerType DEF TypeInv, TypeOK
  <2> QED
    BY <1>3, <2>1, <2>2, <2>3, WithExileType DEF Exiled
<1> QED
  BY <1>1, <1>2, <1>3, DeploymentSteps DEF DeploymentStep

\* What holds of every container and of the one appended holds after the step.
LEMMA AppendedAll ==
  ASSUME NEW S, NEW P, NEW cs \in Seq(S), NEW c \in S,
         \A i \in DOMAIN cs : cs[i] \in P, c \in P
  PROVE  \A i \in DOMAIN Append(cs, c) : Append(cs, c)[i] \in P
OBVIOUS

\* An exile's Twins is of that incarnation or a later one, and never live in it.
Departed ==
  {c \in Container :
     c.uid > 0 => /\ c.name \in Twins
                  /\ tw[c.name].uid = c.uid => tw[c.name].st # "live"
                  /\ tw[c.name].uid >= c.uid}

\* NoLiveExile says that every container is the host's or of a departed Twins.
LEMMA NoLiveExileDeparted ==
  ASSUME TypeInv
  PROVE  NoLiveExile <=> \A i \in DOMAIN dep.containers : dep.containers[i] \in Departed
<1>1. \A i \in DOMAIN dep.containers : dep.containers[i] \in Container
  BY DEF TypeInv, TypeOK, DeploymentObject
<1> QED
  BY <1>1, Zenon DEF NoLiveExile, Departed

\* Who has departed never comes back in the same incarnation.
LEMMA DepartedStays ==
  ASSUME TypeInv, CopiesInv, [Next]_vars, NEW c \in Departed
  PROVE  c \in Departed'
<1>1. c \in Container
  BY DEF Departed
<1>2. c.uid \in Nat
  BY <1>1 DEF Container
<1>3. CASE c.uid > 0
  <2>1. c.name \in Twins /\ tw[c.name].uid >= c.uid /\ (tw[c.name].uid = c.uid => tw[c.name].st # "live")
    BY <1>3 DEF Departed
  <2>2. TwinsProgress(c.name)
    BY <2>1, TwinsOnlyProgress
  <2>3. tw[c.name].uid \in Nat /\ tw'[c.name].uid \in Nat
    BY <2>1, ObjectsStep DEF TypeInv, TypeOK, ObjectsTyped, TwinsObject
  <2>4. tw'[c.name].uid >= c.uid /\ (tw'[c.name].uid = c.uid => tw'[c.name].st # "live")
    BY <1>2, <2>1, <2>2, <2>3 DEF TwinsProgress
  <2> QED
    BY <1>1, <2>1, <2>4, Zenon DEF Departed
<1> QED
  BY <1>1, <1>3, Zenon DEF Departed

\* NoLiveExile is inductive given the copies.
LEMMA NoLiveExileStep == TypeInv /\ CopiesInv /\ NoLiveExile /\ [Next]_vars => NoLiveExile'
<1> SUFFICES ASSUME TypeInv, CopiesInv, NoLiveExile, [Next]_vars PROVE NoLiveExile'
  OBVIOUS
<1>2. \A i \in DOMAIN dep.containers : dep.containers[i] \in Departed'
  BY NoLiveExileDeparted, DepartedStays
<1>3. SUFFICES \A i \in DOMAIN dep'.containers : dep'.containers[i] \in Departed'
  BY Zenon DEF NoLiveExile, Departed
<1>4. CASE dep' = dep
  BY <1>2, <1>4
<1>5. CASE Collected
  BY <1>5 DEF Collected
<1>6. ASSUME NEW m \in Merovingians, Recreated(m)
      PROVE  \A i \in DOMAIN dep'.containers : dep'.containers[i] \in Departed'
  <2>1. HostContainer(m) \in Departed'
    BY DEF HostContainer, Departed, Container, Names
  <2> QED
    BY <1>6, <2>1 DEF Recreated
<1>7. CASE Exiled
  <2>1. ExileContainer \in Departed
    BY <1>7 DEF Exiled, Departed, ExileContainer, CopiesInv, TypeInv
  <2>2. ExileContainer \in Departed'
    BY <2>1, DepartedStays
  <2> QED
    BY <1>2, <1>7, <2>2, AppendedAll DEF Exiled
<1> QED
  BY <1>4, <1>5, <1>6, <1>7, ContainersStep

-----------------------------------------------------------------------------
(***************************************************************************)
(* What the finalizer has done so far.                                     *)
(***************************************************************************)
\* A Deployment that is there after a step is a new one, or has kept its containers.
LEMMA NamesGrow ==
  ASSUME TypeInv, CopiesInv, [Next]_vars
  PROVE  /\ dep.uid \in Nat /\ dep'.uid \in Nat /\ dep.uid <= dep'.uid
         /\ (dep'.live /\ dep'.uid = dep.uid) =>
              /\ dep.live
              /\ ContainerNames(dep.containers) \subseteq ContainerNames(dep'.containers)
              /\ Len(dep.containers) \in Nat /\ Len(dep'.containers) \in Nat
              /\ Len(dep.containers) <= Len(dep'.containers)
         /\ ~dep'.live => dep'.containers = <<>> \/ dep' = dep
         /\ dep'.live => dep'.uid > 0 \/ dep' = dep \/ (dep.live /\ dep'.uid = dep.uid)
<1>1. dep.uid \in Nat /\ dep.containers \in Seq(Container)
  BY DEF TypeInv, TypeOK, DeploymentObject
<1>2. CASE dep' = dep
  BY <1>1, <1>2
<1>3. CASE Collected
  BY <1>1, <1>3 DEF Collected
<1>4. ASSUME NEW m \in Merovingians, Recreated(m)
      PROVE  dep'.uid = dep.uid + 1 /\ dep'.live
  BY <1>4 DEF Recreated
<1>5. CASE Exiled
  <2>1. ContainerNames(dep'.containers)
          = ContainerNames(dep.containers) \cup {ExileContainer.name}
    BY <1>5, AppendedNames DEF Exiled
  <2>2. Len(dep'.containers) = Len(dep.containers) + 1
    BY <1>5 DEF Exiled
  <2> QED
    BY <1>1, <1>5, <2>1, <2>2 DEF Exiled
<1> QED
  BY <1>1, <1>2, <1>3, <1>4, <1>5, ContainersStep

\* What a step does to the worker.
ProvisionStep ==
  /\ UNCHANGED <<listed, todo, placed>>
  /\ pc = "idle" \/ (cur' = cur /\ pc' # "idle")
  /\ pc' \notin {"exile", "status", "release"}

\* Every step does one of these to the worker.
LEMMA WorkerSteps ==
  ASSUME TypeInv, [Next]_vars
  PROVE  \/ UNCHANGED worker \/ Return \/ ProvisionStep
         \/ ListMerovingians \/ UpdateStatus
         \/ \E m \in Merovingians : ExileTo(m)
<1>1. User => UNCHANGED worker
  BY DEF User, CreateTwins, DeleteTwins, EditTwins, CreateMerovingian, DeleteMerovingian,
    EditMerovingian, OthersWriteTwins, OthersWriteMerovingian
<1>2. Cluster => UNCHANGED worker
  BY DEF Cluster, DeploymentStatus, CollectDeployment, CollectHome, SyncTwins, Requeue,
    SyncMerovingian, MerovingianReconcile, SyncDeployment, CreateOrUpdate, OthersWriteDeployment
<1>3. (\E t \in Twins : Begin(t)) => ProvisionStep
  BY DEF Begin, AfterFinalizer, ProvisionStep
<1>4. AddFinalizer \/ CreateService => ProvisionStep
  BY DEF AddFinalizer, AfterFinalizer, CreateService, ProvisionStep
<1>5. Faults => Return
  BY DEF Faults, CallFails, ReplyLost, Restart, Rejected, ReturnError
<1>6. Worker => \/ Return \/ AddFinalizer \/ CreateService \/ ListMerovingians \/ UpdateStatus
                \/ \E t \in Twins : Begin(t)
                \/ \E m \in Merovingians : ExileTo(m)
  BY DEF Worker, AddFinalizerRejected, CreateDeployment, ExileToFails, UpdateStatusRejected,
    RemoveFinalizer, RemoveFinalizerRejected, AlreadyExists, Rejected, ReturnError, ReturnNil
<1>7. UNCHANGED vars => UNCHANGED worker
  BY DEF vars
<1> QED
  BY <1>1, <1>2, <1>3, <1>4, <1>5, <1>6, <1>7 DEF Next

\* A status stays backed, whoever writes it or the Deployment.
LEMMA StatusStep ==
  ASSUME TypeInv, CopiesInv, ExileInv, [Next]_vars, NEW m \in Merovingians
  PROVE  /\ mv'[m].from <= dep'.uid
         /\ mv'[m].from > 0 => StillIn(mv[m].from, mv[m].exiled, mv[m].count + 1)'
<1>1. mv[m] \in MerovingianObject /\ mv'[m] \in MerovingianObject
  BY ObjectsStep DEF TypeInv, TypeOK, ObjectsTyped
<1>2. mv[m].from \in Nat /\ mv'[m].from \in Nat /\ mv[m].count \in Nat /\ mv'[m].count \in Nat
  BY <1>1 DEF MerovingianObject
<1>3. CASE mv'[m] = mv[m]
  BY <1>2, <1>3, NamesGrow DEF ExileInv, StillIn
<1>4. CASE mv'[m].from = 0
  BY <1>2, <1>4, NamesGrow
<1>5. CASE pc = "status" /\ m = item /\ mv'[m] = WithStatus
  <2>1. placed[item] <= dep.uid /\ placed[item] \in Nat /\ Len(md) \in Nat
    BY <1>5 DEF ExileInv, TypeInv, TypeOK
  <2>2. StillIn(placed[item], ContainerNames(md), Len(md))
    BY <1>5 DEF ExileInv
  <2>3. /\ mv'[m].from = placed[item]
        /\ mv'[m].exiled \subseteq ContainerNames(md)
        /\ mv'[m].count = Len(md) - 1
    BY <1>1, <1>5 DEF WithStatus, TypeInv, TypeOK, MerovingianObject
  <2> QED
    BY <2>1, <2>2, <2>3, NamesGrow DEF StillIn
<1> QED
  <2>1. [NoMerovingian EXCEPT !.live = TRUE, !.uid = mv[m].uid + 1].from = 0
        /\ [NoMerovingian EXCEPT !.uid = mv[m].uid].from = 0
    BY DEF NoMerovingian
  <2> QED
    BY <1>3, <1>4, <1>5, <2>1, MerovingianSteps DEF MerovingianStep, TypeInv, TypeOK

\* What exileTo has just put into the Deployment is there.
LEMMA JustExiled ==
  ASSUME TypeInv, CopiesInv, ExileInv, NEW m \in Merovingians, ExileTo(m)
  PROVE  /\ placed' = [placed EXCEPT ![m] = dep.uid]
         /\ dep'.uid = dep.uid /\ dep.uid > 0
         /\ md' = dep'.containers
         /\ cur \in ContainerNames(md')
<1>1. pc = "exile" /\ depC.live /\ DeploymentUpdateAccepted /\ dep' = WithExile /\ md' = WithExile.containers
  BY DEF ExileTo, DeploymentFound, WriteDeployment
<1>2. depC = dep /\ dep.live
  BY <1>1 DEF DeploymentUpdateAccepted, CopiesInv
<1>3. dep.containers \in Seq(Container) /\ dep.containers # <<>> /\ cur \in Twins /\ cr \in TwinsObject
  BY <1>1, <1>2 DEF TypeInv, TypeOK, DeploymentObject
<1>4. ExileContainer \in Container
  BY <1>3, ExileContainerType
<1>5. ExileContainer.name = cur
  BY DEF ExileContainer
<1>6. cur \in ContainerNames(Append(dep.containers, ExileContainer))
  BY <1>3, <1>4, <1>5, AppendedNames
<1>7. md' = Append(dep.containers, ExileContainer)
  BY <1>1, <1>2, WithExileType
<1> QED
  BY <1>1, <1>2, <1>6, <1>7, WithExileType DEF ExileTo, ExileInv

\* The finalizer's progress is never undone behind its back.
LEMMA ProgressStep ==
  ASSUME TypeInv, CopiesInv, ExileInv, [Next]_vars
  PROVE  /\ \A m \in Merovingians : placed'[m] <= dep'.uid
         /\ \A m \in listed' \ todo' : placed'[m] > 0 /\ StillIn(placed[m], {cur}, 0)'
         /\ pc' = "status" =>
              /\ cur' \in ContainerNames(md')
              /\ placed'[item'] > 0
              /\ StillIn(placed[item], ContainerNames(md), Len(md))'
         /\ pc' = "release" => todo' = {}
         /\ pc' = "idle" => listed' = {}
<1> DEFINE G == /\ \A m \in Merovingians : placed'[m] <= dep'.uid
                /\ \A m \in listed' \ todo' : placed'[m] > 0 /\ StillIn(placed[m], {cur}, 0)'
                /\ pc' = "status" =>
                     /\ cur' \in ContainerNames(md')
                     /\ placed'[item'] > 0
                     /\ StillIn(placed[item], ContainerNames(md), Len(md))'
                /\ pc' = "release" => todo' = {}
                /\ pc' = "idle" => listed' = {}
<1>0. /\ listed \subseteq Merovingians /\ todo \subseteq listed /\ md \in Seq(Container)
      /\ placed \in [Merovingians -> Nat]
      /\ pc = "status" => item \in todo /\ md # <<>>
  BY DEF TypeInv, TypeOK
<1>1. CASE UNCHANGED worker
  BY <1>0, <1>1, NamesGrow DEF worker, ExileInv, StillIn
<1>2. CASE Return
  BY <1>0, <1>2, NamesGrow DEF Return
<1>3. CASE ProvisionStep
  BY <1>0, <1>3, NamesGrow DEF ProvisionStep, ExileInv, StillIn
<1>4. CASE ListMerovingians
  BY <1>0, <1>4, NamesGrow DEF ListMerovingians, ExileInv
<1>5. CASE UpdateStatus
  <2>1. UNCHANGED <<dep, placed, listed, cur>> /\ pc = "status" /\ todo' = todo \ {item}
    BY <1>5 DEF UpdateStatus, WriteMerovingian
  <2>2. StillIn(placed[item], {cur}, 0)
    BY <1>0, <2>1 DEF ExileInv, StillIn
  <2>3. \A m \in listed' \ todo' : placed'[m] > 0 /\ StillIn(placed[m], {cur}, 0)'
    BY <2>1, <2>2 DEF ExileInv, StillIn
  <2>4. pc' # "status" /\ pc' # "idle" /\ (pc' = "release" => todo' = {})
    BY <1>5 DEF UpdateStatus
  <2>5. \A m \in Merovingians : placed'[m] <= dep'.uid
    BY <2>1 DEF ExileInv
  <2> QED
    BY <2>3, <2>4, <2>5
<1>6. ASSUME NEW m \in Merovingians, ExileTo(m)
      PROVE  G
  <2>1. UNCHANGED <<listed, todo, cur>> /\ item' = m /\ pc' = "status" /\ m \in todo
    BY <1>6 DEF ExileTo
  <2>2. /\ placed' = [placed EXCEPT ![m] = dep.uid] /\ dep'.uid = dep.uid /\ dep.uid > 0
        /\ md' = dep'.containers /\ cur \in ContainerNames(md')
    BY <1>6, JustExiled
  <2>3. md' \in Seq(Container)
    BY WorkerStep DEF WorkerTyped
  <2>4. StillIn(placed[item], ContainerNames(md), Len(md))'
    BY <2>2, <2>3 DEF StillIn
  <2>5. \A n \in listed' \ todo' : placed'[n] > 0 /\ StillIn(placed[n], {cur}, 0)'
    <3> SUFFICES ASSUME NEW n \in listed \ todo
                 PROVE  placed'[n] > 0 /\ StillIn(placed[n], {cur}, 0)'
      BY <2>1
    <3>1. n # m /\ placed'[n] = placed[n]
      BY <1>0, <2>1, <2>2
    <3> QED
      BY <1>0, <2>1, <3>1, NamesGrow DEF ExileInv, StillIn
  <2>6. \A n \in Merovingians : placed'[n] <= dep'.uid
    BY <1>0, <2>2, NamesGrow DEF ExileInv
  <2>7. placed'[item'] > 0
    BY <1>0, <2>1, <2>2
  <2> QED
    BY <2>1, <2>2, <2>4, <2>5, <2>6, <2>7
<1> QED
  BY <1>1, <1>2, <1>3, <1>4, <1>5, <1>6, WorkerSteps

\* ExileInv is inductive given the copies.
LEMMA ExileStep == TypeInv /\ CopiesInv /\ ExileInv /\ [Next]_vars => ExileInv'
<1> SUFFICES ASSUME TypeInv, CopiesInv, ExileInv, [Next]_vars PROVE ExileInv'
  OBVIOUS
<1>1. (~dep'.live => dep'.containers = <<>>) /\ (dep'.live => dep'.uid > 0)
  BY NamesGrow DEF ExileInv
<1>2. \A m \in Merovingians :
        /\ mv'[m].from <= dep'.uid
        /\ mv'[m].from > 0 => StillIn(mv[m].from, mv[m].exiled, mv[m].count + 1)'
  BY StatusStep
<1> QED
  BY <1>1, <1>2, ProgressStep, Zenon DEF ExileInv

-----------------------------------------------------------------------------
(***************************************************************************)
(* The theorems.                                                           *)
(***************************************************************************)
\* The inductive invariant.
IInv == TypeInv /\ CopiesInv /\ HomeInv /\ NoLiveExile /\ ExileInv

\* The whole invariant holds in every reachable state.
LEMMA Invariant == Spec => []IInv
<1>1. Init => IInv
  <2>1. Init => TypeInv
    BY TypeInit
  <2>2. Init => CopiesInv
    BY DEF Init, CopiesInv, NoTwins
  <2>3. Init => NoLiveExile
    BY DEF Init, NoLiveExile, NoDeployment
  <2>4. Init => ExileInv
    BY DEF Init, ExileInv, NoDeployment, NoMerovingian
  <2>5. Init => HomeInv
    BY ConstantsAssumption DEF Init, HomeInv, Protected, Nobody
  <2> QED
    BY <2>1, <2>2, <2>3, <2>4, <2>5 DEF IInv
<1>2. IInv /\ [Next]_vars => IInv'
  BY TypeStep, CopiesStep, HomeInvStep, NoLiveExileStep, ExileStep DEF IInv
<1> QED
  BY <1>1, <1>2, PTL DEF Spec

\* No Twins runs in the Merovingian's Deployment while it is live, for any number of
\* Twins, Merovingians, restarts and lost replies (exileTo, executeFinalizer).
THEOREM ExilesAreDeparted == Spec => []NoLiveExile
<1>1. IInv => NoLiveExile
  BY DEF IInv
<1> QED
  BY <1>1, Invariant, PTL

\* A Twins whose Service or Deployment exists cannot leave without its finalizer having
\* run (addFinalizer comes before createService and CreateOrUpdate).
THEOREM OwnersAreProtected == Spec => []OwnerHasFinalizer
<1>1. IInv => OwnerHasFinalizer
  BY DEF IInv, HomeInv, Protected, OwnerHasFinalizer
<1> QED
  BY <1>1, Invariant, PTL

\* No write, from whatever stale copy, drops or reorders the containers of a
\* Deployment that is not replaced (exileTo, CreateOrUpdate).
THEOREM NoExileLost == Spec => ExilesStay
<1> DEFINE Kept == dep.live /\ dep'.live /\ dep'.uid = dep.uid
              => /\ Len(dep.containers) <= Len(dep'.containers)
                 /\ \A i \in DOMAIN dep.containers : dep'.containers[i] = dep.containers[i]
<1>1. IInv /\ [Next]_vars => [Kept]_vars
  <2> SUFFICES ASSUME IInv, [Next]_vars PROVE Kept
    OBVIOUS
  <2>0. dep.containers \in Seq(Container) /\ dep.uid \in Nat
    BY DEF IInv, TypeInv, TypeOK, DeploymentObject
  <2>1. CASE dep' = dep
    BY <2>0, <2>1
  <2>2. CASE Collected
    BY <2>2 DEF Collected
  <2>3. ASSUME NEW m \in Merovingians, Recreated(m) PROVE Kept
    BY <2>3 DEF Recreated
  <2>4. CASE Exiled
    BY <2>0, <2>4 DEF Exiled
  <2> QED
    BY <2>1, <2>2, <2>3, <2>4, ContainersStep DEF IInv
<1> QED
  BY <1>1, Invariant, PTL DEF Spec, ExilesStay

\* status.exiled and status.exiledCount never name or count more than the Deployment
\* they were computed from still holds (exileTo).
THEOREM StatusIsBacked == Spec => []StatusBacked
<1>1. IInv => StatusBacked
  <2> SUFFICES ASSUME IInv, NEW m \in Merovingians,
                      mv[m].live, mv[m].from > 0, dep.live, dep.uid = mv[m].from
               PROVE  /\ mv[m].exiled \subseteq ContainerNames(dep.containers)
                      /\ mv[m].count < Len(dep.containers)
    BY DEF StatusBacked
  <2>1. mv[m].exiled \subseteq ContainerNames(dep.containers) /\ mv[m].count + 1 <= Len(dep.containers)
    BY DEF IInv, ExileInv, StillIn
  <2>2. mv[m].count \in Nat /\ Len(dep.containers) \in Nat
    BY SMTT(30) DEF IInv, TypeInv, TypeOK, MerovingianObject, DeploymentObject
  <2> QED
    BY <2>1, <2>2
<1> QED
  BY <1>1, Invariant, PTL

\* Only the step that takes the finalizer away lets a Twins go that has it.
LEMMA ReleasesOnly ==
  ASSUME TypeInv, CopiesInv, [Next]_vars, NEW t \in Twins, tw[t].fin, tw'[t].st = "absent"
  PROVE  cur = t /\ pc = "release" /\ tw[t].st = "deleting"
<1> USE DEF TypeInv, TypeOK
<1>1. tw[t].st # "absent" /\ tw'[t] # tw[t]
  BY DEF CopiesInv
<1>2. CASE pc = "finalizer" /\ TwinsUpdateAccepted /\ tw' = [tw EXCEPT ![cur] = [cr EXCEPT !.fin = TRUE]]
  BY <1>1, <1>2 DEF CopiesInv, TwinsUpdateAccepted, TwinsObject
<1>3. CASE pc = "release" /\ TwinsUpdateAccepted /\ tw' = [tw EXCEPT ![cur] = Released]
  BY <1>1, <1>3 DEF CopiesInv, TwinsUpdateAccepted
<1>4. TwinsStep
  BY TwinsSteps
<1> QED
  BY <1>1, <1>2, <1>3, <1>4 DEF TwinsStep, TwinsObject

\* A Twins that got its finalizer leaves only while deleted, and only after exileTo has
\* put it into the Deployment of every Merovingian executeFinalizer listed.
THEOREM ReleasedAfterExile == Spec => ReleasedOnlyIfExiled
<1> DEFINE Released1 ==
      \A t \in Twins :
        (tw[t].fin /\ tw'[t].st = "absent")
          => /\ tw[t].st = "deleting"
             /\ \A m \in listed :
                  /\ placed[m] > 0
                  /\ (dep.live /\ dep.uid = placed[m])
                        => t \in ContainerNames(dep.containers)
<1>1. IInv /\ [Next]_vars => Released1
  <2> SUFFICES ASSUME IInv, [Next]_vars, NEW t \in Twins, tw[t].fin, tw'[t].st = "absent"
               PROVE  /\ tw[t].st = "deleting"
                      /\ \A m \in listed :
                           /\ placed[m] > 0
                           /\ (dep.live /\ dep.uid = placed[m])
                                 => t \in ContainerNames(dep.containers)
    OBVIOUS
  <2>1. cur = t /\ pc = "release" /\ tw[t].st = "deleting"
    BY ReleasesOnly DEF IInv
  <2>2. todo = {}
    BY <2>1 DEF IInv, ExileInv
  <2> QED
    BY <2>1, <2>2 DEF IInv, ExileInv, StillIn
<1> QED
  BY <1>1, Invariant, PTL DEF Spec, ReleasedOnlyIfExiled

-----------------------------------------------------------------------------
(***************************************************************************)
(* What a Merovingian says of its exiles when one of them leaves.          *)
(***************************************************************************)
\* The status of m is of the visit that is over: it names the Twins and counts the
\* exiles the Deployment has.
Told(m) ==
  (mv[m].live /\ (m \in itemsFresh \/ mv[m].from > 0))
    => /\ cur \in mv[m].exiled \cup {m}
       /\ (dep.live /\ dep.uid = placed[m]) => mv[m].count + 1 = Len(dep.containers)

\* Only ProgramName has a Deployment, and the containers in hand are those it has, so
\* that nobody is appended between a status and the release.
ReportInv ==
  /\ \A m \in Merovingians : placed[m] > 0 => m = ProgramName
  /\ pc = "status" => ((dep.live /\ dep.uid = placed[item]) => md = dep.containers)
  /\ \A m \in listed \ todo : Told(m)

\* Who appends to the Deployment goes on to the status or gives up.
LEMMA AppendSteps ==
  ASSUME TypeInv, CopiesInv, [Next]_vars
  PROVE  \/ dep' = dep \/ Collected \/ \E m \in Merovingians : Recreated(m)
         \/ Return
         \/ \E m \in Merovingians : ExileTo(m)
<1> USE DEF store, caches
<1>1. CASE User
  BY <1>1 DEF User, CreateTwins, DeleteTwins, EditTwins, CreateMerovingian, DeleteMerovingian,
    EditMerovingian, OthersWriteTwins, OthersWriteMerovingian, WriteTwins, WriteMerovingian
<1>2. CASE Cluster
  <2>1. pc' = pc /\ md' = md
    BY <1>2 DEF Cluster, DeploymentStatus, CollectDeployment, CollectHome, SyncTwins, Requeue,
      SyncMerovingian, MerovingianReconcile, SyncDeployment, CreateOrUpdate,
      OthersWriteDeployment, worker
  <2>2. CASE CollectDeployment
    BY <2>2 DEF CollectDeployment, OthersWriteDeployment, WriteDeployment, NoDeployment, Collected
  <2>3. ASSUME NEW m \in Merovingians, MerovingianReconcile(m) PROVE Recreated(m)
    BY <2>3 DEF MerovingianReconcile, CreateOrUpdate, OthersWriteDeployment, WriteDeployment,
      NewDeployment, Recreated
  <2> QED
    BY <1>2, <2>2, <2>3 DEF Cluster, DeploymentStatus, CollectHome, SyncTwins, Requeue,
      SyncMerovingian, SyncDeployment, OthersWriteDeployment, WriteDeployment
<1>3. CASE Worker
  BY <1>3 DEF Worker, Begin, AddFinalizer, AddFinalizerRejected, CreateService, CreateDeployment,
    AlreadyExists, ListMerovingians, ExileToFails, UpdateStatus, UpdateStatusRejected,
    RemoveFinalizer, RemoveFinalizerRejected, Rejected, WriteTwins, WriteMerovingian
<1>4. CASE Faults
  BY <1>4 DEF Faults, CallFails, ReplyLost, Restart, Rejected, ReturnError
<1>5. CASE UNCHANGED vars
  BY <1>5 DEF vars
<1> QED
  BY <1>1, <1>2, <1>3, <1>4, <1>5 DEF Next

\* Who writes a status is done with that Merovingian or gives up; what others write they
\* write anew, or without a status.
LEMMA StatusWrites ==
  ASSUME TypeInv, [Next]_vars, ~Return, ~UpdateStatus, ~ListMerovingians
  PROVE  \A m \in Merovingians :
           (mv'[m].live /\ (m \in itemsFresh' \/ mv'[m].from > 0))
             => mv'[m] = mv[m] /\ (m \in itemsFresh \/ mv[m].from > 0)
<1> USE DEF store, caches, fresh
<1>1. CASE User
  <2>1. CASE UNCHANGED <<mv, itemsFresh>>
    BY <2>1
  <2>2. ASSUME NEW n \in Merovingians, NEW obj, OthersWriteMerovingian(n, obj),
               obj = mv[n] \/ obj.from = 0 \/ ~obj.live
        PROVE  \A m \in Merovingians :
                 (mv'[m].live /\ (m \in itemsFresh' \/ mv'[m].from > 0))
                   => mv'[m] = mv[m] /\ (m \in itemsFresh \/ mv[m].from > 0)
    <3>1. mv \in [Merovingians -> MerovingianObject]
      BY DEF TypeInv, TypeOK
    <3>2. itemsFresh' = itemsFresh \ {n} /\ mv' = [mv EXCEPT ![n] = obj]
      BY <2>2 DEF OthersWriteMerovingian, WriteMerovingian
    <3>3. mv'[n] = obj /\ \A m \in Merovingians : m # n => mv'[m] = mv[m]
      BY <3>1, <3>2
    <3>4. obj.from = 0 => ~(obj.from > 0)
      OBVIOUS
    <3> QED
      BY <2>2, <3>2, <3>3, <3>4
  <2>3. \A n \in Merovingians :
          /\ [NoMerovingian EXCEPT !.live = TRUE, !.uid = mv[n].uid + 1].from = 0
          /\ ~[NoMerovingian EXCEPT !.uid = mv[n].uid].live
    BY DEF NoMerovingian
  <2> QED
    BY <1>1, <2>1, <2>2, <2>3 DEF User, CreateTwins, DeleteTwins, EditTwins, CreateMerovingian,
      DeleteMerovingian, EditMerovingian, OthersWriteTwins, WriteTwins
<1>2. CASE UNCHANGED mv /\ itemsFresh' \subseteq itemsFresh
  BY <1>2
<1>3. CASE Cluster
  BY <1>2, <1>3 DEF Cluster, DeploymentStatus, CollectDeployment, CollectHome, SyncTwins, Requeue,
    SyncMerovingian, MerovingianReconcile, SyncDeployment, CreateOrUpdate,
    OthersWriteDeployment, WriteDeployment
<1>4. CASE Worker
  BY <1>2, <1>4 DEF Worker, Begin, AddFinalizer, AddFinalizerRejected, CreateService, CreateDeployment,
    AlreadyExists, ExileTo, ExileToFails, UpdateStatusRejected, RemoveFinalizer,
    RemoveFinalizerRejected, Rejected, ReturnError, ReturnNil, WriteTwins, WriteDeployment
<1>5. ~Faults
  BY DEF Faults, CallFails, ReplyLost, Restart, Rejected, ReturnError
<1>6. CASE UNCHANGED vars
  BY <1>6 DEF vars
<1> QED
  BY <1>1, <1>3, <1>4, <1>5, <1>6 DEF Next

\* A visit that is over stays reported as long as the list and the marks of its visits
\* are what they were and nobody appends.
LEMMA ToldStays ==
  ASSUME TypeInv, CopiesInv, ExileInv, [Next]_vars, ~Return, ~UpdateStatus, ~ListMerovingians,
         \A m \in Merovingians : ~ExileTo(m),
         NEW m \in Merovingians, Told(m), cur' = cur, placed' = placed
  PROVE  Told(m)'
<1>1. placed[m] \in Nat /\ placed[m] <= dep.uid /\ dep.uid \in Nat
  BY DEF TypeInv, TypeOK, DeploymentObject, ExileInv
<1>2. (dep'.live /\ dep'.uid = placed[m]) => dep' = dep
  BY <1>1, AppendSteps DEF Collected, Recreated
<1> QED
  BY <1>2, StatusWrites DEF Told

\* The containers in hand stay those of the Deployment between the two calls.
LEMMA InHandStays ==
  ASSUME TypeInv, CopiesInv, ExileInv, ReportInv, [Next]_vars, pc = "status", UNCHANGED worker
  PROVE  (dep'.live /\ dep'.uid = placed[item]) => md = dep'.containers
<1>1. item \in Merovingians /\ placed[item] \in Nat /\ placed[item] <= dep.uid /\ dep.uid \in Nat
  BY DEF TypeInv, TypeOK, DeploymentObject, ExileInv
<1>2. ~Return /\ \A m \in Merovingians : ~ExileTo(m)
  BY DEF worker, Return, ExileTo
<1> QED
  BY <1>1, <1>2, AppendSteps DEF Collected, Recreated, ReportInv

\* ReportInv is inductive given the finalizer's progress.
LEMMA ReportStep == IInv /\ IInv' /\ ReportInv /\ [Next]_vars => ReportInv'
<1> SUFFICES ASSUME IInv, IInv', ReportInv, [Next]_vars PROVE ReportInv'
  OBVIOUS
<1>0. /\ TypeInv /\ CopiesInv /\ ExileInv
      /\ listed \subseteq Merovingians /\ todo \subseteq listed
      /\ placed \in [Merovingians -> Nat]
      /\ dep.uid \in Nat
  BY DEF IInv, TypeInv, TypeOK, DeploymentObject
<1>1. CASE Return
  BY <1>1 DEF Return, ReportInv
<1>2. CASE UNCHANGED worker /\ ~Return
  <2>1. ~UpdateStatus /\ ~ListMerovingians /\ \A m \in Merovingians : ~ExileTo(m)
    BY <1>0, <1>2 DEF worker, UpdateStatus, ListMerovingians, ExileTo
  <2>2. \A m \in listed \ todo : Told(m)'
    BY <1>0, <1>2, <2>1, ToldStays DEF worker, ReportInv
  <2>3. pc = "status" => ((dep'.live /\ dep'.uid = placed[item]) => md = dep'.containers)
    BY <1>0, <1>2, InHandStays
  <2> QED
    BY <1>2, <2>2, <2>3 DEF worker, ReportInv
<1>3. CASE ProvisionStep /\ ~Return
  <2>1. pc' \notin {"exile", "status", "release"} /\ UNCHANGED <<listed, todo, placed>>
    BY <1>3 DEF ProvisionStep
  <2>2. CASE pc = "idle"
    BY <1>0, <2>1, <2>2 DEF ExileInv, ReportInv
  <2>3. CASE pc # "idle"
    <3>1. cur' = cur /\ pc' # "idle"
      BY <1>3, <2>3 DEF ProvisionStep
    <3>2. ~UpdateStatus /\ ~ListMerovingians /\ \A m \in Merovingians : ~ExileTo(m)
      <4>1. ~UpdateStatus
        BY <1>0, <2>1 DEF UpdateStatus, TypeInv, TypeOK
      <4>2. ~ListMerovingians
        BY <2>1 DEF ListMerovingians
      <4>3. \A m \in Merovingians : ~ExileTo(m)
        BY <2>1 DEF ExileTo
      <4> QED
        BY <4>1, <4>2, <4>3
    <3>3. \A m \in listed \ todo : Told(m)'
      BY <1>0, <1>3, <2>1, <3>1, <3>2, ToldStays DEF ReportInv
    <3> QED
      BY <2>1, <3>3 DEF ReportInv
  <2> QED
    BY <2>2, <2>3
<1>4. CASE ListMerovingians
  BY <1>4 DEF ListMerovingians, ReportInv
<1>5. CASE UpdateStatus
  <2>1. /\ pc = "status" /\ item \in itemsFresh /\ todo' = todo \ {item}
        /\ mv' = [mv EXCEPT ![item] = WithStatus]
        /\ UNCHANGED <<dep, cur, listed, placed, itemsFresh>>
        /\ pc' # "status"
    BY <1>5 DEF UpdateStatus, StatusUpdateAccepted, WriteMerovingian
  <2>2. item \in Merovingians /\ md \in Seq(Container) /\ md # <<>> /\ mv \in [Merovingians -> MerovingianObject]
    BY <1>0, <2>1 DEF TypeInv, TypeOK
  <2>3. /\ mv'[item].count = Len(md) - 1
        /\ mv'[item].exiled = ContainerNames(md) \ {item}
    BY <2>1, <2>2 DEF WithStatus, MerovingianObject
  <2>4. ASSUME NEW m \in Merovingians, m = item PROVE Told(m)'
    <3>1. cur \in ContainerNames(md)
      BY <1>0, <2>1 DEF ExileInv
    <3>2. Len(md) \in Nat
      BY <2>2
    <3>3. (dep.live /\ dep.uid = placed[item]) => md = dep.containers
      BY <2>1 DEF ReportInv
    <3> QED
      BY <2>1, <2>3, <2>4, <3>1, <3>2, <3>3 DEF Told
  <2>5. ASSUME NEW m \in listed \ todo PROVE Told(m)'
    <3>1. m # item /\ m \in Merovingians
      BY <1>0, <2>1 DEF TypeInv
    <3>2. mv'[m] = mv[m]
      BY <2>1, <2>2, <3>1
    <3> QED
      BY <2>1, <3>2 DEF ReportInv, Told
  <2> QED
    BY <1>0, <2>1, <2>2, <2>4, <2>5 DEF ReportInv
<1>6. ASSUME NEW m \in Merovingians, ExileTo(m)
      PROVE  ReportInv'
  <2>1. /\ m = ProgramName /\ m \in todo /\ item' = m
        /\ UNCHANGED <<listed, todo, cur>>
    BY <1>6 DEF ExileTo, DeploymentFound
  <2>2. placed' = [placed EXCEPT ![m] = dep.uid] /\ md' = dep'.containers
    BY <1>0, <1>6, JustExiled
  <2>3. listed \ todo = {}
    BY <1>0, <2>1 DEF ExileInv, ReportInv
  <2> QED
    BY <1>0, <2>1, <2>2, <2>3 DEF ReportInv
<1> QED
  BY <1>0, <1>1, <1>2, <1>3, <1>4, <1>5, <1>6, WorkerSteps

\* A Merovingian does not lag behind its Deployment when one of its exiles leaves: the
\* finalizer went on only after the status was accepted (executeFinalizer, exileTo).
THEOREM LeavingIsReported == Spec => LeftIsReported
<1> DEFINE Reported1 ==
      \A t \in Twins :
       (tw[t].fin /\ tw'[t].st = "absent")
         => \A m \in listed :
              (mv[m].live /\ (m \in itemsFresh \/ mv[m].from > 0))
                => /\ t \in mv[m].exiled \cup {m}
                   /\ (dep.live /\ dep.uid = placed[m])
                         => mv[m].count + 1 = Len(dep.containers)
<1>1. Init => ReportInv
  BY DEF Init, ReportInv
<1>2. IInv /\ ReportInv /\ [Next]_vars => [Reported1]_vars
  <2> SUFFICES ASSUME IInv, ReportInv, [Next]_vars, NEW t \in Twins, tw[t].fin, tw'[t].st = "absent"
               PROVE  \A m \in listed : cur = t /\ Told(m)
    BY Zenon DEF Told
  <2>1. cur = t /\ pc = "release"
    BY ReleasesOnly DEF IInv
  <2>2. todo = {}
    BY <2>1 DEF IInv, ExileInv
  <2> QED
    BY <2>1, <2>2 DEF ReportInv
<1> QED
  BY <1>1, <1>2, Invariant, ReportStep, PTL DEF Spec, LeftIsReported

-----------------------------------------------------------------------------
(***************************************************************************)
(* Appending is not idempotent.                                            *)
(***************************************************************************)
\* A Twins whose deletion has begun stays like that until Reconcile releases it.
LEMMA DeletingStays ==
  ASSUME TypeInv, CopiesInv, [Next]_vars, NEW t \in Twins, tw[t].st = "deleting"
  PROVE  \/ tw'[t].st = "deleting"
         \/ cur = t /\ pc = "release"
<1>1. tw[t] \in TwinsObject
  BY DEF TypeInv, TypeOK
<1>2. CASE pc = "finalizer" /\ TwinsUpdateAccepted /\ tw' = [tw EXCEPT ![cur] = [cr EXCEPT !.fin = TRUE]]
  <2>1. cur \in Twins /\ cr = tw[cur]
    BY <1>2 DEF TwinsUpdateAccepted, CopiesInv, TypeInv
  <2>2. tw \in [Twins -> TwinsObject]
    BY DEF TypeInv, TypeOK
  <2> QED
    BY <1>1, <1>2, <2>1, <2>2 DEF TwinsObject
<1>3. CASE pc = "release" /\ TwinsUpdateAccepted /\ tw' = [tw EXCEPT ![cur] = Released]
  BY <1>3 DEF TypeInv, TypeOK
<1> QED
  BY <1>1, <1>2, <1>3, TwinsSteps DEF TwinsStep, TypeInv, TypeOK

\* The API server refuses a container of a name that is there: no append for a Twins
\* in the Deployment is accepted, from whatever copy.
LEMMA SecondRefused ==
  ASSUME CopiesInv, cur \in ContainerNames(dep.containers)
  PROVE  ~DeploymentUpdateAccepted
BY DEF CopiesInv, DeploymentUpdateAccepted

\* Reconcile does not get past the list for a Twins that is in the Deployment.
LEMMA RetryGetsNowhere ==
  ASSUME TypeInv, CopiesInv, [Next]_vars, NEW t \in Twins, Stranded(t),
         \E m \in Merovingians : mvC[m].live, cur' = t
  PROVE  pc' \notin {"status", "release"} /\ (pc' = "exile" => todo' = listed' /\ listed' # {})
<1>1. CASE UNCHANGED worker
  BY <1>1 DEF worker, Stranded
<1>2. CASE Return \/ ProvisionStep
  BY <1>2, ConstantsAssumption DEF Return, ProvisionStep
<1>3. CASE ListMerovingians
  BY <1>3 DEF ListMerovingians
<1>4. ~UpdateStatus
  <2> SUFFICES ASSUME UpdateStatus PROVE FALSE
    OBVIOUS
  <2>1. cur = t /\ pc = "status"
    BY DEF UpdateStatus
  <2> QED
    BY <2>1 DEF Stranded
<1>5. ASSUME NEW m \in Merovingians, ExileTo(m) PROVE FALSE
  <2>1. cur = t /\ DeploymentUpdateAccepted
    BY <1>5 DEF ExileTo
  <2> QED
    BY <2>1, SecondRefused DEF Stranded
<1> QED
  BY <1>1, <1>2, <1>3, <1>4, <1>5, WorkerSteps

\* However often its deletion is retried, a Twins whose container is there already from
\* an attempt before, or from an earlier Twins of its name, does not get away while the
\* Deployment stays (executeFinalizer, exileTo): what exile_stuck shows once.
THEOREM StrandedForGood == Spec => StrandedStays
<1> DEFINE Stays == \A t \in Twins :
       (Stranded(t) /\ dep'.live /\ dep'.uid = dep.uid /\ \E m \in Merovingians : mvC[m].live)
         => Stranded(t)'
<1>1. IInv /\ [Next]_vars => [Stays]_vars
  <2> SUFFICES ASSUME IInv, [Next]_vars, NEW t \in Twins, Stranded(t), dep'.live,
                      dep'.uid = dep.uid, \E m \in Merovingians : mvC[m].live
               PROVE  Stranded(t)'
    OBVIOUS
  <2>1. tw'[t].st = "deleting"
    BY DeletingStays DEF IInv, Stranded
  <2>2. t \in ContainerNames(dep'.containers)
    BY NamesGrow DEF IInv, Stranded
  <2>3. cur' = t => /\ pc' \notin {"status", "release"}
                    /\ pc' = "exile" => todo' = listed' /\ listed' # {}
    BY RetryGetsNowhere DEF IInv
  <2> QED
    BY <2>1, <2>2, <2>3 DEF Stranded
<1> QED
  BY <1>1, Invariant, PTL DEF Spec, StrandedStays
=============================================================================
