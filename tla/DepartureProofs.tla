-------------------------- MODULE DepartureProofs --------------------------
(***************************************************************************)
(* Exile implements Departure, for every value of the constants.  Every    *)
(* step writes one kind of object only (OneWrite); what each kind of write *)
(* is in the abstract specification is a lemma of its own, and so is when  *)
(* absolution is given.  That a list without Merovingians means that none  *)
(* keeps the Deployment, however old that list is, takes OwnersInv.        *)
(***************************************************************************)
EXTENDS ExileProofs

-----------------------------------------------------------------------------
(***************************************************************************)
(* Owners: the cache knows the Merovingian a Deployment was made for, in   *)
(* that incarnation or a later one.                                        *)
(***************************************************************************)
OwnersInv ==
  /\ dep.live => /\ dep.owner.name \in Merovingians
                 /\ dep.owner.uid <= mvC[dep.owner.name].uid
  /\ \A m \in Merovingians :
       /\ mvC[m].uid <= mv[m].uid
       /\ (mvC[m].uid = mv[m].uid /\ mv[m].live) => mvC[m].live

\* A Merovingian keeps its uid and is not revived under it, or gets the next one.
MerovingianProgress(m) ==
  \/ mv'[m].uid = mv[m].uid /\ (mv'[m].live => mv[m].live)
  \/ mv'[m].uid = mv[m].uid + 1

\* The uids of Merovingians and Deployments are numbers.
LEMMA UidTypes ==
  ASSUME TypeInv
  PROVE  /\ \A m \in Merovingians : mv[m].uid \in Nat /\ mvC[m].uid \in Nat
         /\ dep.uid \in Nat /\ dep.owner.uid \in Nat
BY DEF TypeInv, TypeOK, MerovingianObject, DeploymentObject, Owner

\* Every step lets each Merovingian only progress.
LEMMA MerovingiansOnlyProgress ==
  ASSUME TypeInv, [Next]_vars, NEW m \in Merovingians
  PROVE  MerovingianProgress(m)
<1>1. mv \in [Merovingians -> MerovingianObject]
  BY DEF TypeInv, TypeOK
<1>2. MerovingianStep
  BY MerovingianSteps
<1>3. CASE pc = "status" /\ mv' = [mv EXCEPT ![item] = WithStatus]
  BY <1>1, <1>3 DEF WithStatus, MerovingianProgress, MerovingianObject
<1> QED
  <2>1. ASSUME NEW n \in Merovingians,
               mv' = [mv EXCEPT ![n] = [NoMerovingian EXCEPT !.live = TRUE, !.uid = mv[n].uid + 1]]
        PROVE  MerovingianProgress(m)
    <3> DEFINE created == [NoMerovingian EXCEPT !.live = TRUE, !.uid = mv[n].uid + 1]
    <3>1. created.uid = mv[n].uid + 1
      BY DEF NoMerovingian
    <3>2. mv'[m] = IF m = n THEN created ELSE mv[m]
      BY <1>1, <2>1
    <3> QED
      BY <3>1, <3>2 DEF MerovingianProgress
  <2>2. ASSUME NEW n \in Merovingians, mv' = [mv EXCEPT ![n] = [NoMerovingian EXCEPT !.uid = mv[n].uid]]
        PROVE  MerovingianProgress(m)
    BY <1>1, <2>2 DEF NoMerovingian, MerovingianProgress
  <2> QED
    BY <1>2, <1>3, <2>1, <2>2 DEF MerovingianStep, MerovingianProgress

\* A cached Merovingian is kept, or read from the API server, where nothing changes then.
LEMMA CachedMerovingians ==
  ASSUME TypeInv, [Next]_vars, NEW m \in Merovingians
  PROVE  mvC'[m] = mvC[m] \/ (mvC'[m] = mv[m] /\ UNCHANGED mv)
BY CacheSteps DEF CacheStep, TypeInv, TypeOK, caches, store

\* OwnersInv is inductive.
LEMMA OwnersStep == TypeInv /\ CopiesInv /\ OwnersInv /\ [Next]_vars => OwnersInv'
<1> SUFFICES ASSUME TypeInv, CopiesInv, OwnersInv, [Next]_vars PROVE OwnersInv'
  OBVIOUS
<1>1. TypeInv'
  BY TypeStep
<1>2. \A m \in Merovingians :
        /\ mv[m].uid \in Nat /\ mvC[m].uid \in Nat
        /\ mv'[m].uid \in Nat /\ mvC'[m].uid \in Nat
  <2>1. (\A m \in Merovingians : mv[m].uid \in Nat /\ mvC[m].uid \in Nat)'
    BY <1>1 DEF TypeInv, TypeOK, MerovingianObject
  <2> QED
    BY <2>1, UidTypes
<1>3. \A m \in Merovingians :
        /\ mvC'[m].uid <= mv'[m].uid
        /\ (mvC'[m].uid = mv'[m].uid /\ mv'[m].live) => mvC'[m].live
        /\ mvC[m].uid <= mvC'[m].uid
  BY <1>2, MerovingiansOnlyProgress, CachedMerovingians DEF MerovingianProgress, OwnersInv
<1>4. dep.owner.uid \in Nat
  BY UidTypes
<1>5. CASE dep' = dep
  BY <1>2, <1>3, <1>4, <1>5 DEF OwnersInv
<1>6. CASE dep' = [NoDeployment EXCEPT !.uid = dep.uid]
  BY <1>3, <1>6 DEF OwnersInv, NoDeployment
<1>7. ASSUME NEW m \in Merovingians, NEW u \in 1 .. mvC[m].uid, dep' = NewDeployment(m, u)
      PROVE  OwnersInv'
  BY <1>2, <1>3, <1>7 DEF OwnersInv, NewDeployment
<1>8. CASE DeploymentUpdateAccepted /\ dep' = WithExile
  <2>1. dep'.owner = dep.owner /\ dep.live
    BY <1>8 DEF DeploymentUpdateAccepted, WithExile, TypeInv, TypeOK, DeploymentObject
  <2> QED
    BY <1>2, <1>3, <1>4, <2>1 DEF OwnersInv
<1> QED
  BY <1>5, <1>6, <1>7, <1>8, DeploymentSteps DEF DeploymentStep

\* The refinement's invariant.
RInv == IInv /\ OwnersInv

\* It holds in every reachable state.
LEMMA RefinementInvariant == Spec => []RInv
<1>1. Init => OwnersInv
  BY DEF Init, OwnersInv, NoDeployment, NoMerovingian
<1>2. IInv /\ OwnersInv /\ [Next]_vars => OwnersInv'
  BY OwnersStep DEF IInv
<1> QED
  BY <1>1, <1>2, Invariant, PTL DEF Spec, RInv

\* A Deployment that a Merovingian keeps has its owner in the list of Merovingians.
LEMMA KeptIsListed ==
  ASSUME TypeInv, OwnersInv, dep.live, Cared
  PROVE  \E m \in Merovingians : mvC[m].live
BY UidTypes DEF Cared, OwnersInv

-----------------------------------------------------------------------------
(***************************************************************************)
(* Each step writes one kind of object.                                    *)
(***************************************************************************)
OnlyTwins        == UNCHANGED <<mv, dep, home>>
OnlyMerovingians == UNCHANGED <<tw, dep, home>>
OnlyDeployment   == UNCHANGED <<tw, mv, home>>
OnlyHome         == UNCHANGED <<tw, mv, dep>>

LEMMA OneWrite ==
  ASSUME [Next]_vars
  PROVE  OnlyTwins \/ OnlyMerovingians \/ OnlyDeployment \/ OnlyHome
<1> USE DEF OnlyTwins, OnlyMerovingians, OnlyDeployment, OnlyHome, store
<1>1. CASE User
  BY <1>1 DEF User, CreateTwins, DeleteTwins, EditTwins, CreateMerovingian, DeleteMerovingian,
    EditMerovingian, OthersWriteTwins, OthersWriteMerovingian, WriteTwins, WriteMerovingian
<1>2. CASE Cluster
  BY <1>2 DEF Cluster, DeploymentStatus, CollectDeployment, CollectHome, SyncTwins, Requeue,
    SyncMerovingian, MerovingianReconcile, SyncDeployment, CreateOrUpdate, OthersWriteDeployment,
    WriteDeployment
<1>3. CASE Worker
  BY <1>3 DEF Worker, Begin, AddFinalizer, AddFinalizerRejected, CreateService, CreateDeployment,
    ListMerovingians, ExileTo, ExileToFails, UpdateStatus, UpdateStatusRejected, RemoveFinalizer,
    RemoveFinalizerRejected, AlreadyExists, Rejected, WriteTwins, WriteDeployment, WriteMerovingian
<1>4. CASE Faults
  BY <1>4 DEF Faults, CallFails, ReplyLost, Restart, Rejected, WriteTwins, WriteDeployment,
    WriteMerovingian
<1>5. CASE UNCHANGED vars
  BY <1>5 DEF vars
<1> QED
  BY <1>1, <1>2, <1>3, <1>4, <1>5 DEF Next

-----------------------------------------------------------------------------
(***************************************************************************)
(* What each kind of write is in the abstract specification.               *)
(***************************************************************************)
Phases == [t \in Twins |-> Phase(tw[t])]
Uids   == [t \in Twins |-> tw[t].uid]

\* The host and its guests are a matter of the Deployment and the Merovingians.
LEMMA HostSame ==
  ASSUME UNCHANGED <<mv, dep>>
  PROVE  Host' = Host /\ Guests' = Guests
BY DEF Host, Cared, Guests

\* One Twins written is one phase and one uid changed.
LEMMA TwinsWritten ==
  ASSUME TypeInv, NEW t \in Twins, NEW obj, tw' = [tw EXCEPT ![t] = obj]
  PROVE  /\ Phases' = [Phases EXCEPT ![t] = Phase(obj)]
         /\ Uids' = [Uids EXCEPT ![t] = obj.uid]
         /\ obj.uid = tw[t].uid => Uids' = Uids
BY DEF Phases, Uids, TypeInv, TypeOK

\* A write of a Twins is a step of its life; it departs only absolved.
LEMMA TwinsMapped ==
  ASSUME TypeInv, CopiesInv, TwinsStep, OnlyTwins
  PROVE  Abstract!Step
<1> USE DEF Abstract!Step, Abstract!Becomes, Phases, Uids
<1>1. home' = home /\ Host' = Host /\ Guests' = Guests
  BY HostSame DEF OnlyTwins
<1>2. \A t \in Twins : tw[t] \in TwinsObject
  BY DEF TypeInv, TypeOK
<1>3. CASE tw' = tw
  BY <1>1, <1>3
<1>4. ASSUME NEW t \in Twins, tw[t].st = "absent",
             tw' = [tw EXCEPT ![t] = [st |-> "live", fin |-> FALSE, uid |-> tw[t].uid + 1]]
      PROVE  Abstract!Arrive(t)
  <2> DEFINE obj == [st |-> "live", fin |-> FALSE, uid |-> tw[t].uid + 1]
  <2>1. Phases' = [Phases EXCEPT ![t] = Phase(obj)] /\ Uids' = [Uids EXCEPT ![t] = obj.uid]
    BY <1>4, TwinsWritten
  <2>2. Phase(tw[t]) = "absent" /\ Phase(obj) = "free" /\ obj.uid = tw[t].uid + 1
    BY <1>4 DEF Phase
  <2> QED
    BY <1>1, <2>1, <2>2 DEF Abstract!Arrive
<1>5. ASSUME NEW t \in Twins, tw[t].st = "live",
             tw' = [tw EXCEPT ![t] = [tw[t] EXCEPT !.st = IF tw[t].fin THEN "deleting" ELSE "absent"]]
      PROVE  Abstract!Withdraw(t) \/ Abstract!Leave(t)
  <2> DEFINE obj == [tw[t] EXCEPT !.st = IF tw[t].fin THEN "deleting" ELSE "absent"]
  <2>1. obj.uid = tw[t].uid /\ obj.st = IF tw[t].fin THEN "deleting" ELSE "absent"
    BY <1>2 DEF TwinsObject
  <2>2. Phases' = [Phases EXCEPT ![t] = Phase(obj)] /\ Uids' = Uids
    BY <1>5, <2>1, TwinsWritten
  <2>3. tw[t].fin => Phase(tw[t]) = "bound" /\ Phase(obj) = "leaving"
    BY <1>5, <2>1 DEF Phase
  <2>4. ~tw[t].fin => Phase(tw[t]) = "free" /\ Phase(obj) = "absent"
    BY <1>5, <2>1 DEF Phase
  <2> QED
    BY <1>1, <2>2, <2>3, <2>4 DEF Abstract!Withdraw, Abstract!Leave
<1>6. CASE pc = "finalizer" /\ TwinsUpdateAccepted /\ tw' = [tw EXCEPT ![cur] = [cr EXCEPT !.fin = TRUE]]
  <2> DEFINE obj == [cr EXCEPT !.fin = TRUE]
  <2>1. cur \in Twins /\ cr = tw[cur] /\ tw[cur].st # "absent"
    BY <1>6 DEF TwinsUpdateAccepted, CopiesInv, TypeInv
  <2>2. obj.uid = tw[cur].uid /\ obj.st = tw[cur].st /\ obj.fin
    BY <1>2, <2>1 DEF TwinsObject
  <2>3. Phases' = [Phases EXCEPT ![cur] = Phase(obj)] /\ Uids' = Uids
    BY <1>6, <2>1, <2>2, TwinsWritten
  <2>4. CASE tw[cur].st = "live" /\ ~tw[cur].fin
    BY <1>1, <2>1, <2>2, <2>3, <2>4 DEF Abstract!Bind, Phase
  <2>5. CASE tw[cur].st = "deleting" \/ tw[cur].fin
    <3>1. Phase(obj) = Phase(tw[cur])
      BY <1>2, <2>1, <2>2, <2>5 DEF Phase, TwinsObject
    <3>2. Phases' = Phases
      BY <2>1, <2>3, <3>1
    <3> QED
      BY <1>1, <2>3, <3>2
  <2> QED
    BY <1>2, <2>1, <2>4, <2>5 DEF TwinsObject
<1>7. CASE pc = "release" /\ TwinsUpdateAccepted /\ tw' = [tw EXCEPT ![cur] = Released]
  <2>1. cur \in Twins /\ tw[cur].st = "deleting" /\ crFresh
    BY <1>7 DEF TwinsUpdateAccepted, CopiesInv, TypeInv
  <2>2. Released.uid = tw[cur].uid /\ Released.st = "absent"
    BY <1>2, <2>1 DEF Released, TwinsObject
  <2>3. cur \in Absolved
    BY <1>7, <2>1 DEF Absolved
  <2>4. Phases' = [Phases EXCEPT ![cur] = Phase(Released)] /\ Uids' = Uids
    BY <1>7, <2>1, <2>2, TwinsWritten
  <2>5. Abstract!Depart(cur)
    BY <1>1, <2>1, <2>2, <2>3, <2>4 DEF Abstract!Depart, Phase
  <2> QED
    BY <2>1, <2>5
<1> QED
  BY <1>3, <1>4, <1>5, <1>6, <1>7 DEF TwinsStep

\* A write of a Merovingian at most orphans the Deployment.
LEMMA MerovingiansMapped ==
  ASSUME TypeInv, CopiesInv, OwnersInv, [Next]_vars, OnlyMerovingians
  PROVE  Abstract!Step
<1> USE DEF OnlyMerovingians, Phases, Uids
<1>1. UNCHANGED <<Phases, Uids, home, Guests>>
  BY DEF Guests
<1>2. ASSUME dep.live, Cared' PROVE Cared
  <2>1. PICK m \in Merovingians : mv'[m].live /\ dep.owner = [name |-> m, uid |-> mv'[m].uid]
    BY <1>2 DEF Cared
  <2>2. mv'[m].uid # mv[m].uid + 1
    BY <1>2, <2>1, UidTypes DEF OwnersInv
  <2>3. mv'[m].uid = mv[m].uid /\ mv[m].live
    BY <2>1, <2>2, MerovingiansOnlyProgress DEF MerovingianProgress
  <2> QED
    BY <2>1, <2>3 DEF Cared
<1>3. Host' = Host \/ (Host = "kept" /\ Host' = "orphaned")
  BY <1>2 DEF Host
<1> QED
  BY <1>1, <1>3 DEF Abstract!Step, Abstract!HostOrphaned, Abstract!HostBecomes

\* The owners of the children change as the abstract specification lets them.
LEMMA HomeMapped ==
  ASSUME TypeInv, CopiesInv, HomeStep, OnlyHome
  PROVE  Abstract!Step
<1> USE DEF OnlyHome, Phases, Uids
<1>1. UNCHANGED <<Phases, Uids, Host, Guests>>
  BY HostSame
<1>2. home \in [Children -> Owner] /\ \A t \in Twins : tw[t] \in TwinsObject
  BY DEF TypeInv, TypeOK
<1>3. CASE home' = home
  BY <1>1, <1>3 DEF Abstract!Step
<1>4. ASSUME NEW k \in Children,
             ~\E t \in Twins : tw[t].st # "absent" /\ home[k] = [name |-> t, uid |-> tw[t].uid],
             home' = [home EXCEPT ![k] = Nobody]
      PROVE  Abstract!Vacate(k)
  <2>1. \A t \in Twins : home[k] = [name |-> t, uid |-> tw[t].uid] => Phase(tw[t]) = "absent"
    BY <1>4 DEF Phase
  <2> QED
    BY <1>1, <1>4, <2>1 DEF Abstract!Vacate, Abstract!Twin
<1>5. ASSUME pc \in {"service", "deployment"}, NEW k \in Children, Provision(k), home' # home
      PROVE  cur \in Twins /\ cr.uid \in 0 .. tw[cur].uid /\ Abstract!Settle(k, cur, cr.uid)
  <2>1. cur \in Twins /\ cr.uid \in Nat /\ tw[cur].uid \in Nat /\ cr.uid <= tw[cur].uid
    BY <1>2, <1>5 DEF TypeInv, TypeOK, CopiesInv, TwinsObject
  <2>2. home[k] = Nobody /\ home' = [home EXCEPT ![k] = [name |-> cur, uid |-> cr.uid]]
    BY <1>2, <1>5 DEF Provision
  <2>3. cr.uid = tw[cur].uid => tw[cur].st = "absent" \/ tw[cur].fin
    BY <1>5 DEF CopiesInv
  <2>4. cr.uid = tw[cur].uid => Phase(tw[cur]) \in {"bound", "leaving", "absent"}
    BY <1>2, <2>1, <2>3 DEF Phase, TwinsObject
  <2> QED
    BY <1>1, <2>1, <2>2, <2>4 DEF Abstract!Settle, Abstract!Has, Abstract!Twin
<1> QED
  BY <1>3, <1>4, <1>5 DEF HomeStep, Abstract!Step

\* What exileTo writes is the Deployment of now with the Twins as one more guest.
LEMMA GuestAppended ==
  ASSUME TypeInv, CopiesInv, pc = "exile", depC.live, DeploymentUpdateAccepted, dep' = WithExile
  PROVE  /\ dep.live /\ dep'.live /\ dep'.owner = dep.owner
         /\ Guests' = Guests \cup {[name |-> cur, uid |-> cr.uid]}
         /\ \A g \in Guests : g.name # cur
<1> DEFINE cs == dep.containers
           c  == ExileContainer
<1>1. depC = dep /\ dep.live /\ cs \in Seq(Container) /\ cs # <<>> /\ cur \in Twins /\ cr \in TwinsObject
  BY DEF DeploymentUpdateAccepted, CopiesInv, TypeInv, TypeOK, DeploymentObject
<1>2. c = [name |-> cur, uid |-> cr.uid] /\ c \in Container
  BY <1>1, ExileContainerType DEF ExileContainer
<1>3. dep'.containers = Append(cs, c) /\ dep'.live /\ dep'.owner = dep.owner
  BY <1>1 DEF WithExile, TypeInv, TypeOK, DeploymentObject
<1>4. /\ Len(cs) \in Nat /\ Len(cs) >= 1 /\ Len(dep'.containers) = Len(cs) + 1
      /\ \A i \in 1 .. Len(cs) : dep'.containers[i] = cs[i]
      /\ dep'.containers[Len(cs) + 1] = c
  BY <1>1, <1>2, <1>3
<1>5. Guests' = Guests \cup {c}
  <2> HIDE DEF c
  <2>1. \A g : g \in Guests <=> \E i \in 2 .. Len(cs) : g = cs[i]
    BY DEF Guests
  <2>2. \A g : g \in Guests' <=> \E i \in 2 .. Len(cs) + 1 : g = dep'.containers[i]
    BY <1>4 DEF Guests
  <2>3. \A g : g \in Guests' <=> g \in Guests \/ g = c
    BY <1>4, <2>1, <2>2
  <2> QED
    BY <2>3
<1>6. \A g \in Guests : g.name # cur
  <2>1. \A i \in 2 .. Len(cs) : i \in DOMAIN cs
    BY <1>1
  <2> QED
    BY <1>1, <2>1 DEF Guests, DeploymentUpdateAccepted, ContainerNames
<1> QED
  BY <1>1, <1>2, <1>3, <1>5, <1>6

\* A write of the Deployment raises or drops the host, or admits a guest that is
\* leaving or gone.
LEMMA DeploymentMapped ==
  ASSUME TypeInv, CopiesInv, ExileInv, DeploymentStep, OnlyDeployment
  PROVE  Abstract!Step
<1> USE DEF OnlyDeployment, Phases, Uids, Abstract!HostBecomes
<1>1. UNCHANGED <<Phases, Uids, home>> /\ mv' = mv
  OBVIOUS
<1>2. CASE dep' = dep
  BY <1>1, <1>2, HostSame DEF Abstract!Step
<1>3. CASE dep.live /\ ~Cared /\ dep' = [NoDeployment EXCEPT !.uid = dep.uid]
  <2>1. ~dep'.live /\ dep'.containers = <<>>
    BY <1>3 DEF NoDeployment
  <2>2. Host = "orphaned" /\ Host' = "none" /\ Guests' = {}
    BY <1>3, <2>1 DEF Host, Guests
  <2> QED
    BY <1>1, <2>2 DEF Abstract!Step, Abstract!HostFalls
<1>4. ASSUME NEW m \in Merovingians, NEW u \in 1 .. mvC[m].uid, ~dep.live,
             dep' = NewDeployment(m, u)
      PROVE  Abstract!HostRises
  <2>1. dep.containers = <<>> /\ dep'.live /\ dep'.containers = <<HostContainer(m)>>
    BY <1>4 DEF ExileInv, NewDeployment
  <2>2. Guests = {} /\ Guests' = {}
    BY <2>1 DEF Guests
  <2>3. Host = "none" /\ Host' \in {"kept", "orphaned"}
    BY <1>4, <2>1 DEF Host
  <2> QED
    BY <1>1, <2>2, <2>3 DEF Abstract!HostRises
<1>5. ASSUME pc = "exile", depC.live, DeploymentUpdateAccepted, dep' = WithExile
      PROVE  cur \in Twins /\ cr.uid \in 0 .. tw[cur].uid /\ Abstract!Admit(cur, cr.uid)
  <2>1. /\ cur \in Twins /\ cr.uid \in Nat /\ tw[cur].uid \in Nat /\ cr.uid <= tw[cur].uid
        /\ tw[cur] \in TwinsObject
        /\ cr.uid = tw[cur].uid => tw[cur].st # "live"
    BY <1>5 DEF TypeInv, TypeOK, CopiesInv, TwinsObject
  <2>2. cr.uid = tw[cur].uid => Phase(tw[cur]) \in {"leaving", "absent"}
    BY <2>1 DEF Phase, TwinsObject
  <2>3. Host' = Host /\ Host # "none"
    BY <1>1, <1>5, GuestAppended DEF Host, Cared
  <2> QED
    BY <1>1, <1>5, <2>1, <2>2, <2>3, GuestAppended DEF Abstract!Admit, Abstract!Has, Abstract!Twin
<1> QED
  BY <1>2, <1>3, <1>4, <1>5 DEF DeploymentStep, Abstract!Step

-----------------------------------------------------------------------------
(***************************************************************************)
(* When absolution is given.                                               *)
(***************************************************************************)
\* Only a new reconcile gets a current copy.
LEMMA FreshnessSteps ==
  ASSUME [Next]_vars, crFresh', ~crFresh
  PROVE  pc' \in {"finalizer", "list", "service"}
<1>1. ~User
  BY DEF User, CreateTwins, DeleteTwins, EditTwins, CreateMerovingian, DeleteMerovingian,
    EditMerovingian, OthersWriteTwins, OthersWriteMerovingian
<1>2. ~Cluster
  BY DEF Cluster, DeploymentStatus, CollectDeployment, CollectHome, SyncTwins, Requeue, fresh,
    SyncMerovingian, MerovingianReconcile, SyncDeployment, CreateOrUpdate, OthersWriteDeployment
<1>3. ASSUME Worker PROVE \E t \in Twins : Begin(t)
  BY <1>3 DEF Worker, AddFinalizer, AddFinalizerRejected, CreateService, CreateDeployment,
    ListMerovingians, ExileTo, ExileToFails, UpdateStatus, UpdateStatusRejected, RemoveFinalizer,
    RemoveFinalizerRejected, AlreadyExists, Rejected, ReturnError, ReturnNil, Return, fresh
<1>4. ~Faults
  BY DEF Faults, CallFails, ReplyLost, Restart, Rejected, ReturnError, Return
<1>5. ~UNCHANGED vars
  BY DEF vars, fresh
<1>6. ASSUME NEW t \in Twins, Begin(t) PROVE pc' \in {"finalizer", "list", "service"}
  BY <1>6 DEF Begin, AfterFinalizer
<1> QED
  BY <1>1, <1>2, <1>3, <1>4, <1>5, <1>6 DEF Next

\* Reconcile absolves its Twins by exiling it or by finding no Merovingian.
LEMMA AbsolvedSteps ==
  ASSUME TypeInv, [Next]_vars, NEW t \in Absolved', t \notin Absolved
  PROVE  /\ cur = t /\ crFresh
         /\ \/ ListMerovingians /\ listed' = {}
            \/ \E m \in Merovingians : ExileTo(m)
<1>1. /\ t \in Twins /\ cur' = t /\ crFresh'
      /\ pc' \in {"status", "release"} \/ (pc' = "exile" /\ todo' # listed')
  BY DEF Absolved
<1>2. crFresh
  BY <1>1, FreshnessSteps
<1>3. ~UNCHANGED worker
  BY <1>1, <1>2 DEF worker, Absolved
<1>4. ~Return /\ ~ProvisionStep
  BY <1>1 DEF Return, ProvisionStep
<1>5. ListMerovingians => cur = t /\ listed' = {}
  BY <1>1 DEF ListMerovingians
<1>6. ~UpdateStatus
  BY <1>1, <1>2 DEF UpdateStatus, Absolved
<1>7. ASSUME NEW m \in Merovingians, ExileTo(m) PROVE cur = t
  BY <1>1, <1>7 DEF ExileTo
<1> QED
  BY <1>2, <1>3, <1>4, <1>5, <1>6, <1>7, WorkerSteps

\* Absolution is given to a Twins that is leaving, in a moment that satisfies it.
LEMMA AbsolutionGiven ==
  ASSUME IInv, OwnersInv, IInv', [Next]_vars
  PROVE  /\ Absolved' \subseteq Twins
         /\ \A t \in Absolved' :
              /\ Phase(tw'[t]) = "leaving"
              /\ \/ t \in Absolved
                 \/ Host' # "kept"
                 \/ [name |-> t, uid |-> tw'[t].uid] \in Guests'
<1>1. Absolved' \subseteq Twins
  BY DEF Absolved
<1> SUFFICES ASSUME NEW t \in Absolved'
             PROVE  /\ Phase(tw'[t]) = "leaving"
                    /\ \/ t \in Absolved
                       \/ Host' # "kept"
                       \/ [name |-> t, uid |-> tw'[t].uid] \in Guests'
  BY <1>1
<1>2. Phase(tw'[t]) = "leaving"
  <2>1. cur' = t /\ crFresh' /\ pc' \in {"exile", "status", "release"}
    BY DEF Absolved
  <2>2. tw'[t].st = "deleting"
    BY <2>1 DEF IInv, CopiesInv
  <2> QED
    BY <2>2 DEF Phase
<1>3. ASSUME ListMerovingians, listed' = {}
      PROVE  Host' # "kept"
  <2>1. ~\E m \in Merovingians : mvC[m].live
    BY <1>3 DEF ListMerovingians
  <2>2. Host # "kept"
    BY <2>1, KeptIsListed DEF Host, IInv
  <2> QED
    BY <1>3, <2>2, HostSame DEF ListMerovingians, store
<1>4. ASSUME cur = t, crFresh, NEW m \in Merovingians, ExileTo(m)
      PROVE  [name |-> t, uid |-> tw'[t].uid] \in Guests'
  <2>1. pc = "exile" /\ depC.live /\ DeploymentUpdateAccepted /\ dep' = WithExile /\ tw' = tw
    BY <1>4 DEF ExileTo, DeploymentFound, WriteDeployment
  <2>2. cr = tw[t]
    BY <1>4, <2>1 DEF IInv, CopiesInv
  <2> QED
    BY <1>4, <2>1, <2>2, GuestAppended DEF IInv
<1> QED
  BY <1>2, <1>3, <1>4, AbsolvedSteps DEF IInv

-----------------------------------------------------------------------------
\* Exile implements Departure: stale lists and copies, lost replies and restarts of the
\* controller never let a Twins go that was neither exiled nor without a host
\* (Reconcile, executeFinalizer, exileTo).
THEOREM DepartureImplemented == Spec => Departs
<1>1. Init => Abstract!Init
  BY DEF Init, Abstract!Init, NoTwins, NoDeployment, Phase, Host, Guests, Absolved
<1>2. RInv /\ RInv' /\ [Next]_vars => Abstract!Next
  <2> SUFFICES ASSUME IInv, OwnersInv, IInv', [Next]_vars PROVE Abstract!Next
    BY DEF RInv
  <2>1. Abstract!Step
    BY OneWrite, TwinsMapped, MerovingiansMapped, DeploymentMapped, HomeMapped, TwinsSteps,
      DeploymentSteps, HomeSteps DEF IInv
  <2>2. Abstract!Absolution
    BY AbsolutionGiven DEF Abstract!Absolution, Abstract!Satisfied, Abstract!Twin, Absolved
  <2> QED
    BY <2>1, <2>2, AbsolutionGiven DEF Abstract!Next
<1> QED
  BY <1>1, <1>2, RefinementInvariant, PTL DEF Spec, Departs, Abstract!Spec
=============================================================================
