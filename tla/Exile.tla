------------------------------- MODULE Exile -------------------------------
(***************************************************************************)
(* The Twins controller of the matrix operator                             *)
(* (controllers/twins_controller.go) together with what it works on: the   *)
(* Twins and Merovingian custom resources of ONE namespace and the         *)
(* Deployment the Merovingian controller creates.  A Twins that is deleted *)
(* is not simply gone: its finalizer "exiles" it, by appending its         *)
(* container to the Deployment of every Merovingian of the namespace.      *)
(*                                                                         *)
(* API objects live in two places: the API server (tw, mv, dep) and the    *)
(* informer caches of the manager's client (twC, mvC, depC), which every   *)
(* Get and List of the controllers reads and which lag behind.  An Update  *)
(* carries the resourceVersion of the copy it was made from, and the API   *)
(* server rejects it unless that version is still the current one.  A      *)
(* version is never reused, so all that matters of it is whether a copy is *)
(* still current: twFresh, mvFresh, depFresh, crFresh and itemsFresh say   *)
(* so of every copy, and a write of an object outdates all copies of it.   *)
(* The uid of an object tells its successive incarnations apart.           *)
(*                                                                         *)
(* A cached read and the API write that follows it at once are one action: *)
(* whatever happens between the two is the same as a cache that lags a     *)
(* little more.                                                            *)
(***************************************************************************)
EXTENDS Integers, Sequences, FiniteSets

CONSTANTS
  Twins,          \* names of the Twins resources
  Merovingians,   \* names of the Merovingian resources
  ProgramName,    \* "merovingian": the name every Merovingian's Deployment gets
  NoOne,          \* no owner
  MaxTwins,       \* bound: how often each Twins may be created
  MaxMerovingian, \* bound: how often each Merovingian may be created
  MaxDeployment,  \* bound: how often the Deployment may be created
  Budget,         \* bound: how many disturbances the environment may cause
  Disturbances    \* which disturbances it may cause, a subset of AllDisturbances

AllDisturbances ==
  {"callFails", "replyLost", "restart", "editTwins", "editMerovingian",
   "deploymentStatus", "deleteMerovingian"}

ASSUME ConstantsAssumption ==
  /\ NoOne \notin Twins \cup Merovingians
  /\ MaxTwins \in Nat
  /\ MaxMerovingian \in Nat
  /\ MaxDeployment \in Nat
  /\ Budget \in Nat
  /\ Disturbances \subseteq AllDisturbances

VARIABLES
  tw, twC,      \* the Twins resources: in the API server, in the cache
  mv, mvC,      \* the Merovingian resources
  dep, depC,    \* the Deployment named ProgramName
  home,         \* owners of the Service and the Deployment named "twins"
  queue,        \* work queue of the Twins controller: the names in it
  pc,           \* where the controller's only worker is
  cur, cr,      \* the request it serves and its copy of that Twins
  listed, todo, \* the MerovingianList it read, and what of it is still to be visited
  item, md,     \* the one being visited, the containers of its Deployment
  placed,       \* auxiliary: uid of the Deployment cur was put into, 0: none
  twFresh, mvFresh, depFresh,  \* which cached copies are the current version
  crFresh, itemsFresh,         \* whether cr is, which listed Merovingians are
  budget        \* disturbances left

store  == <<tw, mv, dep, home>>
caches == <<twC, mvC, depC>>
worker == <<pc, cur, cr, listed, todo, item, md, placed>>
fresh  == <<twFresh, mvFresh, depFresh, crFresh, itemsFresh>>
vars   == <<store, caches, queue, worker, fresh, budget>>

-----------------------------------------------------------------------------
(***************************************************************************)
(* The objects.                                                            *)
(***************************************************************************)
Names == Twins \cup Merovingians

\* uid is auxiliary: the incarnation of the Twins, 0 for the host container.
Container == [name : Names, uid : Nat]

TwinsObject == [st : {"absent", "live", "deleting"}, fin : BOOLEAN, uid : Nat]

\* from is auxiliary: uid of the Deployment the status was computed from.
MerovingianObject ==
  [live : BOOLEAN, uid : Nat, count : Nat, exiled : SUBSET Names, from : Nat]

Owner == [name : Names \cup {NoOne}, uid : Nat]
Nobody == [name |-> NoOne, uid |-> 0]

DeploymentObject ==
  [live : BOOLEAN, uid : Nat, owner : Owner, containers : Seq(Container)]

Children == {"Service", "Deployment"}

NoTwins == [st |-> "absent", fin |-> FALSE, uid |-> 0]
NoMerovingian ==
  [live |-> FALSE, uid |-> 0, count |-> 0, exiled |-> {}, from |-> 0]
NoDeployment ==
  [live |-> FALSE, uid |-> 0, owner |-> Nobody, containers |-> <<>>]

ContainerNames(cs) == {cs[i].name : i \in DOMAIN cs}

Init ==
  /\ tw = [t \in Twins |-> NoTwins]
  /\ mv = [m \in Merovingians |-> NoMerovingian]
  /\ dep = NoDeployment
  /\ home = [k \in Children |-> Nobody]
  /\ twC = tw /\ mvC = mv /\ depC = dep
  /\ queue = {}
  /\ pc = "idle"
  /\ cur = NoOne /\ cr = NoTwins
  /\ listed = {} /\ todo = {} /\ item = NoOne /\ md = <<>>
  /\ placed = [m \in Merovingians |-> 0]
  /\ twFresh = Twins /\ mvFresh = Merovingians /\ depFresh = TRUE
  /\ crFresh = FALSE /\ itemsFresh = {}
  /\ budget = Budget

\* The writes of the API server: a new version of the object, every copy outdated.
WriteTwins(t, obj) ==
  /\ tw' = [tw EXCEPT ![t] = obj]
  /\ twFresh' = twFresh \ {t}
  /\ UNCHANGED <<mv, dep, home, caches, mvFresh, depFresh>>

WriteMerovingian(m, obj) ==
  /\ mv' = [mv EXCEPT ![m] = obj]
  /\ mvFresh' = mvFresh \ {m}
  /\ UNCHANGED <<tw, dep, home, caches, twFresh, depFresh>>

WriteDeployment(obj) ==
  /\ dep' = obj
  /\ depFresh' = FALSE
  /\ UNCHANGED <<tw, mv, home, caches, twFresh, mvFresh>>

\* A write by someone else than the worker: its own copies are outdated, too.
OthersWriteTwins(t, obj) ==
  /\ WriteTwins(t, obj)
  /\ crFresh' = (crFresh /\ cur # t)
  /\ UNCHANGED <<queue, worker, itemsFresh>>

OthersWriteMerovingian(m, obj) ==
  /\ WriteMerovingian(m, obj)
  /\ itemsFresh' = itemsFresh \ {m}
  /\ UNCHANGED <<queue, worker, crFresh>>

OthersWriteDeployment(obj) ==
  /\ WriteDeployment(obj)
  /\ UNCHANGED <<queue, worker, crFresh, itemsFresh>>

-----------------------------------------------------------------------------
(***************************************************************************)
(* The environment: users, the garbage collector and the built-in          *)
(* controllers, the watches that feed the caches.                          *)
(***************************************************************************)
Disturb(kind) ==
  /\ kind \in Disturbances
  /\ budget > 0
  /\ budget' = budget - 1

CreateTwins(t) ==
  /\ tw[t].st = "absent"
  /\ tw[t].uid < MaxTwins
  /\ OthersWriteTwins(t, [st |-> "live", fin |-> FALSE, uid |-> tw[t].uid + 1])
  /\ UNCHANGED budget

\* A finalizer turns the deletion into a deletionTimestamp.
DeleteTwins(t) ==
  /\ tw[t].st = "live"
  /\ OthersWriteTwins(t, [tw[t] EXCEPT !.st = IF tw[t].fin THEN "deleting" ELSE "absent"])
  /\ UNCHANGED budget

EditTwins(t) ==
  /\ Disturb("editTwins")
  /\ tw[t].st # "absent"
  /\ OthersWriteTwins(t, tw[t])

CreateMerovingian(m) ==
  /\ ~mv[m].live
  /\ mv[m].uid < MaxMerovingian
  /\ OthersWriteMerovingian(m, [NoMerovingian EXCEPT !.live = TRUE, !.uid = mv[m].uid + 1])
  /\ UNCHANGED budget

\* No finalizer on a Merovingian: it goes at once.
DeleteMerovingian(m) ==
  /\ Disturb("deleteMerovingian")
  /\ mv[m].live
  /\ OthersWriteMerovingian(m, [NoMerovingian EXCEPT !.uid = mv[m].uid])

EditMerovingian(m) ==
  /\ Disturb("editMerovingian")
  /\ mv[m].live
  /\ OthersWriteMerovingian(m, mv[m])

\* The deployment controller writes the Deployment's status.
DeploymentStatus ==
  /\ Disturb("deploymentStatus")
  /\ dep.live
  /\ OthersWriteDeployment(dep)

CollectDeployment ==
  /\ dep.live
  /\ ~\E m \in Merovingians : mv[m].live /\ dep.owner = [name |-> m, uid |-> mv[m].uid]
  /\ OthersWriteDeployment([NoDeployment EXCEPT !.uid = dep.uid])
  /\ UNCHANGED budget

CollectHome(k) ==
  /\ home[k] # Nobody
  /\ ~\E t \in Twins : tw[t].st # "absent" /\ home[k] = [name |-> t, uid |-> tw[t].uid]
  /\ home' = [home EXCEPT ![k] = Nobody]
  /\ UNCHANGED <<tw, mv, dep, caches, queue, worker, fresh, budget>>

\* A watch event reaches the cache; an event of a Twins also queues it.
SyncTwins(t) ==
  /\ t \notin twFresh
  /\ twC' = [twC EXCEPT ![t] = tw[t]]
  /\ twFresh' = twFresh \cup {t}
  /\ queue' = queue \cup {t}
  /\ UNCHANGED <<store, mvC, depC, worker, mvFresh, depFresh, crFresh, itemsFresh, budget>>

SyncMerovingian(m) ==
  /\ m \notin mvFresh
  /\ mvC' = [mvC EXCEPT ![m] = mv[m]]
  /\ mvFresh' = mvFresh \cup {m}
  /\ UNCHANGED <<store, twC, depC, queue, worker, twFresh, depFresh, crFresh, itemsFresh, budget>>

SyncDeployment ==
  /\ ~depFresh
  /\ depC' = dep
  /\ depFresh' = TRUE
  /\ UNCHANGED <<store, twC, mvC, queue, worker, twFresh, mvFresh, crFresh, itemsFresh, budget>>

\* An event of an owned Service or Deployment, or the periodic resync.
Requeue(t) ==
  /\ twC[t].st # "absent"
  /\ queue' = queue \cup {t}
  /\ UNCHANGED <<store, caches, worker, fresh, budget>>

-----------------------------------------------------------------------------
(***************************************************************************)
(* The Merovingian controller, as far as it touches the Deployment.  The   *)
(* other objects it creates concern no Twins.  CreateOrUpdate with the     *)
(* empty mutation never changes a Deployment that exists, so containers    *)
(* appended by an exile stay.                                              *)
(***************************************************************************)
\* Mutant of CreateOrUpdate: a mutation that restores the desired containers.
CreateOrUpdate_Restores(obj) ==
  OthersWriteDeployment(IF dep.live THEN [obj EXCEPT !.uid = dep.uid] ELSE obj)

\* What CreateOrUpdate leaves in the API server: a Deployment the cache already
\* shows is left alone, and a Create of one that exists fails (AlreadyExists).
CreateOrUpdate(obj) ==
  /\ ~depC.live
  /\ ~dep.live
  /\ OthersWriteDeployment(obj)

HostContainer(m) == [name |-> m, uid |-> 0]

NewDeployment(m, u) ==
  [live |-> TRUE, uid |-> dep.uid + 1,
   owner |-> [name |-> m, uid |-> u],
   containers |-> <<HostContainer(m)>>]

\* The Merovingian was read four calls before the Deployment is made: the incarnation u
\* in hand is one the cache shows or has shown.
MerovingianReconcile(m) ==
  /\ dep.uid < MaxDeployment
  /\ \E u \in 1 .. mvC[m].uid : CreateOrUpdate(NewDeployment(m, u))
  /\ UNCHANGED budget

-----------------------------------------------------------------------------
(***************************************************************************)
(* The Twins controller.                                                   *)
(***************************************************************************)
\* Mutant of Return: the list of Merovingians still to be visited survives.
Return_KeepsTodo ==
  /\ pc' = "idle"
  /\ cur' = NoOne
  /\ cr' = NoTwins
  /\ listed' = {} /\ todo' = todo
  /\ item' = NoOne
  /\ md' = <<>>
  /\ placed' = [m \in Merovingians |-> 0]
  /\ crFresh' = FALSE
  /\ itemsFresh' = {}

\* Reconcile returns; the worker's variables go out of scope.
Return ==
  /\ pc' = "idle"
  /\ cur' = NoOne
  /\ cr' = NoTwins
  /\ listed' = {} /\ todo' = {}
  /\ item' = NoOne
  /\ md' = <<>>
  /\ placed' = [m \in Merovingians |-> 0]
  /\ crFresh' = FALSE
  /\ itemsFresh' = {}

\* Returning an error puts the request back into the queue.
ReturnError == Return /\ queue' = queue \cup {cur}
ReturnNil   == Return /\ UNCHANGED queue

\* An API call is rejected, or fails: nothing changes but the worker.
Rejected == ReturnError /\ UNCHANGED <<store, caches, twFresh, mvFresh, depFresh>>

\* Mutant of AfterFinalizer: the deletionTimestamp is not looked at.
AfterFinalizer_Always(obj) == "list"

\* The branch Reconcile takes once the finalizer is on its copy.
AfterFinalizer(obj) == IF obj.st = "deleting" THEN "list" ELSE "service"

\* Get from the cache; NotFound ends the reconcile.
Begin(t) ==
  /\ pc = "idle"
  /\ t \in queue
  /\ queue' = queue \ {t}
  /\ IF twC[t].st = "absent"
       THEN UNCHANGED <<pc, cur, cr, crFresh>>
       ELSE /\ cur' = t
            /\ cr' = twC[t]
            /\ crFresh' = (t \in twFresh)
            /\ pc' = IF twC[t].fin THEN AfterFinalizer(twC[t]) ELSE "finalizer"
  /\ UNCHANGED <<store, caches, listed, todo, item, md, placed,
                 twFresh, mvFresh, depFresh, itemsFresh, budget>>

\* Whether the API server accepts the Update of the worker's Twins.
TwinsUpdateAccepted == tw[cur].st # "absent" /\ crFresh

AddFinalizer ==
  /\ pc = "finalizer"
  /\ TwinsUpdateAccepted
  /\ cr' = [cr EXCEPT !.fin = TRUE]
  /\ WriteTwins(cur, cr')
  /\ pc' = AfterFinalizer(cr)
  /\ UNCHANGED <<queue, cur, listed, todo, item, md, placed, crFresh, itemsFresh, budget>>

\* Mutant of AddFinalizerRejected: the error is logged, Reconcile goes on.
AddFinalizerRejected_GoesOn ==
  /\ pc = "finalizer"
  /\ ~TwinsUpdateAccepted
  /\ pc' = AfterFinalizer(cr)
  /\ UNCHANGED <<store, caches, queue, cur, cr, listed, todo, item, md, placed, fresh, budget>>

AddFinalizerRejected ==
  /\ pc = "finalizer"
  /\ ~TwinsUpdateAccepted
  /\ Rejected
  /\ UNCHANGED budget

\* A live Twins: createService, then CreateOrUpdate of its own Deployment.  The caches
\* of these two are not modelled: one may show an object that is gone, and nothing is
\* created, or may not show one that exists, and the Create is refused.  An object of
\* that name is left as it is, whoever owns it.
Provision(k) ==
  \/ home' = home
  \/ home[k] = Nobody /\ home' = [home EXCEPT ![k] = [name |-> cur, uid |-> cr.uid]]

CreateService ==
  /\ pc = "service"
  /\ Provision("Service")
  /\ pc' = "deployment"
  /\ UNCHANGED <<tw, mv, dep, caches, queue, cur, cr, listed, todo, item, md, placed, fresh, budget>>

CreateDeployment ==
  /\ pc = "deployment"
  /\ Provision("Deployment")
  /\ ReturnNil
  /\ UNCHANGED <<tw, mv, dep, caches, twFresh, mvFresh, depFresh, budget>>

AlreadyExists ==
  /\ \/ pc = "service" /\ home["Service"] # Nobody
     \/ pc = "deployment" /\ home["Deployment"] # Nobody
  /\ Rejected
  /\ UNCHANGED budget

\* executeFinalizer: the list comes from the cache, in no particular order.
ListMerovingians ==
  /\ pc = "list"
  /\ listed' = {m \in Merovingians : mvC[m].live}
  /\ todo' = listed'
  /\ itemsFresh' = listed' \cap mvFresh
  /\ pc' = IF todo' = {} THEN "release" ELSE "exile"
  /\ UNCHANGED <<store, caches, queue, cur, cr, item, md, placed,
                 twFresh, mvFresh, depFresh, crFresh, budget>>

\* exileTo: the container appended for the Twins in the worker's hands.
ExileContainer == [name |-> cur, uid |-> cr.uid]

\* The Deployment is looked up under the resource's own name, in the cache.  (Those of
\* the other kinds, "twins", "architect" and "oracle", are not modelled, nor is a
\* Merovingian of such a name.)
DeploymentFound(m) == m = ProgramName /\ depC.live

\* The API server wants the current version and distinct container names.
DeploymentUpdateAccepted ==
  /\ dep.live
  /\ depFresh
  /\ cur \notin ContainerNames(depC.containers)

WithExile == [dep EXCEPT !.containers = Append(depC.containers, ExileContainer)]

ExileTo(m) ==
  /\ pc = "exile"
  /\ m \in todo
  /\ DeploymentFound(m)
  /\ DeploymentUpdateAccepted
  /\ WriteDeployment(WithExile)
  /\ item' = m
  /\ md' = WithExile.containers
  /\ placed' = [placed EXCEPT ![m] = dep.uid]
  /\ pc' = "status"
  /\ UNCHANGED <<queue, cur, cr, listed, todo, crFresh, itemsFresh, budget>>

\* Mutant of ExileToFails: a Merovingian that cannot be served is skipped.
ExileToFails_Skips(m) ==
  /\ pc = "exile"
  /\ m \in todo
  /\ ~(DeploymentFound(m) /\ DeploymentUpdateAccepted)
  /\ todo' = todo \ {m}
  /\ pc' = IF todo' = {} THEN "release" ELSE "exile"
  /\ UNCHANGED <<store, caches, queue, cur, cr, listed, item, md, placed, fresh, budget>>

ExileToFails(m) ==
  /\ pc = "exile"
  /\ m \in todo
  /\ ~(DeploymentFound(m) /\ DeploymentUpdateAccepted)
  /\ Rejected
  /\ UNCHANGED budget

StatusUpdateAccepted == mv[item].live /\ item \in itemsFresh

\* Mutant of WithStatus: the host container is counted, too.
WithStatus_CountsHost ==
  [mv[item] EXCEPT !.count = Len(md),
                   !.exiled = ContainerNames(md) \ {item},
                   !.from = placed[item]]

WithStatus ==
  [mv[item] EXCEPT !.count = Len(md) - 1,
                   !.exiled = ContainerNames(md) \ {item},
                   !.from = placed[item]]

UpdateStatus ==
  /\ pc = "status"
  /\ StatusUpdateAccepted
  /\ WriteMerovingian(item, WithStatus)
  /\ todo' = todo \ {item}
  /\ pc' = IF todo' = {} THEN "release" ELSE "exile"
  /\ item' = NoOne
  /\ md' = <<>>
  /\ UNCHANGED <<queue, cur, cr, listed, placed, crFresh, itemsFresh, budget>>

\* Mutant of UpdateStatusRejected: the error is logged, the loop goes on.
UpdateStatusRejected_GoesOn ==
  /\ pc = "status"
  /\ ~StatusUpdateAccepted
  /\ todo' = todo \ {item}
  /\ pc' = IF todo' = {} THEN "release" ELSE "exile"
  /\ item' = NoOne
  /\ md' = <<>>
  /\ UNCHANGED <<store, caches, queue, cur, cr, listed, placed, fresh, budget>>

UpdateStatusRejected ==
  /\ pc = "status"
  /\ ~StatusUpdateAccepted
  /\ Rejected
  /\ UNCHANGED budget

\* Mutant of Released: the Update is sent with the finalizer still there.
Released_KeepsFinalizer == tw[cur]

\* The last finalizer gone, the API server removes the object.
Released == [tw[cur] EXCEPT !.st = "absent", !.fin = FALSE]

RemoveFinalizer ==
  /\ pc = "release"
  /\ TwinsUpdateAccepted
  /\ WriteTwins(cur, Released)
  /\ ReturnNil
  /\ UNCHANGED budget

RemoveFinalizerRejected ==
  /\ pc = "release"
  /\ ~TwinsUpdateAccepted
  /\ Rejected
  /\ UNCHANGED budget

-----------------------------------------------------------------------------
(***************************************************************************)
(* Faults of the controller's calls.                                       *)
(***************************************************************************)
\* A call fails without effect (time-out, overload): Reconcile returns the error.
CallFails ==
  /\ Disturb("callFails")
  /\ pc # "idle"
  /\ Rejected

\* A write takes effect but its reply is lost: Reconcile sees an error.
ReplyLost ==
  /\ Disturb("replyLost")
  /\ \/ /\ pc = "finalizer"
        /\ TwinsUpdateAccepted
        /\ WriteTwins(cur, [cr EXCEPT !.fin = TRUE])
     \/ /\ pc = "exile"
        /\ \E m \in todo : DeploymentFound(m)
        /\ DeploymentUpdateAccepted
        /\ WriteDeployment(WithExile)
     \/ /\ pc = "status"
        /\ StatusUpdateAccepted
        /\ WriteMerovingian(item, WithStatus)
     \/ /\ pc = "release"
        /\ TwinsUpdateAccepted
        /\ WriteTwins(cur, Released)
  /\ ReturnError

\* The operator restarts: the caches are listed afresh, everything is queued.
Restart ==
  /\ Disturb("restart")
  /\ Return
  /\ twC' = tw /\ mvC' = mv /\ depC' = dep
  /\ twFresh' = Twins /\ mvFresh' = Merovingians /\ depFresh' = TRUE
  /\ queue' = {t \in Twins : tw[t].st # "absent"}
  /\ UNCHANGED store

-----------------------------------------------------------------------------
User ==
  \/ \E t \in Twins : CreateTwins(t) \/ DeleteTwins(t) \/ EditTwins(t)
  \/ \E m \in Merovingians :
       CreateMerovingian(m) \/ DeleteMerovingian(m) \/ EditMerovingian(m)

Cluster ==
  \/ DeploymentStatus
  \/ CollectDeployment
  \/ \E k \in Children : CollectHome(k)
  \/ \E t \in Twins : SyncTwins(t) \/ Requeue(t)
  \/ \E m \in Merovingians : SyncMerovingian(m) \/ MerovingianReconcile(m)
  \/ SyncDeployment

Worker ==
  \/ \E t \in Twins : Begin(t)
  \/ AddFinalizer \/ AddFinalizerRejected
  \/ CreateService \/ CreateDeployment \/ AlreadyExists
  \/ ListMerovingians
  \/ \E m \in Merovingians : ExileTo(m) \/ ExileToFails(m)
  \/ UpdateStatus \/ UpdateStatusRejected
  \/ RemoveFinalizer \/ RemoveFinalizerRejected

Faults == CallFails \/ ReplyLost \/ Restart

Next == User \/ Cluster \/ Worker \/ Faults

Spec == Init /\ [][Next]_vars

-----------------------------------------------------------------------------
(***************************************************************************)
(* Properties.                                                             *)
(***************************************************************************)
\* Every variable stays in its declared shape: objects of the API server, cached
\* copies and the locals of Reconcile (twins_controller.go).
TypeOK ==
  /\ tw \in [Twins -> TwinsObject] /\ twC \in [Twins -> TwinsObject]
  /\ mv \in [Merovingians -> MerovingianObject] /\ mvC \in [Merovingians -> MerovingianObject]
  /\ dep \in DeploymentObject /\ depC \in DeploymentObject
  /\ home \in [Children -> Owner]
  /\ queue \subseteq Twins
  /\ pc \in {"idle", "finalizer", "service", "deployment", "list", "exile", "status", "release"}
  /\ cur \in Twins \cup {NoOne} /\ cr \in TwinsObject
  /\ listed \subseteq Merovingians /\ todo \subseteq listed
  /\ item \in Merovingians \cup {NoOne} /\ md \in Seq(Container)
  /\ placed \in [Merovingians -> Nat]
  /\ twFresh \subseteq Twins /\ mvFresh \subseteq Merovingians /\ depFresh \in BOOLEAN
  /\ crFresh \in BOOLEAN /\ itemsFresh \subseteq listed
  /\ budget \in Nat

\* A live Twins is never running inside the Merovingian's Deployment: exileTo only
\* ever appends a Twins whose deletion is under way, whatever stale copies of the
\* Twins and of the Deployment the controller has read.
NoLiveExile ==
  \A i \in DOMAIN dep.containers :
    LET c == dep.containers[i] IN
    c.uid > 0 => /\ c.name \in Twins
                 /\ tw[c.name].uid = c.uid => tw[c.name].st # "live"
                 /\ tw[c.name].uid >= c.uid

\* What a Twins owns it owns under the finalizer's protection: as long as the Twins
\* its Service or Deployment was made for exists, it cannot leave without being exiled
\* first, however old the copy Reconcile worked from.
OwnerHasFinalizer ==
  \A k \in Children, t \in Twins :
    (home[k] = [name |-> t, uid |-> tw[t].uid] /\ tw[t].st # "absent") => tw[t].fin

\* status.exiled, written in a second call after the Deployment, never names a
\* container that is not there, nor counts one too many, as long as the Deployment
\* it was computed from has not been replaced (exileTo).
StatusBacked ==
  \A m \in Merovingians :
    (mv[m].live /\ mv[m].from > 0 /\ dep.live /\ dep.uid = mv[m].from)
      => /\ mv[m].exiled \subseteq ContainerNames(dep.containers)
         /\ mv[m].count < Len(dep.containers)

\* Whoever writes the Deployment (either controller, from whatever stale copy), the
\* containers already in it stay, in their order, as long as it is not replaced.
ExilesStay ==
  [][dep.live /\ dep'.live /\ dep'.uid = dep.uid
       => /\ Len(dep.containers) <= Len(dep'.containers)
          /\ \A i \in DOMAIN dep.containers : dep'.containers[i] = dep.containers[i]]_vars

\* A Twins with the finalizer leaves the cluster only while it is being deleted and
\* only after executeFinalizer put it into the Deployment of every Merovingian it
\* listed; it is still there unless that Deployment has been replaced meanwhile.
ReleasedOnlyIfExiled ==
  [][\A t \in Twins :
       (tw[t].fin /\ tw'[t].st = "absent")
         => /\ tw[t].st = "deleting"
            /\ \A m \in listed :
                 /\ placed[m] > 0
                 /\ (dep.live /\ dep.uid = placed[m])
                       => t \in ContainerNames(dep.containers)]_vars

\* When a Twins leaves, every Merovingian it was exiled to says so: its status names the
\* Twins and counts exactly the exiles of the Deployment, though Deployment and status
\* are two calls and a failed attempt may have left the status behind.  (A Merovingian
\* that was created anew meanwhile has no status.)
LeftIsReported ==
  [][\A t \in Twins :
       (tw[t].fin /\ tw'[t].st = "absent")
         => \A m \in listed :
              (mv[m].live /\ (m \in itemsFresh \/ mv[m].from > 0))
                => /\ t \in mv[m].exiled \cup {m}
                   /\ (dep.live /\ dep.uid = placed[m])
                         => mv[m].count + 1 = Len(dep.containers)]_vars

\* A Twins that is being deleted and whose container is in the Deployment already, but
\* not by the attempt Reconcile is at: a retry, or an earlier Twins of its name.
Stranded(t) ==
  /\ tw[t].st = "deleting"
  /\ dep.live /\ t \in ContainerNames(dep.containers)
  /\ cur = t => /\ pc \notin {"status", "release"}
                /\ pc = "exile" => todo = listed /\ listed # {}

\* Appending is not idempotent (exileTo): a Twins that is stranded stays so, whatever
\* Reconcile reads, retries or restarts, until its Deployment goes or the cache knows
\* of no Merovingian any more.
StrandedStays ==
  [][\A t \in Twins :
       (Stranded(t) /\ dep'.live /\ dep'.uid = dep.uid /\ \E m \in Merovingians : mvC[m].live)
         => Stranded(t)']_vars

(***************************************************************************)
(* Liveness.  The watches deliver, the garbage collector and the workers   *)
(* run, and the work queue is first-in first-out; users, faults and        *)
(* resyncs are under no obligation.                                        *)
(***************************************************************************)
Fairness ==
  /\ \A t \in Twins : WF_vars(SyncTwins(t)) /\ SF_vars(Begin(t))
  /\ \A m \in Merovingians :
       /\ WF_vars(SyncMerovingian(m))
       /\ WF_vars(mvC[m].live /\ MerovingianReconcile(m))
  /\ WF_vars(SyncDeployment)
  /\ WF_vars(CollectDeployment)
  /\ WF_vars(Worker /\ pc # "idle")

FairSpec == Spec /\ Fairness

\* README: a reconcile function synchronizes "untile the desired state is reached":
\* a Twins whose deletion was requested is eventually gone.
DeletionCompletes ==
  \A t \in Twins : tw[t].st = "deleting" ~> tw[t].st # "deleting"

\* The Exiled column is described as the "Current count of exiled Matrix programs":
\* time and again it is the number of exiles in the Deployment.
CountCurrent ==
  \A m \in Merovingians :
    []<>((mv[m].live /\ dep.live) => mv[m].count = Len(dep.containers) - 1)

(***************************************************************************)
(* The abstract specification: what all of this comes to for a Twins.      *)
(***************************************************************************)
Phase(obj) ==
  CASE obj.st = "absent"             -> "absent"
    [] obj.st = "deleting"           -> "leaving"
    [] obj.st = "live" /\ obj.fin    -> "bound"
    [] obj.st = "live" /\ ~obj.fin   -> "free"

\* The Deployment's owner is a Merovingian that exists.
Cared == \E m \in Merovingians : mv[m].live /\ dep.owner = [name |-> m, uid |-> mv[m].uid]

Host == IF ~dep.live THEN "none" ELSE IF Cared THEN "kept" ELSE "orphaned"

\* The containers behind the host's, which is the first.
Guests == {dep.containers[i] : i \in 2 .. Len(dep.containers)}

\* Whom Reconcile, on a current copy, has exiled, or has found no Merovingian for.
Absolved ==
  {t \in Twins :
     cur = t /\ crFresh /\ (pc \in {"status", "release"} \/ (pc = "exile" /\ todo # listed))}

Abstract == INSTANCE Departure WITH
  phase    <- [t \in Twins |-> Phase(tw[t])],
  uid      <- [t \in Twins |-> tw[t].uid],
  host     <- Host,
  guests   <- Guests,
  absolved <- Absolved

\* Whatever stale lists and copies Reconcile works from and whatever fails on the way,
\* a Twins under the finalizer departs only after it was in the Merovingian's
\* Deployment, or no Merovingian kept one, at a moment of its own deletion; nobody
\* enters the Deployment before, nor leaves it while it lives.
Departs == Abstract!Spec
=============================================================================
