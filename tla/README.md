# The matrix operator in TLA+

A Kubernetes operator (controller-runtime, one worker per controller, a client that
reads from informer caches) for five kinds of resources: `Oracle`, `Architect`,
`Merovingian`, `Twins` and `Agent`. This directory holds a TLA+ model of what it does,
the configurations that model-check it with TLC, and theorems about it checked by TLAPS.

## Inventory

| component | state | operations | what makes it correct |
|---|---|---|---|
| Twins controller (`controllers/twins_controller.go`) | Twins with finalizer, its Service and Deployment; the Merovingian's Deployment and status | `Reconcile`, `addFinalizer`, `executeFinalizer`, `exileTo` | a deleted Twins is exiled into every Merovingian before it is let go, once, never while it lives; the status says what the Deployment holds; deletion completes |
| Merovingian controller (`controllers/merovingian_controller.go`) | ServiceAccount, ClusterRole, ClusterRoleBinding, Service, Deployment | `Reconcile`, `reconcilePermissions` | the children exist, belong to the resource, and the exiles appended by the Twins controller survive |
| Agent controller (`controllers/agent_controller.go`) | StatefulSet, a Service per agent, a watcher goroutine per pod, `status.agents` | `Reconcile`, `createServicePerPod`, `tryInitAgent`, the watcher loop, `podUpdates` | one watcher per pod, no report of another agent lost, a restarted agent gets its last health, no goroutine blocks the worker |
| Architect controller (`controllers/architect_controller.go`) | Namespace, permissions, Deployment | `Reconcile`, `reconcilePermissions` | the children exist in the order they depend on each other |
| Oracle controller (`controllers/oracle_controller.go`) | ConfigMap, Service, Deployment | `Reconcile`, `reconcileConfigMap` | the Deployment mounts the ConfigMap that holds the resource's names |
| Oracle webhook (`api/v1alpha1/oracle_webhook.go`) | the object under admission | `Default`, `ValidateCreate/Update/Delete` | every admissible object is admitted, names have no digits |
| Agent versions (`api/v1alpha1/agent__conversion.go`) | the stored v1beta1 object | `ConvertTo`, `ConvertFrom` | a write through the old version keeps what it does not know |
| helpers (`controllers/programs.go`) | - | `metadata`, `labels`, `createOrUpdate`, `createService` | names of children |
| manager (`main.go`) | - | set-up, start, restart | - |

The controllers share no memory. They interact through the API server: the Twins
controller writes the Deployment and the status of Merovingians, which the Merovingian
controller reconciles, too; the garbage collector removes what has lost its owner; every
read may be old, and every write may be refused because its copy was. The only
concurrency inside the process are the Agent controller's watcher goroutines.

The hard behaviours are: writes made from old copies, multi-step operations of which
only the first steps take effect, restarts and lost replies between the steps, resources
created again under an old name, goroutines that outlive what they watch. The list with
the lines where they bite is under `hazards` in `PROJECT.json`.

## Modules

| module | models | checked by | proved in |
|---|---|---|---|
| `Exile` | the Twins controller, the Deployment of the Merovingian controller, the API server and the caches between them, for one namespace | `MCExile`, `Exile*.cfg` | `ExileProofs` |
| `Departure` | what deleting a Twins promises: the abstract specification `Exile` implements | `ExileReborn.cfg` (`Departs`) | `DepartureProofs` |
| `AgentVersions` | the two versions of `spec.agents` and the conversion between them | through `AgentWatch` | `AgentWatchProofs` |
| `AgentWatch` | the Agent controller for one Agent: StatefulSet, pods, initialisation, goroutines, status | `MCAgentWatch`, `Watch*.cfg` | `AgentWatchProofs` |
| `Vigil` | what watching the pods promises: the abstract specification `AgentWatch` implements | `WatchRace.cfg` (`Vigilant`) | `VigilProofs` |
| `Provision` | the Architect, Merovingian and Oracle controllers, and the Agent controller's part for an Agent, with all the children they make, for any number of resources and namespaces; what the Oracle's webhooks admit | `MCProvision`, `Provision*.cfg` | `ProvisionProofs` |
| `Custody` | what the controllers promise about whose the children are: the abstract specification `Provision` implements | `ProvisionRivals.cfg`, `ProvisionFair.cfg` (`InCustody`) | `CustodyProofs` |

### What they have in common

*API server and caches.* Every `Get` and `List` of a controller reads an informer cache.
An object is therefore two variables, the one in the API server and the one in the cache
(`dep`, `depC`), and a `Sync...` action brings the second up to date at some later time.
An `Update` carries the resourceVersion of the copy it was made from and is rejected if
that is no longer the current one. Versions are never reused, so all that matters about a
copy is whether it is still current: that is one bit beside every copy (`depFresh`,
`crFresh`, `w[k].fresh`, `objFresh`), cleared by every write of the object. A `uid` tells the
incarnations of an object apart.

*Granularity.* A cached read and the API call that directly follows it are one action:
anything that happens between the two could as well have happened before the read, the
cache lagging a little more. Two API calls are never one action, except in `ReconcileAgent` and
`MerovingianReconcile`, whose calls for other children are in `Provision`. So `exileTo` is two
actions (`ExileTo`, `UpdateStatus`), and an interleaving, a fault or a restart between any
two calls of a reconcile is a behaviour of the model.

*Work queue and worker.* controller-runtime runs one worker per controller
(MaxConcurrentReconciles is 1). The queue is a set of names; `pc` is where the worker is
in `Reconcile`; the variables beside it are the locals of the functions it is in.
Returning an error puts the request back. A restart empties the process, lists the caches
afresh and queues everything.

*Environment.* Users create, edit and delete resources; the garbage collector removes
what has lost its owner; built-in controllers and the kubelet are modelled from how the
code uses them (`external` in the map). Faults and interferences count against `Budget`,
and a run chooses the kinds it allows (`Disturbances`).

### Exile

`tw`, `mv` are the Twins and Merovingian objects, `dep` the one Deployment called
"merovingian" (every Merovingian's child gets the same name, `ProgramName`), `home` the
owners of the Service and Deployment called "twins". `Begin` .. `RemoveFinalizer` follow
`TwinsReconciler.Reconcile` in the order of its calls:

| code | actions |
|---|---|
| `Get` and the branch on the finalizer | `Begin` |
| `addFinalizer` | `AddFinalizer`, `AddFinalizerRejected` |
| `createService`, `CreateOrUpdate` of the Twins' Deployment; one that exists and is not in the cache yet | `CreateService`, `CreateDeployment`; `AlreadyExists` |
| `executeFinalizer`: `List`, loop, finalizer removed | `ListMerovingians`, `RemoveFinalizer`, `RemoveFinalizerRejected` |
| `exileTo`: Deployment, then status | `ExileTo`, `ExileToFails`, `UpdateStatus`, `UpdateStatusRejected` |
| any call failing, any reply lost, the process restarting | `CallFails`, `ReplyLost`, `Restart` |
| `MerovingianReconciler.Reconcile`, its Deployment | `MerovingianReconcile` |

`MerovingianReconciler.Reconcile` makes four other children, with calls that may fail,
between its `Get` and the Deployment. They are in `Provision`; here it may stop before the
Deployment, and the incarnation of the Merovingian it makes the Deployment for is any the
cache has shown so far, since the copy is older than those calls. For the Twins' own
children a cache that lags may hide one that exists (`AlreadyExists`) or show one that is
gone, which is then not created; no property depends on which.

Auxiliary fields, read by properties only: a container's `uid` (which incarnation of a
Twins it was made for; 0 is the host), a status's `from` (the Deployment it was computed
from) and `placed` (the Deployment each visited Merovingian's exile went into).

### Departure

The caches, copies, conflicts and the order of calls are gone; a Twins is `absent`,
`free` (without finalizer), `bound` or `leaving`, the Merovingian's Deployment (`host`)
is not there, `kept` by its owner or `orphaned`, and `guests` are the Twins in it. A
Twins that is bound departs only after it was `absolved`: after a moment of its own
leaving in which it was a guest or in which no Merovingian kept a Deployment. Guests are
admitted only once they leave, stay until their host falls, and are never two of a name;
a child is made for a Twins only once that is bound. `Exile` maps to it (end of the module):

| `Departure` | in `Exile` |
|---|---|
| `phase[t]`, `uid[t]` | `Phase(tw[t])`: state and finalizer of the object in the API server |
| `home` | `home` |
| `host` | `Host`: `dep.live`, and whether its owner reference is that of a Merovingian that lives (`Cared`) |
| `guests` | `Guests`: the containers but the first, by name and incarnation |
| `absolved` | `Absolved`: the Twins the worker has in hand on a current copy, once it has exiled it at least once or found no Merovingian in its list |

The point of the mapping is in the last row: `executeFinalizer` works from a list of
Merovingians that may be old when the finalizer goes, and from a Deployment that may have
been replaced meanwhile; the abstract specification says what is true of it nevertheless.

### AgentWatch

`registry` is the map `agentsWatchers`, `w` the goroutines. A goroutine is in its
`select` or between its `GET` and the status update; `ticks` says whether its ticker runs,
is stopped with one tick left in the channel, or is stopped. `Stop()` is split where it
blocks: `StopTicker` (the ticker) belongs to the action that calls it, and the worker then
stays in `stop` or `drop` until the goroutine receives from `done` (`StopDone`).

| code | actions |
|---|---|
| `Reconcile` of an Agent: StatefulSet | `ReconcileAgent` |
| `Reconcile` of a pod's name, `tryInitAgent` up to the first POST | `BeginGone`, `BeginOrphan`, `BeginInit`, `BeginPanics` |
| `initAgentName`, `initAgentHealth` | `PostName`, `PostHealth`, `PostRefused`, `PostFails` |
| `Stop`, the new goroutine | `StopDone`, `StartWatcher` |
| the goroutine: tick, `Get` | `Tick` |
| the `GET` | `Answer`, `GetFails` |
| merging, `Status().Update` | `Report`, `ReportFails` |
| `podUpdates` | `SyncPod`, `PodEvent` |

The Agent is stored as v1beta1; `CreateAgent` writes it through either version, `EditAgent`
through v1beta1 and `EditV1alpha1` through v1alpha1, whose conversions (`AgentVersions`)
carry neither the healths nor the status. What the API server does with the status of an
object it has converted is not this program's: that it is dropped and that it is kept are
both behaviours of the model.

The `GET` and the status update are two actions, with the answer in the goroutine between
them. Only a write of the Agent or of its status makes the update conflict; while the
answer is in hand the container may take damage, be restarted, be told another name or
health, or be gone with its pod, and what is entered is then something no container says
any more. So `ReportsKept` speaks of the answer given since the last tick, not of what the
container says when it is entered. A POST that is answered with anything but 200 is taken
for done (only the status code is logged): `Answered`.

The health of an agent is what the container at the pod's address says; it may sink at any
time (`Damage`), and a restarted container has neither its name nor its damage. A write
that changes nothing makes no new version; without that two goroutines could reject each
other's reports for ever.

### Vigil

Work queue, caches, the goroutines' copies, conflicts, tickers and channels are gone. A
pod is an incarnation with a name and a health; `care` is the initialisation under way,
`watched` the incarnation of each pod that is watched, `heard` the answer it gave and that
is not entered yet. A watch hears the container of its own incarnation, and later enters
that answer alone into the status the Agent has at that moment, whatever has become of the
container; a write of the Agent by anybody else in between makes all answers void. No
watch ends with an answer in hand. An incarnation is watched only after it has answered
the POSTs of a name and then of a health (that it has taken them is not promised, as the
code does not look), and only if none of its pod is. `AgentWatch` maps to it (end of the
module):

| `Vigil` | in `AgentWatch` |
|---|---|
| `kept`, `status` | `ag.live`, `ag.status`, the Agent in the API server |
| `pod` | `pod`, the pods with their containers |
| `care` | `Care`: the pod in hand and the incarnation whose address it has, "told" between the two POSTs (`pc = "health"`), "ready" after both (`"stop"`, `"start"`) |
| `watched[i]` | `Watched`: the incarnation whose address the goroutine registered for the pod asks, 0 if none is registered |
| `heard[i]` | `Heard`: the answer that goroutine has in hand, as long as its copy is current |

What is not obvious is that a goroutine that writes the whole status, from a copy read two
steps before, amounts to one entry set in the status of that moment; that an answer is void
exactly if its update would be rejected; and that the goroutine that makes the update is
the registered one of the incarnation that answered.

### Provision

`prog` are the resources of the four kinds, `obj` their children, by key: what it is,
its namespace and its name. Children in a namespace are called like the KIND
(`metadata`), those of the cluster `<name>-<namespace>`; so two keys may coincide, which
is where most of the hazards are. What a child holds is reduced to what it refers to
(`ref`) and what it took from the spec (`spec`). `work[k]` is the worker of kind `k`: the
resource it reconciles and how far it is in `Plan`, the children in the order of the code.

| code | definitions |
|---|---|
| `Get`, NotFound | `Begin` |
| the order of the `Reconcile`s, of `reconcilePermissions` and of `createServicePerPod` | `Plan` (`RightsPlan`, `OraclePlan`, `AgentPlan`, `ServicePerPod`) |
| the object literals | `Content`, `Desired` |
| the mutations: only ConfigMap and ClusterRoleBinding have one that does anything | `Mutated` |
| `controllerutil.CreateOrUpdate` | `CreateOrUpdate` (`Keeps`, `Creates`, `Updates`), `CreateOrUpdateFails` |
| which errors end `Reconcile`; a conflict, which ends the helper it is met in | `Tolerated`, `OnError`; `OnConflict`, `HelperEnd` |
| `Owns`, the owner of an event | `Owners`, `SyncChild` |
| `Oracle.Default`, which panics without a config, `validateOracleNames` | `Default`, `validateOracleNames`, `Admitted`: the guard of `Create` and `Edit` |

The Service of an agent is called by its name in lower case (`ServiceOf`), so two agents
may share one. An Oracle that is not admitted can be there all the same if it is older
than the webhooks or was made while they were not installed (README "make install run"):
that is the disturbance `unguarded`.

The exiles the Twins controller appends to the Merovingian's Deployment are left out here
and modelled in `Exile`: the mutation of that Deployment is empty, so they do not touch
what `Provision` says of it.

### Custody

Caches, queues, workers, plans and failing calls are gone. A program lives or does not, in
numbered incarnations, and there are children. A child in a namespace is made for an
incarnation that has lived (it may be gone by then: the worker is late), is that one's as
long as it is there, and falls only when that one does not live any more; a child of the
cluster is nobody's and never falls, which is why the ClusterRole and the binding outlive
their resource. `Provision` maps to it (end of the module):

| `Custody` | in `Provision` |
|---|---|
| `life` | `prog`, without the specs |
| `child` | `obj` |
| `Claims` | the children a program may have under any spec (`Plan`) |
| `Common` | the kinds of children of the cluster (`ClusterWide`) |
| `Amendable` | binding and ConfigMap, the two whose mutation does anything |
| `Account` | what a program's own children refer to: its namespace and its name |
| `First` | the Deployment of whoever has rights comes after their binding |

## Runs

| run | instance | question |
|---|---|---|
| `exile_race` | two Twins, one Merovingian, its Deployment created up to twice; two disturbances of six kinds | do appends made from old copies, or from those of the Merovingian controller, ever drop or clobber containers? (`TypeOK`, `ExilesStay`) Does a Twins go before the Merovingians say so, their names and their count? (`LeftIsReported`) Does a retry ever free a Twins whose container is there already? (`StrandedStays`) |
| `exile_reborn` | one Twins, created twice, two Merovingians, one of which bears the name its Deployment has; two disturbances of six kinds | can a copy of an earlier incarnation exile a living Twins or leave one unprotected? (`NoLiveExile`, `OwnerHasFinalizer`) Is a Twins let go too early, does the status promise too much? (`StatusBacked`, `ReleasedOnlyIfExiled`) Does it implement the abstract specification? (`Departs`) |
| `exile_fair` | one Twins, a Deployment whose status keeps changing, fairness | do deletions complete? (`DeletionCompletes`) |
| `exile_count` | one Twins, a Merovingian edited once, fairness | `CountCurrent`, violated (see Findings) |
| `exile_stuck` | two Twins, fairness, no fault | `DeletionCompletes`, violated (see Findings) |
| `watch_race` | the Agent twice, two pods, the first of them twice, the roster shrinking, one disturbance of twelve kinds, a write through v1alpha1 among them | do the goroutines stay within reach and leave each other's reports alone, across incarnations, panics and restarts? (`TypeOK`, `OneWatcherPerPod`, `AliveCountsStatus`, `ReportsKept`) Does a ticker stop, or go on, at the wrong time? (`TickersRun`) Does it implement the abstract specification? (`Vigilant`) |
| `watch_fair` | two pods, the first of them twice, one of an agent that begins without health; one disturbance: damage, a pod event, a write through v1alpha1, a container or the operator restarted, a pod evicted, a POST, a GET or an update that fails; fairness | does the worker always come back from `Stop`, does the status show the agents' health? (`WorkerReturns`, `HealthReported`) |
| `watch_shrunk` | the roster edited once | `HealthReported`, violated (see Findings) |
| `provision_rivals` | two Architects in one namespace, one disturbance of four kinds | does a Deployment come before the rights of its account? (`TypeOK`, `BoundBeforeDeployed`) Does it implement the abstract specification? (`InCustody`) |
| `provision_fair` | one Oracle, created twice, with and without a config, one of which is not admissible, its config edited, fairness | do all children come to be, with the present config? (`Provisioned`) Does the second incarnation, which finds the ConfigMap of the first and amends it, ever make it its own? (`OwnerKept`, `InCustody`) |
| `provision_fleet` | two Agents in one namespace, of one agent or of three, two of which have the same name in lower case, fairness | does whichever is left alone come to have a Service for every agent and a StatefulSet of its own, whosever the shared ones were before? (`Provisioned`) |
| `provision_clash` | two Architects whose binding is called the same | `BindingSettles`, violated (see Findings) |

*Bounds.* Two Twins are the least with which one's append can meet another's, and no
property speaks of three; one Merovingian has the Deployment and a second one is what
`executeFinalizer` may find without. Creating an object twice gives a stale copy of the
first incarnation, a third adds no new kind of copy. Two goroutines are the least that can
lose each other's reports, and with one pod created twice the old goroutine of a pod name
meets the new pod (`MaxPod` is a bound for each position; the other pod stays single).
Two disturbances suffice for a fault in the first attempt and another
in the retry; where the instance is large already it is one, and a retry meets no second
fault. Health is 0 or 1: the properties tell apart alive, dead and unreported.
For `Provision`, two resources are the least that can share a child; a third only repeats
what the second does. A ConfigMap is shared by two incarnations of one Oracle only; for two
Oracles there are the theorems (`OwnersStay`, `CustodyImplemented`). Four specs tell apart no config, a config, another config, and one
that is not admissible; two lists of agents, the Service that is missing after an edit.
Edits of a Merovingian are in `exile_race` and edits of a Twins in `exile_reborn`, where
each meets the copies it can outdate. The lists of `watch_race` give every agent full
health; in `watch_fair` one begins without, which a write through v1alpha1 changes.
What these bounds leave open, the theorems close: they hold for all values of the
constants. `CHECK_DEADLOCK FALSE` is said because the bounded instances do run out of
things to do.

*Fairness.* Watches deliver (WF of `Sync...`), the garbage collector and the controllers
of the cluster act, the worker takes its next step, and the queue is first-in first-out,
so that a queued request is served although the worker is busy with others now and again
(SF of `Begin`). A POST ends because its client has a timeout. The goroutine's GET has
none (`http.Get` uses the default client), but the liveness probe of the StatefulSet has a
container that does not answer restarted, which closes the connection: WF of
`Goroutine`. Nothing is assumed of Go's choice when a tick and `done` are both ready;
that the ticker is stopped first is what makes `WorkerReturns` hold. In `Provision` the
informers resync (WF of `Resync`; every ten hours by default): ConfigMap, account and
binding are not watched, so that without it an Oracle's ConfigMap that was collected after
an AlreadyExists would stay away. Users, faults and events that change nothing are under
no obligation, and in `Exile` and `AgentWatch` neither are resyncs.

## Findings

* `exile_stuck`: the Deployment is updated first, the status second, the finalizer
  third. If the second or third conflicts, which takes nothing but two Twins deleted at
  about the same time, the retry appends a container of the same name once more, is
  refused, and so for ever; the Twins never goes.
  `StrandedForGood` proves that this is no matter of bad luck: whatever is read, retried
  or restarted, nothing but the end of the Deployment, or of all Merovingians the cache
  knows of, frees such a Twins. Nor does it take a conflict: a Twins created again under an
  old name whose container is still in the Deployment is stranded as soon as it is deleted.
* `exile_count`: the status is written by the reconcile that has just appended a container,
  or never. If that one write conflicts with an edit of the Merovingian, or fails, the
  column described as "Current count of exiled Matrix programs" (merovingian_types.go:35)
  stays behind the Deployment for ever, even if the Twins is gone (in the trace it is the
  stale copy of a Twins released before that is exiled). While a Twins leaves properly this
  does not happen: `LeftIsReported`.
* `watch_shrunk`: the StatefulSet is never scaled, so that an agent removed from the spec
  leaves a pod whose ordinal is past the end of `spec.agents`: a panic, after every start.
* `provision_clash`: `<name>-<namespace>` is not unique across namespaces; two resources
  take the binding from each other at every resync.

These have no run, as a single call or edit shows them:

* Account and ConfigMap are called after the kind (programs.go:23), but the Deployment and
  the binding ask for one called after the resource (architect_controller.go:88, 192,
  merovingian_controller.go:89, oracle_controller.go:111). Only resources called like
  their kind, as the samples are, ever get a pod. (`Key` and `Content` have both names.)
* All exiles are told the same port: `nextPort` reads the container port, which is 8080 for
  every container, and not the `SERVER_PORT` of the last exile; so two exiles compete for
  8081. The port is a constant of the code and left out of the model.
* A POST of the name or health that is answered with anything but 200 is only logged
  (agent_controller.go:389, 407): the pod is watched as if it had been initialised, and
  nothing tells it again until its next event. Its agent may never be reported under its
  name (`HealthReported` fails as soon as `postIgnored` is among the disturbances).
* `exileTo` takes the Deployment called like the Merovingian whosever it is: with a second
  Merovingian that is called otherwise, the host container of the one that owns the
  Deployment "merovingian" is listed among the `exiled` of the Merovingian called so.
* The mutation of every Deployment is empty (`Mutated`), so that an edit of
  `matrixNamespace`, or a config added to an Oracle, does not reach a Deployment that
  exists. The StatefulSet of an Agent and the Services' selectors are not touched either:
  an agent added later gets a Service and no pod.
* Entries of `status.agents` whose name is no longer in the spec stay and are counted
  (`WithReport`, agent_controller.go:355), while the total is that of the spec: after an
  agent is renamed the Alive column, described as "Current number of alive agents out of
  all" (v1beta1/agent_types.go:60), can show 3/2.
* `Config` of an Oracle is marked `+optional` (oracle_types.go:25), and `Default` is there
  to supply one; it writes through the nil pointer it has just tested (oracle_webhook.go:48),
  so that an Oracle without a config is refused (`Default`).
* `servicePerPodSelector` asks for pods called after the Agent (`name-0`), while the
  StatefulSet, and so its pods, are called after the kind (`agent-0`): the Services of an
  Agent that is not called `agent` lead nowhere.

## Theorems

But for two about the conversion and three refinements, all are of the form `Spec => []P` or
`Spec => [][A]_vars`; all are without fairness and for every value of the constants that
satisfies `ConstantsAssumption` (and `HealthAssumption`: full health is a positive number):
two actors' names do not coincide, bounds are numbers, the names of agents are finitely
many, a resource is known by kind, namespace and name, and no Service of an agent is
called like a kind.

**ExileProofs.** The invariant is built in layers, each inductive given those before it.

1. `TypeInv`: `TypeOK`, and that a Deployment that exists has at least one container (or
   `nextPort` would be out of range). Gives `TypeCorrect`.
2. `CopiesInv`: what a copy may say although it is old. A fresh copy is the object; the
   uid of a copy is never ahead; a deletion or a finalizer seen in a copy of the present
   incarnation is still there. The last is what makes stale reads harmless: nobody takes a
   deletionTimestamp back, and only `RemoveFinalizer`, which ends the object, takes the
   finalizer.
3. `HomeInv`, `NoLiveExile`: children are made only with `cr.fin`, containers appended only
   with `cr` deleting. Give `OwnersAreProtected`, `ExilesAreDeparted`.
4. `ExileInv`: how far the finalizer is. `StillIn(u, names, n)` says that the Deployment
   with uid `u`, if it is still there, holds `names`; it is kept by every step because
   containers are only ever appended (`NoExileLost`), and it holds for the status written,
   for the status about to be written and for every Merovingian visited. Gives
   `StatusIsBacked` and `ReleasedAfterExile`, neither of which is inductive alone: the
   containers are written in one step, the status in another, the finalizer in a third.
5. `ReportInv`: of every Merovingian visited, the status names the Twins in hand and counts
   exactly the exiles (`Told`). It is kept because only the Merovingian called
   `ProgramName` has a Deployment, so that nobody is appended between a status and the
   release, and because a status, once written, is only overwritten by this worker. Gives
   `LeavingIsReported`.

`StrandedForGood` rests on three lemmas: a deletion that has begun stays so until the
release (`DeletingStays`); the API server accepts no second container of a name, from
whatever copy (`SecondRefused`); so `Reconcile` comes to the list, and no further
(`RetryGetsNowhere`).

**DepartureProofs.** `DepartureImplemented` is `Spec => Departs`: `Init` maps to the initial
states, and under the invariant `RInv` every step maps to a step of `Departure`
or leaves its variables alone. Every step writes one kind of object only
(`OneWrite`); what a write of a Twins, a Merovingian, a child or the Deployment is in the
abstract specification is a lemma each (`TwinsMapped`, `MerovingiansMapped`, `HomeMapped`,
`DeploymentMapped`), and another gives the condition on `absolved` (`AbsolutionGiven`).
The invariant is `RInv`, which is `IInv` of `ExileProofs` and
`OwnersInv`. From `ExileInv` a Twins that has been exiled is in the Deployment it was
appended to. `OwnersInv` is for a Twins that finds an empty list: the list comes from the
cache and may be empty although Merovingians exist. The owner of a Deployment that is kept
is known to the cache, since it was from the cache that the Merovingian controller made
the Deployment for it; so an empty list proves that no Merovingian keeps one at that moment.

**AgentWatchProofs.**

1. `TypeInv`: shapes, and that whoever is busy serves a pod.
2. `RegistryInv`: `OneWatcherPerPod` is not inductive by itself, because `StartWatcher`
   overwrites the entry of `cur`: one has to know that the worker gets there only with the
   entry gone (`pc = "start" => ~Registered(cur)`), and that it stays while the worker
   waits. Gives `WatchersRegistered`.
3. `CopiesInv`: a goroutine's copy that is fresh is the Agent. So what is written is the
   present status with the entry of the answer in hand changed (`ReportStep`):
   `NoReportLost`, and with it `AliveIsCounted`. Nothing is said of the container by then.
4. `TickersRun` is inductive given `TypeInv`: only `StopTicker` stops a ticker, in the very
   step in which the worker begins to wait for that goroutine, and the worker goes on only
   when `StopDone` has ended it. Gives `TickersAreRun`, the safety half of
   `WorkerReturns`: whoever is waited for has at most one tick left.
5. The conversion: `NamesSurvive` (v1alpha1 to v1beta1 and back is the identity) and
   `HealthsAreLost` (the other round trip is one exactly for agents in full health), for
   lists of any length.

**VigilProofs.** `VigilImplemented` is `Spec => Vigilant`. The invariant is `VInv`:
`TypeInv`, `RegistryInv` and `CopiesInv` of above and `ServeInv`. An answer is heard and
entered for the watched incarnation; `RegistryInv` gives that the goroutine that does it is
the registered one, `CopiesInv` that the status it writes is the present one with its own
entry changed, and `ServeInv` the rest: what is initialised or watched has an address,
which is that of an incarnation (so that 0 can mean nobody), and a copy that can still be
written with success was read since the last tick, from an Agent that exists. `InHand(k)`
is what a goroutine holds that could still be entered; a write of the Agent empties it for
all (`NoneHeard`), an answer and a report change it for one (`HeardChanges`). One lemma for
each action of the worker and the goroutines maps it.

**ProvisionProofs.** `TypeOK` is inductive and gives `TypeCorrect`. `CopiesInv` (a copy
marked fresh is the child) gives `OwnersStay`: an update is made from a fresh copy, and no
mutation touches the owner. `RightsInv` gives `RightsComeFirst`, which is not inductive:
the Deployment is made two steps after the binding, so that one has to know that a worker
past the binding has one (`PastInv`), which holds because the only error of the binding
that is let pass is a conflict (which ends `reconcilePermissions`, but with its last child:
`BindingLast`), which only an existing binding has, and because nobody
owns a binding and so none is ever collected (`BindingsInv`).

**CustodyProofs.** `CustodyImplemented` is `Spec => InCustody`. The invariant is `CInv`:
`TypeOK`, `CopiesInv` and `RightsInv` of above and `LivedInv`: an incarnation that is
alive, in the API server or in a cache however old, or that a worker has in hand, has lived.
Without it a stale copy could have a child made for an incarnation that is yet to come,
which the next program of that name would find to be its own. `RightsInv` gives the order
of binding and Deployment (`First`), `CopiesInv` that an update keeps the owner. The steps
are mapped by who makes them: users (`UserSeen`), cluster and informers (`ClusterSeen`),
workers (`WorkerSeen`).

## Only model-checked

Liveness (`DeletionCompletes`, `WorkerReturns`, `HealthReported`, `Provisioned`, and
`CountCurrent` and `BindingSettles`, which are violated): TLAPS does not prove properties
under fairness. The safety half of two of them is proved: that whoever is waited for has
stopped ticking (`TickersAreRun`, for `WorkerReturns`) and that a stranded Twins stays so
(`StrandedForGood`, for the violation of `DeletionCompletes`). The four violations are
traces TLC finds. Every invariant and every action property of the passing runs, and the
three refinements, are proved.

## Not modelled

* Ports, labels, selectors and images of the children, beyond what they refer to.
* The health of an agent that is none of `0 .. Full`: `Health` is any int32.
* When the ClusterRole and the binding have to go: no document says so. That they outlive
  their resource is in the model (`Collect` leaves them alone) and stated by `Custody`.
* `Get` errors other than NotFound (a cache that is started has none): `Reconcile` then
  goes on with an empty object.
* What is inside the containers.
* A Merovingian that is called like another kind, `twins`, `architect` or `oracle`: its
  exiles go into the Deployment of that kind, which `exileTo` finds under its name.
* A Create that is answered with a conflict (by a ResourceQuota): it would end
  `reconcilePermissions` before the binding. A conflict is an Update from an old copy here.
* Two pods of a StatefulSet sharing an address one after the other; the pods of two Agents
  in one namespace, whose StatefulSets have one name (that they compete for it is in
  `Provision`). An Agent that is called like a pod (`agent-0`).
* Scheme registration, generated deep copies, manifests, flags and probes of the manager.

## Plan

1. `Exile` with `ExileProofs` - done.
2. `AgentWatch` with `AgentWatchProofs` - done.
3. `Provision` with `ProvisionProofs`, the Services of the agents and two Agents in one
   namespace - done.
4. What the Oracle's webhooks admit, in `Provision` - done.
5. `AgentVersions`, in `AgentWatch`: a write through v1alpha1 while the pods are watched -
   done.
6. `Departure`, implemented by `Exile`, with the step simulation in `DepartureProofs` - done.
7. `Vigil`, implemented by `AgentWatch`, with the step simulation in `VigilProofs` - done.
8. `Custody`, implemented by `Provision`, with the step simulation in `CustodyProofs` -
   done.
9. `StrandedForGood` and `TickersAreRun`, the safety behind what the liveness runs show -
   done.
10. `GET` and status update as two actions, with what is heard in `Vigil`, and
    `LeftIsReported` - done.
