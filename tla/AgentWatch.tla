----------------------------- MODULE AgentWatch -----------------------------
(***************************************************************************)
(* The Agent controller of the matrix operator                             *)
(* (controllers/agent_controller.go) for ONE Agent resource: the           *)
(* StatefulSet Reconcile creates for it, the pods of that StatefulSet, the *)
(* initialisation of a pod (its name, then its health, are POSTed to it)   *)
(* and the goroutines that watch the pods, one per pod, each of which asks *)
(* its pod for its health every five seconds and writes the answer into    *)
(* the status of the Agent, which all of them share.                       *)
(*                                                                         *)
(* As in Exile, Gets read a lagging cache (agC, podC), an Update made from *)
(* a copy that is no longer current is rejected, and a cached read and the *)
(* call that follows it at once are one action.  A write that changes      *)
(* nothing makes no new version.                                           *)
(*                                                                         *)
(* The worker stops a goroutine by stopping its ticker and sending on an   *)
(* unbuffered channel, which the goroutine receives from only between two  *)
(* reports: "stop" and "drop" are where the worker waits for it.           *)
(***************************************************************************)
EXTENDS AgentVersions, FiniteSets

CONSTANTS
  Unnamed,     \* what a container calls itself before it is given a name
  Rosters,     \* the lists a user may write into spec.agents
  MaxReplicas, \* the longest of them
  Watchers,    \* bound: identities of goroutines
  None,        \* no goroutine
  MaxAgent,    \* bound: how often the Agent may be created
  MaxPod,      \* bound: how often the pod at each position may be created
  Budget,      \* bound: how many disturbances the environment may cause
  Disturbances \* which disturbances it may cause, a subset of AllDisturbances

AllDisturbances ==
  {"deleteAgent", "editAgent", "editV1alpha1", "evictPod", "restartContainer",
   "damage", "podEvent", "postFails", "postIgnored", "getFails", "updateFails", "restart"}

ASSUME ConstantsAssumption ==
  /\ IsFiniteSet(Names) /\ Unnamed \notin Names
  /\ MaxReplicas \in Nat
  /\ Rosters \subseteq Seq(SingleAgent) /\ \A r \in Rosters : Len(r) <= MaxReplicas
  /\ None \notin Watchers
  /\ MaxAgent \in Nat /\ MaxPod \in [1 .. MaxReplicas -> Nat] /\ Budget \in Nat
  /\ Disturbances \subseteq AllDisturbances

VARIABLES
  ag, agC, agFresh, \* the Agent: in the API server, in the cache; is that current
  sts,              \* the StatefulSet
  pod,              \* the pods: in the cluster
  podC, podFresh,   \* the pods: uid in the cache (0: not there), which are current
  queue,            \* work queue: positions of pods, and 0 for the Agent itself
  pc, cur, req,     \* the worker: where it is, the pod it serves, what it POSTs
  registry,         \* agentsWatchers: the goroutine of each pod
  w,                \* the goroutines
  budget            \* disturbances left

agent   == <<ag, agC, agFresh>>
pods    == <<pod, podC, podFresh>>
worker  == <<pc, cur, req>>
watch   == <<registry, w>>
vars    == <<agent, sts, pods, queue, worker, watch, budget>>

-----------------------------------------------------------------------------
(***************************************************************************)
(* The objects.                                                            *)
(***************************************************************************)
Positions == 1 .. MaxReplicas

Reportable == Names \cup {Unnamed}
Unreported == -1

\* What spec.agents may hold: a list as it was written through either version.
Lists == Rosters \cup {ThroughV1alpha1(r) : r \in Rosters}

\* status.agents as a function: Unreported for a name that has no entry.
AgentObject ==
  [live : BOOLEAN, uid : Nat, roster : Lists \cup {<<>>},
   status : [Reportable -> Unreported .. Full], alive : Nat, total : Nat]

NoAgent ==
  [live |-> FALSE, uid |-> 0, roster |-> <<>>,
   status |-> [n \in Reportable |-> Unreported], alive |-> 0, total |-> 0]

StatefulSet == [live : BOOLEAN, owner : Nat, replicas : Nat]
NoStatefulSet == [live |-> FALSE, owner |-> 0, replicas |-> 0]

\* uid stands for the pod's address, too: every incarnation has its own.
Pod == [live : BOOLEAN, uid : Nat, name : Reportable, health : 0 .. Full]

\* What a container says of itself.
Answers == [name : Reportable, health : 0 .. Full]
NoAnswer == [name |-> Unnamed, health |-> 0]

\* ticks: the ticker runs; stopped with a tick in its channel; stopped and empty.
Watcher ==
  [st : {"free", "select", "get", "update"}, pod : Positions \cup {0}, url : Nat,
   copy : AgentObject, fresh : BOOLEAN, answer : Answers, ticks : {"running", "one", "none"}]

Free ==
  [st |-> "free", pod |-> 0, url |-> 0, copy |-> NoAgent, fresh |-> FALSE,
   answer |-> NoAnswer, ticks |-> "none"]

NoRequest == [url |-> 0, name |-> Unnamed, health |-> 0]

Init ==
  /\ ag = NoAgent /\ agC = NoAgent /\ agFresh = TRUE
  /\ sts = NoStatefulSet
  /\ pod = [i \in Positions |-> [live |-> FALSE, uid |-> 0, name |-> Unnamed, health |-> 0]]
  /\ podC = [i \in Positions |-> 0] /\ podFresh = Positions
  /\ queue = {}
  /\ pc = "idle" /\ cur = 0 /\ req = NoRequest
  /\ registry = [i \in Positions |-> None]
  /\ w = [k \in Watchers |-> Free]
  /\ budget = Budget

\* A write of the Agent outdates every copy of it, unless it changes nothing.
Outdated(ws) == [k \in Watchers |-> [ws[k] EXCEPT !.fresh = FALSE]]

WriteAgent(obj, ws) ==
  /\ ag' = obj
  /\ agFresh' = (agFresh /\ obj = ag)
  /\ w' = IF obj = ag THEN ws ELSE Outdated(ws)
  /\ UNCHANGED agC

-----------------------------------------------------------------------------
(***************************************************************************)
(* The environment: users, the StatefulSet controller, the garbage         *)
(* collector, the containers, the watches that feed the caches.            *)
(***************************************************************************)
Disturb(kind) ==
  /\ kind \in Disturbances
  /\ budget > 0
  /\ budget' = budget - 1

CreateAgent ==
  /\ ~ag.live
  /\ ag.uid < MaxAgent
  /\ \E r \in Lists :
       WriteAgent([NoAgent EXCEPT !.live = TRUE, !.uid = ag.uid + 1, !.roster = r], w)
  /\ UNCHANGED <<sts, pods, queue, worker, registry, budget>>

DeleteAgent ==
  /\ Disturb("deleteAgent")
  /\ ag.live
  /\ WriteAgent([NoAgent EXCEPT !.uid = ag.uid], w)
  /\ UNCHANGED <<sts, pods, queue, worker, registry>>

\* The status is a subresource: an edit of the spec leaves it as it is.
EditAgent ==
  /\ Disturb("editAgent")
  /\ ag.live
  /\ \E r \in Rosters \ {ag.roster} : WriteAgent([ag EXCEPT !.roster = r], w)
  /\ UNCHANGED <<sts, pods, queue, worker, registry>>

\* What is left of an Agent that is written through v1alpha1 with the names of r.
Rewritten(obj, r) ==
  [NoAgent EXCEPT !.live = obj.live, !.uid = obj.uid, !.roster = ThroughV1alpha1(r)]

\* The same through v1alpha1: neither conversion carries the status.  Whether the API
\* server puts the old status back after them is left open.
EditV1alpha1 ==
  /\ Disturb("editV1alpha1")
  /\ ag.live
  /\ \E r \in Rosters :
       \/ WriteAgent(Rewritten(ag, r), w)
       \/ WriteAgent([ag EXCEPT !.roster = ThroughV1alpha1(r)], w)
  /\ UNCHANGED <<sts, pods, queue, worker, registry>>

\* Losing its owner; the deletion queues the Agent of that name.
CollectStatefulSet ==
  /\ sts.live
  /\ ~(ag.live /\ ag.uid = sts.owner)
  /\ sts' = NoStatefulSet
  /\ queue' = queue \cup {0}
  /\ UNCHANGED <<agent, pods, worker, watch, budget>>

PodChanges(i, p) ==
  /\ pod' = [pod EXCEPT ![i] = p]
  /\ podFresh' = podFresh \ {i}
  /\ UNCHANGED <<agent, sts, podC, queue, worker, watch>>

\* A container starts without a name and in full health.
Started(i, uid) == PodChanges(i, [live |-> TRUE, uid |-> uid, name |-> Unnamed, health |-> Full])
Gone(i) == PodChanges(i, [pod[i] EXCEPT !.live = FALSE, !.name = Unnamed, !.health = 0])

CreatePod(i) ==
  /\ sts.live /\ i <= sts.replicas
  /\ ~pod[i].live /\ pod[i].uid < MaxPod[i]
  /\ Started(i, pod[i].uid + 1)
  /\ UNCHANGED budget

CollectPod(i) ==
  /\ ~sts.live
  /\ pod[i].live
  /\ Gone(i)
  /\ UNCHANGED budget

EvictPod(i) ==
  /\ Disturb("evictPod")
  /\ pod[i].live
  /\ Gone(i)

RestartContainer(i) ==
  /\ Disturb("restartContainer")
  /\ pod[i].live
  /\ Started(i, pod[i].uid)

\* The agent takes damage; no pod event comes of it.
Damage(i) ==
  /\ Disturb("damage")
  /\ pod[i].live /\ pod[i].health > 0
  /\ pod' = [pod EXCEPT ![i].health = @ - 1]
  /\ UNCHANGED <<agent, sts, podC, podFresh, queue, worker, watch>>

SyncAgent ==
  /\ ~agFresh
  /\ agC' = ag
  /\ agFresh' = TRUE
  /\ queue' = queue \cup {0}
  /\ UNCHANGED <<ag, sts, pods, worker, watch, budget>>

\* podUpdates: any event of a running pod of ours queues it under its own name.
SyncPod(i) ==
  /\ i \notin podFresh
  /\ podC' = [podC EXCEPT ![i] = IF pod[i].live THEN pod[i].uid ELSE 0]
  /\ podFresh' = podFresh \cup {i}
  /\ queue' = queue \cup {i}
  /\ UNCHANGED <<agent, sts, pod, worker, watch, budget>>

\* A change of the pod's conditions, or the periodic resync.
PodEvent(i) ==
  /\ Disturb("podEvent")
  /\ podC[i] # 0
  /\ queue' = queue \cup {i}
  /\ UNCHANGED <<agent, sts, pods, worker, watch>>

-----------------------------------------------------------------------------
(***************************************************************************)
(* Reconcile and tryInitAgent: the worker.                                 *)
(***************************************************************************)
Return == pc' = "idle" /\ cur' = 0 /\ req' = NoRequest

\* Returning an error puts the request back into the queue.
ReturnError == Return /\ queue' = queue \cup {cur}

\* A request by the Agent's name.  CreateOrUpdate with the empty mutation never
\* touches a StatefulSet that exists: its number of replicas is never corrected.  The
\* Services that come before it, and the calls that fail, are in Provision: here it is
\* enough that after an error the request comes again.
ReconcileAgent ==
  /\ pc = "idle"
  /\ 0 \in queue
  /\ queue' = queue \ {0}
  /\ sts' = IF agC.live /\ ~sts.live
              THEN [live |-> TRUE, owner |-> agC.uid, replicas |-> Len(agC.roster)]
              ELSE sts
  /\ UNCHANGED <<agent, pods, worker, watch, budget>>

\* A request by a pod's name: no Agent is called so, and Reconcile turns to the pod.
Dequeue(i) ==
  /\ pc = "idle"
  /\ i \in queue
  /\ queue' = queue \ {i}

Registered(i) == registry[i] # None

BeginGone(i) ==
  /\ Dequeue(i)
  /\ podC[i] = 0 \/ (~agC.live /\ ~Registered(i))
  /\ UNCHANGED <<agent, sts, pods, worker, watch, budget>>

\* Mutant of StopTicker: the goroutine's ticker goes on.
StopTicker_Keeps(i) == w' = w

\* t.Stop(): at most the tick that is in the channel already is still to come.
StopTicker(i) ==
  \E left \in {"one", "none"} : w' = [w EXCEPT ![registry[i]].ticks = left]

\* The pod outlived the Agent: its goroutine is to end.
BeginOrphan(i) ==
  /\ Dequeue(i)
  /\ podC[i] # 0 /\ ~agC.live /\ Registered(i)
  /\ pc' = "drop" /\ cur' = i
  /\ StopTicker(i)
  /\ UNCHANGED <<agent, sts, pods, req, registry, budget>>

\* Mutant of agentHealth: the spec is not asked.
agentHealth_StatusOnly(n) == agC.status[n]

\* The health last reported, or else that of the first entry of the spec by that name.
agentHealth(n) ==
  LET entries == {i \in DOMAIN agC.roster : agC.roster[i].name = n}
      first   == {i \in entries : \A j \in entries : i <= j}
  IN  IF agC.status[n] # Unreported THEN agC.status[n]
      ELSE IF first = {} THEN 0
      ELSE agC.roster[CHOOSE i \in first : TRUE].health

BeginInit(i) ==
  /\ Dequeue(i)
  /\ podC[i] # 0 /\ agC.live
  /\ i <= Len(agC.roster)
  /\ pc' = "name" /\ cur' = i
  /\ LET n == agC.roster[i].name
     IN  req' = [url |-> podC[i], name |-> n, health |-> agentHealth(n)]
  /\ UNCHANGED <<agent, sts, pods, watch, budget>>

\* The process is gone and started again: no goroutine, fresh caches, everything queued.
Crash ==
  /\ Return
  /\ registry' = [i \in Positions |-> None]
  /\ w' = [k \in Watchers |-> Free]
  /\ agC' = ag /\ agFresh' = TRUE
  /\ podC' = [i \in Positions |-> IF pod[i].live THEN pod[i].uid ELSE 0]
  /\ podFresh' = Positions
  /\ queue' = {i \in Positions : pod[i].live} \cup (IF ag.live THEN {0} ELSE {})
  /\ UNCHANGED <<ag, sts, pod>>

\* agentName indexes spec.agents with the pod's ordinal, unchecked: a panic.
BeginPanics(i) ==
  /\ pc = "idle"
  /\ i \in queue
  /\ podC[i] # 0 /\ agC.live
  /\ i > Len(agC.roster)
  /\ Crash
  /\ UNCHANGED budget

\* Mutant of Reachable: the address stays with the pod's name, not its incarnation.
Reachable_ByName(i, url) == pod[i].live

Reachable(i, url) == pod[i].live /\ pod[i].uid = url

Named  == [pod EXCEPT ![cur].name = req.name]
Healed == [pod EXCEPT ![cur].health = req.health]

\* The status code of the answer is only logged: one that is not 200, of a container
\* that has taken nothing, counts as well.
Answered(taken) ==
  \/ pod' = taken /\ UNCHANGED budget
  \/ Disturb("postIgnored") /\ UNCHANGED pod

PostName ==
  /\ pc = "name"
  /\ Reachable(cur, req.url)
  /\ Answered(Named)
  /\ pc' = "health"
  /\ UNCHANGED <<agent, sts, podC, podFresh, queue, cur, req, watch>>

\* Mutant of AfterInit: whether the pod has a goroutine already is not looked at.
AfterInit_NoStop == pc' = "start" /\ UNCHANGED w

\* A goroutine the pod had before is stopped first.
AfterInit ==
  IF Registered(cur)
    THEN pc' = "stop" /\ StopTicker(cur)
    ELSE pc' = "start" /\ UNCHANGED w

PostHealth ==
  /\ pc = "health"
  /\ Reachable(cur, req.url)
  /\ Answered(Healed)
  /\ AfterInit
  /\ UNCHANGED <<agent, sts, podC, podFresh, queue, cur, req, registry>>

\* Nobody listens at the address any more.
PostRefused ==
  /\ pc \in {"name", "health"}
  /\ ~Reachable(cur, req.url)
  /\ ReturnError
  /\ UNCHANGED <<agent, sts, pods, watch, budget>>

\* The POST fails, before or after it took effect.
PostFails ==
  /\ Disturb("postFails")
  /\ pc \in {"name", "health"}
  /\ \/ pod' = pod
     \/ pod' = IF pc = "name" THEN Named ELSE Healed
  /\ Reachable(cur, req.url)
  /\ ReturnError
  /\ UNCHANGED <<agent, sts, podC, podFresh, watch>>

\* The goroutine receives from done and ends; the worker, which waited, goes on.
StopDone ==
  /\ pc \in {"stop", "drop"}
  /\ w[registry[cur]].st = "select"
  /\ w' = [w EXCEPT ![registry[cur]] = Free]
  /\ registry' = [registry EXCEPT ![cur] = None]
  /\ IF pc = "stop" THEN pc' = "start" /\ UNCHANGED <<cur, req>> ELSE Return
  /\ UNCHANGED <<agent, sts, pods, queue, budget>>

StartWatcher ==
  /\ pc = "start"
  /\ \E k \in Watchers :
       /\ w[k].st = "free"
       /\ w' = [w EXCEPT ![k] = [Free EXCEPT !.st = "select", !.pod = cur,
                                             !.url = req.url, !.ticks = "running"]]
       /\ registry' = [registry EXCEPT ![cur] = k]
  /\ Return
  /\ UNCHANGED <<agent, sts, pods, queue, budget>>

Restart ==
  /\ Disturb("restart")
  /\ Crash

-----------------------------------------------------------------------------
(***************************************************************************)
(* The goroutines.                                                         *)
(***************************************************************************)
\* A tick: the Agent is read.  If there is none, the copy of the last time is kept, which
\* is out of date: the cache has seen the Agent go since.
Tick(k) ==
  /\ w[k].st = "select"
  /\ w[k].ticks # "none"
  /\ w' = [w EXCEPT ![k].st = "get",
                    ![k].ticks = IF @ = "one" THEN "none" ELSE @,
                    ![k].copy = IF agC.live THEN agC ELSE @,
                    ![k].fresh = IF agC.live THEN agFresh ELSE @]
  /\ UNCHANGED <<agent, sts, pods, queue, worker, registry, budget>>

\* Back to the select; the copy and the answer are not used again.
Listening(k) ==
  [w EXCEPT ![k].st = "select", ![k].copy = NoAgent, ![k].fresh = FALSE, ![k].answer = NoAnswer]

Alive(status) == Cardinality({n \in Reportable : status[n] > 0})

\* Mutant of WithReport: an agent that has no entry yet gets none.
WithReport_KnownOnly(copy, n, h) ==
  LET status == [copy.status EXCEPT ![n] = IF @ = Unreported THEN @ ELSE h]
  IN  [copy EXCEPT !.status = status, !.alive = Alive(status), !.total = Len(copy.roster)]

\* Mutant of WithReport: the count is taken before the report is merged.
WithReport_CountsFirst(copy, n, h) ==
  [copy EXCEPT !.status[n] = h, !.alive = Alive(copy.status), !.total = Len(copy.roster)]

\* Mutant of WithReport: the entries of the others are not taken over.
WithReport_Alone(copy, n, h) ==
  LET status == [NoAgent.status EXCEPT ![n] = h]
  IN  [copy EXCEPT !.status = status, !.alive = Alive(status), !.total = Len(copy.roster)]

\* The entry of that name is set or appended, the others stay.
WithReport(copy, n, h) ==
  LET status == [copy.status EXCEPT ![n] = h]
  IN  [copy EXCEPT !.status = status, !.alive = Alive(status), !.total = Len(copy.roster)]

\* Mutant of StatusUpdateAccepted: the version is not looked at.
StatusUpdateAccepted_Any(k) == ag.live

\* Whether the API server accepts the status update of a goroutine.
StatusUpdateAccepted(k) == w[k].fresh

\* The container answers the GET.  What becomes of it after that, the answer stands.
Answer(k) ==
  /\ w[k].st = "get"
  /\ Reachable(w[k].pod, w[k].url)
  /\ LET p == pod[w[k].pod]
     IN  w' = [w EXCEPT ![k].st = "update", ![k].answer = [name |-> p.name, health |-> p.health]]
  /\ UNCHANGED <<agent, sts, pods, queue, worker, registry, budget>>

\* No answer: the pod is gone, or the GET fails.
GetFails(k) ==
  /\ w[k].st = "get"
  /\ IF Reachable(w[k].pod, w[k].url) THEN Disturb("getFails") ELSE UNCHANGED budget
  /\ w' = Listening(k)
  /\ UNCHANGED <<agent, sts, pods, queue, worker, registry>>

\* The answer is merged into the copy, and that written as the status.
Report(k) ==
  /\ w[k].st = "update"
  /\ StatusUpdateAccepted(k)
  /\ WriteAgent(WithReport(w[k].copy, w[k].answer.name, w[k].answer.health), Listening(k))
  /\ UNCHANGED <<sts, pods, queue, worker, registry, budget>>

\* The update is rejected, or fails: the error is only logged.
ReportFails(k) ==
  /\ w[k].st = "update"
  /\ IF StatusUpdateAccepted(k) THEN Disturb("updateFails") ELSE UNCHANGED budget
  /\ w' = Listening(k)
  /\ UNCHANGED <<agent, sts, pods, queue, worker, registry>>

-----------------------------------------------------------------------------
User == CreateAgent \/ DeleteAgent \/ EditAgent \/ EditV1alpha1

Cluster ==
  \/ CollectStatefulSet
  \/ SyncAgent
  \/ \E i \in Positions :
       \/ CreatePod(i) \/ CollectPod(i) \/ EvictPod(i)
       \/ RestartContainer(i) \/ Damage(i)
       \/ SyncPod(i) \/ PodEvent(i)

Begin(i) == BeginGone(i) \/ BeginOrphan(i) \/ BeginInit(i) \/ BeginPanics(i)

Post == PostName \/ PostHealth \/ PostRefused \/ PostFails

Worker ==
  \/ ReconcileAgent
  \/ \E i \in Positions : Begin(i)
  \/ Post \/ StopDone \/ StartWatcher

Goroutine(k) == Tick(k) \/ Answer(k) \/ GetFails(k) \/ Report(k) \/ ReportFails(k)

Next == User \/ Cluster \/ Worker \/ Restart \/ \E k \in Watchers : Goroutine(k)

Spec == Init /\ [][Next]_vars

-----------------------------------------------------------------------------
(***************************************************************************)
(* Properties.                                                             *)
(***************************************************************************)
\* Every variable stays in its declared shape: the Agent and its copies, the pods,
\* the locals of Reconcile and of the goroutines (agent_controller.go).
TypeOK ==
  /\ ag \in AgentObject /\ agC \in AgentObject /\ agFresh \in BOOLEAN
  /\ sts \in StatefulSet
  /\ pod \in [Positions -> Pod]
  /\ podC \in [Positions -> Nat] /\ podFresh \subseteq Positions
  /\ queue \subseteq Positions \cup {0}
  /\ pc \in {"idle", "name", "health", "stop", "drop", "start"}
  /\ cur \in Positions \cup {0}
  /\ req \in [url : Nat, name : Reportable, health : 0 .. Full]
  /\ registry \in [Positions -> Watchers \cup {None}]
  /\ w \in [Watchers -> Watcher]
  /\ budget \in Nat

\* The goroutines that run are those agentsWatchers holds, one for each pod, however
\* often the pod is initialised anew: there are never two for a pod, none that could
\* not be stopped any more, and Stop never waits for one that has ended already.
OneWatcherPerPod ==
  /\ \A k \in Watchers : w[k].st # "free" => registry[w[k].pod] = k
  /\ \A i \in Positions :
       registry[i] # None => w[registry[i]].st # "free" /\ w[registry[i]].pod = i

\* What the Alive column shows agrees with the entries beside it, whichever goroutine
\* wrote last and from whatever copy.
AliveCountsStatus == ag.alive = Alive(ag.status)

\* The goroutines write the status they share one over the other, each from a copy it
\* read before its GET, but no report is lost: an entry changes only into the answer one
\* goroutine was given under that name since its last tick, which is then done with,
\* unless it goes with the whole status in a write through v1alpha1.
ReportsKept ==
  [][\A n \in Reportable :
       (ag.live /\ ag'.live /\ ag'.status[n] # ag.status[n])
         => \/ \E k \in Watchers :
                 /\ w[k].st = "update" /\ w'[k].st # "update"
                 /\ w[k].answer = [name |-> n, health |-> ag'.status[n]]
            \/ \E r \in Rosters : ag' = Rewritten(ag, r)]_vars

\* The ticker of a goroutine runs until the worker waits for just this goroutine to
\* end, and no longer: none is left that would never report again nor be stopped, and
\* the one Stop waits for takes one more tick at most before it listens to done.
TickersRun ==
  \A k \in Watchers :
    w[k].st # "free" =>
      (w[k].ticks = "running" <=> ~(pc \in {"stop", "drop"} /\ registry[cur] = k))

(***************************************************************************)
(* Liveness.  The watches deliver, the built-in controllers, the worker    *)
(* and the goroutines run, the work queue is first-in first-out; a GET     *)
(* ends, since the liveness probe of the StatefulSet has a container that  *)
(* does not answer restarted.  Go's choice between a tick and done is not  *)
(* assumed to be fair.                                                     *)
(***************************************************************************)
Fairness ==
  /\ WF_vars(SyncAgent) /\ WF_vars(CollectStatefulSet)
  /\ SF_vars(ReconcileAgent)
  /\ \A i \in Positions :
       /\ WF_vars(CreatePod(i)) /\ WF_vars(CollectPod(i)) /\ WF_vars(SyncPod(i))
       /\ SF_vars(Begin(i))
  /\ WF_vars(Post) /\ WF_vars(StopDone) /\ WF_vars(StartWatcher)
  /\ \A k \in Watchers : WF_vars(Goroutine(k))

FairSpec == Spec /\ Fairness

\* Stop blocks the only worker until the goroutine has received from done: it does not
\* block it for ever, because the ticker is stopped before.
WorkerReturns == pc \in {"stop", "drop"} ~> pc = "idle"

\* README: a reconcile function synchronizes "untile the desired state is reached":
\* time and again the status has the health of every agent that runs.
HealthReported ==
  \A i \in Positions :
    []<>((ag.live /\ i <= Len(ag.roster) /\ pod[i].live)
           => ag.status[ag.roster[i].name] = pod[i].health)

-----------------------------------------------------------------------------
(***************************************************************************)
(* The abstract specification.                                             *)
(***************************************************************************)
Watched ==
  [i \in Positions |-> IF registry[i] = None THEN 0 ELSE w[registry[i]].url]

\* The answer the goroutine of a pod has in hand, as long as its update would be accepted.
Heard ==
  [i \in Positions |->
     IF registry[i] # None /\ w[registry[i]].st = "update" /\ w[registry[i]].fresh
       THEN w[registry[i]].answer
       ELSE [name |-> Unnamed, health |-> Unreported]]

\* tryInitAgent has POSTed the name, and then the health, to the pod it serves.
CareAt(step) == [step |-> step, pod |-> cur, uid |-> req.url]

Care ==
  IF pc = "health" THEN CareAt("told")
  ELSE IF pc \in {"stop", "start"} THEN CareAt("ready")
  ELSE [step |-> "none", pod |-> 0, uid |-> 0]

Abstract == INSTANCE Vigil WITH
  kept <- ag.live, status <- ag.status, care <- Care, watched <- Watched, heard <- Heard

\* Whatever stale copies of the Agent the goroutines write from, however often a pod is
\* initialised anew, replaced or orphaned: what the status comes to say is what one watch
\* there is over a pod was answered by the incarnation it watches, in the time since
\* anyone last wrote the Agent; nothing heard is entered once the watch has ended, and
\* the incarnation had answered the POSTs of a name and of a health before.
Vigilant == Abstract!Spec
=============================================================================
