---------------------------- MODULE VigilProofs ----------------------------
(***************************************************************************)
(* AgentWatch implements Vigil, for every set of names, every list of      *)
(* agents and every value of the bounds.  The answer in a goroutine's hand *)
(* enters the status alone because the API server accepts only what was    *)
(* written over the Agent as it is (CopiesInv); it was given by the        *)
(* watched incarnation because agentsWatchers holds every goroutine that   *)
(* runs (RegistryInv), and the Agent exists because of ServeInv.           *)
(***************************************************************************)
EXTENDS AgentWatchProofs

-----------------------------------------------------------------------------
\* What is initialised or watched is an incarnation of a pod, and the name it is told is
\* that of an agent; what a goroutine could write with success it has read since its last
\* tick, and it was an Agent that exists.
ServeInv ==
  /\ pc \in {"name", "health", "stop", "start"} => req.url # 0 /\ req.name \in Names
  /\ \A k \in Watchers :
       /\ w[k].st # "free" => w[k].url # 0
       /\ w[k].fresh => w[k].st \in {"get", "update"} /\ w[k].copy.live

\* Goroutines change only in what does not concern ServeInv, or become stale.
LEMMA ServeKept ==
  ASSUME ServeInv,
         pc' \in {"name", "health", "stop", "start"}
           => req' = req /\ pc \in {"name", "health", "stop", "start"},
         \A k \in Watchers :
           /\ w'[k].st # "free" => w'[k].url = w[k].url /\ w[k].st # "free"
           /\ w'[k].fresh => w[k].fresh /\ w'[k].copy = w[k].copy /\ w'[k].st = w[k].st
  PROVE  ServeInv'
BY DEF ServeInv

LEMMA ServeCrash == ASSUME Crash PROVE ServeInv'
BY DEF Crash, Return, Free, ServeInv

LEMMA ServeWorker ==
  ASSUME TypeInv, RegistryInv, ServeInv, Worker
  PROVE  ServeInv'
<1>0. w \in [Watchers -> Watcher]
  BY DEF TypeInv, TypeOK
<1>1. CASE ReconcileAgent
  BY <1>1, ServeKept DEF ReconcileAgent, worker, watch
<1>2. ASSUME NEW i \in Positions, BeginGone(i) PROVE ServeInv'
  BY <1>2, ServeKept DEF BeginGone, worker, watch
<1>3. ASSUME NEW i \in Positions, BeginOrphan(i) PROVE ServeInv'
  <2>1. Registered(i) /\ StopTicker(i) /\ pc' = "drop"
    BY <1>3 DEF BeginOrphan
  <2>2. \A k \in Watchers :
          /\ w'[k].st = w[k].st /\ w'[k].url = w[k].url
          /\ w'[k].fresh = w[k].fresh /\ w'[k].copy = w[k].copy
    BY <2>1, StopTickerType DEF TypeInv
  <2> QED
    BY <2>1, <2>2, ServeKept
<1>4. ASSUME NEW i \in Positions, BeginInit(i) PROVE ServeInv'
  <2>1. agC.roster[i].name \in Names
    BY <1>4, RosterType DEF BeginInit, AgentObject, Positions, TypeInv, TypeOK
  <2>2. req'.url # 0 /\ req'.name \in Names
    BY <1>4, <2>1 DEF BeginInit
  <2> QED
    BY <1>4, <2>2 DEF BeginInit, watch, ServeInv
<1>5. ASSUME NEW i \in Positions, BeginPanics(i) PROVE ServeInv'
  BY <1>5, ServeCrash DEF BeginPanics
<1>6. CASE PostName \/ PostRefused \/ PostFails
  BY <1>6, ServeKept DEF PostName, PostRefused, PostFails, ReturnError, Return, watch
<1>7. CASE PostHealth
  <2>1. cur \in Positions /\ req' = req /\ pc = "health"
    BY <1>7 DEF PostHealth, TypeInv
  <2>2. \A k \in Watchers :
          /\ w'[k].st = w[k].st /\ w'[k].url = w[k].url
          /\ w'[k].fresh = w[k].fresh /\ w'[k].copy = w[k].copy
    BY <1>7, <2>1, StopTickerType DEF PostHealth, AfterInit, TypeInv
  <2> QED
    BY <2>1, <2>2, ServeKept
<1>8. CASE StopDone
  <2>1. \A k \in Watchers : w'[k] = w[k] \/ w'[k] = Free
    BY <1>0, <1>8 DEF StopDone
  <2>2. (pc = "stop" /\ pc' = "start" /\ req' = req) \/ pc' = "idle"
    BY <1>8 DEF StopDone, Return
  <2> QED
    BY <2>1, <2>2, ServeKept DEF Free
<1>9. CASE StartWatcher
  <2>1. \A k \in Watchers : w'[k] = w[k] \/ (w'[k].url = req.url /\ ~w'[k].fresh)
    BY <1>0, <1>9 DEF StartWatcher, Free
  <2>2. req.url # 0 /\ pc' = "idle"
    BY <1>9 DEF StartWatcher, Return, ServeInv
  <2> QED
    BY <2>1, <2>2 DEF ServeInv
<1> QED
  BY <1>1, <1>2, <1>3, <1>4, <1>5, <1>6, <1>7, <1>8, <1>9 DEF Worker, Begin, Post

LEMMA ServeGoroutine ==
  ASSUME TypeInv, ServeInv, NEW k \in Watchers, Goroutine(k)
  PROVE  ServeInv'
<1>0. w \in [Watchers -> Watcher]
  BY DEF TypeInv, TypeOK
<1>1. w[k].st # "free" /\ UNCHANGED worker
  BY DEF Goroutine, Tick, Answer, Report, ReportFails, GetFails
<1>2. CASE Tick(k)
  <2>1. /\ w'[k].st = "get" /\ w'[k].url = w[k].url
        /\ w'[k].fresh = IF agC.live THEN agFresh ELSE w[k].fresh
        /\ w'[k].copy = IF agC.live THEN agC ELSE w[k].copy
        /\ \A j \in Watchers \ {k} : w'[j] = w[j]
    BY <1>0, <1>2 DEF Tick, Watcher
  <2> QED
    BY <1>1, <2>1 DEF ServeInv, worker
<1>3. /\ Listening(k) \in [Watchers -> Watcher]
      /\ \A j \in Watchers :
           /\ Listening(k)[j].url = w[j].url
           /\ Listening(k)[j].st # "free" => w[j].st # "free"
           /\ Listening(k)[j].fresh => Listening(k)[j] = w[j]
  BY <1>1, ListeningType DEF TypeInv
<1>4. CASE w' = Listening(k)
  BY <1>1, <1>3, <1>4, ServeKept DEF worker
<1>5. CASE w' = Outdated(Listening(k))
  BY <1>1, <1>3, <1>5, OutdatedType, ServeKept DEF worker
<1>6. CASE Answer(k)
  <2>1. w[k].pod \in Positions
    BY <1>1 DEF TypeInv
  <2>2. /\ w'[k].st = "update" /\ w'[k].url = w[k].url
        /\ w'[k].fresh = w[k].fresh /\ w'[k].copy = w[k].copy
        /\ \A j \in Watchers \ {k} : w'[j] = w[j]
    BY <1>6, <2>1, AnswerType DEF TypeInv
  <2> QED
    BY <1>1, <2>2 DEF ServeInv, worker
<1> QED
  BY <1>2, <1>4, <1>5, <1>6 DEF Goroutine, Report, ReportFails, GetFails, WriteAgent

LEMMA ServeNext == TypeInv /\ RegistryInv /\ ServeInv /\ [Next]_vars => ServeInv'
<1> SUFFICES ASSUME TypeInv, RegistryInv, ServeInv, [Next]_vars PROVE ServeInv'
  OBVIOUS
<1>1. CASE User
  <2>1. UNCHANGED worker /\ (w' = w \/ w' = Outdated(w)) /\ w \in [Watchers -> Watcher]
    BY <1>1 DEF User, CreateAgent, DeleteAgent, EditAgent, EditV1alpha1, WriteAgent,
                TypeInv, TypeOK
  <2> QED
    BY <2>1, OutdatedType, ServeKept DEF worker
<1>2. CASE Cluster
  <2>1. UNCHANGED <<worker, watch>>
    BY <1>2 DEF Cluster, CollectStatefulSet, SyncAgent, CreatePod, CollectPod, EvictPod,
                RestartContainer, Damage, SyncPod, PodEvent, Started, Gone, PodChanges
  <2> QED
    BY <2>1, ServeKept DEF worker, watch
<1>3. CASE Restart
  BY <1>3, ServeCrash DEF Restart
<1>4. CASE UNCHANGED vars
  BY <1>4, ServeKept DEF vars, worker, watch
<1> QED
  BY <1>1, <1>2, <1>3, <1>4, ServeWorker, ServeGoroutine DEF Next

VInv == TypeInv /\ RegistryInv /\ CopiesInv /\ ServeInv

LEMMA VigilInvariant == Spec => []VInv
<1>1. Init => VInv
  BY TypeInit, RegistryInit, CopiesInit DEF Init, Free, VInv, ServeInv
<1>2. VInv /\ [Next]_vars => VInv'
  BY TypeNext, RegistryNext, CopiesNext, ServeNext DEF VInv
<1> QED
  BY <1>1, <1>2, PTL DEF Spec

-----------------------------------------------------------------------------
(***************************************************************************)
(* What the refinement mapping sees of a step.                             *)
(***************************************************************************)
AgentSame == ag'.live = ag.live /\ ag'.status = ag.status

\* The answer a goroutine could enter with success.
InHand(k) ==
  IF w[k].st = "update" /\ w[k].fresh THEN w[k].answer ELSE Abstract!Silence

\* Who is watched and what is in hand depends on agentsWatchers, on the addresses and on
\* the answers only.
LEMMA SeenKept ==
  ASSUME registry' = registry, TypeInv,
         \A k \in Watchers : w'[k].url = w[k].url /\ InHand(k)' = InHand(k)
  PROVE  Watched' = Watched /\ Heard' = Heard
<1>1. \A i \in Positions : registry[i] # None => registry[i] \in Watchers
  BY DEF TypeInv, TypeOK
<1> QED
  BY <1>1 DEF Watched, Heard, InHand, Abstract!Silence, Unreported

LEMMA WatchedKept ==
  ASSUME registry' = registry, TypeInv, \A k \in Watchers : w'[k].url = w[k].url
  PROVE  Watched' = Watched
<1>1. \A i \in Positions : registry[i] # None => registry[i] \in Watchers
  BY DEF TypeInv, TypeOK
<1> QED
  BY <1>1 DEF Watched

\* What concerns neither registration nor an answer in hand is not seen.
LEMMA GoroutinesKept ==
  ASSUME registry' = registry, TypeInv,
         \A k \in Watchers :
           /\ w'[k].url = w[k].url /\ w'[k].st = w[k].st
           /\ w'[k].fresh = w[k].fresh /\ w'[k].answer = w[k].answer
  PROVE  Watched' = Watched /\ Heard' = Heard
BY SeenKept DEF InHand

\* A write of the Agent voids all answers.
LEMMA NoneHeard ==
  ASSUME TypeInv', \A k \in Watchers : ~w'[k].fresh
  PROVE  Heard' = Abstract!Silent
<1>1. \A i \in Positions : registry'[i] # None => registry'[i] \in Watchers
  BY DEF TypeInv, TypeOK
<1> QED
  BY <1>1 DEF Heard, Abstract!Silent, Abstract!Silence, Unreported

LEMMA CareKept ==
  ASSUME \/ UNCHANGED worker
         \/ /\ pc \notin {"health", "stop", "start"}
            /\ pc' \notin {"health", "stop", "start"}
  PROVE  Care' = Care
BY DEF worker, Care, CareAt

\* Nobody is cared for before the name was POSTed or once the worker has returned.
LEMMA CareNobody ==
  ASSUME pc' \notin {"health", "stop", "start"}
  PROVE  Care' = Abstract!Nobody
BY DEF Care, Abstract!Nobody

\* Nothing that the abstract specification knows of happens.
LEMMA Stutter ==
  ASSUME AgentSame, UNCHANGED pod, Care' = Care, Watched' = Watched, Heard' = Heard
  PROVE  UNCHANGED Abstract!vars
BY DEF AgentSame, Abstract!vars

-----------------------------------------------------------------------------
\* Every write of a user keeps the status or empties it, and voids all answers.
LEMMA UserMapped ==
  ASSUME TypeInv, TypeInv', User
  PROVE  [Abstract!Written]_(Abstract!vars)
<1>0. ag \in AgentObject /\ ag'.live \in BOOLEAN /\ w \in [Watchers -> Watcher]
  BY DEF TypeInv, TypeOK, AgentObject
<1>1. UNCHANGED <<pod, worker, registry>>
  BY DEF User, CreateAgent, DeleteAgent, EditAgent, EditV1alpha1, pods
<1>2. (ag' = ag /\ w' = w) \/ w' = Outdated(w)
  <2>1. \E obj : WriteAgent(obj, w)
    BY Zenon DEF User, CreateAgent, DeleteAgent, EditAgent, EditV1alpha1
  <2> QED
    BY <2>1 DEF WriteAgent
<1>3. ag'.status = Abstract!Blank \/ AgentSame
  <2> USE DEF Abstract!Blank, AgentSame, WriteAgent, Unreported, Abstract!Reportable, Reportable
  <2>1. CASE CreateAgent
    BY <2>1 DEF CreateAgent, NoAgent
  <2>2. CASE DeleteAgent
    BY <2>2 DEF DeleteAgent, NoAgent
  <2>3. CASE EditAgent
    BY <1>0, <2>3 DEF EditAgent, AgentObject
  <2>4. CASE EditV1alpha1
    <3>1. PICK r \in Rosters : \/ ag' = Rewritten(ag, r)
                               \/ ag' = [ag EXCEPT !.roster = ThroughV1alpha1(r)]
      BY <2>4 DEF EditV1alpha1
    <3>2. Rewritten(ag, r).status = [n \in Reportable |-> Unreported]
      BY DEF Rewritten, NoAgent
    <3> QED
      BY <1>0, <3>1, <3>2 DEF AgentObject
  <2> QED
    BY <2>1, <2>2, <2>3, <2>4 DEF User
<1>4. CASE ag' = ag /\ w' = w
  BY <1>1, <1>4, CareKept, GoroutinesKept, Stutter DEF AgentSame
<1>5. CASE w' = Outdated(w)
  <2>1. /\ Watched' = Watched
        /\ Heard' = Abstract!Silent
    <3>1. \A k \in Watchers : w'[k].url = w[k].url /\ ~w'[k].fresh
      BY <1>0, <1>5, OutdatedType
    <3> QED
      BY <1>1, <3>1, WatchedKept, NoneHeard
  <2> QED
    BY <1>0, <1>1, <1>3, <2>1, CareKept DEF Abstract!Written, AgentSame
<1> QED
  BY <1>2, <1>4, <1>5

\* A pod changes, and nothing else that is seen.
LEMMA PodMapped ==
  ASSUME TypeInv, NEW i \in Positions, NEW p, PodChanges(i, p)
  PROVE  Abstract!PodBecomes(i, p) /\ Care' = Care
BY CareKept, GoroutinesKept DEF PodChanges, Abstract!PodBecomes, agent, watch

LEMMA ClusterMapped ==
  ASSUME TypeInv, Cluster
  PROVE  [Abstract!Next]_(Abstract!vars)
<1>0. \A i \in Positions : pod[i] \in Pod
  BY DEF TypeInv, TypeOK
<1>1. CASE CollectStatefulSet \/ SyncAgent \/ \E i \in Positions : SyncPod(i) \/ PodEvent(i)
  <2>1. UNCHANGED <<ag, pod, worker, watch>>
    BY <1>1 DEF CollectStatefulSet, SyncAgent, SyncPod, PodEvent, agent, pods
  <2>2. Care' = Care /\ Watched' = Watched /\ Heard' = Heard
    BY <2>1, CareKept, GoroutinesKept DEF watch
  <2> QED
    BY <2>1, <2>2, Stutter DEF AgentSame
<1>2. ASSUME NEW i \in Positions, CreatePod(i) \/ RestartContainer(i)
      PROVE  Abstract!Starts(i)
  <2>1. PICK u \in {pod[i].uid, pod[i].uid + 1} :
          /\ u = pod[i].uid <=> pod[i].live
          /\ Started(i, u)
    BY <1>0, <1>2 DEF CreatePod, RestartContainer, Pod
  <2> QED
    BY <2>1, PodMapped DEF Started, Abstract!Starts
<1>3. ASSUME NEW i \in Positions, CollectPod(i) \/ EvictPod(i)
      PROVE  Abstract!Ends(i)
  BY <1>3, PodMapped DEF CollectPod, EvictPod, Gone, Abstract!Ends
<1>4. ASSUME NEW i \in Positions, Damage(i)
      PROVE  Abstract!Suffers(i)
  BY <1>4, CareKept, GoroutinesKept
  DEF Damage, Abstract!Suffers, Abstract!PodBecomes, agent, watch
<1> QED
  BY <1>1, <1>2, <1>3, <1>4 DEF Cluster, Abstract!Next

\* The process is started again.
LEMMA CrashMapped ==
  ASSUME Crash
  PROVE  Abstract!Forget
<1>1. Watched' = Abstract!Unwatched
  BY DEF Crash, Watched, Abstract!Unwatched
<1>2. Care' = Abstract!Nobody
  BY CareNobody DEF Crash, Return
<1>3. Heard' = Abstract!Silent
  BY DEF Crash, Heard, Abstract!Silent, Abstract!Silence, Unreported
<1> QED
  BY <1>1, <1>2, <1>3 DEF Crash, Abstract!Forget

-----------------------------------------------------------------------------
\* The POST of the name reaches the incarnation the worker read, or none; whether the
\* container takes the name is not known.
LEMMA NameMapped ==
  ASSUME TypeInv, ServeInv, pc = "name", Reachable(cur, req.url), pod' \in {pod, Named},
         UNCHANGED <<ag, watch>>,
         pc' \in {"idle", "health"}, pc' = "health" => cur' = cur /\ req' = req
  PROVE  cur \in Positions /\ Abstract!Name(cur)
<1>1. cur \in Positions /\ req.name \in Names /\ pod \in [Positions -> Pod]
  BY DEF TypeInv, TypeOK, ServeInv
<1>2. pod[cur].live /\ pod[cur].uid = req.url
  BY DEF Reachable
<1>3. Care' \in {Abstract!Nobody, Abstract!Care("told", cur)}
  BY <1>2 DEF Care, CareAt, Abstract!Nobody, Abstract!Care
<1>4. PICK n \in Names \cup {pod[cur].name} :
        pod' = [pod EXCEPT ![cur] = [pod[cur] EXCEPT !.name = n]]
  <2>1. pod = [pod EXCEPT ![cur] = [pod[cur] EXCEPT !.name = pod[cur].name]]
    BY <1>1 DEF Pod
  <2> QED
    BY <1>1, <2>1 DEF Named
<1>5. Watched' = Watched /\ Heard' = Heard
  BY GoroutinesKept DEF watch
<1>6. Abstract!PodBecomes(cur, [pod[cur] EXCEPT !.name = n])
  BY <1>4, <1>5 DEF Abstract!PodBecomes
<1> QED
  BY <1>1, <1>2, <1>3, <1>6 DEF Abstract!Name

\* So does the POST of the health, after which the incarnation is ready to be watched.
LEMMA HealMapped ==
  ASSUME TypeInv, pc = "health", Reachable(cur, req.url), pod' \in {pod, Healed},
         UNCHANGED ag, Watched' = Watched, Heard' = Heard,
         pc' \in {"idle", "stop", "start"}, pc' # "idle" => cur' = cur /\ req' = req
  PROVE  cur \in Positions /\ Abstract!Heal(cur)
<1>1. /\ cur \in Positions /\ req.health \in 0 .. Full
      /\ pod \in [Positions -> Pod] /\ pod[cur].health \in 0 .. Full
  BY DEF TypeInv, TypeOK, Pod
<1>2. pod[cur].live /\ pod[cur].uid = req.url
  BY DEF Reachable
<1>3. /\ Care = Abstract!Care("told", cur)
      /\ Care' = Abstract!Nobody \/ Care' = Abstract!Care("ready", cur)
  BY <1>2 DEF Care, CareAt, Abstract!Nobody, Abstract!Care
<1>4. PICK h \in 0 .. Full : pod' = [pod EXCEPT ![cur] = [pod[cur] EXCEPT !.health = h]]
  <2>1. pod = [pod EXCEPT ![cur] = [pod[cur] EXCEPT !.health = pod[cur].health]]
    BY <1>1 DEF Pod
  <2> QED
    BY <1>1, <2>1 DEF Healed
<1>5. Abstract!PodBecomes(cur, [pod[cur] EXCEPT !.health = h])
  BY <1>4 DEF Abstract!PodBecomes
<1> QED
  BY <1>1, <1>2, <1>3, <1>5 DEF Abstract!Heal

\* The worker returns without having changed anything.
LEMMA GivenUp ==
  ASSUME TypeInv, Return, UNCHANGED <<ag, pod, watch>>
  PROVE  Abstract!GiveUp
BY CareNobody, GoroutinesKept DEF Return, watch, Abstract!GiveUp

LEMMA PostMapped ==
  ASSUME TypeInv, ServeInv, Post
  PROVE  [Abstract!Next]_(Abstract!vars)
<1>1. CASE PostName
  <2>1. pod' \in {pod, Named}
    BY <1>1 DEF PostName, Answered
  <2> QED
    BY <1>1, <2>1, NameMapped DEF PostName, agent, Abstract!Next
<1>2. CASE PostHealth
  <2>1. /\ UNCHANGED <<ag, registry, cur, req>> /\ pc = "health"
        /\ Reachable(cur, req.url) /\ pod' \in {pod, Healed}
    BY <1>2 DEF PostHealth, Answered, agent
  <2>2. cur \in Positions
    BY <2>1 DEF TypeInv
  <2>3. pc' \in {"stop", "start"} /\ Watched' = Watched /\ Heard' = Heard
    <3>1. CASE Registered(cur)
      BY <1>2, <2>1, <2>2, <3>1, StopTickerType, GoroutinesKept
      DEF PostHealth, AfterInit, TypeInv
    <3>2. CASE ~Registered(cur)
      BY <1>2, <2>1, <3>2, GoroutinesKept DEF PostHealth, AfterInit
    <3> QED
      BY <3>1, <3>2
  <2> QED
    BY <2>1, <2>3, HealMapped DEF Abstract!Next
<1>3. CASE PostRefused
  BY <1>3, GivenUp DEF PostRefused, ReturnError, agent, pods, Abstract!Next
<1>4. CASE PostFails
  <2>1. Return /\ UNCHANGED <<ag, watch>> /\ pc' = "idle" /\ Reachable(cur, req.url)
    BY <1>4 DEF PostFails, ReturnError, Return, agent
  <2>2. CASE pod' = pod
    BY <2>1, <2>2, GivenUp DEF Abstract!Next
  <2>3. CASE pc = "name" /\ pod' = Named
    BY <2>1, <2>3, NameMapped DEF Abstract!Next
  <2>4. CASE pc = "health" /\ pod' = Healed
    <3>1. Watched' = Watched /\ Heard' = Heard
      BY <2>1, GoroutinesKept DEF watch
    <3> QED
      BY <2>1, <2>4, <3>1, HealMapped DEF Abstract!Next
  <2> QED
    BY <1>4, <2>2, <2>3, <2>4 DEF PostFails
<1> QED
  BY <1>1, <1>2, <1>3, <1>4 DEF Post

\* A goroutine that ends was the watch over its pod, and has no answer in hand.
LEMMA StopMapped ==
  ASSUME VInv, StopDone
  PROVE  Abstract!Unwatch(cur)
<1>0. /\ w \in [Watchers -> Watcher] /\ registry \in [Positions -> Watchers \cup {None}]
      /\ cur \in Positions /\ registry[cur] \in Watchers
  BY DEF VInv, TypeInv, TypeOK, RegistryInv, Registered, StopDone
<1>1. \A i \in Positions \ {cur} : registry'[i] = registry[i] /\ registry[i] # registry[cur]
  BY <1>0, ConstantsAssumption DEF StopDone, VInv, RegistryInv, OneWatcherPerPod
<1>2. \A k \in Watchers \ {registry[cur]} : w'[k] = w[k]
  BY <1>0 DEF StopDone
<1>3. registry'[cur] = None
  BY <1>0 DEF StopDone
<1>4. Watched' = [Watched EXCEPT ![cur] = 0]
  BY <1>0, <1>1, <1>2, <1>3 DEF Watched
<1>5. Heard' = Heard /\ Heard[cur] = Abstract!Silence
  BY <1>0, <1>1, <1>2, <1>3 DEF StopDone, Heard, Abstract!Silence, Unreported
<1>6. Care' = Care
  BY DEF StopDone, Return, Care, CareAt
<1> QED
  BY <1>4, <1>5, <1>6 DEF StopDone, agent, pods, Abstract!Unwatch

\* A goroutine that starts watches the incarnation that was initialised.
LEMMA StartMapped ==
  ASSUME VInv, StartWatcher
  PROVE  Abstract!Watch(cur)
<1>0. /\ w \in [Watchers -> Watcher] /\ registry \in [Positions -> Watchers \cup {None}]
      /\ cur \in Positions /\ registry[cur] = None
  BY DEF VInv, TypeInv, TypeOK, RegistryInv, Registered, StartWatcher
<1>1. PICK k \in Watchers :
        /\ w[k].st = "free"
        /\ w' = [w EXCEPT ![k] = [Free EXCEPT !.st = "select", !.pod = cur,
                                           !.url = req.url, !.ticks = "running"]]
        /\ registry' = [registry EXCEPT ![cur] = k]
  BY DEF StartWatcher
<1>2. \A i \in Positions \ {cur} : registry'[i] = registry[i] /\ registry[i] # k
  BY <1>0, <1>1, ConstantsAssumption DEF VInv, RegistryInv, OneWatcherPerPod
<1>3. w'[k].url = req.url /\ w'[k].st = "select" /\ \A j \in Watchers \ {k} : w'[j] = w[j]
  BY <1>0, <1>1 DEF Free
<1>4. registry'[cur] = k /\ k # None
  BY <1>0, <1>1, ConstantsAssumption
<1>5. Watched' = [Watched EXCEPT ![cur] = req.url]
  BY <1>0, <1>2, <1>3, <1>4 DEF Watched
<1>6. Care = CareAt("ready") /\ Watched[cur] = 0
  BY <1>0 DEF StartWatcher, Care, Watched
<1>7. Care' = Abstract!Nobody
  BY CareNobody DEF StartWatcher, Return
<1>8. Heard' = Heard
  BY <1>0, <1>2, <1>3, <1>4 DEF Heard
<1> QED
  BY <1>5, <1>6, <1>7, <1>8 DEF StartWatcher, CareAt, agent, pods, Abstract!Watch

LEMMA WorkerMapped ==
  ASSUME VInv, Worker
  PROVE  [Abstract!Next]_(Abstract!vars)
<1>0. TypeInv /\ ServeInv
  BY DEF VInv
<1>1. CASE ReconcileAgent
  BY <1>0, <1>1, CareKept, GoroutinesKept, Stutter
  DEF ReconcileAgent, AgentSame, agent, pods, worker, watch
<1>2. ASSUME NEW i \in Positions, BeginGone(i) \/ BeginOrphan(i) \/ BeginInit(i)
      PROVE  UNCHANGED Abstract!vars
  <2>1. /\ UNCHANGED <<ag, pod, registry>> /\ pc = "idle"
        /\ pc' \in {"idle", "drop", "name"}
    BY <1>2 DEF BeginGone, BeginOrphan, BeginInit, Dequeue, agent, pods, worker, watch
  <2>2. \A k \in Watchers :
          /\ w'[k].url = w[k].url /\ w'[k].st = w[k].st
          /\ w'[k].fresh = w[k].fresh /\ w'[k].answer = w[k].answer
    BY <1>0, <1>2, StopTickerType DEF BeginGone, BeginOrphan, BeginInit, watch, TypeInv
  <2> QED
    BY <1>0, <2>1, <2>2, CareKept, GoroutinesKept, Stutter DEF AgentSame
<1>3. ASSUME NEW i \in Positions, BeginPanics(i) PROVE Abstract!Next
  BY <1>3, CrashMapped DEF BeginPanics, Abstract!Next
<1>4. CASE StopDone
  <2>1. cur \in Positions
    BY <1>0, <1>4 DEF StopDone, TypeInv
  <2> QED
    BY <1>4, <2>1, StopMapped DEF Abstract!Next
<1>5. CASE StartWatcher
  <2>1. cur \in Positions
    BY <1>0, <1>5 DEF StartWatcher, TypeInv
  <2> QED
    BY <1>5, <2>1, StartMapped DEF Abstract!Next
<1> QED
  BY <1>0, <1>1, <1>2, <1>3, <1>4, <1>5, PostMapped DEF Worker, Begin

-----------------------------------------------------------------------------
\* A goroutine that runs is the one its pod has, and at most one goroutine changes what it
\* has in hand.
LEMMA HeardChanges ==
  ASSUME VInv, registry' = registry, NEW k \in Watchers, w[k].st # "free",
         \A j \in Watchers \ {k} : InHand(j)' = InHand(j)
  PROVE  /\ w[k].pod \in Positions /\ registry[w[k].pod] = k /\ k # None
         /\ Heard[w[k].pod] = InHand(k)
         /\ Heard' = [Heard EXCEPT ![w[k].pod] = InHand(k)']
<1> DEFINE i == w[k].pod
<1>1. i \in Positions /\ registry[i] = k /\ k # None
  BY ConstantsAssumption DEF VInv, TypeInv, RegistryInv, OneWatcherPerPod
<1>2. \A j \in Positions \ {i} :
        registry[j] # None => registry[j] \in Watchers \ {k}
  BY DEF VInv, TypeInv, TypeOK, RegistryInv, OneWatcherPerPod
<1>3. Heard[i] = InHand(k) /\ Heard'[i] = InHand(k)'
  BY <1>1 DEF Heard, InHand, Abstract!Silence, Unreported
<1>4. \A j \in Positions \ {i} : Heard'[j] = Heard[j]
  BY <1>2 DEF Heard, InHand, Abstract!Silence, Unreported
<1>5. Heard' = [Heard EXCEPT ![i] = InHand(k)']
  BY <1>1, <1>3, <1>4 DEF Heard
<1> QED
  BY <1>1, <1>3, <1>5

\* The container answers the goroutine that watches it, while the Agent exists or in vain.
LEMMA AnswerMapped ==
  ASSUME VInv, NEW k \in Watchers, Answer(k)
  PROVE  [Abstract!Next]_(Abstract!vars)
<1> DEFINE i == w[k].pod
<1>1. i \in Positions /\ w[k].st = "get" /\ w[k].url # 0
  BY DEF VInv, TypeInv, ServeInv, Answer
<1>2. /\ \A j \in Watchers \ {k} : w'[j] = w[j]
      /\ w'[k].st = "update" /\ w'[k].fresh = w[k].fresh /\ w'[k].url = w[k].url
      /\ w'[k].answer = [name |-> pod[i].name, health |-> pod[i].health]
  BY <1>1, AnswerType DEF VInv, TypeInv
<1>3. UNCHANGED <<ag, pod, worker, registry>>
  BY DEF Answer, agent, pods
<1>4. Watched' = Watched /\ Care' = Care
  BY <1>2, <1>3, WatchedKept, CareKept DEF VInv
<1>5. \A j \in Watchers \ {k} : InHand(j)' = InHand(j)
  BY <1>2 DEF InHand
<1>6. /\ registry[i] = k /\ k # None
      /\ Heard[i] = InHand(k)
      /\ Heard' = [Heard EXCEPT ![i] = InHand(k)']
  BY <1>1, <1>3, <1>5, HeardChanges
<1>7. InHand(k) = Abstract!Silence
  BY <1>1 DEF InHand
<1>8. CASE w[k].fresh
  <2>1. ag.live
    BY <1>8 DEF VInv, ServeInv, CopiesInv
  <2>2. pod[i].live /\ Watched[i] = pod[i].uid /\ Watched[i] # 0
    BY <1>1, <1>6 DEF Answer, Reachable, Watched
  <2>3. InHand(k)' = [name |-> pod[i].name, health |-> pod[i].health]
    BY <1>2, <1>8 DEF InHand
  <2> QED
    BY <1>1, <1>3, <1>4, <1>6, <1>7, <2>1, <2>2, <2>3 DEF Abstract!Hear, Abstract!Next
<1>9. CASE ~w[k].fresh
  <2>1. InHand(k)' = InHand(k)
    BY <1>2, <1>7, <1>9 DEF InHand
  <2>2. Heard' = Heard
    BY <1>5, <1>2, <1>3, <2>1, SeenKept DEF VInv
  <2> QED
    BY <1>3, <1>4, <2>2, Stutter DEF AgentSame
<1> QED
  BY <1>8, <1>9

\* A goroutine that listens again has nothing in hand.
LEMMA ListeningSilent ==
  ASSUME TypeInv, NEW k \in Watchers, w' = Listening(k)
  PROVE  /\ InHand(k)' = Abstract!Silence
         /\ \A j \in Watchers \ {k} : InHand(j)' = InHand(j)
         /\ \A j \in Watchers : w'[j].url = w[j].url
BY ListeningType DEF InHand, TypeInv

\* The report of a goroutine is the report of the watch over the pod that answered it.
LEMMA ReportMapped ==
  ASSUME VInv, VInv', NEW k \in Watchers, Report(k)
  PROVE  w[k].pod \in Positions /\ Abstract!Report(w[k].pod)
<1> DEFINE i == w[k].pod
<1>0. /\ ag \in AgentObject /\ w \in [Watchers -> Watcher]
      /\ Listening(k) \in [Watchers -> Watcher]
  BY ListeningType DEF VInv, TypeInv, TypeOK
<1>1. /\ w[k].answer \in Answers
      /\ ag' = WithReport(ag, w[k].answer.name, w[k].answer.health)
  BY ReportWrites DEF VInv
<1>2. ag.live /\ w[k].st = "update" /\ w[k].fresh
  BY DEF VInv, ServeInv, CopiesInv, Report, StatusUpdateAccepted
<1>3. UNCHANGED <<pod, worker, registry>>
  BY DEF Report, pods
<1>4. /\ i \in Positions /\ registry[i] = k /\ k # None
  BY <1>2, ConstantsAssumption DEF VInv, TypeInv, RegistryInv, OneWatcherPerPod
<1>5. Heard[i] = w[k].answer
  BY <1>2, <1>4 DEF Heard
<1>6. Heard[i] # Abstract!Silence
  BY <1>1, <1>5, HealthAssumption DEF Answers, Abstract!Silence
<1>7. /\ ag'.live = ag.live
      /\ ag'.status = [ag.status EXCEPT ![Heard[i].name] = Heard[i].health]
  BY <1>0, <1>1, <1>5 DEF WithReport, AgentObject
<1>8. (ag' = ag /\ w' = Listening(k)) \/ w' = Outdated(Listening(k))
  BY DEF Report, WriteAgent
<1>9. Watched' = Watched /\ Care' = Care
  <2>1. \A j \in Watchers : Listening(k)[j].url = w[j].url
    BY ListeningType DEF VInv, TypeInv
  <2>2. \A j \in Watchers : w'[j].url = w[j].url
    BY <1>0, <1>8, <2>1, OutdatedType
  <2> QED
    BY <1>3, <2>2, WatchedKept, CareKept DEF VInv
<1>10. \/ Heard' = Abstract!Silent
       \/ ag' = ag /\ Heard' = [Heard EXCEPT ![i] = Abstract!Silence]
  <2>1. CASE ag' = ag /\ w' = Listening(k)
    BY <1>2, <1>3, <2>1, ListeningSilent, HeardChanges DEF VInv
  <2>2. CASE w' = Outdated(Listening(k))
    BY <1>0, <2>2, OutdatedType, NoneHeard DEF VInv
  <2> QED
    BY <1>8, <2>1, <2>2
<1> QED
  BY <1>2, <1>3, <1>4, <1>6, <1>7, <1>9, <1>10 DEF Abstract!Report

LEMMA GoroutineMapped ==
  ASSUME VInv, VInv', NEW k \in Watchers, Goroutine(k)
  PROVE  [Abstract!Next]_(Abstract!vars)
<1>1. CASE Report(k)
  BY <1>1, ReportMapped DEF Abstract!Next
<1>2. CASE Answer(k)
  BY <1>2, AnswerMapped
<1>3. CASE Tick(k)
  <2>0. w \in [Watchers -> Watcher]
    BY DEF VInv, TypeInv, TypeOK
  <2>1. UNCHANGED <<ag, pod, worker, registry>>
    BY <1>3 DEF Tick, agent, pods
  <2>2. \A j \in Watchers : w'[j].url = w[j].url /\ InHand(j)' = InHand(j)
    BY <1>3, <2>0 DEF Tick, Watcher, InHand
  <2> QED
    BY <2>1, <2>2, SeenKept, CareKept, Stutter DEF VInv, AgentSame
<1>4. CASE ReportFails(k) \/ GetFails(k)
  <2>1. UNCHANGED <<ag, pod, worker, registry>> /\ w' = Listening(k) /\ w[k].st # "free"
    BY <1>4 DEF ReportFails, GetFails, agent, pods
  <2>2. /\ InHand(k)' = Abstract!Silence
        /\ \A j \in Watchers \ {k} : InHand(j)' = InHand(j)
        /\ \A j \in Watchers : w'[j].url = w[j].url
    BY <2>1, ListeningSilent DEF VInv
  <2>3. w[k].pod \in Positions /\ Heard' = [Heard EXCEPT ![w[k].pod] = Abstract!Silence]
    BY <2>1, <2>2, HeardChanges
  <2>4. Watched' = Watched /\ Care' = Care
    BY <2>1, <2>2, WatchedKept, CareKept DEF VInv
  <2> QED
    BY <2>1, <2>3, <2>4 DEF Abstract!Drop, Abstract!Next
<1> QED
  BY <1>1, <1>2, <1>3, <1>4 DEF Goroutine

-----------------------------------------------------------------------------
\* AgentWatch implements Vigil: the goroutines ask, wait and write in turns, from copies
\* any of them or a user may outdate, while pods come and go and the worker stops one
\* goroutine and starts the next; the status still takes in only what a watched,
\* initialised incarnation answered since the Agent was last written (Reconcile,
\* tryInitAgent, the goroutine's loop).
THEOREM VigilImplemented == Spec => Vigilant
<1>1. Init => Abstract!Init
  BY DEF Init, NoAgent, Unreported, Care, Watched, Heard, Abstract!Init, Abstract!Blank,
         Abstract!Nobody, Abstract!Unwatched, Abstract!Silent, Abstract!Silence,
         Abstract!Reportable, Reportable
<1>2. VInv /\ VInv' /\ [Next]_vars => [Abstract!Next]_(Abstract!vars)
  <2> SUFFICES ASSUME VInv, VInv', [Next]_vars PROVE [Abstract!Next]_(Abstract!vars)
    OBVIOUS
  <2>1. CASE User
    BY <2>1, UserMapped DEF VInv, Abstract!Next
  <2>2. CASE Restart
    BY <2>2, CrashMapped DEF Restart, Abstract!Next
  <2>3. CASE UNCHANGED vars
    BY <2>3, CareKept, GoroutinesKept, Stutter
    DEF VInv, vars, agent, pods, watch, AgentSame
  <2> QED
    BY <2>1, <2>2, <2>3, ClusterMapped, WorkerMapped, GoroutineMapped DEF VInv, Next
<1> QED
  BY <1>1, <1>2, VigilInvariant, PTL DEF Vigilant, Abstract!Spec, Spec
=============================================================================
