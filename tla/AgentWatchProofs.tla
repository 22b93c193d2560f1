-------------------------- MODULE AgentWatchProofs --------------------------
(***************************************************************************)
(* Theorems about AgentWatch, for every set of names, every list of agents *)
(* and every value of the bounds.  The invariant has three layers: TypeInv *)
(* (shapes), CopiesInv (a copy marked fresh is the Agent itself) and       *)
(* RegistryInv (agentsWatchers and the goroutines agree, and the worker    *)
(* knows whether its pod has one).                                         *)
(***************************************************************************)
EXTENDS AgentWatch, FiniteSetTheorems, TLAPS

-----------------------------------------------------------------------------
\* Shapes; a worker that is busy serves a pod, and so does a goroutine that runs.
TypeInv ==
  /\ TypeOK
  /\ pc # "idle" => cur \in Positions
  /\ \A k \in Watchers : w[k].st # "free" => w[k].pod \in Positions

CopiesInv ==
  /\ agFresh => agC = ag
  /\ \A k \in Watchers : w[k].fresh => w[k].copy = ag

RegistryInv ==
  /\ OneWatcherPerPod
  /\ pc \in {"stop", "drop"} => Registered(cur)
  /\ pc = "start" => ~Registered(cur)

-----------------------------------------------------------------------------
(***************************************************************************)
(* The conversion.                                                         *)
(***************************************************************************)
\* ConvertFrom undoes ConvertTo: a list written through v1alpha1 reads there as it was
\* written, however long it is and however often it has a name.
THEOREM NamesSurvive ==
  ASSUME NEW S, NEW names \in Seq(S)
  PROVE  ConvertFrom(ConvertTo(names)) = names
BY DEF ConvertFrom, ConvertTo

\* A list read and written back through v1alpha1 stays as it was exactly if every agent
\* in it is in full health: the healths are all that the conversion loses of it.
THEOREM HealthsAreLost ==
  ASSUME NEW agents \in Seq(SingleAgent)
  PROVE  /\ Len(ThroughV1alpha1(agents)) = Len(agents)
         /\ ThroughV1alpha1(agents) = agents
              <=> \A i \in 1 .. Len(agents) : agents[i].health = Full
<1> DEFINE new == ThroughV1alpha1(agents)
<1>1. new = [i \in 1 .. Len(agents) |-> [name |-> agents[i].name, health |-> Full]]
  BY DEF ThroughV1alpha1, ConvertFrom, ConvertTo
<1>2. \A i \in 1 .. Len(agents) :
        agents[i] = [name |-> agents[i].name, health |-> agents[i].health]
  <2>1. \A i \in 1 .. Len(agents) : agents[i] \in SingleAgent
    OBVIOUS
  <2> QED
    BY <2>1 DEF SingleAgent
<1>3. Len(new) = Len(agents)
  BY <1>1
<1>4. new = agents <=> \A i \in 1 .. Len(agents) : new[i] = agents[i]
  BY <1>1
<1> QED
  BY <1>1, <1>2, <1>3, <1>4

-----------------------------------------------------------------------------
(***************************************************************************)
(* Data.                                                                   *)
(***************************************************************************)
\* The number of agents alive is a number: there are finitely many names.
LEMMA AliveType ==
  ASSUME NEW status PROVE Alive(status) \in Nat
<1>1. IsFiniteSet(Reportable)
  BY ConstantsAssumption, FS_AddElement DEF Reportable
<1>2. {n \in Reportable : status[n] > 0} \subseteq Reportable
  OBVIOUS
<1> QED
  BY <1>1, <1>2, FS_Subset, FS_CardinalityType DEF Alive

\* What a list becomes through v1alpha1 is a list of agents again.
LEMMA ThroughType ==
  ASSUME NEW r \in Seq(SingleAgent)
  PROVE  ThroughV1alpha1(r) \in Seq(SingleAgent)
<1>1. \A i \in 1 .. Len(r) : [name |-> r[i].name, health |-> Full] \in SingleAgent
  <2>1. \A i \in 1 .. Len(r) : r[i] \in SingleAgent
    OBVIOUS
  <2>2. Full \in 0 .. Full
    BY HealthAssumption
  <2> QED
    BY <2>1, <2>2 DEF SingleAgent
<1>2. ThroughV1alpha1(r) = [i \in 1 .. Len(r) |-> [name |-> r[i].name, health |-> Full]]
  BY DEF ThroughV1alpha1, ConvertFrom, ConvertTo
<1> QED
  BY <1>1, <1>2

\* The list of an Agent is a sequence of agents, whatever its version.
LEMMA RosterType ==
  ASSUME NEW r \in Lists \cup {<<>>}
  PROVE  /\ Len(r) \in Nat
         /\ \A i \in 1 .. Len(r) : r[i].name \in Names /\ r[i].health \in 0 .. Full
         /\ DOMAIN r = 1 .. Len(r)
<1>1. Rosters \subseteq Seq(SingleAgent)
  BY ConstantsAssumption
<1>2. r \in Seq(SingleAgent)
  <2>1. CASE r \in Rosters
    BY <1>1, <2>1
  <2>2. CASE r \in {ThroughV1alpha1(q) : q \in Rosters}
    BY <1>1, <2>2, ThroughType
  <2>3. CASE r = <<>>
    BY <2>3
  <2> QED
    BY <2>1, <2>2, <2>3 DEF Lists
<1>3. \A i \in 1 .. Len(r) : r[i] \in SingleAgent
  BY <1>2
<1>4. Len(r) \in Nat /\ DOMAIN r = 1 .. Len(r)
  BY <1>2
<1> QED
  BY <1>3, <1>4 DEF SingleAgent

\* What a goroutine writes is an Agent.
LEMMA WithReportType ==
  ASSUME NEW copy \in AgentObject, NEW n \in Reportable, NEW h \in 0 .. Full
  PROVE  WithReport(copy, n, h) \in AgentObject
<1> DEFINE status == [copy.status EXCEPT ![n] = h]
<1>1. status \in [Reportable -> Unreported .. Full]
  BY ConstantsAssumption DEF AgentObject, Unreported
<1>2. Alive(status) \in Nat
  BY AliveType
<1>3. Len(copy.roster) \in Nat
  BY RosterType DEF AgentObject
<1> QED
  BY <1>1, <1>2, <1>3 DEF WithReport, AgentObject

LEMMA NoAgentType == NoAgent \in AgentObject
<1>1. [n \in Reportable |-> Unreported] \in [Reportable -> Unreported .. Full]
  BY HealthAssumption DEF Unreported
<1> QED
  BY <1>1 DEF NoAgent, AgentObject

LEMMA NoAnswerType == NoAnswer \in Answers
BY HealthAssumption DEF NoAnswer, Answers, Reportable

LEMMA FreeType == Free \in Watcher
BY NoAgentType, NoAnswerType DEF Free, Watcher

\* Outdating the copies leaves everything else of the goroutines alone.
LEMMA OutdatedType ==
  ASSUME NEW ws \in [Watchers -> Watcher]
  PROVE  /\ Outdated(ws) \in [Watchers -> Watcher]
         /\ \A k \in Watchers :
              /\ ~Outdated(ws)[k].fresh
              /\ Outdated(ws)[k].st = ws[k].st
              /\ Outdated(ws)[k].pod = ws[k].pod
              /\ Outdated(ws)[k].url = ws[k].url
              /\ Outdated(ws)[k].ticks = ws[k].ticks
              /\ Outdated(ws)[k].answer = ws[k].answer
BY DEF Outdated, Watcher

LEMMA ListeningType ==
  ASSUME TypeOK, NEW k \in Watchers
  PROVE  /\ Listening(k) \in [Watchers -> Watcher]
         /\ \A j \in Watchers : j # k => Listening(k)[j] = w[j]
         /\ Listening(k)[k].st = "select"
         /\ Listening(k)[k].pod = w[k].pod
         /\ Listening(k)[k].url = w[k].url
         /\ Listening(k)[k].ticks = w[k].ticks
         /\ ~Listening(k)[k].fresh
<1> DEFINE new == [w[k] EXCEPT !.st = "select", !.copy = NoAgent, !.fresh = FALSE,
                               !.answer = NoAnswer]
<1>1. w \in [Watchers -> Watcher]
  BY DEF TypeOK
<1>2. /\ new \in Watcher /\ new.st = "select" /\ ~new.fresh
      /\ new.pod = w[k].pod /\ new.url = w[k].url /\ new.ticks = w[k].ticks
  BY <1>1, NoAgentType, NoAnswerType DEF Watcher
<1>3. Listening(k) = [w EXCEPT ![k] = new]
  BY <1>1 DEF Listening, Watcher
<1> QED
  BY <1>1, <1>2, <1>3

\* The answer of a container goes into the hands of the goroutine, and nowhere else.
LEMMA AnswerType ==
  ASSUME TypeOK, NEW k \in Watchers, w[k].pod \in Positions, Answer(k)
  PROVE  /\ w' \in [Watchers -> Watcher]
         /\ \A j \in Watchers : j # k => w'[j] = w[j]
         /\ w[k].st = "get" /\ w'[k].st = "update"
         /\ w'[k].pod = w[k].pod /\ w'[k].url = w[k].url
         /\ w'[k].copy = w[k].copy /\ w'[k].fresh = w[k].fresh
         /\ w'[k].ticks = w[k].ticks
         /\ w'[k].answer = [name |-> pod[w[k].pod].name, health |-> pod[w[k].pod].health]
<1> DEFINE answer == [name |-> pod[w[k].pod].name, health |-> pod[w[k].pod].health]
           new == [w[k] EXCEPT !.st = "update", !.answer = answer]
<1>1. w \in [Watchers -> Watcher] /\ pod[w[k].pod] \in Pod
  BY DEF TypeOK
<1>2. answer \in Answers
  BY <1>1 DEF Pod, Answers
<1>3. /\ new \in Watcher /\ new.st = "update" /\ new.answer = answer
      /\ new.pod = w[k].pod /\ new.url = w[k].url /\ new.ticks = w[k].ticks
      /\ new.copy = w[k].copy /\ new.fresh = w[k].fresh
  BY <1>1, <1>2 DEF Watcher
<1>4. w' = [w EXCEPT ![k] = new] /\ w[k].st = "get"
  BY <1>1 DEF Answer, Watcher
<1> QED
  BY <1>1, <1>3, <1>4

\* A write of the Agent keeps the shapes.
LEMMA WriteAgentType ==
  ASSUME TypeOK, NEW obj \in AgentObject, NEW ws \in [Watchers -> Watcher],
         WriteAgent(obj, ws)
  PROVE  /\ ag' \in AgentObject /\ agC' \in AgentObject /\ agFresh' \in BOOLEAN
         /\ w' \in [Watchers -> Watcher]
         /\ \A k \in Watchers :
              /\ w'[k].st = ws[k].st /\ w'[k].pod = ws[k].pod
              /\ w'[k].url = ws[k].url /\ w'[k].ticks = ws[k].ticks
              /\ w'[k].answer = ws[k].answer
BY OutdatedType DEF TypeOK, WriteAgent

\* Stopping a ticker concerns nothing else of the goroutine.
LEMMA StopTickerType ==
  ASSUME TypeOK, NEW i \in Positions, Registered(i), StopTicker(i)
  PROVE  /\ w' \in [Watchers -> Watcher]
         /\ \A k \in Watchers :
              /\ w'[k].st = w[k].st
              /\ w'[k].pod = w[k].pod
              /\ w'[k].url = w[k].url
              /\ w'[k].fresh = w[k].fresh
              /\ w'[k].copy = w[k].copy
              /\ w'[k].answer = w[k].answer
              /\ w'[k].ticks = "running" <=> (k # registry[i] /\ w[k].ticks = "running")
<1>1. w \in [Watchers -> Watcher] /\ registry[i] \in Watchers
  BY DEF TypeOK, Registered
<1> QED
  BY <1>1 DEF StopTicker, Watcher

LEMMA HealthType ==
  ASSUME TypeOK, NEW n \in Names
  PROVE  agentHealth(n) \in 0 .. Full
<1> DEFINE entries == {i \in DOMAIN agC.roster : agC.roster[i].name = n}
           first   == {i \in entries : \A j \in entries : i <= j}
<1>1. agC.status[n] \in Unreported .. Full
  BY DEF TypeOK, AgentObject, Reportable
<1>2. ASSUME first # {} PROVE agC.roster[CHOOSE i \in first : TRUE].health \in 0 .. Full
  <2>1. (CHOOSE i \in first : TRUE) \in DOMAIN agC.roster
    BY <1>2
  <2> QED
    BY <2>1, RosterType DEF TypeOK, AgentObject
<1>3. agentHealth(n) = IF agC.status[n] # Unreported THEN agC.status[n]
                       ELSE IF first = {} THEN 0
                       ELSE agC.roster[CHOOSE i \in first : TRUE].health
  BY DEF agentHealth
<1> HIDE DEF first
<1> QED
  BY <1>1, <1>2, <1>3, HealthAssumption DEF Unreported

-----------------------------------------------------------------------------
(***************************************************************************)
(* Shapes.                                                                 *)
(***************************************************************************)
LEMMA TypeInit == Init => TypeInv
<1> SUFFICES ASSUME Init PROVE TypeInv
  OBVIOUS
<1>1. /\ ag \in AgentObject /\ agC \in AgentObject
      /\ w \in [Watchers -> Watcher]
  BY NoAgentType, FreeType DEF Init
<1>2. pod \in [Positions -> Pod]
  BY HealthAssumption DEF Init, Pod, Reportable
<1>3. sts \in StatefulSet
  BY DEF Init, NoStatefulSet, StatefulSet
<1>4. req \in [url : Nat, name : Reportable, health : 0 .. Full]
  BY HealthAssumption DEF Init, NoRequest, Reportable
<1>5. /\ podC \in [Positions -> Nat]
      /\ registry \in [Positions -> Watchers \cup {None}]
      /\ budget \in Nat
  BY ConstantsAssumption DEF Init
<1>6. \A k \in Watchers : w[k].st = "free"
  BY DEF Init, Free
<1> QED
  BY <1>1, <1>2, <1>3, <1>4, <1>5, <1>6 DEF Init, TypeInv, TypeOK

LEMMA TypeUser == TypeInv /\ User => TypeInv'
<1> SUFFICES ASSUME TypeInv, User PROVE TypeInv'
  OBVIOUS
<1>0. ag \in AgentObject /\ w \in [Watchers -> Watcher]
  BY DEF TypeInv, TypeOK
<1>a. ag.uid \in Nat /\ ag.uid + 1 \in Nat
  BY <1>0 DEF AgentObject
<1>1. CASE CreateAgent
  <2>1. PICK r \in Lists :
          WriteAgent([NoAgent EXCEPT !.live = TRUE, !.uid = ag.uid + 1, !.roster = r], w)
    BY <1>1 DEF CreateAgent
  <2>2. [NoAgent EXCEPT !.live = TRUE, !.uid = ag.uid + 1, !.roster = r] \in AgentObject
    BY <1>a, NoAgentType DEF AgentObject
  <2> QED
    BY <1>0, <1>1, <2>1, <2>2, WriteAgentType DEF CreateAgent, TypeInv, TypeOK, pods, worker
<1>2. CASE DeleteAgent
  <2>1. [NoAgent EXCEPT !.uid = ag.uid] \in AgentObject
    BY <1>a, NoAgentType DEF AgentObject
  <2> QED
    BY <1>0, <1>2, <2>1, WriteAgentType DEF DeleteAgent, Disturb, TypeInv, TypeOK, pods, worker
<1>3. CASE EditAgent
  <2>1. PICK r \in Rosters : WriteAgent([ag EXCEPT !.roster = r], w)
    BY <1>3 DEF EditAgent
  <2>2. [ag EXCEPT !.roster = r] \in AgentObject
    BY <1>0 DEF AgentObject, Lists
  <2> QED
    BY <1>0, <1>3, <2>1, <2>2, WriteAgentType
    DEF EditAgent, Disturb, TypeInv, TypeOK, pods, worker
<1>4. CASE EditV1alpha1
  <2>1. PICK r \in Rosters : \/ WriteAgent(Rewritten(ag, r), w)
                             \/ WriteAgent([ag EXCEPT !.roster = ThroughV1alpha1(r)], w)
    BY <1>4 DEF EditV1alpha1
  <2>2. ThroughV1alpha1(r) \in Lists
    BY DEF Lists
  <2>3. Rewritten(ag, r) \in AgentObject
    BY <1>0, <2>2, NoAgentType DEF Rewritten, AgentObject
  <2>4. [ag EXCEPT !.roster = ThroughV1alpha1(r)] \in AgentObject
    BY <1>0, <2>2 DEF AgentObject
  <2> QED
    BY <1>0, <1>4, <2>1, <2>3, <2>4, WriteAgentType
    DEF EditV1alpha1, Disturb, TypeInv, TypeOK, pods, worker
<1> QED
  BY <1>1, <1>2, <1>3, <1>4 DEF User

LEMMA TypeCluster == TypeInv /\ Cluster => TypeInv'
<1> SUFFICES ASSUME TypeInv, Cluster PROVE TypeInv'
  OBVIOUS
<1> USE DEF TypeInv, TypeOK
<1>p. \A i \in Positions : pod[i] \in Pod
  OBVIOUS
<1>1. CASE CollectStatefulSet
  BY <1>1 DEF CollectStatefulSet, NoStatefulSet, StatefulSet, agent, pods, worker, watch
<1>2. CASE SyncAgent
  BY <1>2 DEF SyncAgent, pods, worker, watch
<1>3. ASSUME NEW i \in Positions, NEW p \in Pod, PodChanges(i, p), budget' \in Nat
      PROVE  TypeInv'
  <2>1. pod' \in [Positions -> Pod]
    BY <1>3 DEF PodChanges
  <2> QED
    BY <1>3, <2>1 DEF PodChanges, agent, worker, watch
<1>4. ASSUME NEW i \in Positions, NEW uid \in Nat, Started(i, uid), budget' \in Nat
      PROVE  TypeInv'
  <2>1. [live |-> TRUE, uid |-> uid, name |-> Unnamed, health |-> Full] \in Pod
    BY HealthAssumption DEF Pod, Reportable
  <2> QED
    BY <1>3, <1>4, <2>1 DEF Started
<1>5. ASSUME NEW i \in Positions, Gone(i), budget' \in Nat
      PROVE  TypeInv'
  <2>1. [pod[i] EXCEPT !.live = FALSE, !.name = Unnamed, !.health = 0] \in Pod
    <3>1. 0 \in 0 .. Full /\ Unnamed \in Reportable
      BY HealthAssumption DEF Reportable
    <3> QED
      BY <1>p, <3>1 DEF Pod
  <2> QED
    BY <1>3, <1>5, <2>1 DEF Gone
<1>6. ASSUME NEW i \in Positions,
             CreatePod(i) \/ CollectPod(i) \/ EvictPod(i) \/ RestartContainer(i)
      PROVE  TypeInv'
  <2>1. pod[i].uid \in Nat /\ pod[i].uid + 1 \in Nat
    BY DEF Pod
  <2>2. budget' \in Nat
    BY <1>6 DEF CreatePod, CollectPod, EvictPod, RestartContainer, Disturb
  <2> QED
    BY <1>4, <1>5, <1>6, <2>1, <2>2 DEF CreatePod, CollectPod, EvictPod, RestartContainer
<1>7. ASSUME NEW i \in Positions, Damage(i) PROVE TypeInv'
  <2>0. pod[i].health \in 0 .. Full /\ pod[i].health > 0
    BY <1>7, <1>p DEF Damage, Pod
  <2>a. pod[i].health - 1 \in 0 .. Full
    BY <2>0, HealthAssumption
  <2>1. [pod[i] EXCEPT !.health = pod[i].health - 1] \in Pod
    BY <1>p, <2>a DEF Pod
  <2>2. pod' = [pod EXCEPT ![i] = [pod[i] EXCEPT !.health = pod[i].health - 1]]
    BY <1>7 DEF Damage
  <2>3. pod' \in [Positions -> Pod]
    BY <2>1, <2>2
  <2> QED
    BY <1>7, <2>3 DEF Damage, Disturb, agent, worker, watch
<1>8. ASSUME NEW i \in Positions, SyncPod(i) PROVE TypeInv'
  BY <1>8 DEF SyncPod, Pod, agent, worker, watch
<1>9. ASSUME NEW i \in Positions, PodEvent(i) PROVE TypeInv'
  BY <1>9 DEF PodEvent, Disturb, agent, pods, worker, watch
<1> QED
  BY <1>1, <1>2, <1>6, <1>7, <1>8, <1>9 DEF Cluster

LEMMA TypeCrash ==
  ASSUME TypeInv, Crash, budget' \in Nat
  PROVE  TypeInv'
<1>1. w' \in [Watchers -> Watcher] /\ \A k \in Watchers : w'[k].st = "free"
  BY FreeType DEF Crash, Free
<1>2. podC' \in [Positions -> Nat]
  BY DEF Crash, TypeInv, TypeOK, Pod
<1> QED
  BY <1>1, <1>2, HealthAssumption
  DEF Crash, Return, NoRequest, Reportable, TypeInv, TypeOK

LEMMA TypeWorker == TypeInv /\ Worker => TypeInv'
<1> SUFFICES ASSUME TypeInv, Worker PROVE TypeInv'
  OBVIOUS
<1> USE DEF TypeInv, TypeOK
<1>0. NoRequest \in [url : Nat, name : Reportable, health : 0 .. Full]
  BY HealthAssumption DEF NoRequest, Reportable
<1>1. CASE ReconcileAgent
  <2>1. agC.uid \in Nat /\ Len(agC.roster) \in Nat
    BY RosterType DEF AgentObject
  <2> QED
    BY <1>1, <2>1 DEF ReconcileAgent, StatefulSet, agent, pods, worker, watch
<1>2. ASSUME NEW i \in Positions, BeginGone(i) PROVE TypeInv'
  BY <1>2 DEF BeginGone, Dequeue, agent, pods, worker, watch
<1>3. ASSUME NEW i \in Positions, BeginOrphan(i) PROVE TypeInv'
  <2>1. /\ w' \in [Watchers -> Watcher]
        /\ \A k \in Watchers : w'[k].st = w[k].st /\ w'[k].pod = w[k].pod
    BY <1>3, StopTickerType DEF BeginOrphan
  <2> QED
    BY <1>3, <2>1 DEF BeginOrphan, Dequeue, agent, pods
<1>4. ASSUME NEW i \in Positions, BeginInit(i) PROVE TypeInv'
  <2>1. agC.roster[i].name \in Names
    BY <1>4, RosterType DEF BeginInit, AgentObject, Positions
  <2>2. agentHealth(agC.roster[i].name) \in 0 .. Full
    BY <2>1, HealthType
  <2>3. req' \in [url : Nat, name : Reportable, health : 0 .. Full]
    BY <1>4, <2>1, <2>2 DEF BeginInit, Reportable
  <2> QED
    BY <1>4, <2>3 DEF BeginInit, Dequeue, agent, pods, watch
<1>5. ASSUME NEW i \in Positions, BeginPanics(i) PROVE TypeInv'
  BY <1>5, TypeCrash DEF BeginPanics
<1>6. Named \in [Positions -> Pod] /\ Healed \in [Positions -> Pod]
  BY DEF Named, Healed, Pod
<1>a. ASSUME NEW taken \in [Positions -> Pod], Answered(taken)
      PROVE  pod' \in [Positions -> Pod] /\ budget' \in Nat
  BY <1>a DEF Answered, Disturb
<1>7. CASE PostName
  BY <1>6, <1>7, <1>a DEF PostName, agent, watch
<1>8. CASE PostHealth
  <2>1. cur \in Positions
    BY <1>8 DEF PostHealth
  <2>2. /\ w' \in [Watchers -> Watcher] /\ pc' \in {"stop", "start"}
        /\ \A k \in Watchers : w'[k].st = w[k].st /\ w'[k].pod = w[k].pod
    BY <1>8, <2>1, StopTickerType DEF PostHealth, AfterInit
  <2> QED
    BY <1>6, <1>8, <1>a, <2>1, <2>2 DEF PostHealth, agent
<1>9. CASE PostRefused
  BY <1>0, <1>9 DEF PostRefused, ReturnError, Return, agent, pods, watch
<1>10. CASE PostFails
  BY <1>0, <1>6, <1>10 DEF PostFails, ReturnError, Return, Disturb, agent, watch
<1>11. CASE StopDone
  <2>1. w' \in [Watchers -> Watcher] /\ registry' \in [Positions -> Watchers \cup {None}]
    BY <1>11, FreeType DEF StopDone
  <2>2. \A k \in Watchers : w'[k] = w[k] \/ w'[k].st = "free"
    BY <1>11 DEF StopDone, Free
  <2> QED
    BY <1>0, <1>11, <2>1, <2>2 DEF StopDone, Return, agent, pods
<1>12. CASE StartWatcher
  <2>1. PICK k \in Watchers :
          /\ w' = [w EXCEPT ![k] = [Free EXCEPT !.st = "select", !.pod = cur,
                                             !.url = req.url, !.ticks = "running"]]
          /\ registry' = [registry EXCEPT ![cur] = k]
    BY <1>12 DEF StartWatcher
  <2>2. cur \in Positions /\ req.url \in Nat
    BY <1>12 DEF StartWatcher
  <2>3. [Free EXCEPT !.st = "select", !.pod = cur, !.url = req.url, !.ticks = "running"]
          \in Watcher
    BY <2>2, FreeType DEF Watcher
  <2>4. w' \in [Watchers -> Watcher] /\ registry' \in [Positions -> Watchers \cup {None}]
    BY <2>1, <2>3
  <2>5. \A j \in Watchers : w'[j] = w[j] \/ w'[j].pod = cur
    BY <2>1 DEF Free
  <2> QED
    BY <1>0, <1>12, <2>2, <2>4, <2>5 DEF StartWatcher, Return, agent, pods
<1> QED
  BY <1>1, <1>2, <1>3, <1>4, <1>5, <1>7, <1>8, <1>9, <1>10, <1>11, <1>12
  DEF Worker, Begin, Post

LEMMA TypeGoroutine ==
  ASSUME TypeInv, NEW k \in Watchers, Goroutine(k)
  PROVE  TypeInv'
<1> USE DEF TypeInv, TypeOK
<1>1. CASE Tick(k)
  <2>1. w[k] \in Watcher
    OBVIOUS
  <2> DEFINE ticks == IF w[k].ticks = "one" THEN "none" ELSE w[k].ticks
             copy == IF agC.live THEN agC ELSE w[k].copy
             isFresh == IF agC.live THEN agFresh ELSE w[k].fresh
             ticked == [w[k] EXCEPT !.st = "get", !.ticks = ticks, !.copy = copy, !.fresh = isFresh]
  <2>2. ticks \in {"running", "one", "none"} /\ copy \in AgentObject /\ isFresh \in BOOLEAN
    BY <2>1 DEF Watcher
  <2>3. ticked \in Watcher /\ ticked.pod = w[k].pod
    BY <2>1, <2>2 DEF Watcher
  <2>4. w' = [w EXCEPT ![k] = ticked]
    BY <1>1 DEF Tick
  <2>5. /\ w' \in [Watchers -> Watcher]
        /\ \A j \in Watchers : w'[j].pod = w[j].pod /\ (j # k => w'[j] = w[j])
    BY <2>3, <2>4
  <2> QED
    BY <1>1, <2>5 DEF Tick, agent, pods, worker
<1>2. CASE Answer(k)
  <2>1. w[k].pod \in Positions
    BY <1>2 DEF Answer
  <2> QED
    BY <1>2, <2>1, AnswerType DEF Answer, agent, pods, worker
<1>3. CASE Report(k)
  <2> DEFINE a == w[k].answer
  <2>1. WriteAgent(WithReport(w[k].copy, a.name, a.health), Listening(k))
    BY <1>3 DEF Report
  <2>2. a \in Answers
    BY DEF Watcher
  <2>3. WithReport(w[k].copy, a.name, a.health) \in AgentObject
    BY <2>2, WithReportType DEF Answers, Watcher
  <2>4. Listening(k) \in [Watchers -> Watcher]
    BY ListeningType
  <2>5. /\ ag' \in AgentObject /\ agC' \in AgentObject /\ agFresh' \in BOOLEAN
        /\ w' \in [Watchers -> Watcher]
        /\ \A j \in Watchers : w'[j].st = Listening(k)[j].st /\ w'[j].pod = Listening(k)[j].pod
    BY <2>1, <2>3, <2>4, WriteAgentType
  <2>6. \A j \in Watchers :
          /\ Listening(k)[j].pod = w[j].pod
          /\ Listening(k)[j].st = IF j = k THEN "select" ELSE w[j].st
    BY ListeningType
  <2>7. w[k].st = "update" /\ UNCHANGED <<sts, pods, queue, worker, registry, budget>>
    BY <1>3 DEF Report
  <2>8. \A j \in Watchers : w'[j].st # "free" => w'[j].pod \in Positions
    BY <2>5, <2>6, <2>7
  <2>9. TypeOK'
    BY <2>5, <2>7 DEF pods, worker
  <2> QED
    BY <2>7, <2>8, <2>9 DEF worker
<1>4. CASE ReportFails(k) \/ GetFails(k)
  BY <1>4, ListeningType DEF ReportFails, GetFails, Disturb, agent, pods, worker
<1> QED
  BY <1>1, <1>2, <1>3, <1>4 DEF Goroutine

LEMMA TypeNext == TypeInv /\ [Next]_vars => TypeInv'
<1> SUFFICES ASSUME TypeInv, [Next]_vars PROVE TypeInv'
  OBVIOUS
<1>1. CASE Restart
  BY <1>1, TypeCrash DEF Restart, Disturb, TypeInv, TypeOK
<1>2. CASE UNCHANGED vars
  BY <1>2 DEF TypeInv, TypeOK, vars, agent, pods, worker, watch
<1> QED
  BY <1>1, <1>2, TypeUser, TypeCluster, TypeWorker, TypeGoroutine DEF Next

\* Every variable keeps its shape.
THEOREM TypeCorrect == Spec => []TypeOK
<1>1. TypeInv => TypeOK
  BY DEF TypeInv
<1> QED
  BY <1>1, TypeInit, TypeNext, PTL DEF Spec

-----------------------------------------------------------------------------
(***************************************************************************)
(* The goroutines and agentsWatchers.                                      *)
(***************************************************************************)
\* Nothing happened to registry, and to the goroutines nothing that matters for it.
LEMMA RegistryKept ==
  ASSUME TypeInv, RegistryInv, registry' = registry,
         \A k \in Watchers : w'[k].pod = w[k].pod /\ (w'[k].st = "free" <=> w[k].st = "free"),
         \/ pc' = pc /\ cur' = cur
         \/ pc' \notin {"stop", "drop", "start"}
         \/ pc' \in {"stop", "drop"} /\ Registered(cur')
         \/ pc' = "start" /\ ~Registered(cur')
  PROVE  RegistryInv'
<1>1. \A i \in Positions : registry[i] # None => registry[i] \in Watchers
  BY DEF TypeInv, TypeOK
<1>2. OneWatcherPerPod'
  BY <1>1 DEF RegistryInv, OneWatcherPerPod
<1> QED
  BY <1>2 DEF RegistryInv, Registered

LEMMA RegistryCrash ==
  ASSUME Crash PROVE RegistryInv'
<1>1. \A k \in Watchers : w'[k].st = "free"
  BY DEF Crash, Free
<1>2. OneWatcherPerPod'
  BY <1>1 DEF Crash, OneWatcherPerPod
<1> QED
  BY <1>2 DEF Crash, Return, RegistryInv

LEMMA RegistryWorker ==
  ASSUME TypeInv, RegistryInv, Worker
  PROVE  RegistryInv'
<1>0. /\ \A i \in Positions : registry[i] # None => registry[i] \in Watchers
      /\ w \in [Watchers -> Watcher]
      /\ registry \in [Positions -> Watchers \cup {None}]
  BY DEF TypeInv, TypeOK
<1>1. CASE ReconcileAgent
  BY <1>1, RegistryKept DEF ReconcileAgent, worker, watch
<1>2. ASSUME NEW i \in Positions, BeginGone(i) PROVE RegistryInv'
  BY <1>2, RegistryKept DEF BeginGone, worker, watch
<1>3. ASSUME NEW i \in Positions, BeginOrphan(i) PROVE RegistryInv'
  <2>1. \A k \in Watchers : w'[k].st = w[k].st /\ w'[k].pod = w[k].pod
    BY <1>3, StopTickerType DEF BeginOrphan, TypeInv
  <2>2. pc' = "drop" /\ registry' = registry /\ Registered(cur')
    BY <1>3 DEF BeginOrphan
  <2> QED
    BY <2>1, <2>2, RegistryKept
<1>4. ASSUME NEW i \in Positions, BeginInit(i) PROVE RegistryInv'
  BY <1>4, RegistryKept DEF BeginInit, watch
<1>5. ASSUME NEW i \in Positions, BeginPanics(i) PROVE RegistryInv'
  BY <1>5, RegistryCrash DEF BeginPanics
<1>6. CASE PostName
  BY <1>6, RegistryKept DEF PostName, watch
<1>7. CASE PostHealth
  <2>1. cur \in Positions /\ registry' = registry /\ cur' = cur
    BY <1>7 DEF PostHealth, TypeInv
  <2>2. CASE Registered(cur)
    <3>1. pc' = "stop" /\ \A k \in Watchers : w'[k].st = w[k].st /\ w'[k].pod = w[k].pod
      BY <1>7, <2>1, <2>2, StopTickerType DEF PostHealth, AfterInit, TypeInv
    <3> QED
      BY <2>1, <2>2, <3>1, RegistryKept
  <2>3. CASE ~Registered(cur)
    BY <1>7, <2>1, <2>3, RegistryKept DEF PostHealth, AfterInit
  <2> QED
    BY <2>2, <2>3
<1>8. CASE PostRefused
  BY <1>8, RegistryKept DEF PostRefused, ReturnError, Return, watch
<1>9. CASE PostFails
  BY <1>9, RegistryKept DEF PostFails, ReturnError, Return, watch
<1>10. CASE StopDone
  <2>1. cur \in Positions /\ registry[cur] \in Watchers /\ registry[cur] # None
    BY <1>0, <1>10 DEF StopDone, TypeInv, RegistryInv, Registered
  <2>2. /\ w' = [w EXCEPT ![registry[cur]] = Free]
        /\ registry' = [registry EXCEPT ![cur] = None]
    BY <1>10 DEF StopDone
  <2>3. w'[registry[cur]].st = "free"
    BY <1>0, <2>1, <2>2 DEF Free
  <2>4. OneWatcherPerPod'
    BY <1>0, <2>1, <2>2, <2>3 DEF RegistryInv, OneWatcherPerPod, TypeInv
  <2>5. pc' = "idle" \/ (pc' = "start" /\ cur' = cur)
    BY <1>10 DEF StopDone, Return
  <2>6. registry'[cur] = None
    BY <1>0, <2>1, <2>2
  <2> QED
    BY <2>4, <2>5, <2>6 DEF RegistryInv, Registered
<1>11. CASE StartWatcher
  <2>1. PICK k \in Watchers :
          /\ w[k].st = "free"
          /\ w' = [w EXCEPT ![k] = [Free EXCEPT !.st = "select", !.pod = cur,
                                             !.url = req.url, !.ticks = "running"]]
          /\ registry' = [registry EXCEPT ![cur] = k]
    BY <1>11 DEF StartWatcher
  <2>2. cur \in Positions /\ registry[cur] = None
    BY <1>11 DEF StartWatcher, TypeInv, RegistryInv, Registered
  <2>3. w'[k].st # "free" /\ w'[k].pod = cur /\ registry'[cur] = k
    BY <1>0, <2>1, <2>2 DEF Free
  <2>4. \A j \in Watchers \ {k} : w'[j] = w[j]
    BY <1>0, <2>1
  <2>5. \A i \in Positions \ {cur} : registry'[i] = registry[i] /\ registry[i] # k
    BY <1>0, <2>1, <2>2, ConstantsAssumption DEF RegistryInv, OneWatcherPerPod
  <2>6. \A j \in Watchers \ {k} : w[j].st # "free" => w[j].pod # cur
    BY <2>2, ConstantsAssumption DEF RegistryInv, OneWatcherPerPod
  <2>7. \A j \in Watchers : w'[j].st # "free" => registry'[w'[j].pod] = j
    BY <2>3, <2>4, <2>5, <2>6 DEF RegistryInv, OneWatcherPerPod, TypeInv
  <2>8. \A i \in Positions :
          registry'[i] # None => w'[registry'[i]].st # "free" /\ w'[registry'[i]].pod = i
    BY <1>0, <2>3, <2>4, <2>5 DEF RegistryInv, OneWatcherPerPod
  <2> QED
    BY <1>11, <2>7, <2>8 DEF StartWatcher, Return, RegistryInv, OneWatcherPerPod
<1> QED
  BY <1>1, <1>2, <1>3, <1>4, <1>5, <1>6, <1>7, <1>8, <1>9, <1>10, <1>11
  DEF Worker, Begin, Post

LEMMA RegistryGoroutine ==
  ASSUME TypeInv, RegistryInv, NEW k \in Watchers, Goroutine(k)
  PROVE  RegistryInv'
<1>0. w \in [Watchers -> Watcher]
  BY DEF TypeInv, TypeOK
<1>1. pc' = pc /\ cur' = cur /\ registry' = registry
  BY DEF Goroutine, Tick, Answer, Report, ReportFails, GetFails, worker
<1>2. CASE Tick(k)
  <2>1. \A j \in Watchers : w'[j].pod = w[j].pod /\ (j # k => w'[j] = w[j])
    BY <1>0, <1>2 DEF Tick, Watcher
  <2>2. w[k].st = "select" /\ w'[k].st = "get"
    BY <1>0, <1>2 DEF Tick, Watcher
  <2> QED
    BY <1>1, <2>1, <2>2, RegistryKept
<1>3. \A j \in Watchers : Listening(k)[j].pod = w[j].pod /\ (j # k => Listening(k)[j] = w[j])
  BY ListeningType DEF TypeInv
<1>4. Listening(k)[k].st = "select" /\ Listening(k) \in [Watchers -> Watcher]
  BY ListeningType DEF TypeInv
<1>5. CASE Report(k)
  <2>1. w[k].st = "update" /\ (w' = Listening(k) \/ w' = Outdated(Listening(k)))
    BY <1>5 DEF Report, WriteAgent
  <2>2. \A j \in Watchers : w'[j].pod = Listening(k)[j].pod /\ w'[j].st = Listening(k)[j].st
    BY <1>4, <2>1, OutdatedType
  <2> QED
    BY <1>1, <1>3, <1>4, <2>1, <2>2, RegistryKept
<1>6. CASE ReportFails(k) \/ GetFails(k)
  <2>1. w[k].st \in {"get", "update"} /\ w' = Listening(k)
    BY <1>6 DEF ReportFails, GetFails
  <2> QED
    BY <1>1, <1>3, <1>4, <2>1, RegistryKept
<1>7. CASE Answer(k)
  <2>1. w[k].pod \in Positions
    BY <1>7 DEF Answer, TypeInv
  <2> QED
    BY <1>1, <1>7, <2>1, AnswerType, RegistryKept DEF TypeInv
<1> QED
  BY <1>2, <1>5, <1>6, <1>7 DEF Goroutine

LEMMA RegistryNext == TypeInv /\ RegistryInv /\ [Next]_vars => RegistryInv'
<1> SUFFICES ASSUME TypeInv, RegistryInv, [Next]_vars PROVE RegistryInv'
  OBVIOUS
<1>1. CASE User
  <2>1. pc' = pc /\ cur' = cur /\ registry' = registry
    BY <1>1 DEF User, CreateAgent, DeleteAgent, EditAgent, EditV1alpha1, worker
  <2>2. w' = w \/ w' = Outdated(w)
    BY <1>1 DEF User, CreateAgent, DeleteAgent, EditAgent, EditV1alpha1, WriteAgent
  <2>3. w \in [Watchers -> Watcher]
    BY DEF TypeInv, TypeOK
  <2>4. \A k \in Watchers : w'[k].pod = w[k].pod /\ w'[k].st = w[k].st
    BY <2>2, <2>3, OutdatedType
  <2> QED
    BY <2>1, <2>4, RegistryKept
<1>2. CASE Cluster
  <2>1. UNCHANGED <<worker, watch>>
    BY <1>2 DEF Cluster, CollectStatefulSet, SyncAgent, CreatePod, CollectPod, EvictPod,
                RestartContainer, Damage, SyncPod, PodEvent, Started, Gone, PodChanges
  <2> QED
    BY <2>1, RegistryKept DEF worker, watch
<1>3. CASE Restart
  BY <1>3, RegistryCrash DEF Restart
<1>4. CASE UNCHANGED vars
  BY <1>4, RegistryKept DEF vars, worker, watch
<1> QED
  BY <1>1, <1>2, <1>3, <1>4, RegistryWorker, RegistryGoroutine DEF Next

LEMMA RegistryInit == Init => RegistryInv
BY DEF Init, Free, RegistryInv, OneWatcherPerPod, Registered

\* One goroutine for a pod, and the map knows it.
THEOREM WatchersRegistered == Spec => []OneWatcherPerPod
<1>1. RegistryInv => OneWatcherPerPod
  BY DEF RegistryInv
<1> QED
  BY <1>1, TypeInit, TypeNext, RegistryInit, RegistryNext, PTL DEF Spec

-----------------------------------------------------------------------------
(***************************************************************************)
(* The tickers.                                                            *)
(***************************************************************************)
\* No goroutine starts, no ticker is stopped, and the worker waits for the same one.
LEMMA TickersKept ==
  ASSUME TickersRun,
         \A k \in Watchers :
           w'[k].st # "free" => /\ w[k].st # "free"
                                /\ w'[k].ticks = "running" <=> w[k].ticks = "running",
         \/ UNCHANGED <<pc, cur, registry>>
         \/ pc \notin {"stop", "drop"} /\ pc' \notin {"stop", "drop"}
  PROVE  TickersRun'
BY DEF TickersRun

LEMMA TickersWorker ==
  ASSUME TypeInv, TickersRun, Worker
  PROVE  TickersRun'
<1>0. w \in [Watchers -> Watcher]
  BY DEF TypeInv, TypeOK
<1>1. CASE pc \notin {"stop", "drop"} /\ pc' \notin {"stop", "drop"} /\ w' = w
  BY <1>1, TickersKept
<1>2. CASE ReconcileAgent
  BY <1>2, TickersKept DEF ReconcileAgent, worker, watch
<1>3. ASSUME NEW i \in Positions, pc \notin {"stop", "drop"}, Registered(i), StopTicker(i),
             registry' = registry, cur' = i, pc' \in {"stop", "drop"}
      PROVE  TickersRun'
  <2>1. \A k \in Watchers :
          /\ w'[k].st = w[k].st
          /\ w'[k].ticks = "running" <=> (k # registry[i] /\ w[k].ticks = "running")
    BY <1>3, StopTickerType DEF TypeInv
  <2> QED
    BY <1>3, <2>1 DEF TickersRun
<1>4. ASSUME NEW i \in Positions, Begin(i) PROVE TickersRun'
  <2>1. CASE BeginOrphan(i)
    BY <1>3, <2>1 DEF BeginOrphan, Dequeue
  <2>2. CASE BeginGone(i) \/ BeginInit(i)
    BY <1>1, <2>2 DEF BeginGone, BeginInit, Dequeue, worker, watch
  <2>3. CASE BeginPanics(i)
    BY <2>3 DEF BeginPanics, Crash, Free, TickersRun
  <2> QED
    BY <1>4, <2>1, <2>2, <2>3 DEF Begin
<1>5. CASE PostHealth
  <2>1. cur \in Positions /\ cur' = cur /\ registry' = registry /\ pc = "health"
    BY <1>5 DEF PostHealth, TypeInv
  <2> QED
    BY <1>1, <1>3, <1>5, <2>1 DEF PostHealth, AfterInit
<1>6. CASE PostName \/ PostRefused \/ PostFails
  BY <1>1, <1>6 DEF PostName, PostRefused, PostFails, ReturnError, Return, watch
<1>7. CASE StopDone
  <2>1. \A k \in Watchers :
          w'[k].st # "free" => k # registry[cur] /\ w'[k] = w[k]
    BY <1>0, <1>7 DEF StopDone, Free
  <2>2. pc \in {"stop", "drop"} /\ pc' \notin {"stop", "drop"}
    BY <1>7 DEF StopDone, Return
  <2> QED
    BY <2>1, <2>2 DEF TickersRun
<1>8. CASE StartWatcher
  <2>1. \A k \in Watchers : w'[k] = w[k] \/ w'[k].ticks = "running"
    BY <1>0, <1>8 DEF StartWatcher, Free
  <2>2. pc = "start" /\ pc' = "idle"
    BY <1>8 DEF StartWatcher, Return
  <2> QED
    BY <2>1, <2>2 DEF TickersRun
<1> QED
  BY <1>2, <1>4, <1>5, <1>6, <1>7, <1>8 DEF Worker, Post

LEMMA TickersGoroutine ==
  ASSUME TypeInv, TickersRun, NEW k \in Watchers, Goroutine(k)
  PROVE  TickersRun'
<1>0. w \in [Watchers -> Watcher]
  BY DEF TypeInv, TypeOK
<1>1. UNCHANGED <<pc, cur, registry>>
  BY DEF Goroutine, Tick, Answer, Report, ReportFails, GetFails, worker
<1>2. w[k].st # "free"
  BY DEF Goroutine, Tick, Answer, Report, ReportFails, GetFails
<1>3. CASE Tick(k)
  <2>1. /\ w'[k].ticks = IF w[k].ticks = "one" THEN "none" ELSE w[k].ticks
        /\ \A j \in Watchers \ {k} : w'[j] = w[j]
    BY <1>0, <1>3 DEF Tick, Watcher
  <2> QED
    BY <1>1, <1>2, <2>1, TickersKept
<1>4. \A j \in Watchers :
        /\ Listening(k)[j].ticks = w[j].ticks
        /\ Listening(k)[j].st # "free" => w[j].st # "free"
  BY <1>2, ListeningType DEF TypeInv
<1>5. Listening(k) \in [Watchers -> Watcher]
  BY ListeningType DEF TypeInv
<1>6. CASE w' = Listening(k) \/ w' = Outdated(Listening(k))
  <2>1. \A j \in Watchers :
          w'[j].ticks = Listening(k)[j].ticks /\ w'[j].st = Listening(k)[j].st
    BY <1>5, <1>6, OutdatedType
  <2> QED
    BY <1>1, <1>4, <2>1, TickersKept
<1>7. CASE Answer(k)
  <2>1. w[k].pod \in Positions
    BY <1>2 DEF TypeInv
  <2>2. \A j \in Watchers : w'[j].ticks = w[j].ticks /\ (j # k => w'[j] = w[j])
    BY <1>7, <2>1, AnswerType DEF TypeInv
  <2> QED
    BY <1>1, <1>2, <2>2, TickersKept
<1> QED
  BY <1>3, <1>6, <1>7 DEF Goroutine, Report, ReportFails, GetFails, WriteAgent

LEMMA TickersNext == TypeInv /\ TickersRun /\ [Next]_vars => TickersRun'
<1> SUFFICES ASSUME TypeInv, TickersRun, [Next]_vars PROVE TickersRun'
  OBVIOUS
<1>1. CASE User
  <2>1. UNCHANGED <<pc, cur, registry>>
    BY <1>1 DEF User, CreateAgent, DeleteAgent, EditAgent, EditV1alpha1, worker
  <2>2. w' = w \/ w' = Outdated(w)
    BY <1>1 DEF User, CreateAgent, DeleteAgent, EditAgent, EditV1alpha1, WriteAgent
  <2>3. w \in [Watchers -> Watcher]
    BY DEF TypeInv, TypeOK
  <2>4. \A k \in Watchers : w'[k].ticks = w[k].ticks /\ w'[k].st = w[k].st
    BY <2>2, <2>3, OutdatedType
  <2> QED
    BY <2>1, <2>4, TickersKept
<1>2. CASE Cluster
  <2>1. UNCHANGED <<worker, watch>>
    BY <1>2 DEF Cluster, CollectStatefulSet, SyncAgent, CreatePod, CollectPod, EvictPod,
                RestartContainer, Damage, SyncPod, PodEvent, Started, Gone, PodChanges
  <2> QED
    BY <2>1, TickersKept DEF worker, watch
<1>3. CASE Restart
  BY <1>3 DEF Restart, Crash, Free, TickersRun
<1>4. CASE UNCHANGED vars
  BY <1>4, TickersKept DEF vars, worker, watch
<1> QED
  BY <1>1, <1>2, <1>3, <1>4, TickersWorker, TickersGoroutine DEF Next

\* No goroutine falls silent, and none is waited for that could tick on for ever
\* (agentWatcher.Stop and its two calls in tryInitAgent).
THEOREM TickersAreRun == Spec => []TickersRun
<1>1. Init => TickersRun
  BY DEF Init, Free, TickersRun
<1> QED
  BY <1>1, TypeInit, TypeNext, TickersNext, PTL DEF Spec

-----------------------------------------------------------------------------
(***************************************************************************)
(* The status and the copies it is written from.                           *)
(***************************************************************************)
\* Neither the Agent nor a copy of it changes, or copies only cease to be fresh.
LEMMA CopiesKept ==
  ASSUME CopiesInv, UNCHANGED agent,
         \A k \in Watchers : w'[k].fresh => w[k].fresh /\ w'[k].copy = w[k].copy
  PROVE  CopiesInv'
BY DEF CopiesInv, agent

\* After a write no copy is fresh, unless the write changed nothing.
LEMMA CopiesWrite ==
  ASSUME CopiesInv, NEW obj, NEW ws \in [Watchers -> Watcher], WriteAgent(obj, ws),
         \A k \in Watchers : ws[k].fresh => ws[k].copy = ag
  PROVE  CopiesInv'
<1>1. CASE obj = ag
  BY <1>1 DEF WriteAgent, CopiesInv
<1>2. CASE obj # ag
  BY <1>2, OutdatedType DEF WriteAgent, CopiesInv
<1> QED
  BY <1>1, <1>2

LEMMA CopiesCrash ==
  ASSUME Crash PROVE CopiesInv'
BY DEF Crash, CopiesInv, Free

LEMMA CopiesWorker ==
  ASSUME TypeInv, CopiesInv, Worker
  PROVE  CopiesInv'
<1>0. w \in [Watchers -> Watcher]
  BY DEF TypeInv, TypeOK
<1>1. CASE UNCHANGED <<agent, w>>
  BY <1>1, CopiesKept
<1>2. ASSUME NEW i \in Positions, BeginOrphan(i) PROVE CopiesInv'
  <2>1. \A k \in Watchers : w'[k].fresh = w[k].fresh /\ w'[k].copy = w[k].copy
    BY <1>2, StopTickerType DEF BeginOrphan, TypeInv
  <2> QED
    BY <1>2, <2>1, CopiesKept DEF BeginOrphan
<1>3. ASSUME NEW i \in Positions, BeginPanics(i) PROVE CopiesInv'
  BY <1>3, CopiesCrash DEF BeginPanics
<1>4. CASE PostHealth
  <2>1. \A k \in Watchers : w'[k].fresh = w[k].fresh /\ w'[k].copy = w[k].copy
    BY <1>4, StopTickerType DEF PostHealth, AfterInit, TypeInv
  <2> QED
    BY <1>4, <2>1, CopiesKept DEF PostHealth
<1>5. CASE StopDone
  <2>1. \A k \in Watchers : w'[k] = w[k] \/ w'[k] = Free
    BY <1>0, <1>5 DEF StopDone
  <2> QED
    BY <1>5, <2>1, CopiesKept DEF StopDone, Free
<1>6. CASE StartWatcher
  <2>1. \A k \in Watchers : w'[k] = w[k] \/ ~w'[k].fresh
    BY <1>0, <1>6 DEF StartWatcher, Free
  <2> QED
    BY <1>6, <2>1, CopiesKept DEF StartWatcher
<1>7. CASE \/ ReconcileAgent \/ PostName \/ PostRefused \/ PostFails
           \/ \E i \in Positions : BeginGone(i) \/ BeginInit(i)
  <2>1. UNCHANGED <<agent, w>>
    BY <1>7 DEF ReconcileAgent, PostName, PostRefused, PostFails, BeginGone, BeginInit, watch
  <2> QED
    BY <2>1, <1>1
<1> QED
  BY <1>2, <1>3, <1>4, <1>5, <1>6, <1>7 DEF Worker, Begin, Post

\* A goroutine's report is written over the Agent itself, never over an older version.
LEMMA ReportWrites ==
  ASSUME TypeInv, CopiesInv, NEW k \in Watchers, Report(k)
  PROVE  /\ w[k].answer \in Answers
         /\ ag' = WithReport(ag, w[k].answer.name, w[k].answer.health)
<1>1. w[k] \in Watcher
  BY DEF TypeInv, TypeOK
<1> QED
  BY <1>1 DEF Watcher, Report, StatusUpdateAccepted, CopiesInv, WriteAgent

LEMMA CopiesGoroutine ==
  ASSUME TypeInv, CopiesInv, NEW k \in Watchers, Goroutine(k)
  PROVE  CopiesInv'
<1>0. w \in [Watchers -> Watcher]
  BY DEF TypeInv, TypeOK
<1>1. CASE Tick(k)
  <2>1. /\ w'[k].fresh = IF agC.live THEN agFresh ELSE w[k].fresh
        /\ w'[k].copy = IF agC.live THEN agC ELSE w[k].copy
        /\ \A j \in Watchers \ {k} : w'[j] = w[j]
    BY <1>0, <1>1 DEF Tick, Watcher
  <2> QED
    BY <1>1, <2>1 DEF Tick, CopiesInv, agent
<1>2. /\ Listening(k) \in [Watchers -> Watcher]
      /\ \A j \in Watchers : Listening(k)[j].fresh => j # k /\ Listening(k)[j] = w[j]
  BY ListeningType DEF TypeInv
<1>3. CASE Report(k)
  BY <1>2, <1>3, CopiesWrite DEF Report, CopiesInv
<1>4. CASE ReportFails(k) \/ GetFails(k)
  BY <1>2, <1>4, CopiesKept DEF ReportFails, GetFails
<1>5. CASE Answer(k)
  <2>1. w[k].pod \in Positions
    BY <1>5 DEF Answer, TypeInv
  <2>2. \A j \in Watchers : w'[j].fresh = w[j].fresh /\ w'[j].copy = w[j].copy
    BY <1>5, <2>1, AnswerType DEF TypeInv
  <2> QED
    BY <1>5, <2>2, CopiesKept DEF Answer
<1> QED
  BY <1>1, <1>3, <1>4, <1>5 DEF Goroutine

LEMMA CopiesNext == TypeInv /\ CopiesInv /\ [Next]_vars => CopiesInv'
<1> SUFFICES ASSUME TypeInv, CopiesInv, [Next]_vars PROVE CopiesInv'
  OBVIOUS
<1>0. w \in [Watchers -> Watcher] /\ \A k \in Watchers : w[k].fresh => w[k].copy = ag
  BY DEF TypeInv, TypeOK, CopiesInv
<1>1. CASE User
  <2>1. \E obj : WriteAgent(obj, w)
    BY <1>1, Zenon DEF User, CreateAgent, DeleteAgent, EditAgent, EditV1alpha1
  <2> QED
    BY <1>0, <2>1, CopiesWrite
<1>2. CASE SyncAgent
  BY <1>2 DEF SyncAgent, watch, CopiesInv
<1>3. CASE Cluster /\ ~SyncAgent
  <2>1. UNCHANGED <<agent, watch>>
    BY <1>3 DEF Cluster, CollectStatefulSet, CreatePod, CollectPod, EvictPod,
                RestartContainer, Damage, SyncPod, PodEvent, Started, Gone, PodChanges
  <2> QED
    BY <2>1, CopiesKept DEF watch
<1>4. CASE Restart
  BY <1>4, CopiesCrash DEF Restart
<1>5. CASE UNCHANGED vars
  BY <1>5, CopiesKept DEF vars, watch
<1> QED
  BY <1>1, <1>2, <1>3, <1>4, <1>5, CopiesWorker, CopiesGoroutine DEF Next

LEMMA CopiesInit == Init => CopiesInv
BY DEF Init, Free, CopiesInv

\* Only users and goroutines change the Agent.
LEMMA AgentChanges ==
  ASSUME [Next]_vars, ag' # ag
  PROVE  User \/ \E k \in Watchers : Report(k)
<1>1. ~(Cluster \/ Restart \/ UNCHANGED vars)
  BY DEF Cluster, CollectStatefulSet, SyncAgent, CreatePod, CollectPod, EvictPod,
         RestartContainer, Damage, SyncPod, PodEvent, Started, Gone, PodChanges,
         Restart, Crash, vars, agent
<1>2. ~Worker
  BY DEF Worker, ReconcileAgent, Begin, BeginGone, BeginOrphan, BeginInit, BeginPanics, Crash,
         Post, PostName, PostHealth, PostRefused, PostFails, StopDone, StartWatcher, agent
<1>3. ASSUME NEW k \in Watchers, Goroutine(k) PROVE Report(k)
  BY <1>3 DEF Goroutine, Tick, Answer, ReportFails, GetFails, agent
<1> QED
  BY <1>1, <1>2, <1>3 DEF Next

\* What a user writes is a new Agent without a status, none at all, the Agent with its
\* status as it was, or what v1alpha1 leaves of it.
LEMMA UserWrites ==
  ASSUME TypeInv, User
  PROVE  \/ ag'.status = [n \in Reportable |-> Unreported] /\ ag'.alive = 0
               /\ (~ag.live \/ ~ag'.live \/ \E r \in Rosters : ag' = Rewritten(ag, r))
         \/ ag'.status = ag.status /\ ag'.alive = ag.alive
<1>0. ag \in AgentObject
  BY DEF TypeInv, TypeOK
<1>1. CASE CreateAgent
  BY <1>1 DEF CreateAgent, WriteAgent, NoAgent
<1>2. CASE DeleteAgent
  BY <1>2 DEF DeleteAgent, WriteAgent, NoAgent
<1>3. CASE EditAgent
  BY <1>0, <1>3 DEF EditAgent, WriteAgent, AgentObject
<1>4. CASE EditV1alpha1
  <2>1. PICK r \in Rosters : \/ ag' = Rewritten(ag, r)
                             \/ ag' = [ag EXCEPT !.roster = ThroughV1alpha1(r)]
    BY <1>4 DEF EditV1alpha1, WriteAgent
  <2>2. /\ Rewritten(ag, r).status = [n \in Reportable |-> Unreported]
        /\ Rewritten(ag, r).alive = 0
    BY DEF Rewritten, NoAgent
  <2> QED
    BY <1>0, <2>1, <2>2 DEF AgentObject
<1> QED
  BY <1>1, <1>2, <1>3, <1>4 DEF User

\* No name has an entry: none is alive.
LEMMA NoneAlive == Alive([n \in Reportable |-> Unreported]) = 0
<1>1. {m \in Reportable : [n \in Reportable |-> Unreported][m] > 0} = {}
  BY DEF Unreported
<1> QED
  BY <1>1, FS_EmptySet DEF Alive

LEMMA AliveNext ==
  TypeInv /\ CopiesInv /\ AliveCountsStatus /\ [Next]_vars => AliveCountsStatus'
<1> SUFFICES ASSUME TypeInv, CopiesInv, AliveCountsStatus, [Next]_vars PROVE AliveCountsStatus'
  OBVIOUS
<1>1. CASE ag' = ag
  BY <1>1 DEF AliveCountsStatus
<1>2. CASE User
  BY <1>2, UserWrites, NoneAlive DEF AliveCountsStatus
<1>3. ASSUME NEW k \in Watchers, Report(k) PROVE AliveCountsStatus'
  <2>1. ag \in AgentObject
    BY DEF TypeInv, TypeOK
  <2>2. PICK n, h : ag' = WithReport(ag, n, h)
    BY <1>3, ReportWrites
  <2>3. ag'.alive = Alive(ag'.status)
    BY <2>1, <2>2 DEF WithReport, AgentObject
  <2> QED
    BY <2>3 DEF AliveCountsStatus
<1> QED
  BY <1>1, <1>2, <1>3, AgentChanges

\* What the Alive column counts are the entries beside it.
THEOREM AliveIsCounted == Spec => []AliveCountsStatus
<1>1. Init => AliveCountsStatus
  BY NoneAlive DEF Init, NoAgent, AliveCountsStatus
<1> QED
  BY <1>1, TypeInit, TypeNext, CopiesInit, CopiesNext, AliveNext, PTL DEF Spec

\* The answer a goroutine has in hand comes into the status under its name.
LEMMA ReportStep ==
  ASSUME TypeInv, CopiesInv, [Next]_vars, NEW n \in Reportable,
         ag.live, ag'.live, ag'.status[n] # ag.status[n],
         ~(\E r \in Rosters : ag' = Rewritten(ag, r))
  PROVE  \E k \in Watchers :
           /\ w[k].st = "update" /\ w'[k].st # "update"
           /\ w[k].answer = [name |-> n, health |-> ag'.status[n]]
<1>0. ag \in AgentObject
  BY DEF TypeInv, TypeOK
<1>1. ~User
  BY UserWrites
<1>2. PICK k \in Watchers : Report(k)
  BY <1>1, AgentChanges
<1> DEFINE a == w[k].answer
<1>3. a \in Answers /\ ag' = WithReport(ag, a.name, a.health)
  BY <1>2, ReportWrites
<1>4. ag'.status = [ag.status EXCEPT ![a.name] = a.health]
  BY <1>0, <1>3 DEF WithReport, AgentObject
<1>5. ag.status \in [Reportable -> Unreported .. Full]
  BY <1>0 DEF AgentObject
<1>6. a.name = n /\ a.health = ag'.status[n]
  BY <1>4, <1>5
<1>7. a = [name |-> n, health |-> ag'.status[n]]
  BY <1>3, <1>6 DEF Answers
<1>8. w'[k].st = "select"
  <2>1. Listening(k) \in [Watchers -> Watcher] /\ Listening(k)[k].st = "select"
    BY ListeningType DEF TypeInv
  <2> QED
    BY <1>2, <2>1, OutdatedType DEF Report, WriteAgent
<1> QED
  BY <1>2, <1>7, <1>8 DEF Report

\* No report is lost in another goroutine's write, and none is made up or entered twice:
\* what becomes of an entry is what some goroutine was answered under that name in the
\* round it is just finishing (agentWatcher's copy, GET, merge and status update).
THEOREM NoReportLost == Spec => ReportsKept
<1>1. TypeInv /\ CopiesInv /\ [Next]_vars
        => [\A n \in Reportable :
              (ag.live /\ ag'.live /\ ag'.status[n] # ag.status[n])
                => \/ \E k \in Watchers :
                        /\ w[k].st = "update" /\ w'[k].st # "update"
                        /\ w[k].answer = [name |-> n, health |-> ag'.status[n]]
                   \/ \E r \in Rosters : ag' = Rewritten(ag, r)]_vars
  BY ReportStep
<1> QED
  BY <1>1, TypeInit, TypeNext, CopiesInit, CopiesNext, PTL DEF Spec, ReportsKept

=============================================================================
