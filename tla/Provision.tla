------------------------------ MODULE Provision ------------------------------
(***************************************************************************)
(* The Architect, Merovingian and Oracle controllers of the matrix         *)
(* operator, and what the Agent controller does for an Agent (what it does *)
(* for pods is in AgentWatch).  Reconcile goes through the children of a   *)
(* resource ("program") one by one, with a CreateOrUpdate each; what tells *)
(* the controllers apart is which children a program has, what of the      *)
(* program goes into them, and what becomes of an error.                   *)
(*                                                                         *)
(* Children in a namespace are called like the KIND of the program, those  *)
(* of the whole cluster like the program and its namespace; so programs    *)
(* share children with others of their kind, or of a name like theirs.     *)
(*                                                                         *)
(* As in Exile, Gets read a lagging cache, an Update made from a copy that *)
(* is no longer current is rejected, and a cached read and the call that   *)
(* follows it at once are one action.                                      *)
(***************************************************************************)
EXTENDS Integers, Sequences, FiniteSets

CONSTANTS
  Programs,    \* the resources
  Kind,        \* the kind of each: its ProgramName
  NameOf,      \* the name of each
  NamespaceOf, \* the namespace of each
  Specs,       \* what a spec may say: an Oracle's config, an Architect's namespace
  Unset,       \* a spec that says nothing; an Oracle without a config
  Numbered,    \* the specs that are a config with a digit in one of its names
  AgentNames,  \* names of agents
  Roster,      \* the names an Agent's spec lists, of each spec
  ServiceOf,   \* what the Service of an agent is called: its name in lower case
  NoOne,       \* no owner
  MaxProgram,  \* bound: how often each program may be created
  Budget,      \* bound: how many disturbances the environment may cause
  Disturbances \* which disturbances it may cause, a subset of AllDisturbances

Kinds == {"architect", "merovingian", "oracle", "agent"}
Rightless == {"oracle", "agent"}
Namespaced == {"ServiceAccount", "ConfigMap", "Service", "Deployment", "StatefulSet"}
ClusterWide == {"ClusterRole", "ClusterRoleBinding"}
AllDisturbances == {"edit", "delete", "unguarded", "callFails", "replyLost", "restart"}

ASSUME ConstantsAssumption ==
  /\ Kind \in [Programs -> Kinds]
  /\ NameOf \in [Programs -> STRING] /\ NamespaceOf \in [Programs -> STRING]
  /\ \A p, q \in Programs :
       (Kind[p] = Kind[q] /\ NameOf[p] = NameOf[q] /\ NamespaceOf[p] = NamespaceOf[q])
         => p = q
  /\ Unset \in Specs /\ Numbered \subseteq Specs \ {Unset}
  /\ Roster \in [Specs -> Seq(AgentNames)]
  /\ ServiceOf \in [AgentNames -> STRING]
  /\ \A n \in AgentNames : ServiceOf[n] \notin Kinds \cup Namespaced \cup ClusterWide
  /\ NoOne \notin Programs
  /\ MaxProgram \in Nat /\ Budget \in Nat
  /\ Disturbances \subseteq AllDisturbances

VARIABLES
  prog, progC,           \* the programs: in the API server, in the cache
  obj, objC, objFresh,   \* the children, by key; which cached ones are current
  queue,                 \* the work queues of the controllers: the names in them
  work,                  \* the worker of each kind: what it reconciles, and where it is
  budget                 \* disturbances left

vars == <<prog, progC, obj, objC, objFresh, queue, work, budget>>

-----------------------------------------------------------------------------
(***************************************************************************)
(* Programs and their children.                                            *)
(***************************************************************************)
Program == [live : BOOLEAN, uid : Nat, spec : Specs]
NoProgram == [live |-> FALSE, uid |-> 0, spec |-> Unset]

\* The Service of an agent is known by its name.
AgentServices == {ServiceOf[n] : n \in AgentNames}
Owned == Namespaced \cup AgentServices

\* A child is known by what it is, where it is and what it is called.
Key(c, p) ==
  CASE c \in Namespaced    -> <<c, NamespaceOf[p], Kind[p]>>
    [] c \in AgentServices -> <<"Service", NamespaceOf[p], c>>
    [] c \in ClusterWide   -> <<c, "", NameOf[p] \o "-" \o NamespaceOf[p]>>
Keys == {Key(c, p) : c \in Owned \cup ClusterWide, p \in Programs}

Nobody == [prog |-> NoOne, uid |-> 0]
Owner == [prog : Programs \cup {NoOne}, uid : Nat]

\* ref: what it refers to, namespace and name, spec: what it took from the spec.
Nothing == <<>>
Child == [live : BOOLEAN, owner : Owner, ref : Seq(STRING), spec : Specs]
NoChild == [live |-> FALSE, owner |-> Nobody, ref |-> Nothing, spec |-> Unset]

\* Mutant of ServicePerPod: the last agent is forgotten.
ServicePerPod_ButLast(spec) ==
  [i \in 1 .. Len(Roster[spec]) - 1 |-> ServiceOf[Roster[spec][i]]]

\* createServicePerPod: a Service for every agent of the spec, in its order.
ServicePerPod(spec) == [i \in DOMAIN Roster[spec] |-> ServiceOf[Roster[spec][i]]]

AgentPlan(spec) == Append(ServicePerPod(spec), "StatefulSet")

\* The ConfigMap is made only of a config that is there.
OraclePlan(spec) ==
  IF spec = Unset THEN <<"Service", "Deployment">> ELSE <<"ConfigMap", "Service", "Deployment">>

\* An Architect or Merovingian: reconcilePermissions, then the rest.
RightsPlan ==
  <<"ServiceAccount", "ClusterRole", "ClusterRoleBinding", "Service", "Deployment">>

\* The children in the order of Reconcile.
Plan(p, spec) ==
  CASE Kind[p] \notin Rightless -> RightsPlan
    [] Kind[p] = "oracle"        -> OraclePlan(spec)
    [] Kind[p] = "agent"         -> AgentPlan(spec)

Working == [prog : Programs, uid : Nat, spec : Specs, step : Nat \ {0}]
Idle == [prog |-> NoOne, uid |-> 0, spec |-> Unset, step |-> 0]

Init ==
  /\ prog = [p \in Programs |-> NoProgram] /\ progC = prog
  /\ obj = [k \in Keys |-> NoChild] /\ objC = obj /\ objFresh = Keys
  /\ queue = {}
  /\ work = [k \in Kinds |-> Idle]
  /\ budget = Budget

WriteChild(k, child) ==
  /\ obj' = [obj EXCEPT ![k] = child]
  /\ objFresh' = objFresh \ {k}
  /\ UNCHANGED objC

-----------------------------------------------------------------------------
(***************************************************************************)
(* The environment: users, the garbage collector, the watches.             *)
(***************************************************************************)
Disturb(kind) ==
  /\ kind \in Disturbances
  /\ budget > 0
  /\ budget' = budget - 1

UserWrites(p, program) ==
  /\ prog' = [prog EXCEPT ![p] = program]
  /\ UNCHANGED <<progC, obj, objC, objFresh, queue, work>>

\* Default writes to the config it has just found missing: it panics, does not return.
Default(s) == s # Unset

\* validateOracleNames: a config that is not there is fine, a digit in a name is not.
validateOracleNames(s) == s = Unset \/ s \notin Numbered

\* Both webhooks see the request, the mutating one first; failurePolicy=fail.
Admitted(p, s) == Kind[p] = "oracle" => Default(s) /\ validateOracleNames(s)

\* A program may be older than the webhooks, or created while they are not installed.
Create(p) ==
  /\ ~prog[p].live
  /\ prog[p].uid < MaxProgram
  /\ \E s \in Specs :
       /\ UserWrites(p, [live |-> TRUE, uid |-> prog[p].uid + 1, spec |-> s])
       /\ IF Admitted(p, s) THEN UNCHANGED budget ELSE Disturb("unguarded")

Edit(p) ==
  /\ Disturb("edit")
  /\ prog[p].live
  /\ \E s \in Specs \ {prog[p].spec} :
       Admitted(p, s) /\ UserWrites(p, [prog[p] EXCEPT !.spec = s])

Delete(p) ==
  /\ Disturb("delete")
  /\ prog[p].live
  /\ UserWrites(p, [NoProgram EXCEPT !.uid = prog[p].uid])

\* A child in the namespace goes with its owner; one of the cluster has none and stays.
Collect(k) ==
  /\ obj[k].live /\ obj[k].owner # Nobody
  /\ LET o == obj[k].owner IN ~(prog[o.prog].live /\ prog[o.prog].uid = o.uid)
  /\ WriteChild(k, NoChild)
  /\ UNCHANGED <<prog, progC, queue, work, budget>>

SyncProgram(p) ==
  /\ progC[p] # prog[p]
  /\ progC' = [progC EXCEPT ![p] = prog[p]]
  /\ queue' = queue \cup {p}
  /\ UNCHANGED <<prog, obj, objC, objFresh, work, budget>>

\* Owns: an event of one of these queues the owner it has or had.
Owners(k) ==
  IF k[1] \in {"Service", "Deployment", "StatefulSet"}
    THEN {obj[k].owner.prog, objC[k].owner.prog} \ {NoOne}
    ELSE {}

SyncChild(k) ==
  /\ k \notin objFresh
  /\ objC' = [objC EXCEPT ![k] = obj[k]]
  /\ objFresh' = objFresh \cup {k}
  /\ queue' = queue \cup Owners(k)
  /\ UNCHANGED <<prog, progC, obj, work, budget>>

\* The informer's periodic resync.
Resync(p) ==
  /\ progC[p].live
  /\ queue' = queue \cup {p}
  /\ UNCHANGED <<prog, progC, obj, objC, objFresh, work, budget>>

-----------------------------------------------------------------------------
(***************************************************************************)
(* The controllers.                                                        *)
(***************************************************************************)
\* Get from the cache; NotFound ends the reconcile.
Begin(p) ==
  /\ work[Kind[p]] = Idle
  /\ p \in queue
  /\ queue' = queue \ {p}
  /\ work' = IF progC[p].live
               THEN [work EXCEPT ![Kind[p]] = [prog |-> p, uid |-> progC[p].uid,
                                              spec |-> progC[p].spec, step |-> 1]]
               ELSE work
  /\ UNCHANGED <<prog, progC, obj, objC, objFresh, budget>>

\* The child a worker is at.
Current(k) == Plan(work[k].prog, work[k].spec)[work[k].step]
CurrentKey(k) == Key(Current(k), work[k].prog)

\* What goes into a child: binding and Deployment name an account after the program, an
\* Oracle's a ConfigMap if it has a config; an Architect's holds the namespace of the spec.
Content(c, p, spec) ==
  [ref |-> IF c = "ClusterRoleBinding"
                \/ (c = "Deployment" /\ (Kind[p] = "oracle" => spec # Unset))
             THEN <<NamespaceOf[p], NameOf[p]>> ELSE Nothing,
   spec |-> IF c \in {"ConfigMap", "StatefulSet"} \/ (c = "Deployment" /\ Kind[p] = "architect")
              THEN spec ELSE Unset]

\* Mutant of Desired: no controller reference is set.
Desired_Unowned(k) ==
  LET content == Content(Current(k), work[k].prog, work[k].spec) IN
  [live |-> TRUE, owner |-> Nobody, ref |-> content.ref, spec |-> content.spec]

Desired(k) ==
  LET c == Current(k) p == work[k].prog content == Content(c, p, work[k].spec) IN
  [live |-> TRUE,
   owner |-> IF c \in Owned THEN [prog |-> p, uid |-> work[k].uid] ELSE Nobody,
   ref |-> content.ref, spec |-> content.spec]

\* Mutant of Mutated: nothing that exists is ever changed.
Mutated_Never(k) == objC[CurrentKey(k)]

\* Mutant of Mutated: what exists is made into what is desired, owner and all.
Mutated_TakesOver(k) == Desired(k)

\* What the mutation makes of a child that exists: only two are given one.
Mutated(k) ==
  LET old == objC[CurrentKey(k)] IN
  CASE Current(k) = "ClusterRoleBinding" -> [old EXCEPT !.ref = Desired(k).ref]
    [] Current(k) = "ConfigMap" -> [old EXCEPT !.spec = Desired(k).spec]
    [] OTHER -> old

\* Mutant of Proceed: the end is overlooked.
Proceed_PastEnd(k) ==
  work' = [work EXCEPT ![k].step = @ + 1] /\ UNCHANGED queue

\* On to the child behind the i-th, or to the end.
ProceedBehind(k, i) ==
  /\ LET w == work[k]
         next == IF i = Len(Plan(w.prog, w.spec)) THEN Idle ELSE [w EXCEPT !.step = i + 1]
     IN  work' = [work EXCEPT ![k] = next]
  /\ UNCHANGED queue

Proceed(k) == ProceedBehind(k, work[k].step)

ReturnError(k) ==
  /\ work' = [work EXCEPT ![k] = Idle]
  /\ queue' = queue \cup {work[k].prog}

\* The last child of those made by the helper that is at work: reconcilePermissions,
\* createServicePerPod, or one with a single child.
HelperEnd(k) ==
  CASE Current(k) \in {"ServiceAccount", "ClusterRole", "ClusterRoleBinding"} -> 3
    [] Current(k) \in AgentServices -> Len(Roster[work[k].spec])
    [] OTHER -> work[k].step

\* A conflict ends the helper, or Reconcile, without an error; only reconcileConfigMap
\* returns it.  (A child without a mutation is never updated: of those of
\* reconcilePermissions only the binding, the last, can meet one.)
OnConflict(k) ==
  IF Current(k) = "ConfigMap" THEN ReturnError(k) ELSE ProceedBehind(k, HelperEnd(k))

\* Mutant of Tolerated: no error of reconcilePermissions is returned.
Tolerated_All(c, err) ==
  \/ c \in {"ServiceAccount", "ClusterRole", "ClusterRoleBinding"}
  \/ c = "ConfigMap" /\ err = "exists"

\* The other errors Reconcile goes on after: those of the ServiceAccount and of the
\* ClusterRole are overwritten by the next call, and createOrUpdate makes nothing of
\* AlreadyExists.
Tolerated(c, err) ==
  \/ c \in {"ServiceAccount", "ClusterRole"}
  \/ c = "ConfigMap" /\ err = "exists"

OnError(k, err) == IF Tolerated(Current(k), err) THEN Proceed(k) ELSE ReturnError(k)

Cached(k) == objC[CurrentKey(k)].live

\* The three ways CreateOrUpdate succeeds.
Keeps(k) == Cached(k) /\ Mutated(k) = objC[CurrentKey(k)] /\ UNCHANGED <<obj, objC, objFresh>>

Creates(k) ==
  /\ ~Cached(k)
  /\ ~obj[CurrentKey(k)].live
  /\ WriteChild(CurrentKey(k), Desired(k))

Updates(k) ==
  /\ Cached(k) /\ Mutated(k) # objC[CurrentKey(k)]
  /\ CurrentKey(k) \in objFresh
  /\ WriteChild(CurrentKey(k), Mutated(k))

CreateOrUpdate(k) ==
  /\ work[k] # Idle
  /\ Keeps(k) \/ Creates(k) \/ Updates(k)
  /\ Proceed(k)
  /\ UNCHANGED <<prog, progC, budget>>

\* A Create of what exists already, an Update from an old copy.
CreateOrUpdateFails(k) ==
  /\ work[k] # Idle
  /\ \/ /\ ~Cached(k) /\ obj[CurrentKey(k)].live
        /\ OnError(k, "exists")
     \/ /\ Cached(k) /\ Mutated(k) # objC[CurrentKey(k)] /\ CurrentKey(k) \notin objFresh
        /\ OnConflict(k)
  /\ UNCHANGED <<prog, progC, obj, objC, objFresh, budget>>

\* A call fails without effect, or takes effect and its reply is lost.
CallFails(k) ==
  /\ Disturb("callFails")
  /\ work[k] # Idle
  /\ OnError(k, "failed")
  /\ UNCHANGED <<prog, progC, obj, objC, objFresh>>

ReplyLost(k) ==
  /\ Disturb("replyLost")
  /\ work[k] # Idle
  /\ Creates(k) \/ Updates(k)
  /\ OnError(k, "failed")
  /\ UNCHANGED <<prog, progC>>

Restart ==
  /\ Disturb("restart")
  /\ work' = [k \in Kinds |-> Idle]
  /\ progC' = prog /\ objC' = obj /\ objFresh' = Keys
  /\ queue' = {p \in Programs : prog[p].live}
  /\ UNCHANGED <<prog, obj>>

-----------------------------------------------------------------------------
User == \E p \in Programs : Create(p) \/ Edit(p) \/ Delete(p)

Cluster ==
  \/ \E k \in Keys : Collect(k) \/ SyncChild(k)
  \/ \E p \in Programs : SyncProgram(p) \/ Resync(p)

Controller ==
  \/ \E p \in Programs : Begin(p)
  \/ \E k \in Kinds : \/ CreateOrUpdate(k) \/ CreateOrUpdateFails(k)
                      \/ CallFails(k) \/ ReplyLost(k)

Next == User \/ Cluster \/ Controller \/ Restart

Spec == Init /\ [][Next]_vars

-----------------------------------------------------------------------------
(***************************************************************************)
(* Properties.                                                             *)
(***************************************************************************)
\* Every variable stays in its declared shape: programs, children, and what the
\* workers have in hand.
TypeOK ==
  /\ prog \in [Programs -> Program] /\ progC \in [Programs -> Program]
  /\ obj \in [Keys -> Child] /\ objC \in [Keys -> Child] /\ objFresh \subseteq Keys
  /\ queue \subseteq Programs
  /\ work \in [Kinds -> Working \cup {Idle}]
  /\ \A k \in Kinds :
       work[k] # Idle => /\ Kind[work[k].prog] = k
                         /\ work[k].step \in DOMAIN Plan(work[k].prog, work[k].spec)
  /\ budget \in Nat

\* No Architect or Merovingian gets its Deployment before the binding of its rights is
\* there, whichever calls failed and whatever old copies were read: the errors
\* reconcilePermissions lets pass are not those of the binding.
BoundBeforeDeployed ==
  \A p \in Programs :
    LET d == obj[Key("Deployment", p)] IN
    (Kind[p] \notin Rightless /\ d.live /\ d.owner.prog = p)
      => obj[Key("ClusterRoleBinding", p)].live

\* Programs of one kind want the same children; whoever comes second never takes over
\* a child of the first, with which it would go when the second is deleted.
OwnerKept ==
  [][\A k \in Keys : (obj[k].live /\ obj'[k].live) => obj'[k].owner = obj[k].owner]_vars

\* The children a program is to have.
Wanted(p) ==
  LET s == prog[p].spec IN
  CASE Kind[p] \notin Rightless -> ClusterWide \cup {"ServiceAccount", "Service", "Deployment"}
    [] Kind[p] = "oracle" -> {"Service", "Deployment"} \cup (IF s = Unset THEN {} ELSE {"ConfigMap"})
    [] Kind[p] = "agent"  -> {"StatefulSet"} \cup {ServiceOf[Roster[s][i]] : i \in DOMAIN Roster[s]}

Alone(p) ==
  /\ prog[p].live
  /\ \A q \in Programs \ {p} :
       (Kind[q] = Kind[p] /\ NamespaceOf[q] = NamespaceOf[p]) => ~prog[q].live

(***************************************************************************)
(* Liveness.  The watches deliver and the informers resync, the garbage    *)
(* collector and the workers run, the queues are first-in first-out; calls *)
(* fail finitely often.                                                    *)
(***************************************************************************)
Fairness ==
  /\ \A p \in Programs :
       WF_vars(SyncProgram(p)) /\ WF_vars(Resync(p)) /\ SF_vars(Begin(p))
  /\ \A k \in Keys : WF_vars(SyncChild(k)) /\ WF_vars(Collect(k))
  /\ \A k \in Kinds : WF_vars(CreateOrUpdate(k) \/ CreateOrUpdateFails(k))

FairSpec == Spec /\ Fairness

\* README: a reconcile function synchronizes "untile the desired state is reached": a
\* program that is the only one of its kind in its namespace comes to have all its
\* children, also those it had to leave to another before, and the ConfigMap of an Oracle
\* what its spec says, whatever failed before.
Provisioned ==
  \A p \in Programs :
    []<>(Alone(p) =>
           /\ \A c \in Wanted(p) : obj[Key(c, p)].live
           /\ (Kind[p] = "oracle" /\ prog[p].spec # Unset)
                => obj[Key("ConfigMap", p)].spec = prog[p].spec)

\* The rights of an Architect or Merovingian are bound to its account in the end, and for
\* good: the desired state is reached, not passed through.
BindingSettles ==
  \A p \in Programs :
    <>[]((Kind[p] \notin Rightless /\ prog[p].live)
           => LET b == obj[Key("ClusterRoleBinding", p)] IN
              b.live /\ b.ref = <<NamespaceOf[p], NameOf[p]>>)

-----------------------------------------------------------------------------
(***************************************************************************)
(* The abstract specification.                                             *)
(***************************************************************************)
\* The children a program may have, whatever its spec says.
Claims ==
  [p \in Programs |-> UNION {{Key(Plan(p, s)[i], p) : i \in DOMAIN Plan(p, s)} : s \in Specs}]

Common    == {k \in Keys : k[1] \in ClusterWide}
Amendable == {k \in Keys : k[1] \in {"ClusterRoleBinding", "ConfigMap"}}
Account   == [p \in Programs |-> <<NamespaceOf[p], NameOf[p]>>]

\* The Deployment of whoever has rights comes after their binding.
First ==
  {<<p, Key("Deployment", p), Key("ClusterRoleBinding", p)>> :
     p \in {q \in Programs : Kind[q] \notin Rightless}}

Abstract == INSTANCE Custody WITH
  life  <- [p \in Programs |-> [live |-> prog[p].live, uid |-> prog[p].uid]],
  child <- obj

\* Whatever old copies the workers read, whoever else wants the same children and
\* whatever fails: a child is made once, for an incarnation that has lived, after the
\* rights it needs; it keeps its owner and what it says, but for the binding and the
\* ConfigMap, and goes after its owner only.
InCustody == Abstract!Spec
=============================================================================
