------------------------------- MODULE Vigil -------------------------------
(***************************************************************************)
(* What watching the pods of an Agent promises, without work queue,        *)
(* caches, copies, conflicts, tickers and channels.  The watch over an     *)
(* incarnation of a pod is answered by its container, and later enters     *)
(* that answer alone into the status.  What becomes of the container in    *)
(* the meantime does not matter; but if anybody writes the Agent in the    *)
(* meantime, all answers that were not entered yet are void.  There is one *)
(* watch over a pod at most, over an incarnation that has answered the     *)
(* POSTs of a name and of a health, and none ends with an answer in hand.  *)
(* Module AgentWatch implements it.                                        *)
(***************************************************************************)
EXTENDS Integers

CONSTANTS
  Positions,  \* the pods' places in their StatefulSet
  Names,      \* the names of agents
  Unnamed,    \* what it calls itself at first
  Full        \* full health

VARIABLES
  kept,     \* whether the Agent exists
  status,   \* the health reported under each name
  pod,      \* the pods, each with its container
  care,     \* the initialisation under way: of which incarnation and how far
  watched,  \* the incarnation of each pod that is watched, 0 for none
  heard     \* what the watch of each pod was answered and has not entered yet

Reportable == Names \cup {Unnamed}
Blank   == [n \in Reportable |-> -1]
Nobody  == [step |-> "none", pod |-> 0, uid |-> 0]
Care(step, i) == [step |-> step, pod |-> i, uid |-> pod[i].uid]
Unwatched == [i \in Positions |-> 0]
Silence == [name |-> Unnamed, health |-> -1]
Silent  == [i \in Positions |-> Silence]

Init ==
  /\ kept = FALSE /\ status = Blank
  /\ pod = [i \in Positions |-> [live |-> FALSE, uid |-> 0, name |-> Unnamed, health |-> 0]]
  /\ care = Nobody /\ watched = Unwatched /\ heard = Silent

\* A user writes the Agent: the status stays with it, or is lost.
Written ==
  /\ kept' \in BOOLEAN
  /\ status' = Blank \/ (kept' = kept /\ status' = status)
  /\ heard' = Silent
  /\ UNCHANGED <<pod, care, watched>>

PodBecomes(i, p) ==
  /\ pod' = [pod EXCEPT ![i] = p]
  /\ UNCHANGED <<kept, status, watched, heard>>

\* In place, or as a new incarnation if there is none.
Starts(i) ==
  /\ \E u \in {pod[i].uid, pod[i].uid + 1} :
       /\ u = pod[i].uid <=> pod[i].live
       /\ PodBecomes(i, [live |-> TRUE, uid |-> u, name |-> Unnamed, health |-> Full])
  /\ UNCHANGED care

Ends(i) ==
  /\ PodBecomes(i, [pod[i] EXCEPT !.live = FALSE, !.name = Unnamed, !.health = 0])
  /\ UNCHANGED care

Suffers(i) ==
  /\ pod[i].live /\ pod[i].health > 0
  /\ PodBecomes(i, [pod[i] EXCEPT !.health = @ - 1])
  /\ UNCHANGED care

\* The container answers; that it takes what it is told is not promised.
Name(i) ==
  /\ pod[i].live
  /\ \E n \in Names \cup {pod[i].name} : PodBecomes(i, [pod[i] EXCEPT !.name = n])
  /\ care' \in {Nobody, Care("told", i)}

Heal(i) ==
  /\ pod[i].live
  /\ \E h \in 0 .. Full : PodBecomes(i, [pod[i] EXCEPT !.health = h])
  /\ care' = Nobody \/ (care = Care("told", i) /\ care' = Care("ready", i))

GiveUp == care' = Nobody /\ UNCHANGED <<kept, status, pod, watched, heard>>

\* An initialised incarnation is watched, if no other of its pod is.
Watch(i) ==
  /\ care.step = "ready" /\ care.pod = i
  /\ watched[i] = 0
  /\ watched' = [watched EXCEPT ![i] = care.uid]
  /\ care' = Nobody
  /\ UNCHANGED <<kept, status, pod, heard>>

Unwatch(i) ==
  /\ heard[i] = Silence
  /\ watched' = [watched EXCEPT ![i] = 0]
  /\ UNCHANGED <<kept, status, pod, care, heard>>

\* The controller is started again.
Forget ==
  /\ watched' = Unwatched /\ care' = Nobody /\ heard' = Silent
  /\ UNCHANGED <<kept, status, pod>>

Hear(i) ==
  /\ kept
  /\ pod[i].live /\ watched[i] = pod[i].uid /\ watched[i] # 0
  /\ heard[i] = Silence
  /\ heard' = [heard EXCEPT ![i] = [name |-> pod[i].name, health |-> pod[i].health]]
  /\ UNCHANGED <<kept, status, pod, care, watched>>

Drop(i) ==
  /\ heard' = [heard EXCEPT ![i] = Silence]
  /\ UNCHANGED <<kept, status, pod, care, watched>>

\* The others' answers are void, unless the status says that already.
Report(i) ==
  /\ kept /\ heard[i] # Silence
  /\ status' = [status EXCEPT ![heard[i].name] = heard[i].health]
  /\ heard' = Silent \/ (status' = status /\ heard' = [heard EXCEPT ![i] = Silence])
  /\ UNCHANGED <<kept, pod, care, watched>>

Next ==
  \/ Written \/ GiveUp \/ Forget
  \/ \E i \in Positions :
       \/ Starts(i) \/ Ends(i) \/ Suffers(i)
       \/ Name(i) \/ Heal(i)
       \/ Watch(i) \/ Unwatch(i)
       \/ Hear(i) \/ Drop(i) \/ Report(i)

vars == <<kept, status, pod, care, watched, heard>>

Spec == Init /\ [][Next]_vars
=============================================================================
