------------------------------- MODULE MockVLLM -------------------------------
(***************************************************************************)
(* local/mock-vllm/app.py: the server whose gauges drive the scaling.      *)
(*                                                                         *)
(* One event loop runs every request, so what lies between two awaits that *)
(* really suspend is one step.  _lock is held across no such await and is  *)
(* never contended; _slots.acquire suspends unless it succeeds at once.    *)
(* _slots is CPython 3.12's asyncio.Semaphore.  The decoding of a response *)
(* moves no gauge and is part of being in a slot.                          *)
(*                                                                         *)
(* Nothing reacts to a client that goes away: a stream's producer is a     *)
(* task of its own, and FastAPI does not cancel the handler of a plain     *)
(* response.  An abandoned request keeps its place and its slot.  A        *)
(* request aborted by ERROR_RATE touches no state that is kept here.       *)
(***************************************************************************)
EXTENDS Integers, FiniteSets, SequencesExt

CONSTANTS Request, CAPACITY

ASSUME CapacityAssumption == CAPACITY \in Nat \ {0}
ASSUME RequestAssumption == IsFiniteSet(Request)

VARIABLES
  place,     (* Where each request is.                                     *)
  value,     (* _slots._value                                              *)
  waiters,   (* _slots._waiters: the requests suspended in acquire, oldest *)
             (* first, those that were woken and have not run included.    *)
  running,   (* _state["running"], which _sync_gauges exports.             *)
  waiting    (* _state["waiting"]                                          *)

vars == <<place, value, waiters, running, waiting>>

In(p) == {r \in Request : place[r] = p}

Init ==
  /\ place = [r \in Request |-> "out"]
  /\ value = CAPACITY
  /\ waiters = <<>>
  /\ running = 0
  /\ waiting = 0

(* Slot.__aenter__ when acquire succeeds at once.                          *)
Enter(r) ==
  /\ place[r] = "out"
  /\ value > 0 /\ waiters = <<>>
  /\ place' = [place EXCEPT ![r] = "slot"]
  /\ value' = value - 1
  /\ running' = running + 1
  /\ UNCHANGED <<waiters, waiting>>

(* Slot.__aenter__ up to the await in acquire, which lets nobody pass those *)
(* who wait, woken or not.                                                 *)
Wait(r) ==
  /\ place[r] = "out"
  /\ value = 0 \/ waiters # <<>>
  /\ place' = [place EXCEPT ![r] = "waiting"]
  /\ waiters' = Append(waiters, r)
  /\ waiting' = waiting + 1
  /\ UNCHANGED <<value, running>>

(* _wake_up_next, while there are slots to hand out and somebody to wake:   *)
(* the oldest of those who were not woken yet get one each.                *)
WakesUp(woken, free) ==
  /\ woken \subseteq In("waiting")
  /\ Cardinality(woken) <= free
  /\ Cardinality(woken) = free \/ woken = In("waiting")
  /\ \A i, j \in DOMAIN waiters :
       i < j /\ waiters[j] \in woken /\ place[waiters[i]] = "waiting" => waiters[i] \in woken

(* r goes where it goes, and those who were woken know it.                 *)
Moves(r, to, woken) ==
  place' = [s \in Request |-> IF s = r THEN to ELSE IF s \in woken THEN "woken" ELSE place[s]]

LeavesQueue(r) ==
  \E i \in DOMAIN waiters : waiters[i] = r /\ waiters' = RemoveAt(waiters, i)

(* Mutant: acquire does not wake anybody on its way out.                   *)
ResumeAlone(r) ==
  /\ place[r] = "woken"
  /\ Moves(r, "slot", {})
  /\ LeavesQueue(r)
  /\ waiting' = waiting - 1
  /\ running' = running + 1
  /\ UNCHANGED value

(* acquire returns in a woken request: it leaves the waiters and hands out *)
(* the slots that came free meanwhile.  Then the rest of __aenter__.       *)
Resume(r) ==
  /\ place[r] = "woken"
  /\ LeavesQueue(r)
  /\ \E woken \in SUBSET In("waiting") :
       /\ WakesUp(woken, value)
       /\ Moves(r, "slot", woken)
       /\ value' = value - Cardinality(woken)
  /\ waiting' = waiting - 1
  /\ running' = running + 1

(* Mutant: release counts the slot it hands over as free, too.             *)
LeaveCountsTwice(r) ==
  /\ place[r] = "slot"
  /\ \E woken \in SUBSET In("waiting") : WakesUp(woken, 1) /\ Moves(r, "out", woken)
  /\ value' = value + 1
  /\ running' = running - 1
  /\ UNCHANGED <<waiters, waiting>>

(* Slot.__aexit__: the slot goes to the oldest pending waiter, or is free. *)
Leave(r) ==
  /\ place[r] = "slot"
  /\ \E woken \in SUBSET In("waiting") :
       /\ WakesUp(woken, 1)
       /\ Moves(r, "out", woken)
       /\ value' = value + 1 - Cardinality(woken)
  /\ running' = running - 1
  /\ UNCHANGED <<waiters, waiting>>

Next == \E r \in Request : Enter(r) \/ Wait(r) \/ Resume(r) \/ Leave(r)

Spec == Init /\ [][Next]_vars

-----------------------------------------------------------------------------

TypeOK ==
  /\ place \in [Request -> {"out", "waiting", "woken", "slot"}]
  /\ value \in 0 .. CAPACITY
  /\ waiters \in Seq(Request)
  /\ running \in 0 .. CAPACITY
  /\ waiting \in 0 .. Cardinality(Request)

(* What Prometheus scrapes is what is there: the queue gauge counts the    *)
(* requests without a slot and the KV gauge those in one, of which there   *)
(* are never more than CAPACITY, slots being neither lost nor invented     *)
(* when they change hands.                                                 *)
GaugesAreTrue ==
  /\ waiting = Cardinality(In("waiting") \cup In("woken"))
  /\ running = Cardinality(In("slot"))
  /\ value + Cardinality(In("slot") \cup In("woken")) = CAPACITY

(* A queue is never left behind with a slot free: a request that waits     *)
(* while a slot is free has a woken one before it that will wake it.       *)
NoLostWakeup ==
  \A r \in In("waiting") : value > 0 => \E i, j \in DOMAIN waiters :
    i < j /\ waiters[j] = r /\ place[waiters[i]] = "woken"

=============================================================================
