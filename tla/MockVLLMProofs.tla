---------------------------- MODULE MockVLLMProofs ----------------------------
(***************************************************************************)
(* Proofs about MockVLLM for every finite set of requests and every        *)
(* capacity.                                                               *)
(***************************************************************************)
EXTENDS MockVLLM, FiniteSetTheorems, TLAPS

(* Each request that waits, woken or not, is in the semaphore's queue      *)
(* once, and nobody else is.                                               *)
QueueHoldsWaiters ==
  /\ \A r \in Request :
       place[r] \in {"waiting", "woken"} <=> \E i \in DOMAIN waiters : waiters[i] = r
  /\ \A i, j \in DOMAIN waiters : waiters[i] = waiters[j] => i = j

MInv == TypeOK /\ QueueHoldsWaiters /\ GaugesAreTrue /\ NoLostWakeup

-----------------------------------------------------------------------------

(* The sequence that is left when the element at i is removed.             *)
LEMMA RemoveAtElements ==
  ASSUME NEW S, NEW s \in Seq(S), NEW i \in DOMAIN s
  PROVE  /\ RemoveAt(s, i) \in Seq(S)
         /\ Len(RemoveAt(s, i)) = Len(s) - 1
         /\ \A j \in 1 .. Len(s) - 1 : RemoveAt(s, i)[j] = IF j < i THEN s[j] ELSE s[j + 1]
<1> DEFINE a == SubSeq(s, 1, i - 1)
           b == SubSeq(s, i + 1, Len(s))
<1>1. i \in 1 .. Len(s) /\ Len(s) \in Nat
  OBVIOUS
<1>2. a \in Seq(S) /\ Len(a) = i - 1 /\ \A j \in 1 .. i - 1 : a[j] = s[j]
  BY <1>1
<1>3. b \in Seq(S) /\ Len(b) = Len(s) - i /\ \A j \in 1 .. Len(s) - i : b[j] = s[j + i]
  BY <1>1
<1>4. RemoveAt(s, i) = a \o b
  BY DEF RemoveAt
<1> HIDE DEF a, b
<1>5. /\ a \o b \in Seq(S)
      /\ Len(a \o b) = Len(s) - 1
      /\ \A j \in 1 .. Len(s) - 1 : (a \o b)[j] = IF j < i THEN a[j] ELSE b[j - i + 1]
  BY <1>1, <1>2, <1>3
<1>6. ASSUME NEW j \in 1 .. Len(s) - 1
      PROVE  (a \o b)[j] = IF j < i THEN s[j] ELSE s[j + 1]
  <2>1. CASE j < i
    BY <1>1, <1>2, <1>5, <2>1
  <2>2. CASE ~(j < i)
    <3>1. j - i + 1 \in 1 .. Len(s) - i /\ (j - i + 1) + i = j + 1
      BY <1>1, <2>2
    <3>2. b[j - i + 1] = s[j + 1]
      BY <1>3, <3>1
    <3> QED
      BY <1>5, <2>2, <3>2
  <2> QED
    BY <2>1, <2>2
<1> QED
  BY <1>4, <1>5, <1>6

(* The requests at a place are finitely many.                              *)
LEMMA PlacesAreFinite ==
  ASSUME NEW T, T \subseteq Request
  PROVE  /\ IsFiniteSet(T)
         /\ Cardinality(T) \in Nat
         /\ Cardinality(T) <= Cardinality(Request)
  BY RequestAssumption, FS_Subset, FS_CardinalityType

(* One request more.                                                       *)
LEMMA OneMoreRequest ==
  ASSUME NEW T, T \subseteq Request, NEW r \in Request, r \notin T
  PROVE  Cardinality(T \cup {r}) = Cardinality(T) + 1
  BY PlacesAreFinite, FS_AddElement

(* One request less.                                                       *)
LEMMA OneRequestLess ==
  ASSUME NEW T, T \subseteq Request, NEW r \in T
  PROVE  Cardinality(T \ {r}) = Cardinality(T) - 1
  BY PlacesAreFinite, FS_RemoveElement

(* The requests of two sets that have none in common.                      *)
LEMMA DisjointRequests ==
  ASSUME NEW T, NEW U, T \subseteq Request, U \subseteq Request, T \cap U = {}
  PROVE  Cardinality(T \cup U) = Cardinality(T) + Cardinality(U)
<1>1. Cardinality(T \cap U) = 0
  BY FS_EmptySet
<1>2. IsFiniteSet(T) /\ IsFiniteSet(U) /\ Cardinality(T) \in Nat /\ Cardinality(U) \in Nat
  BY PlacesAreFinite
<1>3. Cardinality(T \cup U) = Cardinality(T) + Cardinality(U) - Cardinality(T \cap U)
  BY <1>2, FS_Union
<1> QED
  BY <1>1, <1>2, <1>3

-----------------------------------------------------------------------------

(* The initial states satisfy the invariant.                               *)
LEMMA MockInit == Init => MInv
<1> SUFFICES ASSUME Init
             PROVE  MInv
  OBVIOUS
<1>1. In("waiting") = {} /\ In("woken") = {} /\ In("slot") = {}
  BY DEF Init, In
<1>2. Cardinality({}) = 0
  BY FS_EmptySet
<1>3. TypeOK
  BY CapacityAssumption, PlacesAreFinite DEF Init, TypeOK
<1>4. QueueHoldsWaiters
  BY DEF Init, QueueHoldsWaiters
<1>5. GaugesAreTrue
  <2>1. In("waiting") \cup In("woken") = {} /\ In("slot") \cup In("woken") = {}
    BY <1>1
  <2>2. /\ Cardinality(In("waiting") \cup In("woken")) = 0
        /\ Cardinality(In("slot")) = 0
        /\ Cardinality(In("slot") \cup In("woken")) = 0
    BY <1>1, <1>2, <2>1
  <2> QED
    BY <2>2, CapacityAssumption DEF Init, GaugesAreTrue
<1>6. NoLostWakeup
  BY <1>1 DEF NoLostWakeup
<1> QED
  BY <1>3, <1>4, <1>5, <1>6 DEF MInv

(* Where everybody is after a request went on and woke others.             *)
LEMMA MovesPlaces ==
  ASSUME TypeOK, NEW r \in Request, place[r] \in {"woken", "slot"},
         NEW woken \in SUBSET In("waiting"), NEW to \in {"slot", "out"}, Moves(r, to, woken)
  PROVE  /\ In("waiting")' = In("waiting") \ woken
         /\ In("woken")' = (In("woken") \ {r}) \cup woken
         /\ In("slot")' = (In("slot") \ {r}) \cup (IF to = "slot" THEN {r} ELSE {})
  BY DEF TypeOK, In, Moves

(* Every step keeps the gauges true, and never hands out a slot that is    *)
(* not there.                                                              *)
LEMMA GaugesStep ==
  ASSUME TypeOK, GaugesAreTrue, [Next]_vars
  PROVE  GaugesAreTrue' /\ value' \in Nat
<1> DEFINE W == In("waiting")
           K == In("woken")
           S == In("slot")
<1>0. W \subseteq Request /\ K \subseteq Request /\ S \subseteq Request
  BY DEF In
<1>a. /\ Cardinality(W \cup K) \in Nat /\ Cardinality(S) \in Nat
      /\ Cardinality(S \cup K) \in Nat /\ value \in Nat /\ CAPACITY \in Nat
  BY <1>0, PlacesAreFinite, CapacityAssumption DEF TypeOK
<1>b. waiting = Cardinality(W \cup K) /\ running = Cardinality(S)
      /\ value + Cardinality(S \cup K) = CAPACITY
  BY DEF GaugesAreTrue
<1>1. ASSUME NEW r \in Request, Enter(r)
      PROVE  GaugesAreTrue' /\ value' \in Nat
  <2>1. W' = W /\ K' = K /\ S' = S \cup {r} /\ r \notin S /\ r \notin S \cup K
    BY <1>1 DEF Enter, In, TypeOK
  <2>2. Cardinality(S \cup {r}) = Cardinality(S) + 1
    BY <1>0, <2>1, OneMoreRequest
  <2>3. Cardinality((S \cup K) \cup {r}) = Cardinality(S \cup K) + 1
    BY <1>0, <2>1, OneMoreRequest
  <2>4. W' \cup K' = W \cup K /\ S' \cup K' = (S \cup K) \cup {r}
    BY <2>1
  <2>5. value' = value - 1 /\ value > 0 /\ running' = running + 1 /\ waiting' = waiting
    BY <1>1 DEF Enter
  <2> HIDE DEF W, K, S
  <2>6. /\ waiting' = Cardinality(W' \cup K') /\ running' = Cardinality(S')
        /\ value' + Cardinality(S' \cup K') = CAPACITY
    BY <1>a, <1>b, <2>1, <2>2, <2>3, <2>4, <2>5
  <2> QED
    BY <1>a, <2>5, <2>6 DEF GaugesAreTrue, W, K, S
<1>2. ASSUME NEW r \in Request, Wait(r)
      PROVE  GaugesAreTrue' /\ value' \in Nat
  <2>1. W' = W \cup {r} /\ K' = K /\ S' = S /\ r \notin W \cup K
    BY <1>2 DEF Wait, In, TypeOK
  <2>2. Cardinality((W \cup K) \cup {r}) = Cardinality(W \cup K) + 1
    BY <1>0, <2>1, OneMoreRequest
  <2>3. W' \cup K' = (W \cup K) \cup {r}
    BY <2>1
  <2>4. value' = value /\ running' = running /\ waiting' = waiting + 1
    BY <1>2 DEF Wait
  <2> HIDE DEF W, K, S
  <2>5. /\ waiting' = Cardinality(W' \cup K') /\ running' = Cardinality(S')
        /\ value' + Cardinality(S' \cup K') = CAPACITY
    BY <1>a, <1>b, <2>1, <2>2, <2>3, <2>4
  <2> QED
    BY <1>a, <2>4, <2>5 DEF GaugesAreTrue, W, K, S
<1>3. ASSUME NEW r \in Request, Resume(r)
      PROVE  GaugesAreTrue' /\ value' \in Nat
  <2>1. PICK woken \in SUBSET W :
          /\ WakesUp(woken, value)
          /\ Moves(r, "slot", woken)
          /\ value' = value - Cardinality(woken)
    BY <1>3 DEF Resume
  <2>2. W' = W \ woken /\ K' = (K \ {r}) \cup woken /\ S' = (S \ {r}) \cup {r}
    BY <1>3, <2>1, MovesPlaces DEF Resume
  <2>3. r \in K /\ r \notin S /\ r \notin W /\ woken \cap (S \cup K) = {}
    BY <1>3 DEF Resume, In
  <2>4. /\ W' \cup K' = (W \cup K) \ {r}
        /\ S' = S \cup {r}
        /\ S' \cup K' = (S \cup K) \cup woken
    BY <2>2, <2>3
  <2>5. Cardinality((W \cup K) \ {r}) = Cardinality(W \cup K) - 1
    BY <1>0, <2>3, OneRequestLess
  <2>6. Cardinality(S \cup {r}) = Cardinality(S) + 1
    BY <1>0, <2>3, OneMoreRequest
  <2>7. Cardinality((S \cup K) \cup woken) = Cardinality(S \cup K) + Cardinality(woken)
    BY <1>0, <2>3, DisjointRequests
  <2>8. Cardinality(woken) \in Nat /\ Cardinality(woken) <= value
    BY <1>0, <2>1, PlacesAreFinite DEF WakesUp
  <2>9. running' = running + 1 /\ waiting' = waiting - 1
    BY <1>3 DEF Resume
  <2> HIDE DEF W, K, S
  <2>10. waiting' = Cardinality(W' \cup K')
    BY <1>a, <1>b, <2>4, <2>5, <2>9
  <2>11. running' = Cardinality(S')
    BY <1>a, <1>b, <2>4, <2>6, <2>9
  <2>12. value' = value - Cardinality(woken)
    BY <2>1
  <2>13. value' \in Nat
    BY <1>a, <2>8, <2>12
  <2>14. Cardinality(S' \cup K') = Cardinality(S \cup K) + Cardinality(woken)
    BY <2>4, <2>7
  <2>15. value' + Cardinality(S' \cup K') = CAPACITY
    BY <1>a, <1>b, <2>8, <2>12, <2>14
  <2> QED
    BY <2>10, <2>11, <2>13, <2>15 DEF GaugesAreTrue, W, K, S
<1>4. ASSUME NEW r \in Request, Leave(r)
      PROVE  GaugesAreTrue' /\ value' \in Nat
  <2>1. PICK woken \in SUBSET W :
          /\ WakesUp(woken, 1)
          /\ Moves(r, "out", woken)
          /\ value' = value + 1 - Cardinality(woken)
    BY <1>4 DEF Leave
  <2>2. W' = W \ woken /\ K' = (K \ {r}) \cup woken /\ S' = (S \ {r}) \cup {}
    BY <1>4, <2>1, MovesPlaces DEF Leave
  <2>3. r \in S /\ r \notin K /\ r \notin W /\ woken \cap (S \cup K) = {}
    BY <1>4 DEF Leave, In
  <2>4. /\ W' \cup K' = W \cup K
        /\ S' = S \ {r}
        /\ S' \cup K' = ((S \cup K) \ {r}) \cup woken
    BY <2>2, <2>3
  <2>5. Cardinality(S \ {r}) = Cardinality(S) - 1
    BY <1>0, <2>3, OneRequestLess
  <2>6. Cardinality((S \cup K) \ {r}) = Cardinality(S \cup K) - 1
    BY <1>0, <2>3, OneRequestLess
  <2>7. Cardinality(((S \cup K) \ {r}) \cup woken)
          = Cardinality((S \cup K) \ {r}) + Cardinality(woken)
    BY <1>0, <2>3, DisjointRequests
  <2>8. Cardinality(woken) \in Nat /\ Cardinality(woken) <= 1
    BY <1>0, <2>1, PlacesAreFinite DEF WakesUp
  <2>9. running' = running - 1 /\ waiting' = waiting
    BY <1>4 DEF Leave
  <2> HIDE DEF W, K, S
  <2>10. waiting' = Cardinality(W' \cup K')
    BY <1>a, <1>b, <2>4, <2>9
  <2>11. running' = Cardinality(S')
    BY <1>a, <1>b, <2>4, <2>5, <2>9
  <2>12. value' = value + 1 - Cardinality(woken)
    BY <2>1
  <2>13. value' \in Nat
    BY <1>a, <2>8, <2>12
  <2>14. Cardinality(S' \cup K') = Cardinality(S \cup K) - 1 + Cardinality(woken)
    BY <2>4, <2>6, <2>7
  <2>15. value' + Cardinality(S' \cup K') = CAPACITY
    BY <1>a, <1>b, <2>8, <2>12, <2>14
  <2> QED
    BY <2>10, <2>11, <2>13, <2>15 DEF GaugesAreTrue, W, K, S
<1>5. CASE UNCHANGED vars
  BY <1>5, <1>a DEF vars, GaugesAreTrue, In
<1> QED
  BY <1>1, <1>2, <1>3, <1>4, <1>5 DEF Next

(* A woken request that leaves the queue leaves the others in it.          *)
LEMMA LeavesQueueAlone ==
  ASSUME TypeOK, QueueHoldsWaiters, NEW r \in Request, LeavesQueue(r)
  PROVE  /\ waiters' \in Seq(Request)
         /\ \A s \in Request : (\E i \in DOMAIN waiters' : waiters'[i] = s)
              <=> s # r /\ \E i \in DOMAIN waiters : waiters[i] = s
         /\ \A i, j \in DOMAIN waiters' : waiters'[i] = waiters'[j] => i = j
<1>1. PICK k \in DOMAIN waiters : waiters[k] = r /\ waiters' = RemoveAt(waiters, k)
  BY DEF LeavesQueue
<1>2. waiters \in Seq(Request) /\ Len(waiters) \in Nat /\ k \in 1 .. Len(waiters)
  BY <1>1 DEF TypeOK
<1> DEFINE old(i) == IF i < k THEN i ELSE i + 1
<1>3. /\ waiters' \in Seq(Request)
      /\ Len(waiters') = Len(waiters) - 1
      /\ \A i \in 1 .. Len(waiters) - 1 : waiters'[i] = waiters[old(i)]
  BY <1>1, <1>2, RemoveAtElements
<1>4. DOMAIN waiters' = 1 .. Len(waiters) - 1 /\ DOMAIN waiters = 1 .. Len(waiters)
  BY <1>2, <1>3
<1>5. \A i \in DOMAIN waiters' : old(i) \in DOMAIN waiters /\ old(i) # k
  BY <1>2, <1>4
<1>6. \A i, j \in DOMAIN waiters : waiters[i] = waiters[j] => i = j
  BY DEF QueueHoldsWaiters
<1>7. ASSUME NEW i \in DOMAIN waiters', NEW j \in DOMAIN waiters', waiters'[i] = waiters'[j]
      PROVE  i = j
  <2>1. old(i) = old(j)
    BY <1>3, <1>4, <1>5, <1>6, <1>7
  <2> QED
    BY <1>2, <1>4, <2>1
<1>8. ASSUME NEW s \in Request, NEW i \in DOMAIN waiters', waiters'[i] = s
      PROVE  s # r /\ \E j \in DOMAIN waiters : waiters[j] = s
  BY <1>1, <1>3, <1>4, <1>5, <1>6, <1>8
<1>9. ASSUME NEW s \in Request, s # r, NEW j \in DOMAIN waiters, waiters[j] = s
      PROVE  \E i \in DOMAIN waiters' : waiters'[i] = s
  <2>1. j # k
    BY <1>1, <1>9
  <2>2. CASE j < k
    <3>1. j \in DOMAIN waiters' /\ old(j) = j
      BY <1>2, <1>4, <2>2
    <3> QED
      BY <1>3, <1>4, <1>9, <3>1
  <2>3. CASE ~(j < k)
    <3>1. j - 1 \in DOMAIN waiters' /\ old(j - 1) = j
      BY <1>2, <1>4, <2>1, <2>3
    <3> HIDE DEF old
    <3> QED
      BY <1>3, <1>4, <1>9, <3>1
  <2> QED
    BY <2>2, <2>3
<1> QED
  BY <1>3, <1>7, <1>8, <1>9

(* Every step keeps the types.                                             *)
LEMMA TypeStep ==
  ASSUME TypeOK, QueueHoldsWaiters, GaugesAreTrue, [Next]_vars
  PROVE  TypeOK'
<1>1. GaugesAreTrue' /\ value' \in Nat
  BY GaugesStep
<1>2. place' \in [Request -> {"out", "waiting", "woken", "slot"}]
  BY DEF TypeOK, Next, vars, Enter, Wait, Resume, Leave, Moves
<1>3. waiters' \in Seq(Request)
  <2>1. ASSUME NEW r \in Request, Resume(r)
        PROVE  waiters' \in Seq(Request)
    BY <2>1, LeavesQueueAlone DEF Resume
  <2>2. ASSUME NEW r \in Request, Enter(r) \/ Wait(r) \/ Leave(r)
        PROVE  waiters' \in Seq(Request)
    BY <2>2 DEF TypeOK, Enter, Wait, Leave
  <2> QED
    BY <2>1, <2>2 DEF TypeOK, Next, vars
<1> DEFINE W == In("waiting")'
           K == In("woken")'
           S == In("slot")'
<1>4. W \cup K \subseteq Request /\ S \cup K \subseteq Request /\ S \subseteq S \cup K
  BY DEF In
<1>5. /\ Cardinality(W \cup K) \in Nat /\ Cardinality(W \cup K) <= Cardinality(Request)
      /\ Cardinality(Request) \in Nat /\ Cardinality(S) \in Nat
      /\ Cardinality(S \cup K) \in Nat /\ Cardinality(S) <= Cardinality(S \cup K)
  BY <1>4, PlacesAreFinite, FS_Subset
<1>6. /\ waiting' = Cardinality(W \cup K) /\ running' = Cardinality(S)
      /\ value' + Cardinality(S \cup K) = CAPACITY
  BY <1>1 DEF GaugesAreTrue
<1> HIDE DEF W, K, S
<1>7. value' \in 0 .. CAPACITY /\ running' \in 0 .. CAPACITY
  BY <1>1, <1>5, <1>6, CapacityAssumption
<1>8. waiting' \in 0 .. Cardinality(Request)
  BY <1>5, <1>6
<1> QED
  BY <1>2, <1>3, <1>7, <1>8 DEF TypeOK

(* Every step keeps the queue and the places in agreement.                 *)
LEMMA QueueStep ==
  ASSUME TypeOK, QueueHoldsWaiters, [Next]_vars
  PROVE  QueueHoldsWaiters'
<1>1. ASSUME NEW r \in Request, Enter(r)
      PROVE  QueueHoldsWaiters'
  BY <1>1 DEF Enter, QueueHoldsWaiters, TypeOK
<1>2. ASSUME NEW r \in Request, Wait(r)
      PROVE  QueueHoldsWaiters'
  <2>1. /\ waiters \in Seq(Request) /\ waiters' = Append(waiters, r)
        /\ place' = [place EXCEPT ![r] = "waiting"] /\ place[r] = "out"
        /\ place \in [Request -> {"out", "waiting", "woken", "slot"}]
    BY <1>2 DEF Wait, TypeOK
  <2>2. /\ DOMAIN waiters = 1 .. Len(waiters) /\ DOMAIN waiters' = 1 .. Len(waiters) + 1
        /\ \A i \in 1 .. Len(waiters) : waiters'[i] = waiters[i]
        /\ waiters'[Len(waiters) + 1] = r /\ Len(waiters) \in Nat
    BY <2>1
  <2>3. \A i \in DOMAIN waiters : waiters[i] # r
    BY <2>1 DEF QueueHoldsWaiters
  <2>4. \A i, j \in DOMAIN waiters' : waiters'[i] = waiters'[j] => i = j
    BY <2>2, <2>3 DEF QueueHoldsWaiters
  <2>5. \A s \in Request : (\E i \in DOMAIN waiters' : waiters'[i] = s)
          <=> s = r \/ \E i \in DOMAIN waiters : waiters[i] = s
    BY <2>2
  <2> QED
    BY <2>1, <2>4, <2>5 DEF QueueHoldsWaiters
<1>3. ASSUME NEW r \in Request, Resume(r)
      PROVE  QueueHoldsWaiters'
  <2>1. PICK woken \in SUBSET In("waiting") : Moves(r, "slot", woken)
    BY <1>3 DEF Resume
  <2>2. \A s \in Request :
          place'[s] \in {"waiting", "woken"} <=> s # r /\ place[s] \in {"waiting", "woken"}
    BY <2>1 DEF Moves, In
  <2> QED
    BY <1>3, <2>2, LeavesQueueAlone DEF Resume, QueueHoldsWaiters
<1>4. ASSUME NEW r \in Request, Leave(r)
      PROVE  QueueHoldsWaiters'
  <2>1. PICK woken \in SUBSET In("waiting") : Moves(r, "out", woken)
    BY <1>4 DEF Leave
  <2>2. \A s \in Request :
          place'[s] \in {"waiting", "woken"} <=> place[s] \in {"waiting", "woken"}
    BY <1>4, <2>1 DEF Moves, In, Leave
  <2> QED
    BY <1>4, <2>2 DEF Leave, QueueHoldsWaiters
<1>5. CASE UNCHANGED vars
  BY <1>5 DEF vars, QueueHoldsWaiters
<1> QED
  BY <1>1, <1>2, <1>3, <1>4, <1>5 DEF Next

(* No step leaves a queue behind with a slot free.                         *)
LEMMA WakeupStep ==
  ASSUME MInv, [Next]_vars
  PROVE  NoLostWakeup'
<1>0. TypeOK /\ QueueHoldsWaiters /\ GaugesAreTrue /\ NoLostWakeup
  BY DEF MInv
<1>1. ASSUME NEW r \in Request, Enter(r)
      PROVE  NoLostWakeup'
  <2>1. In("waiting") = {}
    BY <1>0, <1>1 DEF Enter, In, QueueHoldsWaiters
  <2>2. In("waiting")' = {}
    BY <1>0, <1>1, <2>1 DEF Enter, In, TypeOK
  <2> QED
    BY <2>2 DEF NoLostWakeup
<1>2. ASSUME NEW r \in Request, Wait(r), NEW s \in In("waiting")', value' > 0
      PROVE  \E i, j \in DOMAIN waiters' :
               i < j /\ waiters'[j] = s /\ place'[waiters'[i]] = "woken"
  <2>1. /\ waiters \in Seq(Request) /\ waiters' = Append(waiters, r) /\ value > 0
        /\ waiters # <<>>
        /\ place' = [place EXCEPT ![r] = "waiting"] /\ place[r] = "out"
        /\ place \in [Request -> {"out", "waiting", "woken", "slot"}]
    BY <1>0, <1>2 DEF Wait, TypeOK
  <2>2. /\ DOMAIN waiters = 1 .. Len(waiters) /\ DOMAIN waiters' = 1 .. Len(waiters) + 1
        /\ \A i \in 1 .. Len(waiters) : waiters[i] \in Request /\ waiters'[i] = waiters[i]
        /\ waiters'[Len(waiters) + 1] = r /\ Len(waiters) \in Nat /\ Len(waiters) > 0
    BY <2>1
  <2>3. \A i \in DOMAIN waiters : waiters[i] # r
    BY <1>0, <2>1 DEF QueueHoldsWaiters
  <2>4. CASE s = r
    <3>1. 1 \in DOMAIN waiters /\ place[waiters[1]] \in {"waiting", "woken"}
      BY <1>0, <2>2 DEF QueueHoldsWaiters
    <3>2. ASSUME place[waiters[1]] = "waiting"
          PROVE  FALSE
      <4>1. waiters[1] \in In("waiting")
        BY <2>2, <3>1, <3>2 DEF In
      <4>2. PICK i \in DOMAIN waiters, j \in DOMAIN waiters : i < j /\ waiters[j] = waiters[1]
        BY <1>0, <2>1, <4>1 DEF NoLostWakeup
      <4>3. j = 1
        BY <1>0, <3>1, <4>2 DEF QueueHoldsWaiters
      <4> QED
        BY <2>2, <4>2, <4>3
    <3>3. place'[waiters'[1]] = "woken"
      BY <2>1, <2>2, <2>3, <3>1, <3>2
    <3> QED
      BY <2>2, <2>4, <3>1, <3>3
  <2>5. CASE s # r
    <3>1. s \in In("waiting")
      BY <2>1, <2>5 DEF In
    <3>2. PICK i \in DOMAIN waiters, j \in DOMAIN waiters :
            i < j /\ waiters[j] = s /\ place[waiters[i]] = "woken"
      BY <1>0, <2>1, <3>1 DEF NoLostWakeup
    <3>3. place'[waiters'[i]] = "woken" /\ waiters'[j] = s
      BY <2>1, <2>2, <2>3, <3>2
    <3> QED
      BY <2>2, <3>2, <3>3
  <2> QED
    BY <2>4, <2>5
<1>3. ASSUME NEW r \in Request, Resume(r)
      PROVE  NoLostWakeup'
  <2>1. PICK woken \in SUBSET In("waiting") :
          /\ WakesUp(woken, value)
          /\ Moves(r, "slot", woken)
          /\ value' = value - Cardinality(woken)
    BY <1>3 DEF Resume
  <2>2. Cardinality(woken) = value \/ woken = In("waiting")
    BY <2>1 DEF WakesUp
  <2>3. CASE Cardinality(woken) = value
    <3>1. value' = 0
      BY <1>0, <2>1, <2>3 DEF TypeOK
    <3> QED
      BY <3>1 DEF NoLostWakeup
  <2>4. CASE woken = In("waiting")
    <3>1. In("waiting")' = {}
      BY <1>0, <1>3, <2>1, <2>4, MovesPlaces DEF Resume
    <3> QED
      BY <3>1 DEF NoLostWakeup
  <2> QED
    BY <2>2, <2>3, <2>4
<1>4. ASSUME NEW r \in Request, Leave(r), NEW s \in In("waiting")', value' > 0
      PROVE  \E i, j \in DOMAIN waiters' :
               i < j /\ waiters'[j] = s /\ place'[waiters'[i]] = "woken"
  <2>1. PICK woken \in SUBSET In("waiting") :
          /\ WakesUp(woken, 1)
          /\ Moves(r, "out", woken)
          /\ value' = value + 1 - Cardinality(woken)
    BY <1>4 DEF Leave
  <2>2. s \in In("waiting") /\ s \notin woken
    BY <1>0, <1>4, <2>1, MovesPlaces DEF Leave
  <2>3. Cardinality(woken) = 1
    BY <2>1, <2>2 DEF WakesUp
  <2>4. value > 0
    BY <1>0, <1>4, <2>1, <2>3 DEF TypeOK
  <2>5. PICK i \in DOMAIN waiters, j \in DOMAIN waiters :
          i < j /\ waiters[j] = s /\ place[waiters[i]] = "woken"
    BY <1>0, <2>2, <2>4 DEF NoLostWakeup
  <2>6. waiters' = waiters /\ waiters[i] \in Request /\ place[r] = "slot"
    BY <1>0, <1>4 DEF Leave, TypeOK
  <2>7. place'[waiters[i]] = "woken"
    BY <2>1, <2>5, <2>6 DEF Moves
  <2> QED
    BY <2>5, <2>6, <2>7
<1>5. CASE UNCHANGED vars
  BY <1>0, <1>5 DEF vars, NoLostWakeup, In
<1>6. ASSUME NEW r \in Request, Wait(r) \/ Leave(r)
      PROVE  NoLostWakeup'
  BY <1>2, <1>4, <1>6 DEF NoLostWakeup
<1> QED
  BY <1>1, <1>3, <1>5, <1>6 DEF Next

(* Every step of the server preserves the invariant.                       *)
LEMMA MockStep ==
  ASSUME MInv, [Next]_vars
  PROVE  MInv'
<1>1. TypeOK /\ QueueHoldsWaiters /\ GaugesAreTrue
  BY DEF MInv
<1>2. TypeOK'
  BY <1>1, TypeStep
<1>3. QueueHoldsWaiters'
  BY <1>1, QueueStep
<1>4. GaugesAreTrue'
  BY <1>1, GaugesStep
<1>5. NoLostWakeup'
  BY WakeupStep
<1> QED
  BY <1>2, <1>3, <1>4, <1>5 DEF MInv

(* The inductive invariant of mock-vllm: types, the semaphore's queue, the *)
(* gauges and the wake-ups.                                                *)
THEOREM MockInvariance == Spec => []MInv
<1>1. MInv /\ [Next]_vars => MInv'
  BY MockStep
<1> QED
  BY MockInit, <1>1, PTL DEF Spec

(* The gauges count what is there, and there are CAPACITY slots: Slot of   *)
(* app.py on asyncio.Semaphore loses and invents none.                     *)
THEOREM MockGaugesAreTrue == Spec => []GaugesAreTrue
<1>1. MInv => GaugesAreTrue
  BY DEF MInv
<1> QED
  BY <1>1, MockInvariance, PTL

(* No request waits for a slot that is free, unless a woken one before it  *)
(* will hand it on.                                                        *)
THEOREM MockLosesNoWakeup == Spec => []NoLostWakeup
<1>1. MInv => NoLostWakeup
  BY DEF MInv
<1> QED
  BY <1>1, MockInvariance, PTL

=============================================================================
