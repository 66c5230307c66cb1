------------------------- MODULE CachingSourceProofs -------------------------
(***************************************************************************)
(* Proofs about CachingSource for every set of callers, keys and ttls.     *)
(*                                                                         *)
(* None of the properties is inductive: each is carried by Inv, the        *)
(* conjunction of the named parts below, of which the two that matter are  *)
(* FlightLed (flight and the program counters always agree on who leads)   *)
(* and StoresInOrder (what a leader is about to store is not older than    *)
(* what the cache holds).                                                  *)
(***************************************************************************)
EXTENDS CachingSource, TLAPS

(* The singleflight map and the program counters agree.                    *)
FlightLed ==
  /\ \A k \in Key : flight[k] # NoCaller =>
       key[flight[k]] = k /\ pc[flight[k]] \in Leading
  /\ \A c \in Caller : pc[c] \in Leading => flight[key[c]] = c
  /\ \A c \in Caller : pc[c] = "wait" => flight[key[c]] # NoCaller

(* Where a caller is says which branches of Get it took.                   *)
BranchesTaken ==
  \A c \in Caller :
    /\ pc[c] \in {"load", "store"} => ttl[c] > 0
    /\ pc[c] = "store" => result[c].err \in Usable

(* Nothing is dated in the future.                                         *)
NothingFromTheFuture ==
  /\ \A c \in Caller : began[c] <= now /\ landed[c] <= now /\ result[c].asOf <= now
  /\ \A k \in Key : cache[k] # NoEntry =>
       /\ cache[k].answer.asOf <= cache[k].storedAt
       /\ cache[k].storedAt <= now
       /\ cache[k].expiresAt <= cache[k].storedAt + MaxTTL

(* A leader about to store holds a reading no older than the cached one.   *)
StoresInOrder ==
  \A c \in Caller : pc[c] = "store" /\ cache[key[c]] # NoEntry =>
    cache[key[c]].answer.asOf <= result[c].asOf

(* CacheSparesUpstream, extended to the callers between load and Do.       *)
MissIsFresh ==
  \A c \in Caller :
    pc[c] \in {"do", "upstream"} /\ ttl[c] > 0 /\ Fresh(key[c])
      => cache[key[c]].storedAt >= began[c]

Inv ==
  /\ TypeOK
  /\ FlightLed
  /\ BranchesTaken
  /\ NothingFromTheFuture
  /\ StoresInOrder
  /\ MissIsFresh
  /\ BoundedStaleness
  /\ ErrorsNeverPinned

-----------------------------------------------------------------------------

(* The initial states satisfy the invariant.                               *)
LEMMA InitInv == Init => Inv
  BY TTLAssumption
  DEF Init, Inv, TypeOK, FlightLed, BranchesTaken, NothingFromTheFuture,
      StoresInOrder, MissIsFresh, BoundedStaleness, ErrorsNeverPinned,
      PC, Leading, Answer, Entry, Pending, Usable, Broken, Fresh

(* The ttl in force is an integer no larger than MaxTTL.                   *)
LEMMA TTLBound ==
  ASSUME TypeOK, NEW c \in Caller
  PROVE  ttl[c] \in Int /\ ttl[c] <= MaxTTL /\ MaxTTL \in Nat
<1>1. ttl[c] \in TTL \/ ttl[c] = 0
  BY DEF TypeOK
<1>2. CASE ttl[c] \in TTL
  BY <1>2, TTLAssumption DEF TTLAssumption
<1>3. CASE ttl[c] = 0
  BY <1>3, TTLAssumption DEF TTLAssumption
<1> QED
  BY <1>1, <1>2, <1>3

(* Every step keeps every variable in its type.                            *)
LEMMA TypeStep ==
  ASSUME TypeOK, BranchesTaken, [Next]_vars
  PROVE  TypeOK'
<1>1. ASSUME NEW c \in Caller, NEW k \in Key, NEW t \in TTL, Get(c, k, t)
      PROVE  TypeOK'
  BY <1>1 DEF TypeOK, BranchesTaken, PC, Answer, Entry, Pending, Usable, Broken, Fresh, Get
<1>2. ASSUME NEW c \in Caller, LoadHit(c)
      PROVE  TypeOK'
  BY <1>2 DEF TypeOK, BranchesTaken, PC, Answer, Entry, Pending, Usable, Broken, Fresh, LoadHit
<1>3. ASSUME NEW c \in Caller, LoadMiss(c)
      PROVE  TypeOK'
  BY <1>3 DEF TypeOK, BranchesTaken, PC, Answer, Entry, Pending, Usable, Broken, Fresh, LoadMiss
<1>4. ASSUME NEW c \in Caller, Lead(c)
      PROVE  TypeOK'
  BY <1>4 DEF TypeOK, BranchesTaken, PC, Answer, Entry, Pending, Usable, Broken, Fresh, Lead
<1>5. ASSUME NEW c \in Caller, Join(c)
      PROVE  TypeOK'
  BY <1>5 DEF TypeOK, BranchesTaken, PC, Answer, Entry, Pending, Usable, Broken, Fresh, Join
<1>6. ASSUME NEW c \in Caller, NEW e \in Usable \cup Broken, NEW v \in Value, Respond(c, e, v)
      PROVE  TypeOK'
  BY <1>6 DEF TypeOK, BranchesTaken, PC, Answer, Entry, Pending, Usable, Broken, Fresh, Respond
<1>7. ASSUME NEW c \in Caller, Store(c)
      PROVE  TypeOK'
  <2>1. result[c] \in [err : Usable, value : Value \cup {NoValue}, asOf : Nat]
    BY <1>7 DEF TypeOK, BranchesTaken, Answer, Store
  <2>2. now \in Nat /\ ttl[c] \in Int
    BY <1>7, TTLBound DEF TypeOK
  <2>3. [answer |-> result[c], storedAt |-> now, expiresAt |-> now + ttl[c]] \in Entry
    BY <2>1, <2>2 DEF Entry
  <2>4. cache' \in [Key -> Entry \cup {NoEntry}]
    BY <1>7, <2>3 DEF TypeOK, Store
  <2> QED
    BY <1>7, <2>4 DEF TypeOK, PC, Store
<1>8. ASSUME NEW c \in Caller, Publish(c)
      PROVE  TypeOK'
  BY <1>8 DEF TypeOK, BranchesTaken, PC, Answer, Entry, Pending, Usable, Broken, Fresh, Publish
<1>9. ASSUME NEW c \in Caller, Return(c)
      PROVE  TypeOK'
  BY <1>9 DEF TypeOK, BranchesTaken, PC, Answer, Entry, Pending, Usable, Broken, Fresh, Return
<1>10. ASSUME Tick
      PROVE  TypeOK'
  BY <1>10 DEF TypeOK, BranchesTaken, PC, Answer, Entry, Pending, Usable, Broken, Fresh, Tick
<1>11. CASE UNCHANGED vars
  BY <1>11 DEF TypeOK, BranchesTaken, PC, Answer, Entry, Pending, Usable, Broken, Fresh, vars
<1> QED
  BY <1>1, <1>2, <1>3, <1>4, <1>5, <1>6, <1>7, <1>8, <1>9, <1>10, <1>11 DEF Next, Step

(* Every step keeps flight and the program counters in agreement.          *)
LEMMA FlightStep ==
  ASSUME TypeOK, FlightLed, [Next]_vars
  PROVE  FlightLed'
<1>1. ASSUME NEW c \in Caller, NEW k \in Key, NEW t \in TTL, Get(c, k, t)
      PROVE  FlightLed'
  BY <1>1 DEF TypeOK, FlightLed, Leading, Get
<1>2. ASSUME NEW c \in Caller, LoadHit(c)
      PROVE  FlightLed'
  BY <1>2 DEF TypeOK, FlightLed, Leading, LoadHit
<1>3. ASSUME NEW c \in Caller, LoadMiss(c)
      PROVE  FlightLed'
  BY <1>3 DEF TypeOK, FlightLed, Leading, LoadMiss
<1>4. ASSUME NEW c \in Caller, Lead(c)
      PROVE  FlightLed'
  <2>1. \A k \in Key : flight'[k] # NoCaller =>
          key'[flight'[k]] = k /\ pc'[flight'[k]] \in Leading
    BY <1>4 DEF TypeOK, FlightLed, Leading, Lead
  <2>2. \A d \in Caller : pc'[d] \in Leading => flight'[key'[d]] = d
    BY <1>4, NoCallerAssumption DEF TypeOK, FlightLed, Leading, Lead
  <2>3. \A d \in Caller : pc'[d] = "wait" => flight'[key'[d]] # NoCaller
    BY <1>4, NoCallerAssumption DEF TypeOK, FlightLed, Leading, Lead
  <2> QED
    BY <2>1, <2>2, <2>3 DEF FlightLed
<1>5. ASSUME NEW c \in Caller, Join(c)
      PROVE  FlightLed'
  BY <1>5 DEF TypeOK, FlightLed, Leading, Join
<1>6. ASSUME NEW c \in Caller, NEW e \in Usable \cup Broken, NEW v \in Value, Respond(c, e, v)
      PROVE  FlightLed'
  BY <1>6 DEF TypeOK, FlightLed, Leading, Respond
<1>7. ASSUME NEW c \in Caller, Store(c)
      PROVE  FlightLed'
  BY <1>7 DEF TypeOK, FlightLed, Leading, Store
<1>8. ASSUME NEW c \in Caller, Publish(c)
      PROVE  FlightLed'
  <2>1. flight[key[c]] = c /\ flight' = [flight EXCEPT ![key[c]] = NoCaller]
    BY <1>8 DEF FlightLed, Leading, Publish
  <2>2. key' = key /\ \A d \in Caller : pc'[d] = pc[d] \/ pc'[d] = "return"
    BY <1>8 DEF Publish
  <2>3. \A d \in Caller : key[d] = key[c] => pc'[d] \notin Leading \cup {"wait"}
    <3> SUFFICES ASSUME NEW d \in Caller, key[d] = key[c]
                 PROVE  pc'[d] \notin Leading \cup {"wait"}
      OBVIOUS
    <3>1. CASE d = c
      BY <3>1, <1>8 DEF Publish, Leading
    <3>2. CASE d # c
      <4>1. pc[d] \notin Leading
        BY <2>1, <3>2 DEF FlightLed
      <4>2. pc[d] = "wait" => pc'[d] = "return"
        BY <1>8 DEF Publish, Waiters
      <4> QED
        BY <4>1, <4>2, <2>2 DEF Leading
    <3> QED
      BY <3>1, <3>2
  <2>4. \A k \in Key : flight'[k] # NoCaller =>
          key'[flight'[k]] = k /\ pc'[flight'[k]] \in Leading
    <3> SUFFICES ASSUME NEW k \in Key, flight'[k] # NoCaller
                 PROVE  key'[flight'[k]] = k /\ pc'[flight'[k]] \in Leading
      OBVIOUS
    <3>1. k # key[c] /\ flight'[k] = flight[k] /\ flight[k] \in Caller
      BY <2>1 DEF TypeOK
    <3>2. key[flight[k]] = k /\ pc[flight[k]] \in Leading
      BY <3>1 DEF FlightLed
    <3>3. pc'[flight[k]] = pc[flight[k]]
      BY <3>1, <3>2, <1>8 DEF Publish, Waiters, Leading
    <3> QED
      BY <3>1, <3>2, <3>3, <2>2
  <2>5. \A d \in Caller : pc'[d] \in Leading => flight'[key'[d]] = d
    BY <2>1, <2>2, <2>3 DEF FlightLed, Leading, TypeOK
  <2>6. \A d \in Caller : pc'[d] = "wait" => flight'[key'[d]] # NoCaller
    BY <2>1, <2>2, <2>3 DEF FlightLed, TypeOK
  <2> QED
    BY <2>4, <2>5, <2>6 DEF FlightLed
<1>9. ASSUME NEW c \in Caller, Return(c)
      PROVE  FlightLed'
  BY <1>9 DEF TypeOK, FlightLed, Leading, Return
<1>10. ASSUME Tick
      PROVE  FlightLed'
  BY <1>10 DEF TypeOK, FlightLed, Leading, Tick
<1>11. CASE UNCHANGED vars
  BY <1>11 DEF TypeOK, FlightLed, Leading, vars
<1> QED
  BY <1>1, <1>2, <1>3, <1>4, <1>5, <1>6, <1>7, <1>8, <1>9, <1>10, <1>11 DEF Next, Step

(* Every step keeps what a program counter says about a call.              *)
LEMMA BranchesStep ==
  ASSUME TypeOK, BranchesTaken, [Next]_vars
  PROVE  BranchesTaken'
<1>1. ASSUME NEW c \in Caller, NEW k \in Key, NEW t \in TTL, Get(c, k, t)
      PROVE  BranchesTaken'
  BY <1>1 DEF TypeOK, BranchesTaken, Get
<1>2. ASSUME NEW c \in Caller, LoadHit(c)
      PROVE  BranchesTaken'
  BY <1>2 DEF TypeOK, BranchesTaken, LoadHit
<1>3. ASSUME NEW c \in Caller, LoadMiss(c)
      PROVE  BranchesTaken'
  BY <1>3 DEF TypeOK, BranchesTaken, LoadMiss
<1>4. ASSUME NEW c \in Caller, Lead(c)
      PROVE  BranchesTaken'
  BY <1>4 DEF TypeOK, BranchesTaken, Lead
<1>5. ASSUME NEW c \in Caller, Join(c)
      PROVE  BranchesTaken'
  BY <1>5 DEF TypeOK, BranchesTaken, Join
<1>6. ASSUME NEW c \in Caller, NEW e \in Usable \cup Broken, NEW v \in Value, Respond(c, e, v)
      PROVE  BranchesTaken'
  BY <1>6 DEF TypeOK, BranchesTaken, Respond
<1>7. ASSUME NEW c \in Caller, Store(c)
      PROVE  BranchesTaken'
  BY <1>7 DEF TypeOK, BranchesTaken, Store
<1>8. ASSUME NEW c \in Caller, Publish(c)
      PROVE  BranchesTaken'
  BY <1>8 DEF TypeOK, BranchesTaken, Publish
<1>9. ASSUME NEW c \in Caller, Return(c)
      PROVE  BranchesTaken'
  BY <1>9 DEF TypeOK, BranchesTaken, Return
<1>10. ASSUME Tick
      PROVE  BranchesTaken'
  BY <1>10 DEF TypeOK, BranchesTaken, Tick
<1>11. CASE UNCHANGED vars
  BY <1>11 DEF TypeOK, BranchesTaken, vars
<1> QED
  BY <1>1, <1>2, <1>3, <1>4, <1>5, <1>6, <1>7, <1>8, <1>9, <1>10, <1>11 DEF Next, Step

(* No step dates anything in the future.                                   *)
LEMMA PastStep ==
  ASSUME TypeOK, BranchesTaken, NothingFromTheFuture, [Next]_vars
  PROVE  NothingFromTheFuture'
<1>1. ASSUME NEW c \in Caller, NEW k \in Key, NEW t \in TTL, Get(c, k, t)
      PROVE  NothingFromTheFuture'
  BY <1>1 DEF TypeOK, NothingFromTheFuture, BranchesTaken, Answer, Entry, Pending, Get
<1>2. ASSUME NEW c \in Caller, LoadHit(c)
      PROVE  NothingFromTheFuture'
  <2>1. cache[key[c]] \in Entry /\ now \in Nat
    BY <1>2 DEF TypeOK, LoadHit, Fresh
  <2>2. /\ cache[key[c]].answer.asOf \in Nat
        /\ cache[key[c]].storedAt \in Nat
        /\ cache[key[c]].answer.asOf <= now
        /\ cache[key[c]].storedAt <= now
    BY <1>2, <2>1 DEF TypeOK, NothingFromTheFuture, Entry, LoadHit, Fresh
  <2> QED
    BY <1>2, <2>2 DEF TypeOK, NothingFromTheFuture, LoadHit
<1>3. ASSUME NEW c \in Caller, LoadMiss(c)
      PROVE  NothingFromTheFuture'
  BY <1>3 DEF TypeOK, NothingFromTheFuture, BranchesTaken, Answer, Entry, Pending, LoadMiss
<1>4. ASSUME NEW c \in Caller, Lead(c)
      PROVE  NothingFromTheFuture'
  BY <1>4 DEF TypeOK, NothingFromTheFuture, BranchesTaken, Answer, Entry, Pending, Lead
<1>5. ASSUME NEW c \in Caller, Join(c)
      PROVE  NothingFromTheFuture'
  BY <1>5 DEF TypeOK, NothingFromTheFuture, BranchesTaken, Answer, Entry, Pending, Join
<1>6. ASSUME NEW c \in Caller, NEW e \in Usable \cup Broken, NEW v \in Value, Respond(c, e, v)
      PROVE  NothingFromTheFuture'
  BY <1>6 DEF TypeOK, NothingFromTheFuture, BranchesTaken, Answer, Entry, Pending, Respond
<1>7. ASSUME NEW c \in Caller, Store(c)
      PROVE  NothingFromTheFuture'
  <2>1. now \in Nat /\ ttl[c] \in Int /\ ttl[c] <= MaxTTL /\ MaxTTL \in Nat
    BY <1>7, TTLBound DEF TypeOK
  <2>2. result[c].asOf <= now
    BY <1>7 DEF NothingFromTheFuture
  <2>3. ASSUME NEW k \in Key, cache'[k] # NoEntry
        PROVE  /\ cache'[k].answer.asOf <= cache'[k].storedAt
               /\ cache'[k].storedAt <= now
               /\ cache'[k].expiresAt <= cache'[k].storedAt + MaxTTL
    <3>1. CASE k = key[c]
      BY <1>7, <2>1, <2>2, <3>1 DEF TypeOK, Store
    <3>2. CASE k # key[c]
      BY <1>7, <2>3, <3>2 DEF TypeOK, NothingFromTheFuture, Store
    <3> QED
      BY <3>1, <3>2
  <2> QED
    BY <1>7, <2>3 DEF NothingFromTheFuture, Store
<1>8. ASSUME NEW c \in Caller, Publish(c)
      PROVE  NothingFromTheFuture'
  BY <1>8 DEF TypeOK, NothingFromTheFuture, BranchesTaken, Answer, Entry, Pending, Publish
<1>9. ASSUME NEW c \in Caller, Return(c)
      PROVE  NothingFromTheFuture'
  BY <1>9 DEF TypeOK, NothingFromTheFuture, BranchesTaken, Answer, Entry, Pending, Return
<1>10. ASSUME Tick
      PROVE  NothingFromTheFuture'
  BY <1>10 DEF TypeOK, NothingFromTheFuture, BranchesTaken, Answer, Entry, Pending, Tick
<1>11. CASE UNCHANGED vars
  BY <1>11 DEF TypeOK, NothingFromTheFuture, BranchesTaken, Answer, Entry, Pending, vars
<1> QED
  BY <1>1, <1>2, <1>3, <1>4, <1>5, <1>6, <1>7, <1>8, <1>9, <1>10, <1>11 DEF Next, Step

(* No step puts a reading about to be stored behind the cached one.        *)
LEMMA OrderStep ==
  ASSUME TypeOK, FlightLed, NothingFromTheFuture, StoresInOrder, [Next]_vars
  PROVE  StoresInOrder'
<1>1. ASSUME NEW c \in Caller, NEW k \in Key, NEW t \in TTL, Get(c, k, t)
      PROVE  StoresInOrder'
  BY <1>1 DEF TypeOK, NothingFromTheFuture, StoresInOrder, Answer, Entry, Get
<1>2. ASSUME NEW c \in Caller, LoadHit(c)
      PROVE  StoresInOrder'
  BY <1>2 DEF TypeOK, NothingFromTheFuture, StoresInOrder, Answer, Entry, LoadHit
<1>3. ASSUME NEW c \in Caller, LoadMiss(c)
      PROVE  StoresInOrder'
  BY <1>3 DEF TypeOK, NothingFromTheFuture, StoresInOrder, Answer, Entry, LoadMiss
<1>4. ASSUME NEW c \in Caller, Lead(c)
      PROVE  StoresInOrder'
  BY <1>4 DEF TypeOK, NothingFromTheFuture, StoresInOrder, Answer, Entry, Lead
<1>5. ASSUME NEW c \in Caller, Join(c)
      PROVE  StoresInOrder'
  BY <1>5 DEF TypeOK, NothingFromTheFuture, StoresInOrder, Answer, Entry, Join
<1>6. ASSUME NEW c \in Caller, NEW e \in Usable \cup Broken, NEW v \in Value, Respond(c, e, v)
      PROVE  StoresInOrder'
  BY <1>6 DEF TypeOK, NothingFromTheFuture, StoresInOrder, Answer, Entry, Respond
<1>7. ASSUME NEW c \in Caller, Store(c)
      PROVE  StoresInOrder'
  <2> SUFFICES ASSUME NEW d \in Caller, pc'[d] = "store", cache'[key'[d]] # NoEntry
               PROVE  cache'[key'[d]].answer.asOf <= result'[d].asOf
    BY DEF StoresInOrder
  <2>1. d # c /\ pc[d] = "store" /\ key' = key /\ result' = result
    BY <1>7 DEF TypeOK, Store
  <2>2. key[d] # key[c]
    BY <1>7, <2>1 DEF FlightLed, Leading, Store
  <2>3. cache'[key[d]] = cache[key[d]]
    BY <1>7, <2>2 DEF TypeOK, Store
  <2> QED
    BY <2>1, <2>3 DEF StoresInOrder
<1>8. ASSUME NEW c \in Caller, Publish(c)
      PROVE  StoresInOrder'
  BY <1>8 DEF TypeOK, NothingFromTheFuture, StoresInOrder, Answer, Entry, Publish
<1>9. ASSUME NEW c \in Caller, Return(c)
      PROVE  StoresInOrder'
  BY <1>9 DEF TypeOK, NothingFromTheFuture, StoresInOrder, Answer, Entry, Return
<1>10. ASSUME Tick
      PROVE  StoresInOrder'
  BY <1>10 DEF TypeOK, NothingFromTheFuture, StoresInOrder, Answer, Entry, Tick
<1>11. CASE UNCHANGED vars
  BY <1>11 DEF TypeOK, NothingFromTheFuture, StoresInOrder, Answer, Entry, vars
<1> QED
  BY <1>1, <1>2, <1>3, <1>4, <1>5, <1>6, <1>7, <1>8, <1>9, <1>10, <1>11 DEF Next, Step

(* A caller past its load sees only entries stored while it was running.   *)
LEMMA MissStep ==
  ASSUME TypeOK, NothingFromTheFuture, MissIsFresh, [Next]_vars
  PROVE  MissIsFresh'
<1>1. ASSUME NEW c \in Caller, NEW k \in Key, NEW t \in TTL, Get(c, k, t)
      PROVE  MissIsFresh'
  BY <1>1 DEF TypeOK, NothingFromTheFuture, MissIsFresh, Fresh, Entry, Get
<1>2. ASSUME NEW c \in Caller, LoadHit(c)
      PROVE  MissIsFresh'
  BY <1>2 DEF TypeOK, NothingFromTheFuture, MissIsFresh, Fresh, Entry, LoadHit
<1>3. ASSUME NEW c \in Caller, LoadMiss(c)
      PROVE  MissIsFresh'
  BY <1>3 DEF TypeOK, NothingFromTheFuture, MissIsFresh, Fresh, Entry, LoadMiss
<1>4. ASSUME NEW c \in Caller, Lead(c)
      PROVE  MissIsFresh'
  BY <1>4 DEF TypeOK, NothingFromTheFuture, MissIsFresh, Fresh, Entry, Lead
<1>5. ASSUME NEW c \in Caller, Join(c)
      PROVE  MissIsFresh'
  BY <1>5 DEF TypeOK, NothingFromTheFuture, MissIsFresh, Fresh, Entry, Join
<1>6. ASSUME NEW c \in Caller, NEW e \in Usable \cup Broken, NEW v \in Value, Respond(c, e, v)
      PROVE  MissIsFresh'
  BY <1>6 DEF TypeOK, NothingFromTheFuture, MissIsFresh, Fresh, Entry, Respond
<1>7. ASSUME NEW c \in Caller, Store(c)
      PROVE  MissIsFresh'
  BY <1>7 DEF TypeOK, NothingFromTheFuture, MissIsFresh, Fresh, Entry, Store
<1>8. ASSUME NEW c \in Caller, Publish(c)
      PROVE  MissIsFresh'
  BY <1>8 DEF TypeOK, NothingFromTheFuture, MissIsFresh, Fresh, Entry, Publish
<1>9. ASSUME NEW c \in Caller, Return(c)
      PROVE  MissIsFresh'
  BY <1>9 DEF TypeOK, NothingFromTheFuture, MissIsFresh, Fresh, Entry, Return
<1>10. ASSUME Tick
      PROVE  MissIsFresh'
  BY <1>10 DEF TypeOK, NothingFromTheFuture, MissIsFresh, Fresh, Entry, Tick
<1>11. CASE UNCHANGED vars
  BY <1>11 DEF TypeOK, NothingFromTheFuture, MissIsFresh, Fresh, Entry, vars
<1> QED
  BY <1>1, <1>2, <1>3, <1>4, <1>5, <1>6, <1>7, <1>8, <1>9, <1>10, <1>11 DEF Next, Step

(* No step serves a reading older than the largest ttl.                    *)
LEMMA StalenessStep ==
  ASSUME TypeOK, BranchesTaken, NothingFromTheFuture, BoundedStaleness, [Next]_vars
  PROVE  BoundedStaleness'
<1>1. ASSUME NEW c \in Caller, NEW k \in Key, NEW t \in TTL, Get(c, k, t)
      PROVE  BoundedStaleness'
  BY <1>1 DEF TypeOK, BranchesTaken, NothingFromTheFuture, BoundedStaleness, Fresh, Entry, Get
<1>2. ASSUME NEW c \in Caller, LoadHit(c)
      PROVE  BoundedStaleness'
  <2> SUFFICES ASSUME NEW d \in Caller, pc'[d] = "return"
               PROVE  \/ landed'[d] >= began'[d]
                      \/ ttl'[d] > 0 /\ landed'[d] + MaxTTL >= began'[d]
    BY DEF BoundedStaleness
  <2>1. CASE d = c
    <3> DEFINE hit == cache[key[c]]
    <3>1. hit \in Entry /\ now \in Nat /\ MaxTTL \in Nat /\ began[c] \in Nat
      BY <1>2, TTLAssumption DEF TypeOK, LoadHit, Fresh
    <3>2. hit.storedAt \in Nat /\ hit.expiresAt \in Int
      BY <3>1 DEF Entry
    <3>3. now <= hit.expiresAt /\ hit.expiresAt <= hit.storedAt + MaxTTL /\ began[c] <= now
      BY <1>2 DEF NothingFromTheFuture, LoadHit, Fresh, TypeOK
    <3>4. hit.storedAt + MaxTTL >= began[c]
      BY <3>1, <3>2, <3>3
    <3> QED
      BY <1>2, <2>1, <3>4 DEF TypeOK, BranchesTaken, LoadHit
  <2>2. CASE d # c
    BY <1>2, <2>2 DEF TypeOK, BoundedStaleness, LoadHit
  <2> QED
    BY <2>1, <2>2
<1>3. ASSUME NEW c \in Caller, LoadMiss(c)
      PROVE  BoundedStaleness'
  BY <1>3 DEF TypeOK, BranchesTaken, NothingFromTheFuture, BoundedStaleness, Fresh, Entry, LoadMiss
<1>4. ASSUME NEW c \in Caller, Lead(c)
      PROVE  BoundedStaleness'
  BY <1>4 DEF TypeOK, BranchesTaken, NothingFromTheFuture, BoundedStaleness, Fresh, Entry, Lead
<1>5. ASSUME NEW c \in Caller, Join(c)
      PROVE  BoundedStaleness'
  BY <1>5 DEF TypeOK, BranchesTaken, NothingFromTheFuture, BoundedStaleness, Fresh, Entry, Join
<1>6. ASSUME NEW c \in Caller, NEW e \in Usable \cup Broken, NEW v \in Value, Respond(c, e, v)
      PROVE  BoundedStaleness'
  BY <1>6 DEF TypeOK, BranchesTaken, NothingFromTheFuture, BoundedStaleness, Fresh, Entry, Respond
<1>7. ASSUME NEW c \in Caller, Store(c)
      PROVE  BoundedStaleness'
  BY <1>7 DEF TypeOK, BranchesTaken, NothingFromTheFuture, BoundedStaleness, Fresh, Entry, Store
<1>8. ASSUME NEW c \in Caller, Publish(c)
      PROVE  BoundedStaleness'
  BY <1>8 DEF TypeOK, BranchesTaken, NothingFromTheFuture, BoundedStaleness, Fresh, Entry, Publish
<1>9. ASSUME NEW c \in Caller, Return(c)
      PROVE  BoundedStaleness'
  BY <1>9 DEF TypeOK, BranchesTaken, NothingFromTheFuture, BoundedStaleness, Fresh, Entry, Return
<1>10. ASSUME Tick
      PROVE  BoundedStaleness'
  BY <1>10 DEF TypeOK, BranchesTaken, NothingFromTheFuture, BoundedStaleness, Fresh, Entry, Tick
<1>11. CASE UNCHANGED vars
  BY <1>11 DEF TypeOK, BranchesTaken, NothingFromTheFuture, BoundedStaleness, Fresh, Entry, vars
<1> QED
  BY <1>1, <1>2, <1>3, <1>4, <1>5, <1>6, <1>7, <1>8, <1>9, <1>10, <1>11 DEF Next, Step

(* No step serves an error from the cache.                                 *)
LEMMA ErrorsStep ==
  ASSUME TypeOK, NothingFromTheFuture, ErrorsNeverPinned, [Next]_vars
  PROVE  ErrorsNeverPinned'
<1>1. ASSUME NEW c \in Caller, NEW k \in Key, NEW t \in TTL, Get(c, k, t)
      PROVE  ErrorsNeverPinned'
  BY <1>1 DEF TypeOK, NothingFromTheFuture, ErrorsNeverPinned, Fresh, Entry, Usable, Broken, Get
<1>2. ASSUME NEW c \in Caller, LoadHit(c)
      PROVE  ErrorsNeverPinned'
  BY <1>2 DEF TypeOK, NothingFromTheFuture, ErrorsNeverPinned, Fresh, Entry, Usable, Broken, LoadHit
<1>3. ASSUME NEW c \in Caller, LoadMiss(c)
      PROVE  ErrorsNeverPinned'
  BY <1>3 DEF TypeOK, NothingFromTheFuture, ErrorsNeverPinned, Fresh, Entry, Usable, Broken, LoadMiss
<1>4. ASSUME NEW c \in Caller, Lead(c)
      PROVE  ErrorsNeverPinned'
  BY <1>4 DEF TypeOK, NothingFromTheFuture, ErrorsNeverPinned, Fresh, Entry, Usable, Broken, Lead
<1>5. ASSUME NEW c \in Caller, Join(c)
      PROVE  ErrorsNeverPinned'
  BY <1>5 DEF TypeOK, NothingFromTheFuture, ErrorsNeverPinned, Fresh, Entry, Usable, Broken, Join
<1>6. ASSUME NEW c \in Caller, NEW e \in Usable \cup Broken, NEW v \in Value, Respond(c, e, v)
      PROVE  ErrorsNeverPinned'
  BY <1>6 DEF TypeOK, NothingFromTheFuture, ErrorsNeverPinned, Fresh, Entry, Usable, Broken, Respond
<1>7. ASSUME NEW c \in Caller, Store(c)
      PROVE  ErrorsNeverPinned'
  BY <1>7 DEF TypeOK, NothingFromTheFuture, ErrorsNeverPinned, Fresh, Entry, Usable, Broken, Store
<1>8. ASSUME NEW c \in Caller, Publish(c)
      PROVE  ErrorsNeverPinned'
  BY <1>8 DEF TypeOK, NothingFromTheFuture, ErrorsNeverPinned, Fresh, Entry, Usable, Broken, Publish
<1>9. ASSUME NEW c \in Caller, Return(c)
      PROVE  ErrorsNeverPinned'
  BY <1>9 DEF TypeOK, NothingFromTheFuture, ErrorsNeverPinned, Fresh, Entry, Usable, Broken, Return
<1>10. ASSUME Tick
      PROVE  ErrorsNeverPinned'
  BY <1>10 DEF TypeOK, NothingFromTheFuture, ErrorsNeverPinned, Fresh, Entry, Usable, Broken, Tick
<1>11. CASE UNCHANGED vars
  BY <1>11 DEF TypeOK, NothingFromTheFuture, ErrorsNeverPinned, Fresh, Entry, Usable, Broken, vars
<1> QED
  BY <1>1, <1>2, <1>3, <1>4, <1>5, <1>6, <1>7, <1>8, <1>9, <1>10, <1>11 DEF Next, Step

-----------------------------------------------------------------------------

(* Every reachable state satisfies the invariant.                          *)
THEOREM Invariance == Spec => []Inv
<1>1. Init => Inv
  BY InitInv
<1>2. Inv /\ [Next]_vars => Inv'
  BY TypeStep, FlightStep, BranchesStep, PastStep, OrderStep, MissStep,
     StalenessStep, ErrorsStep DEF Inv
<1> QED
  BY <1>1, <1>2, PTL DEF Spec

(* Type correctness.                                                       *)
THEOREM TypeCorrect == Spec => []TypeOK
<1>1. Inv => TypeOK
  BY DEF Inv
<1> QED
  BY <1>1, Invariance, PTL

(* For any number of concurrent callers, a caller that joined a flight     *)
(* always has a leader running it: nobody waits on a call nobody makes.    *)
THEOREM NoStrandedWaiter == Spec => []WaitersHaveLeader
<1>1. Inv => WaitersHaveLeader
  BY DEF Inv, FlightLed, WaitersHaveLeader, TypeOK
<1> QED
  BY <1>1, Invariance, PTL

(* For any number of concurrent callers, one request per key at a time.    *)
THEOREM Collapsing == Spec => []OneFlightPerKey
<1>1. Inv => OneFlightPerKey
  BY DEF Inv, FlightLed, OneFlightPerKey
<1> QED
  BY <1>1, Invariance, PTL

(* For any mix of ttls, Get's result landed during the call or at most     *)
(* MaxTTL before it.                                                       *)
THEOREM StalenessBound == Spec => []BoundedStaleness
<1>1. Inv => BoundedStaleness
  BY DEF Inv
<1> QED
  BY <1>1, Invariance, PTL

(* For any interleaving, an error is never served from the cache.          *)
THEOREM ErrorsRetried == Spec => []ErrorsNeverPinned
<1>1. Inv => ErrorsNeverPinned
  BY DEF Inv
<1> QED
  BY <1>1, Invariance, PTL

(* A caller goes upstream past a usable entry only if the entry was stored *)
(* after its call began.                                                   *)
THEOREM QueryCostBounded == Spec => []CacheSparesUpstream
<1>1. Inv => CacheSparesUpstream
  BY DEF Inv, MissIsFresh, CacheSparesUpstream
<1> QED
  BY <1>1, Invariance, PTL

(* The cached reading of a key never goes back in time.                    *)
THEOREM CacheMonotone == Spec => CacheNeverRegresses
<1>1. Inv /\ [Next]_vars => [\A k \in Key : NoRegress(k)]_vars
  <2> SUFFICES ASSUME Inv, Next, NEW k \in Key, cache[k] # NoEntry
               PROVE  cache'[k] # NoEntry /\ cache'[k].answer.asOf >= cache[k].answer.asOf
    BY DEF NoRegress
  <2>1. cache[k] \in Entry /\ cache[k].answer.asOf \in Nat
    BY DEF Inv, TypeOK, Entry
  <2>2. CASE cache' = cache
    BY <2>1, <2>2
  <2>3. ASSUME NEW c \in Caller, Store(c)
        PROVE  cache'[k] # NoEntry /\ cache'[k].answer.asOf >= cache[k].answer.asOf
    <3>1. CASE k = key[c]
      <4>1. cache'[k].answer = result[c]
        BY <2>3, <3>1 DEF Store, Inv, TypeOK
      <4>2. result[c].asOf >= cache[k].answer.asOf
        BY <2>3, <3>1 DEF Store, Inv, StoresInOrder, TypeOK, Answer, Entry
      <4>3. cache'[k] # NoEntry
        <5>1. cache'[k] = [answer |-> result[c], storedAt |-> now, expiresAt |-> now + ttl[c]]
          BY <2>3, <3>1 DEF Store, Inv, TypeOK
        <5>2. cache'[k] \in Entry
          <6>1. now \in Nat /\ ttl[c] \in Int
            BY <2>3, TTLBound DEF Inv, TypeOK
          <6>2. result[c] \in [err : Usable, value : Value \cup {NoValue}, asOf : Nat]
            BY <2>3 DEF Inv, TypeOK, BranchesTaken, Answer, Store
          <6> QED
            BY <5>1, <6>1, <6>2 DEF Entry
        <5> QED
          BY <5>2, NoEntryAssumption DEF Entry, Usable
      <4> QED
        BY <4>1, <4>2, <4>3
    <3>2. CASE k # key[c]
      BY <2>1, <2>3, <3>2 DEF Store, Inv, TypeOK
    <3> QED
      BY <3>1, <3>2
  <2> QED
    BY <2>2, <2>3
    DEF Next, Step, Get, LoadHit, LoadMiss, Lead, Join, Respond, Publish, Return, Tick
<1> QED
  BY <1>1, Invariance, PTL DEF Spec, CacheNeverRegresses

=============================================================================
