----------------------- MODULE CachingSourceRefinement -----------------------
(***************************************************************************)
(* CachingSource implements Readings, for every set of callers, keys and   *)
(* ttls: every step of a goroutine is one of Readings' steps or invisible  *)
(* to the callers.                                                         *)
(***************************************************************************)
EXTENDS CachingSourceProofs

(* What a leader has in hand was evaluated after its call began, and is    *)
(* not older than what the cache holds of its key.                         *)
AnswersAreCurrent ==
  \A c \in Caller : pc[c] \in {"store", "publish"} =>
    /\ began[c] <= result[c].asOf
    /\ cache[key[c]] # NoEntry => cache[key[c]].answer.asOf <= result[c].asOf

-----------------------------------------------------------------------------

(* Every step keeps the leaders' answers current.                          *)
LEMMA CurrentStep ==
  ASSUME Inv, AnswersAreCurrent, [Next]_vars
  PROVE  AnswersAreCurrent'
<1> USE DEF Inv
<1>1. ASSUME NEW c \in Caller, NEW k \in Key, NEW t \in TTL, Get(c, k, t)
      PROVE  AnswersAreCurrent'
  BY <1>1 DEF TypeOK, AnswersAreCurrent, Get
<1>2. ASSUME NEW c \in Caller, LoadHit(c)
      PROVE  AnswersAreCurrent'
  BY <1>2 DEF TypeOK, AnswersAreCurrent, LoadHit
<1>3. ASSUME NEW c \in Caller, LoadMiss(c)
      PROVE  AnswersAreCurrent'
  BY <1>3 DEF TypeOK, AnswersAreCurrent, LoadMiss
<1>4. ASSUME NEW c \in Caller, Lead(c)
      PROVE  AnswersAreCurrent'
  BY <1>4 DEF TypeOK, AnswersAreCurrent, Lead
<1>5. ASSUME NEW c \in Caller, Join(c)
      PROVE  AnswersAreCurrent'
  BY <1>5 DEF TypeOK, AnswersAreCurrent, Join
<1>6. ASSUME NEW c \in Caller, NEW e \in Usable \cup Broken, NEW v \in Value, Respond(c, e, v)
      PROVE  AnswersAreCurrent'
  <2> SUFFICES ASSUME NEW d \in Caller, pc'[d] \in {"store", "publish"}
               PROVE  /\ began'[d] <= result'[d].asOf
                      /\ cache'[key'[d]] # NoEntry =>
                           cache'[key'[d]].answer.asOf <= result'[d].asOf
    BY DEF AnswersAreCurrent
  <2>1. CASE d = c
    <3>1. result'[c].asOf = now /\ key[c] \in Key /\ now \in Nat
      BY <1>6 DEF Respond, TypeOK
    <3>2. began[c] <= now
      BY DEF NothingFromTheFuture
    <3>3. cache[key[c]] # NoEntry => cache[key[c]].answer.asOf <= now
      BY <3>1 DEF NothingFromTheFuture, TypeOK, Entry
    <3> QED
      BY <1>6, <2>1, <3>1, <3>2, <3>3 DEF Respond
  <2>2. CASE d # c
    BY <1>6, <2>2 DEF TypeOK, AnswersAreCurrent, Respond
  <2> QED
    BY <2>1, <2>2
<1>7. ASSUME NEW c \in Caller, Store(c)
      PROVE  AnswersAreCurrent'
  <2> SUFFICES ASSUME NEW d \in Caller, pc'[d] \in {"store", "publish"}
               PROVE  /\ began'[d] <= result'[d].asOf
                      /\ cache'[key'[d]] # NoEntry =>
                           cache'[key'[d]].answer.asOf <= result'[d].asOf
    BY DEF AnswersAreCurrent
  <2>1. CASE d = c
    <3>1. cache'[key[c]].answer = result[c] /\ result[c].asOf \in Nat
      BY <1>7 DEF Store, TypeOK, Answer
    <3> QED
      BY <1>7, <2>1, <3>1 DEF Store, TypeOK, AnswersAreCurrent
  <2>2. CASE d # c
    <3>1. pc[d] \in {"store", "publish"} /\ key' = key /\ result' = result /\ began' = began
      BY <1>7, <2>2 DEF Store, TypeOK
    <3>2. key[d] # key[c]
      BY <1>7, <2>2, <3>1 DEF FlightLed, Leading, Store
    <3>3. cache'[key[d]] = cache[key[d]]
      BY <1>7, <3>2 DEF Store, TypeOK
    <3> QED
      BY <3>1, <3>3 DEF AnswersAreCurrent
  <2> QED
    BY <2>1, <2>2
<1>8. ASSUME NEW c \in Caller, Publish(c)
      PROVE  AnswersAreCurrent'
  <2> SUFFICES ASSUME NEW d \in Caller, pc'[d] \in {"store", "publish"}
               PROVE  /\ began'[d] <= result'[d].asOf
                      /\ cache'[key'[d]] # NoEntry =>
                           cache'[key'[d]].answer.asOf <= result'[d].asOf
    BY DEF AnswersAreCurrent
  <2>1. /\ pc'[d] = pc[d] /\ result'[d] = result[d]
        /\ key' = key /\ began' = began /\ cache' = cache
    BY <1>8 DEF Publish
  <2> QED
    BY <2>1 DEF AnswersAreCurrent
<1>9. ASSUME NEW c \in Caller, Return(c)
      PROVE  AnswersAreCurrent'
  BY <1>9 DEF TypeOK, AnswersAreCurrent, Return
<1>10. ASSUME Tick
      PROVE  AnswersAreCurrent'
  BY <1>10 DEF TypeOK, AnswersAreCurrent, Tick
<1>11. CASE UNCHANGED vars
  BY <1>11 DEF TypeOK, AnswersAreCurrent, vars
<1> QED
  BY <1>1, <1>2, <1>3, <1>4, <1>5, <1>6, <1>7, <1>8, <1>9, <1>10, <1>11 DEF Next, Step

(* The initial states are Readings' initial states.                        *)
LEMMA RefinesInit == Init => R!Init
  BY DEF Init, R!Init, Latest, Status, Answered, Pending, R!NoAnswer

(* What the cache holds of a key, as Readings has it.                      *)
LEMMA LatestOfEntry ==
  ASSUME Inv, NEW k \in Key
  PROVE  /\ cache[k] = NoEntry => Latest[k] = NoEntry
         /\ cache[k] # NoEntry =>
              /\ Latest[k] = [answer |-> cache[k].answer, renewed |-> cache[k].storedAt]
              /\ Latest[k] # NoEntry
<1>1. CASE cache[k] = NoEntry
  BY <1>1 DEF Latest
<1>2. CASE cache[k] # NoEntry
  <2>1. Latest[k] = [answer |-> cache[k].answer, renewed |-> cache[k].storedAt]
    BY <1>2 DEF Latest
  <2>2. /\ cache[k].answer \in [err : Usable, value : Value \cup {NoValue}, asOf : Nat]
        /\ cache[k].storedAt \in Nat
    BY <1>2 DEF Inv, TypeOK, Entry
  <2> QED
    BY <1>2, <2>1, <2>2, NoReadingAssumption DEF Usable
<1> QED
  BY <1>1, <1>2

(* A step that leaves the cache and every call's standing alone is         *)
(* invisible.                                                              *)
LEMMA Invisible ==
  ASSUME UNCHANGED <<now, cache, key, ttl, began>>,
         \A c \in Caller : /\ pc'[c] = "idle" <=> pc[c] = "idle"
                           /\ pc'[c] = "return" <=> pc[c] = "return"
                           /\ pc[c] = "return" => result'[c] = result[c]
  PROVE  UNCHANGED R!vars
<1>1. Latest' = Latest
  BY DEF Latest
<1>2. Status' = Status
  BY DEF Status
<1>3. Answered' = Answered
  BY DEF Answered
<1> QED
  BY <1>1, <1>2, <1>3 DEF R!vars

(* A hit is Share.                                                         *)
LEMMA HitShares ==
  ASSUME Inv, NEW c \in Caller, LoadHit(c)
  PROVE  R!Share(c)
<1> DEFINE hit == cache[key[c]]
<1>1. key[c] \in Key /\ hit # NoEntry /\ hit \in Entry /\ now <= hit.expiresAt
  BY DEF LoadHit, Fresh, Inv, TypeOK
<1>2. hit.expiresAt <= hit.storedAt + MaxTTL
  BY <1>1 DEF Inv, NothingFromTheFuture
<1>3. hit.storedAt + MaxTTL >= now
  BY <1>1, <1>2, TTLAssumption DEF Entry, Inv, TypeOK
<1>4. /\ Latest[key[c]] = [answer |-> hit.answer, renewed |-> hit.storedAt]
      /\ Latest[key[c]] # NoEntry
  BY <1>1, LatestOfEntry
<1>5. Latest[key[c]].answer = hit.answer /\ Latest[key[c]].renewed = hit.storedAt
  BY <1>4
<1>6. ttl[c] > 0
  BY DEF Inv, BranchesTaken, LoadHit
<1>7. UNCHANGED <<now, Latest, key, ttl, began>>
  BY DEF LoadHit, Latest
<1>8. Status[c] = "asked" /\ Status' = [Status EXCEPT ![c] = "answered"]
  BY DEF LoadHit, Status, Inv, TypeOK
<1>9. Answered' = [Answered EXCEPT ![c] = hit.answer]
  BY DEF LoadHit, Answered, Inv, TypeOK
<1> QED
  BY <1>3, <1>4, <1>5, <1>6, <1>7, <1>8, <1>9 DEF R!Share

(* The store is Renew: what the leader stores was evaluated for its own    *)
(* call, and is not older than what was there.                             *)
LEMMA StoreRenews ==
  ASSUME Inv, AnswersAreCurrent, NEW c \in Caller, Store(c)
  PROVE  R!Renew(key[c])
<1> DEFINE a == result[c]
<1>1. key[c] \in Key /\ now \in Nat
  BY DEF Inv, TypeOK
<1>2. a \in R!Answers(R!Shareable)
  <2>1. a \in Answer /\ a.err \in Usable
    BY DEF Inv, TypeOK, BranchesTaken, Store
  <2>2. a.asOf \in 0 .. now
    BY <1>1, <2>1 DEF Inv, NothingFromTheFuture, Answer
  <2> QED
    BY <2>1, <2>2 DEF Answer, R!Answers, R!Shareable, Usable
<1>3. c \in R!Asking(key[c])
  BY DEF R!Asking, Status, Store
<1>4. ttl[c] > 0 /\ began[c] <= a.asOf
  BY DEF Inv, BranchesTaken, AnswersAreCurrent, Store
<1>5. R!NotOlder(a.asOf, key[c])
  <2>1. cache[key[c]] # NoEntry => cache[key[c]].answer.asOf <= a.asOf
    BY DEF AnswersAreCurrent, Store
  <2>2. cache[key[c]] # NoEntry => Latest[key[c]].answer = cache[key[c]].answer
    <3>1. cache[key[c]] # NoEntry =>
            Latest[key[c]] = [answer |-> cache[key[c]].answer,
                              renewed |-> cache[key[c]].storedAt]
      BY <1>1, LatestOfEntry
    <3> QED
      BY <3>1
  <2>3. cache[key[c]] = NoEntry => Latest[key[c]] = NoEntry
    BY <1>1, LatestOfEntry
  <2> QED
    BY <2>1, <2>2, <2>3 DEF R!NotOlder
<1>6. Latest' = [Latest EXCEPT ![key[c]] = [answer |-> a, renewed |-> now]]
  <2> DEFINE e == [answer |-> a, storedAt |-> now, expiresAt |-> now + ttl[c]]
  <2>1. cache' = [cache EXCEPT ![key[c]] = e]
    BY DEF Store
  <2>2. e # NoEntry
    <3>1. now + ttl[c] \in Int
      BY <1>1, TTLBound DEF Inv, TypeOK
    <3>2. a \in [err : Usable, value : Value \cup {NoValue}, asOf : Nat]
      BY DEF Inv, TypeOK, BranchesTaken, Answer, Store
    <3> QED
      BY <1>1, <3>1, <3>2, NoEntryAssumption DEF Usable
  <2>3. cache'[key[c]] = e /\ \A k \in Key \ {key[c]} : cache'[k] = cache[k]
    BY <1>1, <2>1 DEF Inv, TypeOK
  <2> HIDE DEF e
  <2>4. e.answer = a /\ e.storedAt = now
    BY DEF e
  <2> QED
    BY <1>1, <2>2, <2>3, <2>4 DEF Latest
<1>7. UNCHANGED <<now, Status, key, ttl, began, Answered>>
  BY DEF Store, Status, Answered, Inv, TypeOK
<1> QED
  BY <1>2, <1>3, <1>4, <1>5, <1>6, <1>7 DEF R!Renew

(* The end of a flight is Answer, for the leader and those that joined it. *)
LEMMA PublishAnswers ==
  ASSUME Inv, AnswersAreCurrent, NEW c \in Caller, Publish(c)
  PROVE  R!Answer(key[c])
<1> DEFINE a == result[c]
           done == Waiters(key[c]) \cup {c}
<1>1. key[c] \in Key /\ now \in Nat
  BY DEF Inv, TypeOK
<1>2. a \in R!Answers(R!Shareable \cup R!Unshareable)
  <2>1. a \in Answer
    BY DEF Inv, TypeOK
  <2>2. a.asOf \in 0 .. now
    BY <1>1, <2>1 DEF Inv, NothingFromTheFuture, Answer
  <2> QED
    BY <2>1, <2>2
    DEF Answer, R!Answers, R!Shareable, R!Unshareable, Usable, Broken
<1>3. done \in SUBSET R!Asking(key[c])
  BY DEF R!Asking, Status, Publish, Waiters
<1>4. began[c] <= a.asOf
  BY DEF AnswersAreCurrent, Publish
<1>5. R!NotOlder(a.asOf, key[c])
  <2>1. cache[key[c]] # NoEntry => cache[key[c]].answer.asOf <= a.asOf
    BY DEF AnswersAreCurrent, Publish
  <2>2. cache[key[c]] # NoEntry => Latest[key[c]].answer = cache[key[c]].answer
    <3>1. cache[key[c]] # NoEntry =>
            Latest[key[c]] = [answer |-> cache[key[c]].answer,
                              renewed |-> cache[key[c]].storedAt]
      BY <1>1, LatestOfEntry
    <3> QED
      BY <3>1
  <2>3. cache[key[c]] = NoEntry => Latest[key[c]] = NoEntry
    BY <1>1, LatestOfEntry
  <2> QED
    BY <2>1, <2>2, <2>3 DEF R!NotOlder
<1>6. /\ pc' = [d \in Caller |-> IF d \in done THEN "return" ELSE pc[d]]
      /\ result' = [d \in Caller |-> IF d \in done THEN a ELSE result[d]]
  BY DEF Publish
<1>7. UNCHANGED <<now, Latest, key, ttl, began>>
  BY DEF Publish, Latest
<1> HIDE DEF done
<1>8. Status' = [d \in Caller |-> IF d \in done THEN "answered" ELSE Status[d]]
  BY <1>6 DEF Status
<1>9. Answered' = [d \in Caller |-> IF d \in done THEN a ELSE Answered[d]]
  BY <1>6 DEF Answered
<1>10. c \in done
  BY DEF done
<1> QED
  BY <1>2, <1>3, <1>4, <1>5, <1>7, <1>8, <1>9, <1>10 DEF R!Answer

(* Every step is a step of Readings, or invisible to the callers.          *)
LEMMA RefinesStep ==
  ASSUME Inv, AnswersAreCurrent, [Next]_vars
  PROVE  [R!Next]_(R!vars)
<1>1. ASSUME NEW c \in Caller, NEW k \in Key, NEW t \in TTL, Get(c, k, t)
      PROVE  R!Next
  <2>1. R!Ask(c, k, t)
    BY <1>1 DEF Inv, TypeOK, Get, R!Ask, Latest, Status, Answered
  <2> QED
    BY <2>1 DEF R!Next
<1>2. ASSUME NEW c \in Caller, LoadHit(c)
      PROVE  R!Next
  BY <1>2, HitShares DEF R!Next
<1>3. ASSUME NEW c \in Caller, LoadMiss(c)
      PROVE  UNCHANGED R!vars
  BY <1>3, Invisible DEF Inv, TypeOK, LoadMiss
<1>4. ASSUME NEW c \in Caller, Lead(c)
      PROVE  UNCHANGED R!vars
  BY <1>4, Invisible DEF Inv, TypeOK, Lead
<1>5. ASSUME NEW c \in Caller, Join(c)
      PROVE  UNCHANGED R!vars
  BY <1>5, Invisible DEF Inv, TypeOK, Join
<1>6. ASSUME NEW c \in Caller, NEW e \in Usable \cup Broken, NEW v \in Value, Respond(c, e, v)
      PROVE  UNCHANGED R!vars
  BY <1>6, Invisible DEF Inv, TypeOK, Respond
<1>7. ASSUME NEW c \in Caller, Store(c)
      PROVE  R!Next
  BY <1>7, StoreRenews DEF R!Next, Inv, TypeOK
<1>8. ASSUME NEW c \in Caller, Publish(c)
      PROVE  R!Next
  BY <1>8, PublishAnswers DEF R!Next, Inv, TypeOK
<1>9. ASSUME NEW c \in Caller, Return(c)
      PROVE  R!Next
  <2>1. R!Done(c)
    BY <1>9 DEF Inv, TypeOK, Return, R!Done, R!NoAnswer, Pending, Latest, Status, Answered
  <2> QED
    BY <2>1 DEF R!Next
<1>10. ASSUME Tick
       PROVE  R!Next
  BY <1>10 DEF Tick, R!Next, R!Tick, Latest, Status, Answered
<1>11. CASE UNCHANGED vars
  BY <1>11 DEF vars, R!vars, Latest, Status, Answered
<1> QED
  BY <1>1, <1>2, <1>3, <1>4, <1>5, <1>6, <1>7, <1>8, <1>9, <1>10, <1>11 DEF Next, Step

-----------------------------------------------------------------------------

(* Whatever the interleaving, every run of the cache, its lock and its     *)
(* flights is, to the callers of Get, a run of Readings.                   *)
THEOREM CacheKeepsItsPromise == Spec => ImplementsReadings
<1>1. Init => AnswersAreCurrent
  BY DEF Init, AnswersAreCurrent
<1>2. Inv /\ AnswersAreCurrent /\ [Next]_vars => AnswersAreCurrent'
  BY CurrentStep
<1>3. Spec => []AnswersAreCurrent
  BY <1>1, <1>2, Invariance, PTL DEF Spec
<1>4. Inv /\ AnswersAreCurrent /\ [Next]_vars => [R!Next]_(R!vars)
  BY RefinesStep
<1> QED
  BY <1>3, <1>4, Invariance, RefinesInit, PTL DEF Spec, ImplementsReadings, R!Spec

=============================================================================
