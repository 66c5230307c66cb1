----------------------------- MODULE ScalerProofs -----------------------------
(***************************************************************************)
(* Proofs about Scaler for every set of handlers, objects, metadata and    *)
(* replies: its use of the cache is a behaviour of CachingSource, so what  *)
(* is proved there of any callers holds of the query goroutines; and the   *)
(* errgroup's protocol, over that cache, makes no decision on half the     *)
(* readings and leaves no goroutine behind.                                *)
(***************************************************************************)
EXTENDS Scaler, TLAPS

CSP == INSTANCE CachingSourceProofs WITH Caller <- Query

(* A handler's settings are those of some object, as Parse makes them.     *)
SettingsAreParsed == conf \in [Request -> AllSettings]

(* A query goroutine is inside Get exactly while CachingSource has a call  *)
(* of its under way, and it has no work when its handler has none.         *)
GoroutinesAreCallers ==
  /\ \A q \in Query : goroutine[q] = "get" <=> pc[q] # "idle"
  /\ \A r \in Request : phase[r] # "wait" => Done(r)

(* What g.Wait knows: the group has no error as long as every goroutine of *)
(* it that is done has a reading the object can use, and a handler that    *)
(* goes on to decide found no error.                                       *)
GroupKnowsFailures ==
  \A r \in Request :
    /\ phase[r] \in Deciding => groupErr[r] = "nil"
    /\ phase[r] # "idle" /\ groupErr[r] = "nil" =>
         \A q \in Of(r) : goroutine[q] = "done" => ~Hard(r, reading[q].err)

(* An outcome is one that Prometheus gives for the address and query that  *)
(* key stands for, or it is an error and says nothing of any query.        *)
Belongs(k, got) ==
  got.err \in CS!Usable =>
    \E reply \in Reply[k] :
      P!Instant(reply).err = got.err /\ (got.err = "nil" => P!Instant(reply).value = got.value)

(* A goroutine is in Get with the key of its own query; what is cached and *)
(* what a call has in hand belongs to its key; and so does what a          *)
(* goroutine that is done has read.                                        *)
CallsAskTheirOwn ==
  \A q \in Query : goroutine[q] = "get" => key[q] = KeyOf(conf[q[1]], q[2])

EntriesBelong == \A k \in Key : cache[k] # NoEntry => Belongs(k, cache[k].answer)

ResultsBelong ==
  \A q \in Query : pc[q] \in {"store", "publish", "return"} => Belongs(key[q], result[q])

ReadingsBelong ==
  \A r \in Request : \A q \in Of(r) :
    phase[r] # "idle" /\ goroutine[q] = "done" => Belongs(KeyOf(conf[r], q[2]), reading[q])

KInv == CallsAskTheirOwn /\ EntriesBelong /\ ResultsBelong /\ ReadingsBelong

SInv ==
  /\ TypeOK
  /\ SettingsAreParsed
  /\ GoroutinesAreCallers
  /\ GroupKnowsFailures

-----------------------------------------------------------------------------

(* Every object's settings name keys of the cache and a ttl it knows.      *)
LEMMA SettingsInType ==
  ASSUME SettingsAreParsed, NEW q \in Query
  PROVE  KeyOf(conf[q[1]], q[2]) \in Key /\ conf[q[1]].CacheTTL \in TTL
<1>1. q[1] \in Request /\ q[2] \in Dimension
  BY DEF Query
<1>2. PICK o \in Object : conf[q[1]] = Settings(o)
  BY <1>1 DEF SettingsAreParsed, AllSettings
<1> QED
  BY <1>1, <1>2, MetadataAssumption

(* Whatever comes back, Instant makes a value or one of its errors of it.  *)
LEMMA OutcomesInType ==
  ASSUME NEW c, NEW d, NEW got \in Outcome(c, d)
  PROVE  got.err \in CS!Usable \cup CS!Broken
  BY DEF Outcome, P!Instant, CS!Usable, CS!Broken

(* What a request under the leader's context ends with is one of the       *)
(* answers CachingSource allows.                                           *)
LEMMA InstantResponds ==
  ASSUME SettingsAreParsed, NEW q \in Query, Instant(q)
  PROVE  \E e \in CS!Usable \cup CS!Broken, v \in Value : CS!Respond(q, e, v)
<1>1. PICK v0 : v0 \in Value
  BY ReplyAssumption
<1>2. ASSUME NEW e \in CS!Usable \cup CS!Broken, e # "nil", CS!Respond(q, e, NoValue)
      PROVE  CS!Respond(q, e, v0)
  BY <1>2 DEF CS!Respond
<1>3. ASSUME NEW got \in Outcome(conf[q[1]], q[2]),
             CS!Respond(q, got.err, IF got.err = "nil" THEN got.value ELSE NoValue)
      PROVE  \E e \in CS!Usable \cup CS!Broken, v \in Value : CS!Respond(q, e, v)
  <2>1. CASE got.err = "nil"
    <3>1. conf[q[1]] \in AllSettings /\ q[2] \in Dimension
      BY DEF SettingsAreParsed, Query
    <3>2. got.value \in Value
      BY <2>1, <3>1, ReplyAssumption
    <3> QED
      BY <1>3, <2>1, <3>2, OutcomesInType
  <2>2. CASE got.err # "nil"
    BY <1>1, <1>2, <1>3, <2>2, OutcomesInType
  <2> QED
    BY <2>1, <2>2
<1>4. CASE CS!Respond(q, "canceled", NoValue)
  BY <1>1, <1>2, <1>4 DEF CS!Broken
<1> QED
  BY <1>3, <1>4 DEF Instant

(* A step of a handler is none of the cache's.                             *)
LEMMA RequestStepInvisible ==
  ASSUME UNCHANGED cacheVars
  PROVE  UNCHANGED CS!vars
  BY DEF cacheVars, CS!vars

(* Every step is a step of CachingSource, or none of its variables change. *)
LEMMA CacheStep ==
  ASSUME SettingsAreParsed, [Next]_vars
  PROVE  [CS!Next]_(CS!vars)
<1>1. ASSUME NEW r \in Request, NEW o \in Object, Begin(r, o)
      PROVE  UNCHANGED CS!vars
  BY <1>1, RequestStepInvisible DEF Begin
<1>2. ASSUME NEW r \in Request, ClientGone(r)
      PROVE  UNCHANGED CS!vars
  BY <1>2, RequestStepInvisible DEF ClientGone
<1>3. ASSUME NEW r \in Request, HandlerStep(r)
      PROVE  UNCHANGED CS!vars
  BY <1>3, RequestStepInvisible
  DEF HandlerStep, WaitFails, WaitSucceeds, SetSaturation, SetQueueAge, SetKVAgeAndReply
<1>4. ASSUME NEW q \in Query, CallGet(q)
      PROVE  CS!Next
  <2>1. CS!Get(q, KeyOf(conf[q[1]], q[2]), conf[q[1]].CacheTTL)
    BY <1>4 DEF CallGet
  <2> QED
    BY <2>1, SettingsInType DEF CS!Next
<1>5. ASSUME NEW q \in Query, Instant(q)
      PROVE  CS!Next
  BY <1>5, InstantResponds DEF CS!Next, CS!Step
<1>6. ASSUME NEW q \in Query, InsideGet(q)
      PROVE  CS!Next
  BY <1>6 DEF InsideGet, CS!Next, CS!Step
<1>7. ASSUME NEW q \in Query, Finish(q)
      PROVE  CS!Next
  BY <1>7 DEF Finish, CS!Next, CS!Step
<1>8. CASE Tick
  BY <1>8 DEF Tick, CS!Next
<1>9. CASE UNCHANGED vars
  BY <1>9, RequestStepInvisible DEF vars
<1> QED
  BY <1>1, <1>2, <1>3, <1>4, <1>5, <1>6, <1>7, <1>8, <1>9 DEF Next, QueryStep

(* Every step leaves each handler with the settings of some object.        *)
LEMMA SettingsStep ==
  ASSUME SettingsAreParsed, [Next]_vars
  PROVE  SettingsAreParsed'
<1>1. ASSUME NEW r \in Request, NEW o \in Object, Begin(r, o)
      PROVE  SettingsAreParsed'
  BY <1>1 DEF Begin, SettingsAreParsed, AllSettings
<1>2. CASE conf' = conf
  BY <1>2 DEF SettingsAreParsed
<1> QED
  BY <1>1, <1>2
  DEF Next, vars, requestVars, ClientGone, HandlerStep, WaitFails, WaitSucceeds,
      SetSaturation, SetQueueAge, SetKVAgeAndReply, QueryStep, CallGet, Instant, InsideGet,
      Finish, Tick

(* The scaler uses the cache as it is specified on its own, so that what   *)
(* is proved there of any callers holds of the query goroutines.           *)
LEMMA ScalerUsesCachingSource == Spec => CS!Spec
<1>1. Init => CS!Init /\ SettingsAreParsed
  BY DEF Init, SettingsAreParsed, AllSettings
<1>2. SettingsAreParsed /\ [Next]_vars => SettingsAreParsed'
  BY SettingsStep
<1>3. SettingsAreParsed /\ [Next]_vars => [CS!Next]_(CS!vars)
  BY CacheStep
<1> QED
  BY <1>1, <1>2, <1>3, PTL DEF Spec, CS!Spec

-----------------------------------------------------------------------------

(* The assumptions CachingSource makes, of the callers it has here.        *)
LEMMA CallersAssumed ==
  /\ CSP!TTLAssumption /\ CSP!HorizonAssumption /\ CSP!NoCallerAssumption
  /\ CSP!NoEntryAssumption /\ CSP!NoReadingAssumption
  BY CachingSourceAssumption
  DEF CS!TTLAssumption, CS!HorizonAssumption, CS!NoCallerAssumption,
      CS!NoEntryAssumption, CS!NoReadingAssumption,
      CSP!TTLAssumption, CSP!HorizonAssumption, CSP!NoCallerAssumption,
      CSP!NoEntryAssumption, CSP!NoReadingAssumption

(* The specification the proofs are about is the one the scaler uses.      *)
LEMMA SameSpec == CS!Spec => CSP!Spec
<1>1. CS!Init => CSP!Init
  BY DEF CS!Init, CSP!Init, CS!Pending, CSP!Pending
<1>2. [CS!Next]_(CS!vars) => [CSP!Next]_(CSP!vars)
  BY DEF CS!vars, CSP!vars, CS!Next, CSP!Next, CS!Step, CSP!Step,
         CS!Get, CSP!Get, CS!LoadHit, CSP!LoadHit, CS!LoadMiss, CSP!LoadMiss,
         CS!Lead, CSP!Lead, CS!Join, CSP!Join, CS!Respond, CSP!Respond,
         CS!Store, CSP!Store, CS!Publish, CSP!Publish, CS!Return, CSP!Return,
         CS!Tick, CSP!Tick, CS!Fresh, CSP!Fresh, CS!Waiters, CSP!Waiters,
         CS!Usable, CSP!Usable, CS!Broken, CSP!Broken, CS!Pending, CSP!Pending
<1> QED
  BY <1>1, <1>2, PTL DEF CS!Spec, CSP!Spec

(* CachingSource's invariant holds of the scaler's goroutines.             *)
LEMMA CacheInvariance == Spec => []CSP!Inv
  BY ScalerUsesCachingSource, SameSpec, CSP!Invariance, CallersAssumed, PTL

-----------------------------------------------------------------------------

(* The queries of one request are no other request's.                      *)
LEMMA OwnQueries ==
  /\ \A q \in Query : q[1] \in Request /\ q[2] \in Dimension /\ q \in Of(q[1])
  /\ \A r \in Request : Of(r) \subseteq Query /\ \A q \in Of(r) : q[1] = r
  BY DEF Query, Of

(* The initial states satisfy the invariant.                               *)
LEMMA ScalerInit == Init => SInv
  BY OwnQueries
  DEF Init, SInv, TypeOK, SettingsAreParsed, GoroutinesAreCallers, GroupKnowsFailures,
      AllSettings, Done, Deciding, Idle, Reading, CS!Init, CS!Usable, CS!Broken

(* Every step keeps every variable in its type.  What Get returned is in   *)
(* its type, and not from the future, by CachingSource's invariant.        *)
LEMMA ScalerTypeStep ==
  ASSUME CSP!Inv, TypeOK, SettingsAreParsed', [Next]_vars
  PROVE  TypeOK'
<1> USE DEF TypeOK, Deciding, SettingsAreParsed
<1>1. ASSUME NEW r \in Request, NEW o \in Object, Begin(r, o)
      PROVE  TypeOK'
  BY <1>1 DEF Begin
<1>2. ASSUME NEW r \in Request, ClientGone(r)
      PROVE  TypeOK'
  BY <1>2 DEF ClientGone
<1>3. ASSUME NEW r \in Request, HandlerStep(r)
      PROVE  TypeOK'
  <2>1. Clear(r) => /\ phase' \in [Request -> {"idle", "wait"} \cup Deciding]
                    /\ context' \in [Request -> {"live", "client", "failed"}]
                    /\ groupErr' \in [Request -> {"nil", "missing"} \cup CS!Broken]
                    /\ reading' \in [Query -> Reading]
    BY DEF Clear, Idle, Reading, CS!Usable
  <2>2. CASE WaitFails(r)
    BY <2>1, <2>2 DEF WaitFails
  <2>3. CASE WaitSucceeds(r)
    BY <2>3 DEF WaitSucceeds
  <2>4. CASE SetSaturation(r)
    BY <2>4 DEF SetSaturation
  <2>5. CASE SetQueueAge(r)
    BY <2>5 DEF SetQueueAge
  <2>6. CASE SetKVAgeAndReply(r)
    BY <2>1, <2>6 DEF SetKVAgeAndReply
  <2> QED
    BY <1>3, <2>2, <2>3, <2>4, <2>5, <2>6 DEF HandlerStep
<1>4. ASSUME NEW q \in Query, CallGet(q)
      PROVE  TypeOK'
  BY <1>4 DEF CallGet
<1>5. ASSUME NEW q \in Query, Instant(q) \/ InsideGet(q)
      PROVE  TypeOK'
  BY <1>5 DEF Instant, InsideGet, requestVars
<1>6. ASSUME NEW q \in Query, Finish(q)
      PROVE  TypeOK'
  <2> DEFINE got == result[q]
             age == IF got.err = "nil" THEN now - got.asOf ELSE 0
  <2>1. got.err \in CS!Usable \cup CS!Broken /\ got.asOf \in Nat
      /\ got.value \in Value \cup {NoValue}
    BY DEF CSP!Inv, CSP!TypeOK, CSP!Answer, CSP!Usable, CSP!Broken, CS!Usable, CS!Broken
  <2>2. now \in Nat /\ got.asOf <= now
    BY DEF CSP!Inv, CSP!TypeOK, CSP!NothingFromTheFuture
  <2>3. age \in Nat
    BY <2>1, <2>2
  <2>4. groupErr' \in [Request -> {"nil", "missing"} \cup CS!Broken]
    BY <1>6, OwnQueries DEF Finish, Hard
  <2>5. context' \in [Request -> {"live", "client", "failed"}]
    BY <1>6, OwnQueries DEF Finish
  <2>6. goroutine' \in [Query -> {"started", "get", "done"}]
    BY <1>6 DEF Finish
  <2>7. reading' \in [Query -> Reading]
    <3>1. [err |-> got.err, value |-> IF got.err = "nil" THEN got.value ELSE Zero,
           age |-> age] \in Reading
      BY <2>1, <2>3 DEF Reading
    <3> QED
      BY <1>6, <3>1 DEF Finish
  <2> QED
    BY <1>6, <2>4, <2>5, <2>6, <2>7 DEF Finish
<1>7. CASE Tick
  BY <1>7 DEF Tick, requestVars
<1>8. CASE UNCHANGED vars
  BY <1>8 DEF vars, requestVars
<1> QED
  BY <1>1, <1>2, <1>3, <1>4, <1>5, <1>6, <1>7, <1>8 DEF Next, QueryStep

(* Every step keeps goroutines and calls in agreement.                     *)
LEMMA CallersStep ==
  ASSUME CSP!Inv, TypeOK, GoroutinesAreCallers, [Next]_vars
  PROVE  GoroutinesAreCallers'
<1> USE DEF GoroutinesAreCallers, Done
<1>0. pc \in [Query -> CSP!PC]
  BY DEF CSP!Inv, CSP!TypeOK
<1>1. ASSUME NEW r \in Request, NEW o \in Object, Begin(r, o)
      PROVE  GoroutinesAreCallers'
  <2>1. /\ phase'[r] = "wait" /\ \A s \in Request \ {r} : phase'[s] = phase[s]
        /\ \A q \in Query : goroutine'[q] = IF q \in Of(r) THEN "started" ELSE goroutine[q]
        /\ pc' = pc
    BY <1>1 DEF Begin, cacheVars, TypeOK
  <2>2. \A q \in Of(r) : goroutine[q] = "done"
    BY <1>1 DEF Begin
  <2>3. \A s \in Request \ {r} : \A q \in Of(s) : q \notin Of(r)
    BY OwnQueries
  <2> QED
    BY <2>1, <2>2, <2>3, OwnQueries
<1>2. ASSUME NEW r \in Request, ClientGone(r)
      PROVE  GoroutinesAreCallers'
  BY <1>2 DEF ClientGone, cacheVars
<1>3. ASSUME NEW r \in Request, HandlerStep(r)
      PROVE  GoroutinesAreCallers'
  <2>1. phase[r] = "wait" => Done(r)
    BY <1>3
    DEF HandlerStep, WaitFails, WaitSucceeds, SetSaturation, SetQueueAge, SetKVAgeAndReply
  <2>2. /\ \A s \in Request \ {r} : phase'[s] = phase[s]
        /\ goroutine' = goroutine /\ pc' = pc
    BY <1>3
    DEF HandlerStep, WaitFails, WaitSucceeds, SetSaturation, SetQueueAge, SetKVAgeAndReply,
        Clear, TypeOK, cacheVars
  <2> QED
    BY <2>1, <2>2
<1>4. ASSUME NEW q \in Query, CallGet(q)
      PROVE  GoroutinesAreCallers'
  <2>1. phase[q[1]] = "wait"
    BY <1>4, OwnQueries DEF CallGet
  <2>2. \A p \in Query : /\ goroutine'[p] = IF p = q THEN "get" ELSE goroutine[p]
                         /\ p = q => pc'[p] # "idle"
                         /\ p # q => pc'[p] = pc[p]
    BY <1>0, <1>4 DEF CallGet, CS!Get, TypeOK
  <2>3. phase' = phase
    BY <1>4 DEF CallGet
  <2>4. ASSUME NEW r \in Request, phase[r] # "wait"
        PROVE  \A p \in Of(r) : goroutine'[p] = "done"
    <3>1. \A p \in Of(r) : p \in Query /\ p # q
      BY <2>1, <2>4, OwnQueries
    <3>2. \A p \in Of(r) : goroutine[p] = "done"
      BY <2>4
    <3> QED
      BY <2>2, <3>1, <3>2
  <2>5. \A p \in Query : goroutine'[p] = "get" <=> pc'[p] # "idle"
    BY <2>2
  <2> QED
    BY <2>3, <2>4, <2>5
<1>5. ASSUME NEW q \in Query, Instant(q) \/ InsideGet(q)
      PROVE  GoroutinesAreCallers'
  <2>1. \A p \in Query : pc'[p] = "idle" <=> pc[p] = "idle"
    BY <1>0, <1>5
    DEF Instant, InsideGet, CS!Respond, CS!LoadHit, CS!LoadMiss, CS!Lead, CS!Join,
        CS!Store, CS!Publish, CS!Waiters
  <2> QED
    BY <1>5, <2>1 DEF Instant, InsideGet, requestVars
<1>6. ASSUME NEW q \in Query, Finish(q)
      PROVE  GoroutinesAreCallers'
  <2>1. \A p \in Query : /\ goroutine'[p] = IF p = q THEN "done" ELSE goroutine[p]
                         /\ pc'[p] = IF p = q THEN "idle" ELSE pc[p]
    BY <1>0, <1>6 DEF Finish, CS!Return, TypeOK
  <2>2. phase' = phase
    BY <1>6 DEF Finish
  <2> QED
    BY <2>1, <2>2, OwnQueries
<1>7. CASE Tick
  BY <1>7 DEF Tick, CS!Tick, requestVars
<1>8. CASE UNCHANGED vars
  BY <1>8 DEF vars, requestVars, cacheVars
<1> QED
  BY <1>1, <1>2, <1>3, <1>4, <1>5, <1>6, <1>7, <1>8 DEF Next, QueryStep

(* Every step keeps what g.Wait knows true.                                *)
LEMMA GroupStep ==
  ASSUME TypeOK, SettingsAreParsed, GoroutinesAreCallers, GroupKnowsFailures, [Next]_vars
  PROVE  GroupKnowsFailures'
<1> SUFFICES ASSUME NEW s \in Request
             PROVE  /\ phase'[s] \in Deciding => groupErr'[s] = "nil"
                    /\ phase'[s] # "idle" /\ groupErr'[s] = "nil" =>
                         \A q \in Of(s) : goroutine'[q] = "done" => ~Hard(s, reading[q].err)'
  BY DEF GroupKnowsFailures, Hard
<1> DEFINE Kept == /\ phase'[s] \in Deciding => groupErr'[s] = "nil"
                   /\ phase'[s] # "idle" /\ groupErr'[s] = "nil" =>
                        \A q \in Of(s) : goroutine'[q] = "done" => ~Hard(s, reading[q].err)'
<1> USE DEF GroupKnowsFailures, Hard
<1>0. ASSUME phase'[s] = phase[s], groupErr'[s] = groupErr[s], conf'[s] = conf[s],
             \A q \in Of(s) : goroutine'[q] = goroutine[q] /\ reading'[q] = reading[q]
      PROVE  Kept
  BY <1>0
<1>1. ASSUME NEW r \in Request, NEW o \in Object, Begin(r, o)
      PROVE  Kept
  <2>1. CASE s = r
    BY <1>1, <2>1, OwnQueries DEF Begin, TypeOK, Deciding
  <2>2. CASE s # r
    <3>1. /\ phase'[s] = phase[s] /\ groupErr'[s] = groupErr[s] /\ conf'[s] = conf[s]
          /\ reading' = reading
      BY <1>1, <2>2 DEF Begin, TypeOK, SettingsAreParsed
    <3>2. \A q \in Of(s) : goroutine'[q] = goroutine[q]
      BY <1>1, <2>2, OwnQueries DEF Begin
    <3> QED
      BY <1>0, <3>1, <3>2
  <2> QED
    BY <2>1, <2>2
<1>2. ASSUME NEW r \in Request, ClientGone(r)
      PROVE  Kept
  BY <1>0, <1>2 DEF ClientGone
<1>3. ASSUME NEW r \in Request, HandlerStep(r)
      PROVE  Kept
  <2>1. CASE s # r
    <3>1. /\ phase'[s] = phase[s] /\ groupErr'[s] = groupErr[s] /\ conf'[s] = conf[s]
          /\ goroutine' = goroutine
      BY <1>3, <2>1
      DEF HandlerStep, WaitFails, WaitSucceeds, SetSaturation, SetQueueAge,
          SetKVAgeAndReply, Clear, TypeOK
    <3>2. \A q \in Of(s) : reading'[q] = reading[q]
      BY <1>3, <2>1, OwnQueries
      DEF HandlerStep, WaitFails, WaitSucceeds, SetSaturation, SetQueueAge,
          SetKVAgeAndReply, Clear
    <3> QED
      BY <1>0, <3>1, <3>2
  <2>2. CASE s = r /\ (WaitFails(r) \/ SetKVAgeAndReply(r))
    BY <2>2 DEF WaitFails, SetKVAgeAndReply, Clear, TypeOK, Deciding
  <2>3. CASE s = r /\ (WaitSucceeds(r) \/ SetSaturation(r) \/ SetQueueAge(r))
    BY <2>3 DEF WaitSucceeds, SetSaturation, SetQueueAge, TypeOK, Deciding
  <2> QED
    BY <1>3, <2>1, <2>2, <2>3 DEF HandlerStep
<1>4. ASSUME NEW p \in Query, CallGet(p)
      PROVE  Kept
  BY <1>4, OwnQueries DEF CallGet, TypeOK
<1>5. ASSUME NEW p \in Query, Instant(p) \/ InsideGet(p)
      PROVE  Kept
  BY <1>0, <1>5 DEF Instant, InsideGet, requestVars
<1>6. ASSUME NEW p \in Query, Finish(p)
      PROVE  Kept
  <2>1. CASE s # p[1]
    <3>1. groupErr'[s] = groupErr[s]
      BY <1>6, <2>1, OwnQueries DEF Finish, TypeOK
    <3>2. \A q \in Of(s) : goroutine'[q] = goroutine[q] /\ reading'[q] = reading[q]
      BY <1>6, <2>1, OwnQueries DEF Finish, TypeOK
    <3> QED
      BY <1>0, <1>6, <3>1, <3>2 DEF Finish
  <2>2. CASE s = p[1]
    <3>1. phase[s] = "wait" /\ phase' = phase /\ conf' = conf
      BY <1>6, <2>2, OwnQueries DEF Finish, CS!Return, GoroutinesAreCallers, Done
    <3>2. reading'[p].err = result[p].err
      BY <1>6 DEF Finish, TypeOK
    <3>3. groupErr'[s] = "nil" => groupErr[s] = "nil" /\ ~Hard(s, result[p].err)
      BY <1>6, <2>2 DEF Finish, TypeOK, CS!Broken
    <3>4. \A q \in Of(s) \ {p} : goroutine'[q] = goroutine[q] /\ reading'[q] = reading[q]
      BY <1>6, OwnQueries DEF Finish, TypeOK
    <3> QED
      BY <3>1, <3>2, <3>3, <3>4 DEF Deciding
  <2> QED
    BY <2>1, <2>2
<1>7. CASE Tick
  BY <1>0, <1>7 DEF Tick, requestVars
<1>8. CASE UNCHANGED vars
  BY <1>0, <1>8 DEF vars, requestVars
<1> QED
  BY <1>1, <1>2, <1>3, <1>4, <1>5, <1>6, <1>7, <1>8 DEF Next, QueryStep

(* A query goroutine that is inside Get goes on asking for its own key.    *)
LEMMA AskStep ==
  ASSUME CSP!Inv, TypeOK, GoroutinesAreCallers, CallsAskTheirOwn, [Next]_vars
  PROVE  CallsAskTheirOwn'
<1> SUFFICES ASSUME NEW q \in Query, goroutine'[q] = "get"
             PROVE  key'[q] = KeyOf(conf'[q[1]], q[2])
  BY DEF CallsAskTheirOwn, KeyOf, QueryOf
<1> USE DEF CallsAskTheirOwn
<1>0. /\ key \in [Query -> Key] /\ goroutine \in [Query -> {"started", "get", "done"}]
      /\ conf \in [Request -> AllSettings] /\ q[1] \in Request
  BY OwnQueries DEF CSP!Inv, CSP!TypeOK, TypeOK
<1>1. ASSUME NEW r \in Request, NEW o \in Object, Begin(r, o)
      PROVE  key'[q] = KeyOf(conf'[q[1]], q[2])
  <2>1. q \notin Of(r) /\ goroutine[q] = "get"
    BY <1>1 DEF Begin
  <2>2. q[1] # r
    BY <2>1, OwnQueries
  <2> QED
    BY <1>0, <1>1, <2>1, <2>2 DEF Begin, cacheVars
<1>2. ASSUME NEW p \in Query, CallGet(p)
      PROVE  key'[q] = KeyOf(conf'[q[1]], q[2])
  <2>1. conf' = conf /\ key' = [key EXCEPT ![p] = KeyOf(conf[p[1]], p[2])]
    BY <1>2 DEF CallGet, CS!Get
  <2>2. p # q => goroutine[q] = "get"
    BY <1>0, <1>2 DEF CallGet
  <2> QED
    BY <1>0, <2>1, <2>2
<1>3. ASSUME NEW p \in Query, Finish(p)
      PROVE  key'[q] = KeyOf(conf'[q[1]], q[2])
  BY <1>0, <1>3 DEF Finish, CS!Return
<1>4. CASE key' = key /\ conf' = conf /\ goroutine' = goroutine
  BY <1>4
<1> QED
  BY <1>1, <1>2, <1>3, <1>4
  DEF Next, vars, cacheVars, requestVars, ClientGone, HandlerStep, WaitFails, WaitSucceeds,
      SetSaturation, SetQueueAge, SetKVAgeAndReply, QueryStep, Instant, InsideGet, Tick,
      CS!Respond, CS!LoadHit, CS!LoadMiss, CS!Lead, CS!Join, CS!Store, CS!Publish, CS!Tick

(* What a leader brings back from Prometheus belongs to its key.           *)
LEMMA InstantBelongs ==
  ASSUME CSP!Inv, GoroutinesAreCallers, CallsAskTheirOwn, NEW q \in Query, Instant(q)
  PROVE  /\ Belongs(key[q], result'[q])
         /\ \A p \in Query \ {q} : result'[p] = result[p] /\ pc'[p] = pc[p]
         /\ cache' = cache /\ key' = key
<1>1. pc[q] = "upstream"
  BY DEF Instant, CS!Respond
<1>2. key[q] = KeyOf(conf[q[1]], q[2])
  BY <1>1 DEF GoroutinesAreCallers, CallsAskTheirOwn
<1>3. ASSUME NEW e, NEW v, CS!Respond(q, e, v)
      PROVE  result'[q].err = e /\ (e = "nil" => result'[q].value = v)
  BY <1>3 DEF CS!Respond, CSP!Inv, CSP!TypeOK
<1>4. ASSUME NEW got \in Outcome(conf[q[1]], q[2]),
             CS!Respond(q, got.err, IF got.err = "nil" THEN got.value ELSE NoValue)
      PROVE  Belongs(key[q], result'[q])
  <2>1. PICK reply \in Reply[key[q]] : P!Instant(reply) = got
    BY <1>2 DEF Outcome, KeyOf
  <2>2. result'[q].err = got.err /\ (got.err = "nil" => result'[q].value = got.value)
    BY <1>3, <1>4
  <2> QED
    BY <2>1, <2>2 DEF Belongs
<1>5. CASE CS!Respond(q, "canceled", NoValue)
  <2>1. result'[q].err = "canceled"
    BY <1>3, <1>5
  <2> QED
    BY <1>5, <2>1 DEF Belongs, CS!Usable, CS!Respond, CSP!Inv, CSP!TypeOK
<1>6. /\ \A p \in Query \ {q} : result'[p] = result[p] /\ pc'[p] = pc[p]
      /\ cache' = cache /\ key' = key
  BY DEF Instant, CS!Respond, CSP!Inv, CSP!TypeOK
<1> QED
  BY <1>4, <1>5, <1>6 DEF Instant

(* Every step keeps under each key what belongs to it: a store, a hit and  *)
(* a flight's publication hand a result on under the key it was asked for. *)
LEMMA KeysStep ==
  ASSUME CSP!Inv, GoroutinesAreCallers, CallsAskTheirOwn, EntriesBelong, ResultsBelong,
         [Next]_vars
  PROVE  EntriesBelong' /\ ResultsBelong'
<1> USE DEF EntriesBelong, ResultsBelong
<1>0. /\ pc \in [Query -> CSP!PC] /\ key \in [Query -> Key]
      /\ DOMAIN result = Query /\ result = [q \in Query |-> result[q]]
      /\ DOMAIN cache = Key /\ cache = [k \in Key |-> cache[k]]
  BY DEF CSP!Inv, CSP!TypeOK
<1>a. \A k, got : Belongs(k, got)' <=> Belongs(k, got)
  BY DEF Belongs
<1>1. ASSUME NEW q \in Query, CallGet(q)
      PROVE  EntriesBelong' /\ ResultsBelong'
  <2>1. /\ cache' = cache /\ result' = result
        /\ pc'[q] \in {"load", "do"}
        /\ \A p \in Query \ {q} : pc'[p] = pc[p] /\ key'[p] = key[p]
    BY <1>0, <1>1 DEF CallGet, CS!Get
  <2> QED
    BY <2>1, <1>a
<1>2. ASSUME NEW q \in Query, Instant(q)
      PROVE  EntriesBelong' /\ ResultsBelong'
  BY <1>2, <1>a, InstantBelongs
<1>3. ASSUME NEW q \in Query, InsideGet(q)
      PROVE  EntriesBelong' /\ ResultsBelong'
  <2>1. CASE CS!LoadHit(q)
    <3>1. cache[key[q]] # NoEntry /\ key[q] \in Key
      BY <1>0, <2>1 DEF CS!LoadHit, CS!Fresh
    <3>2. /\ result'[q] = cache[key[q]].answer /\ cache' = cache /\ key' = key
          /\ \A p \in Query \ {q} : pc'[p] = pc[p] /\ result'[p] = result[p]
      BY <1>0, <2>1 DEF CS!LoadHit
    <3> QED
      BY <3>1, <3>2, <1>a
  <2>2. CASE CS!LoadMiss(q) \/ CS!Lead(q) \/ CS!Join(q)
    <3>1. /\ result' = result /\ cache' = cache /\ key' = key
          /\ \A p \in Query : pc'[p] = pc[p] \/ pc'[p] \in {"do", "upstream", "wait"}
      BY <1>0, <2>2 DEF CS!LoadMiss, CS!Lead, CS!Join
    <3> QED
      BY <3>1, <1>a
  <2>3. CASE CS!Store(q)
    <3>1. /\ result' = result /\ key' = key /\ key[q] \in Key
          /\ cache'[key[q]].answer = result[q]
          /\ \A k \in Key \ {key[q]} : cache'[k] = cache[k]
      BY <1>0, <2>3 DEF CS!Store
    <3>2. /\ pc[q] = "store" /\ pc'[q] = "publish"
          /\ \A p \in Query \ {q} : pc'[p] = pc[p]
      BY <1>0, <2>3 DEF CS!Store
    <3> QED
      BY <3>1, <3>2, <1>a
  <2>4. CASE CS!Publish(q)
    <3> DEFINE done == CS!Waiters(key[q]) \cup {q}
    <3>1. \A p \in done : key[p] = key[q]
      BY DEF CS!Waiters
    <3>2. /\ pc[q] = "publish" /\ cache' = cache /\ key' = key
          /\ \A p \in Query : result'[p] = IF p \in done THEN result[q] ELSE result[p]
          /\ \A p \in Query \ done : pc'[p] = pc[p]
      BY <2>4 DEF CS!Publish
    <3> HIDE DEF done
    <3> QED
      BY <3>1, <3>2, <1>a
  <2> QED
    BY <1>3, <2>1, <2>2, <2>3, <2>4 DEF InsideGet
<1>4. ASSUME NEW q \in Query, Finish(q)
      PROVE  EntriesBelong' /\ ResultsBelong'
  <2>1. /\ cache' = cache /\ key' = key /\ pc'[q] = "idle"
        /\ \A p \in Query \ {q} : pc'[p] = pc[p] /\ result'[p] = result[p]
    BY <1>0, <1>4 DEF Finish, CS!Return
  <2> QED
    BY <2>1, <1>a
<1>5. CASE UNCHANGED <<cache, key, pc, result>>
  BY <1>5, <1>a
<1> QED
  BY <1>1, <1>2, <1>3, <1>4, <1>5
  DEF Next, vars, cacheVars, Begin, ClientGone, HandlerStep, WaitFails, WaitSucceeds,
      SetSaturation, SetQueueAge, SetKVAgeAndReply, QueryStep, Tick, CS!Tick

(* Every step keeps what handlers have read theirs: a goroutine that ends  *)
(* assigns the result of its call, which is of its own key.                *)
LEMMA ReadingsStep ==
  ASSUME CSP!Inv, TypeOK, GoroutinesAreCallers, CallsAskTheirOwn, ResultsBelong,
         ReadingsBelong, [Next]_vars
  PROVE  ReadingsBelong'
<1> SUFFICES ASSUME NEW s \in Request, NEW q \in Of(s),
                    phase'[s] # "idle", goroutine'[q] = "done"
             PROVE  Belongs(KeyOf(conf'[s], q[2]), reading'[q])
  BY DEF ReadingsBelong, Belongs, KeyOf, QueryOf
<1> DEFINE Kept == Belongs(KeyOf(conf'[s], q[2]), reading'[q])
<1>0. q \in Query /\ q[1] = s
  BY OwnQueries
<1>a. ASSUME phase[s] # "idle", goroutine[q] = "done", conf'[s] = conf[s],
             reading'[q] = reading[q]
      PROVE  Kept
  BY <1>a DEF ReadingsBelong
<1>1. ASSUME NEW r \in Request, NEW o \in Object, Begin(r, o)
      PROVE  Kept
  <2>1. q \notin Of(r)
    BY <1>0, <1>1 DEF Begin
  <2>2. s # r
    BY <1>0, <2>1
  <2> QED
    BY <1>a, <1>0, <1>1, <2>1, <2>2 DEF Begin, TypeOK
<1>2. ASSUME NEW r \in Request, ClientGone(r)
      PROVE  Kept
  BY <1>a, <1>2 DEF ClientGone
<1>3. ASSUME NEW r \in Request, HandlerStep(r)
      PROVE  Kept
  <2>1. phase[s] # "idle" /\ goroutine' = goroutine /\ conf' = conf
    BY <1>3
    DEF HandlerStep, WaitFails, WaitSucceeds, SetSaturation, SetQueueAge, SetKVAgeAndReply,
        Clear, TypeOK
  <2>2. reading'[q] = reading[q]
    <3>1. CASE Clear(r)
      <4>1. s # r
        BY <3>1 DEF Clear, TypeOK
      <4>2. q \notin Of(r)
        BY <1>0, <4>1, OwnQueries
      <4> QED
        BY <1>0, <3>1, <4>2 DEF Clear
    <3>2. CASE reading' = reading
      BY <3>2
    <3> QED
      BY <1>3, <3>1, <3>2
      DEF HandlerStep, WaitFails, WaitSucceeds, SetSaturation, SetQueueAge, SetKVAgeAndReply
  <2> QED
    BY <1>a, <2>1, <2>2
<1>4. ASSUME NEW p \in Query, CallGet(p)
      PROVE  Kept
  <2>1. p # q
    BY <1>0, <1>4 DEF CallGet, TypeOK
  <2> QED
    BY <1>a, <1>0, <1>4, <2>1 DEF CallGet, TypeOK
<1>5. ASSUME NEW p \in Query, Instant(p) \/ InsideGet(p)
      PROVE  Kept
  BY <1>a, <1>5 DEF Instant, InsideGet, requestVars
<1>6. ASSUME NEW p \in Query, Finish(p)
      PROVE  Kept
  <2>1. CASE p # q
    BY <1>a, <1>0, <1>6, <2>1 DEF Finish, TypeOK
  <2>2. CASE p = q
    <3>1. /\ pc[q] = "return" /\ conf' = conf
          /\ reading'[q].err = result[q].err
          /\ result[q].err = "nil" => reading'[q].value = result[q].value
      BY <1>0, <1>6, <2>2 DEF Finish, CS!Return, TypeOK
    <3>2. key[q] = KeyOf(conf[s], q[2])
      BY <1>0, <3>1 DEF GoroutinesAreCallers, CallsAskTheirOwn
    <3>3. Belongs(key[q], result[q])
      BY <1>0, <3>1 DEF ResultsBelong
    <3> QED
      BY <3>1, <3>2, <3>3 DEF Belongs
  <2> QED
    BY <2>1, <2>2
<1>7. CASE Tick
  BY <1>a, <1>7 DEF Tick, requestVars
<1>8. CASE UNCHANGED vars
  BY <1>a, <1>8 DEF vars, requestVars
<1> QED
  BY <1>1, <1>2, <1>3, <1>4, <1>5, <1>6, <1>7, <1>8 DEF Next, QueryStep

-----------------------------------------------------------------------------

(* The invariant of the errgroup's protocol, over the cache's.             *)
THEOREM ScalerInvariance == Spec => []SInv
<1>1. CSP!Inv /\ SInv /\ [Next]_vars => SInv'
  BY SettingsStep, ScalerTypeStep, CallersStep, GroupStep DEF SInv
<1> QED
  BY <1>1, ScalerInit, CacheInvariance, PTL DEF Spec

(* Every variable of the scaler's own stays in its type.                   *)
THEOREM ScalerTypeCorrect == Spec => []TypeOK
<1>1. SInv => TypeOK
  BY DEF SInv
<1> QED
  BY <1>1, ScalerInvariance, PTL

(* However handlers, goroutines, flights and cancellations interleave, a   *)
(* handler that decides has what its object needs of both dimensions.      *)
THEOREM DecisionsAreWhole == Spec => []NoPartialDecision
<1>1. SInv => NoPartialDecision
  <2> SUFFICES ASSUME SInv, NEW r \in Request, phase[r] \in Deciding, NEW q \in Of(r)
               PROVE  ~Hard(r, reading[q].err)
    BY DEF NoPartialDecision
  <2>1. phase[r] # "idle" /\ phase[r] # "wait"
    BY DEF Deciding
  <2>2. goroutine[q] = "done"
    BY <2>1 DEF SInv, GoroutinesAreCallers, Done
  <2> QED
    BY <2>1, <2>2 DEF SInv, GroupKnowsFailures
<1> QED
  BY <1>1, ScalerInvariance, PTL

(* When saturationFor has returned, on an error too, both its goroutines   *)
(* are out of Get and done.                                                *)
THEOREM GoroutinesEndFirst == Spec => []NoGoroutineOutlivesRequest
<1>1. SInv => NoGoroutineOutlivesRequest
  BY OwnQueries DEF SInv, GoroutinesAreCallers, NoGoroutineOutlivesRequest, Done
<1> QED
  BY <1>1, ScalerInvariance, PTL

(* No step mixes keys up, on top of the protocol above.                    *)
LEMMA KeysInvariance == Spec => []KInv
<1>1. Init => KInv
  BY OwnQueries
  DEF Init, KInv, CallsAskTheirOwn, EntriesBelong, ResultsBelong, ReadingsBelong, CS!Init
<1>2. CSP!Inv /\ SInv /\ KInv /\ [Next]_vars => KInv'
  BY AskStep, KeysStep, ReadingsStep DEF SInv, KInv
<1> QED
  BY <1>1, <1>2, ScalerInvariance, CacheInvariance, PTL DEF Spec

(* Whatever objects, queries and replies there are, and however flights    *)
(* and entries are shared, what a handler has read for a dimension is what *)
(* Prometheus gives for its object's own query of that dimension.          *)
THEOREM ReadingsAreOnesOwn == Spec => []ReadingsAreOwn
<1>1. KInv => ReadingsAreOwn
  <2> SUFFICES ASSUME KInv, NEW r \in Request, NEW d \in Dimension, phase[r] # "idle",
                      goroutine[<<r, d>>] = "done", reading[<<r, d>>].err \in CS!Usable
               PROVE  \E own \in Outcome(conf[r], d) :
                        /\ own.err = reading[<<r, d>>].err
                        /\ own.err = "nil" => own.value = reading[<<r, d>>].value
    BY DEF ReadingsAreOwn
  <2>1. <<r, d>> \in Of(r) /\ <<r, d>>[2] = d
    BY DEF Of
  <2>2. Belongs(KeyOf(conf[r], d), reading[<<r, d>>])
    BY <2>1 DEF KInv, ReadingsBelong
  <2>3. PICK reply \in Reply[KeyOf(conf[r], d)] :
          /\ P!Instant(reply).err = reading[<<r, d>>].err
          /\ reading[<<r, d>>].err = "nil"
               => P!Instant(reply).value = reading[<<r, d>>].value
    BY <2>2 DEF Belongs
  <2>4. P!Instant(reply) \in Outcome(conf[r], d)
    BY <2>3 DEF Outcome, KeyOf
  <2> QED
    BY <2>3, <2>4
<1> QED
  BY <1>1, KeysInvariance, PTL

(* A query goroutine that joined a flight has a leader, its reading is no  *)
(* older than the largest ttl, and an error it gets is one of a request    *)
(* that was under way when it asked.                                       *)
THEOREM QueriesAreServed ==
  Spec => [](CSP!WaitersHaveLeader /\ CSP!BoundedStaleness /\ CSP!ErrorsNeverPinned)
  BY ScalerUsesCachingSource, SameSpec, CallersAssumed, CSP!NoStrandedWaiter,
     CSP!StalenessBound, CSP!ErrorsRetried, PTL

=============================================================================
