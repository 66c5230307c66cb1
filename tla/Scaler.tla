-------------------------------- MODULE Scaler --------------------------------
(***************************************************************************)
(* main.go: IsActive and GetMetrics over the shared CachingSource.         *)
(*                                                                         *)
(* A request is a gRPC handler at work on a ScaledObject.  saturationFor   *)
(* gives it two query goroutines, one per dimension; each is a caller of   *)
(* CachingSource, which this module instantiates.  The goroutines share a  *)
(* context that ends with the client's, or with the first hard failure of  *)
(* either (errgroup.WithContext).  Of a successful decision the handler    *)
(* sets three gauges, one after the other, before it replies.              *)
(*                                                                         *)
(* IsActive and GetMetrics change the same state in the same order and are *)
(* one operation here.                                                     *)
(***************************************************************************)
EXTENDS Saturation

CONSTANTS
  Request,    (* Slots for handlers at work at the same time.              *)
  Object,     (* ScaledObjects.                                            *)
  Metadata,   (* Each object's scaler metadata.                            *)
  Reply,      (* What may come back from each address and query.           *)
  Default, Key, TTL, MaxTTL, Value, NoValue, NoCaller, NoEntry, Horizon

Dimension == {"queue", "kv"}
Query == Request \X Dimension

LOCAL INSTANCE Config
P == INSTANCE Prometheus

(* The settings a handler parses from an object's metadata.                *)
Settings(o) == Parse(Metadata[o])
AllSettings == {Settings(o) : o \in Object}

QueryOf(c, dimension) == IF dimension = "queue" THEN c.QueueQuery ELSE c.KVQuery

(* Mutant: the query is left out of the cache key.                         *)
KeyOfAddress(c, dimension) == CHOOSE k \in Key : k[1] = c.PromAddr

(* cacheKey.  No address or query contains the NUL byte that joins them,   *)
(* so a key stands for one pair of them.                                   *)
KeyOf(c, dimension) == <<c.PromAddr, QueryOf(c, dimension)>>

(* What Instant may return to a goroutine whose flight leads: it asks the  *)
(* address and query of its own object and dimension, whatever the key.    *)
Outcome(c, dimension) ==
  {P!Instant(reply) : reply \in Reply[<<c.PromAddr, QueryOf(c, dimension)>>]}

ASSUME MetadataAssumption ==
  \A o \in Object : LET c == Settings(o) IN
    /\ \A d \in Dimension : KeyOf(c, d) \in Key
    /\ c.CacheTTL \in TTL
    /\ c.TreatMissingAsError \in BOOLEAN

ASSUME ReplyAssumption ==
  /\ Value # {}
  /\ \A c \in AllSettings, d \in Dimension : \A got \in Outcome(c, d) :
       got.err = "nil" => got.value \in Value

VARIABLES
  now, cache, flight, pc, key, ttl, result, began, landed,   (* CachingSource *)
  phase,      (* Where each handler is.                                    *)
  object,     (* The object it decides for.                                *)
  conf,       (* The object's settings, as the handler parsed them.        *)
  context,    (* Whether the errgroup's context is done, and what ended it. *)
  groupErr,   (* The errgroup's first error.                               *)
  goroutine,  (* Where each query goroutine is.                            *)
  reading,    (* What it assigned to queue, queueAge or kv, kvAge.         *)
  gauge       (* scaler_saturation and scaler_signal_age_seconds.          *)

CS == INSTANCE CachingSource WITH Caller <- Query

ASSUME CachingSourceAssumption ==
  CS!TTLAssumption /\ CS!HorizonAssumption /\ CS!NoCallerAssumption
  /\ CS!NoEntryAssumption /\ CS!NoReadingAssumption

cacheVars == <<now, cache, flight, pc, key, ttl, result, began, landed>>
requestVars == <<phase, object, conf, context, groupErr, goroutine, reading, gauge>>
vars == <<cacheVars, requestVars>>

-----------------------------------------------------------------------------

(* The zero values of queue and queueAge, or of kv and kvAge.              *)
Idle == [err |-> "missing", value |-> Zero, age |-> 0]

Of(r) == {r} \X Dimension

(* The errors saturationFor's goroutines return.                           *)
Hard(r, err) ==
  err \in CS!Broken \/ (err = "missing" /\ conf[r].TreatMissingAsError)

(* The saturationResult of r's readings.                                   *)
Decision(r) ==
  LET queue == reading[<<r, "queue">>]
      kv == reading[<<r, "kv">>]
  IN [saturation |-> Score(queue.value, conf[r].QueueThreshold, kv.value, conf[r].KVThreshold),
      queue |-> queue.age, kv |-> kv.age]

Deciding == {"saturation", "queue", "kv"}

Done(r) == \A q \in Of(r) : goroutine[q] = "done"

Init ==
  /\ CS!Init
  /\ phase = [r \in Request |-> "idle"]
  /\ object \in [Request -> Object]
  /\ conf = [r \in Request |-> Settings(object[r])]
  /\ context = [r \in Request |-> "live"]
  /\ groupErr = [r \in Request |-> "nil"]
  /\ goroutine = [q \in Query |-> "done"]
  /\ reading = [q \in Query |-> Idle]
  /\ gauge \in [Object -> {[saturation |-> Zero, queue |-> 0, kv |-> 0]}]

(* A request arrives, its metadata parses, and g.Go starts both goroutines. *)
Begin(r, o) ==
  /\ phase[r] = "idle"
  /\ Parses(Metadata[o])
  /\ phase' = [phase EXCEPT ![r] = "wait"]
  /\ object' = [object EXCEPT ![r] = o]
  /\ conf' = [conf EXCEPT ![r] = Settings(o)]
  /\ goroutine' = [q \in Query |-> IF q \in Of(r) THEN "started" ELSE goroutine[q]]
  /\ UNCHANGED <<cacheVars, context, groupErr, reading, gauge>>

CallGet(q) ==
  /\ goroutine[q] = "started"
  /\ goroutine' = [goroutine EXCEPT ![q] = "get"]
  /\ CS!Get(q, KeyOf(conf[q[1]], q[2]), conf[q[1]].CacheTTL)
  /\ UNCHANGED <<phase, object, conf, context, groupErr, reading, gauge>>

(* Prometheus.Instant under the context of the request that leads.         *)
Instant(q) ==
  /\ \/ \E got \in Outcome(conf[q[1]], q[2]) :
          CS!Respond(q, got.err, IF got.err = "nil" THEN got.value ELSE NoValue)
     \/ context[q[1]] # "live" /\ CS!Respond(q, "canceled", NoValue)
  /\ UNCHANGED requestVars

InsideGet(q) ==
  /\ \/ CS!LoadHit(q)
     \/ CS!LoadMiss(q)
     \/ CS!Lead(q)
     \/ CS!Join(q)
     \/ CS!Store(q)
     \/ CS!Publish(q)
  /\ UNCHANGED requestVars

(* Mutant: a cancellation is not an error of the group.                    *)
FinishForgivesCancel(q) ==
  LET r == q[1]
      got == result[q]
      fails == Hard(r, got.err) /\ got.err # "canceled"
  IN
  /\ CS!Return(q)
  /\ goroutine' = [goroutine EXCEPT ![q] = "done"]
  /\ reading' = [reading EXCEPT ![q] =
       [err |-> got.err,
        value |-> IF got.err = "nil" THEN got.value ELSE Zero,
        age |-> IF got.err = "nil" THEN now - got.asOf ELSE 0]]
  /\ groupErr' = [groupErr EXCEPT ![r] = IF fails /\ @ = "nil" THEN got.err ELSE @]
  /\ context' = [context EXCEPT ![r] = IF fails /\ @ = "live" THEN "failed" ELSE @]
  /\ UNCHANGED <<phase, object, conf, gauge>>

(* Get returns and the goroutine ends: the first hard error becomes the    *)
(* group's and ends the context the other goroutine was given.             *)
Finish(q) ==
  LET r == q[1]
      got == result[q]
      fails == Hard(r, got.err)
  IN
  /\ CS!Return(q)
  /\ goroutine' = [goroutine EXCEPT ![q] = "done"]
  /\ reading' = [reading EXCEPT ![q] =
       [err |-> got.err,
        value |-> IF got.err = "nil" THEN got.value ELSE Zero,
        age |-> IF got.err = "nil" THEN now - got.asOf ELSE 0]]
  /\ groupErr' = [groupErr EXCEPT ![r] = IF fails /\ @ = "nil" THEN got.err ELSE @]
  /\ context' = [context EXCEPT ![r] = IF fails /\ @ = "live" THEN "failed" ELSE @]
  /\ UNCHANGED <<phase, object, conf, gauge>>

(* Mutant: the client's departure is taken for the group's error.          *)
ClientGoneIsError(r) ==
  /\ phase[r] = "wait"
  /\ context[r] = "live"
  /\ context' = [context EXCEPT ![r] = "client"]
  /\ groupErr' = [groupErr EXCEPT ![r] = "client"]
  /\ UNCHANGED <<cacheVars, phase, object, conf, goroutine, reading, gauge>>

(* The client cancels the RPC or its deadline passes.                      *)
ClientGone(r) ==
  /\ phase[r] = "wait"
  /\ context[r] = "live"
  /\ context' = [context EXCEPT ![r] = "client"]
  /\ UNCHANGED <<cacheVars, phase, object, conf, groupErr, goroutine, reading, gauge>>

(* The handler replies and its state is gone.                              *)
Clear(r) ==
  /\ phase' = [phase EXCEPT ![r] = "idle"]
  /\ context' = [context EXCEPT ![r] = "live"]
  /\ groupErr' = [groupErr EXCEPT ![r] = "nil"]
  /\ reading' = [q \in Query |-> IF q \in Of(r) THEN Idle ELSE reading[q]]

(* Mutant: the handler replies at the first error, without g.Wait.         *)
WaitFailsAtOnce(r) ==
  /\ phase[r] = "wait"
  /\ groupErr[r] # "nil"
  /\ Clear(r)
  /\ UNCHANGED <<cacheVars, object, conf, goroutine, gauge>>

(* g.Wait returns once both goroutines have.                               *)
WaitFails(r) ==
  /\ phase[r] = "wait"
  /\ Done(r)
  /\ groupErr[r] # "nil"
  /\ Clear(r)
  /\ UNCHANGED <<cacheVars, object, conf, goroutine, gauge>>

WaitSucceeds(r) ==
  /\ phase[r] = "wait"
  /\ Done(r)
  /\ groupErr[r] = "nil"
  /\ phase' = [phase EXCEPT ![r] = "saturation"]
  /\ UNCHANGED <<cacheVars, object, conf, context, groupErr, goroutine, reading, gauge>>

SetSaturation(r) ==
  /\ phase[r] = "saturation"
  /\ phase' = [phase EXCEPT ![r] = "queue"]
  /\ gauge' = [gauge EXCEPT ![object[r]].saturation = Decision(r).saturation]
  /\ UNCHANGED <<cacheVars, object, conf, context, groupErr, goroutine, reading>>

SetQueueAge(r) ==
  /\ phase[r] = "queue"
  /\ phase' = [phase EXCEPT ![r] = "kv"]
  /\ gauge' = [gauge EXCEPT ![object[r]].queue = Decision(r).queue]
  /\ UNCHANGED <<cacheVars, object, conf, context, groupErr, goroutine, reading>>

SetKVAgeAndReply(r) ==
  /\ phase[r] = "kv"
  /\ gauge' = [gauge EXCEPT ![object[r]].kv = Decision(r).kv]
  /\ Clear(r)
  /\ UNCHANGED <<cacheVars, object, conf, goroutine>>

Tick == CS!Tick /\ UNCHANGED requestVars

QueryStep(q) == CallGet(q) \/ Instant(q) \/ InsideGet(q) \/ Finish(q)

HandlerStep(r) ==
  WaitFails(r) \/ WaitSucceeds(r) \/ SetSaturation(r) \/ SetQueueAge(r) \/ SetKVAgeAndReply(r)

Next ==
  \/ \E r \in Request, o \in Object : Begin(r, o)
  \/ \E r \in Request : ClientGone(r) \/ HandlerStep(r)
  \/ \E q \in Query : QueryStep(q)
  \/ Tick

Spec == Init /\ [][Next]_vars

(* Goroutines are scheduled, and Instant returns within the http.Client's  *)
(* timeout.  Clients may never call, never cancel, and time may stop.      *)
Fairness ==
  /\ \A q \in Query : WF_vars(QueryStep(q))
  /\ \A r \in Request : WF_vars(HandlerStep(r))

FairSpec == Spec /\ Fairness

-----------------------------------------------------------------------------

Reading ==
  [err : CS!Usable \cup CS!Broken, value : Value \cup {NoValue, Zero}, age : Nat]

(* Every variable of its own stays in its type; CachingSource types the    *)
(* ones it shares.                                                         *)
TypeOK ==
  /\ phase \in [Request -> {"idle", "wait"} \cup Deciding]
  /\ object \in [Request -> Object]
  /\ conf \in [Request -> AllSettings]
  /\ context \in [Request -> {"live", "client", "failed"}]
  /\ groupErr \in [Request -> {"nil", "missing"} \cup CS!Broken]
  /\ goroutine \in [Query -> {"started", "get", "done"}]
  /\ reading \in [Query -> Reading]
  /\ DOMAIN gauge = Object

(* A handler that sets gauges and replies a score has a usable reading, or *)
(* an absence its object reads as idle, for both dimensions: no decision   *)
(* is ever made on one dimension because the other one failed, was         *)
(* cancelled, or got its answer through somebody else's flight.            *)
NoPartialDecision ==
  \A r \in Request : phase[r] \in Deciding =>
    \A q \in Of(r) : ~Hard(r, reading[q].err)

(* saturationFor's variables are captured by both goroutines: when it      *)
(* returns, on an error too, neither goroutine is still running.           *)
NoGoroutineOutlivesRequest ==
  \A r \in Request : phase[r] # "wait" =>
    \A q \in Of(r) : goroutine[q] = "done" /\ pc[q] = "idle"

(* Every reading a handler decides on, a number or an absence, is one that *)
(* Prometheus gives for the query of that object and that dimension,       *)
(* whichever goroutine of whichever object asked it, in a flight that was  *)
(* joined or for the cache: objects share readings by key and never mix    *)
(* them up, also when one's queue query is another's kv query.             *)
ReadingsAreOwn ==
  \A r \in Request, d \in Dimension :
    LET got == reading[<<r, d>>] IN
    phase[r] # "idle" /\ goroutine[<<r, d>>] = "done" /\ got.err \in CS!Usable
      => \E own \in Outcome(conf[r], d) :
           own.err = got.err /\ (own.err = "nil" => own.value = got.value)

(* Every request gets its reply, whatever its flights are shared with.     *)
EveryRequestReplies == \A r \in Request : phase[r] # "idle" ~> phase[r] = "idle"

(* cache.go: a CachingSource is safe "for concurrent use and is intended   *)
(* to be constructed once per process and shared across every              *)
(* ScaledObject".  A request whose client is there can still be told       *)
(* "context canceled", by a flight it shares with a request that failed.   *)
CancellationsAreOwn ==
  \A r \in Request : groupErr[r] = "canceled" => context[r] = "client"

=============================================================================
