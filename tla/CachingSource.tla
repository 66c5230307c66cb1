---------------------------- MODULE CachingSource ----------------------------
(***************************************************************************)
(* internal/metrics/cache.go: the TTL cache in front of Prometheus, with   *)
(* concurrent identical queries collapsed by singleflight.                 *)
(*                                                                         *)
(* A caller is a goroutine that may be inside Get.  Every point of Get at  *)
(* which another goroutine can run is a step here: the load under c.mu,    *)
(* the entry into group.Do, the backend's answer, the store under c.mu,    *)
(* the removal of the call from the singleflight group (which wakes the    *)
(* callers that joined it), and the return.  Time may pass between any two *)
(* steps, so nothing below assumes that a goroutine is scheduled promptly. *)
(***************************************************************************)
EXTENDS Integers

CONSTANTS
  Caller,     (* Goroutines that call Get.                                 *)
  Key,        (* Cache keys, one per (addr, query) pair.                   *)
  TTL,        (* The ttl arguments callers pass; <= 0 disables caching.    *)
  MaxTTL,     (* An upper bound on TTL.                                    *)
  Value,      (* Sample values the backend can report.                     *)
  NoValue,    (* The value of the zero Sample, which comes with an error.  *)
  NoCaller,   (* No flight is up for a key.                                *)
  NoEntry,    (* The key is not in the cache map.                          *)
  Horizon     (* The clock stops here.  Bounds the model, not the code.    *)

ASSUME TTLAssumption ==
  /\ TTL \subseteq Int
  /\ MaxTTL \in Nat
  /\ \A t \in TTL : t <= MaxTTL
ASSUME HorizonAssumption == Horizon \in Nat
ASSUME NoCallerAssumption == NoCaller \notin Caller
ASSUME NoEntryAssumption == NoEntry \notin [answer : [err : {"nil", "missing"},
                                                    value : Value \cup {NoValue},
                                                    asOf : Nat],
                                           storedAt : Nat, expiresAt : Int]
ASSUME NoReadingAssumption == NoEntry \notin [answer : [err : {"nil", "missing"},
                                                     value : Value \cup {NoValue},
                                                     asOf : Nat],
                                            renewed : Nat]

VARIABLES
  now,      (* The process's clock.                                        *)
  cache,    (* CachingSource.cache.                                        *)
  flight,   (* singleflight.Group.m: the goroutine that leads each key.    *)
  pc,       (* Where each caller is inside Get.                            *)
  key,      (* The key of the caller's Get.                                *)
  ttl,      (* The ttl argument of the caller's Get.                       *)
  result,   (* What the caller's Get has in hand.                          *)
  began,    (* History: when the caller's Get was called.                  *)
  landed    (* History: when the flight behind the result ended, which for *)
            (* a cached result is the moment it was stored.                *)

vars == <<now, cache, flight, pc, key, ttl, result, began, landed>>

-----------------------------------------------------------------------------

Usable == {"nil", "missing"}          \* outcomes Get may store
Broken == {"failed", "canceled"}      \* outcomes it never stores

(* What Source.Instant returns.  asOf is the instant the backend evaluated *)
(* the query at; err separates a value, an absent series (ErrMissing), a   *)
(* failed request, and a request whose own context was cancelled.          *)
Answer == [err : Usable \cup Broken, value : Value \cup {NoValue}, asOf : Nat]

Entry == [answer : [err : Usable, value : Value \cup {NoValue}, asOf : Nat],
          storedAt : Nat, expiresAt : Int]

(* No result yet.                                                          *)
Pending == [err |-> "canceled", value |-> NoValue, asOf |-> 0]

PC == {"idle", "load", "do", "upstream", "store", "publish", "wait", "return"}

(* load's test: the entry is there and now is not after expiresAt, so an   *)
(* entry is still served at the very instant it expires.                   *)
FreshForever(k) == cache[k] # NoEntry   \* mutant: no expiry test
Fresh(k) == cache[k] # NoEntry /\ now <= cache[k].expiresAt

(* The callers whose goroutine runs the function passed to group.Do.       *)
Leading == {"upstream", "store", "publish"}

Waiters(k) == {c \in Caller : pc[c] = "wait" /\ key[c] = k}

-----------------------------------------------------------------------------

Init ==
  /\ now = 0
  /\ cache = [k \in Key |-> NoEntry]
  /\ flight = [k \in Key |-> NoCaller]
  /\ pc = [c \in Caller |-> "idle"]
  /\ key \in [Caller -> Key]
  /\ ttl = [c \in Caller |-> 0]
  /\ result = [c \in Caller |-> Pending]
  /\ began = [c \in Caller |-> 0]
  /\ landed = [c \in Caller |-> 0]

(* Mutant: the ttl test is off by one.                                     *)
GetLoadsAboveOne(c, k, t) ==
  /\ pc[c] = "idle"
  /\ pc' = [pc EXCEPT ![c] = IF t > 1 THEN "load" ELSE "do"]
  /\ key' = [key EXCEPT ![c] = k]
  /\ ttl' = [ttl EXCEPT ![c] = t]
  /\ began' = [began EXCEPT ![c] = now]
  /\ UNCHANGED <<now, cache, flight, result, landed>>

(* Get is called.  Only a positive ttl looks at the cache.                 *)
Get(c, k, t) ==
  /\ pc[c] = "idle"
  /\ pc' = [pc EXCEPT ![c] = IF t > 0 THEN "load" ELSE "do"]
  /\ key' = [key EXCEPT ![c] = k]
  /\ ttl' = [ttl EXCEPT ![c] = t]
  /\ began' = [began EXCEPT ![c] = now]
  /\ UNCHANGED <<now, cache, flight, result, landed>>

(* load, with c.mu held.                                                   *)
LoadHit(c) ==
  /\ pc[c] = "load"
  /\ Fresh(key[c])
  /\ result' = [result EXCEPT ![c] = cache[key[c]].answer]
  /\ landed' = [landed EXCEPT ![c] = cache[key[c]].storedAt]
  /\ pc' = [pc EXCEPT ![c] = "return"]
  /\ UNCHANGED <<now, cache, flight, key, ttl, began>>

LoadMiss(c) ==
  /\ pc[c] = "load"
  /\ ~Fresh(key[c])
  /\ pc' = [pc EXCEPT ![c] = "do"]
  /\ UNCHANGED <<now, cache, flight, key, ttl, result, began, landed>>

(* Mutant: no singleflight, every miss flies.                              *)
LeadAlways(c) ==
  /\ pc[c] = "do"
  /\ flight' = [flight EXCEPT ![key[c]] = c]
  /\ pc' = [pc EXCEPT ![c] = "upstream"]
  /\ UNCHANGED <<now, cache, key, ttl, result, began, landed>>

(* group.Do: the first caller of a key leads, the others wait for it.  The *)
(* wait is on the leader alone: no follower watches its own context.       *)
Lead(c) ==
  /\ pc[c] = "do"
  /\ flight[key[c]] = NoCaller
  /\ flight' = [flight EXCEPT ![key[c]] = c]
  /\ pc' = [pc EXCEPT ![c] = "upstream"]
  /\ UNCHANGED <<now, cache, key, ttl, result, began, landed>>

Join(c) ==
  /\ pc[c] = "do"
  /\ flight[key[c]] # NoCaller
  /\ pc' = [pc EXCEPT ![c] = "wait"]
  /\ UNCHANGED <<now, cache, flight, key, ttl, result, began, landed>>

(* Mutant: every outcome is stored, a failed request's too.                *)
RespondStoresAll(c, e, v) ==
  /\ pc[c] = "upstream"
  /\ result' = [result EXCEPT ![c] =
                  [err |-> e, value |-> IF e = "nil" THEN v ELSE NoValue, asOf |-> now]]
  /\ pc' = [pc EXCEPT ![c] = IF ttl[c] > 0 THEN "store" ELSE "publish"]
  /\ UNCHANGED <<now, cache, flight, key, ttl, began, landed>>

(* Source.Instant, at the moment that settles its outcome: the backend     *)
(* evaluates the query, or the request breaks.  The answer's way back to   *)
(* the leader is time before its next step.  Only a value or an absent     *)
(* series goes on to the store, and only if the leader's ttl is positive.  *)
Respond(c, e, v) ==
  /\ pc[c] = "upstream"
  /\ result' = [result EXCEPT ![c] =
                  [err |-> e, value |-> IF e = "nil" THEN v ELSE NoValue, asOf |-> now]]
  /\ pc' = [pc EXCEPT ![c] =
              IF ttl[c] > 0 /\ e \in Usable THEN "store" ELSE "publish"]
  /\ UNCHANGED <<now, cache, flight, key, ttl, began, landed>>

(* store, with c.mu held, still inside the function passed to group.Do.    *)
Store(c) ==
  /\ pc[c] = "store"
  /\ cache' = [cache EXCEPT ![key[c]] =
                 [answer |-> result[c], storedAt |-> now, expiresAt |-> now + ttl[c]]]
  /\ pc' = [pc EXCEPT ![c] = "publish"]
  /\ UNCHANGED <<now, flight, key, ttl, result, began, landed>>

(* Mutant: only the leader is woken.                                       *)
PublishToSelf(c) ==
  /\ pc[c] = "publish"
  /\ flight' = [flight EXCEPT ![key[c]] = NoCaller]
  /\ pc' = [pc EXCEPT ![c] = "return"]
  /\ landed' = [landed EXCEPT ![c] = now]
  /\ UNCHANGED <<now, cache, key, ttl, result, began>>

(* Mutant: when the request broke, an entry of the key, whatever its age,  *)
(* stands in for its answer.                                               *)
PublishStaleIfError(c) ==
  /\ pc[c] = "publish"
  /\ LET done == Waiters(key[c]) \cup {c}
         got == IF result[c].err \in Broken /\ cache[key[c]] # NoEntry
                THEN cache[key[c]].answer ELSE result[c]
     IN
       /\ flight' = [flight EXCEPT ![key[c]] = NoCaller]
       /\ pc' = [d \in Caller |-> IF d \in done THEN "return" ELSE pc[d]]
       /\ result' = [d \in Caller |-> IF d \in done THEN got ELSE result[d]]
       /\ landed' = [d \in Caller |-> IF d \in done THEN now ELSE landed[d]]
  /\ UNCHANGED <<now, cache, key, ttl, began>>

(* The end of singleflight's doCall, with its mutex held: the call leaves  *)
(* the group and every caller that joined it gets the leader's result.     *)
Publish(c) ==
  /\ pc[c] = "publish"
  /\ LET done == Waiters(key[c]) \cup {c} IN
       /\ flight' = [flight EXCEPT ![key[c]] = NoCaller]
       /\ pc' = [d \in Caller |-> IF d \in done THEN "return" ELSE pc[d]]
       /\ result' = [d \in Caller |-> IF d \in done THEN result[c] ELSE result[d]]
       /\ landed' = [d \in Caller |-> IF d \in done THEN now ELSE landed[d]]
  /\ UNCHANGED <<now, cache, key, ttl, began>>

Return(c) ==
  /\ pc[c] = "return"
  /\ pc' = [pc EXCEPT ![c] = "idle"]
  /\ result' = [result EXCEPT ![c] = Pending]
  /\ ttl' = [ttl EXCEPT ![c] = 0]
  /\ began' = [began EXCEPT ![c] = 0]
  /\ landed' = [landed EXCEPT ![c] = 0]
  /\ UNCHANGED <<now, cache, flight, key>>

Tick ==
  /\ now < Horizon
  /\ now' = now + 1
  /\ UNCHANGED <<cache, flight, pc, key, ttl, result, began, landed>>

(* What a caller's goroutine does on its own once it is inside Get.        *)
Step(c) ==
  \/ LoadHit(c)
  \/ LoadMiss(c)
  \/ Lead(c)
  \/ Join(c)
  \/ \E e \in Usable \cup Broken, v \in Value : Respond(c, e, v)
  \/ Store(c)
  \/ Publish(c)
  \/ Return(c)

Next ==
  \/ \E c \in Caller, k \in Key, t \in TTL : Get(c, k, t)
  \/ \E c \in Caller : Step(c)
  \/ Tick

Spec == Init /\ [][Next]_vars

-----------------------------------------------------------------------------

(* Every variable stays in its type.                                       *)
TypeOK ==
  /\ now \in Nat
  /\ cache \in [Key -> Entry \cup {NoEntry}]
  /\ flight \in [Key -> Caller \cup {NoCaller}]
  /\ pc \in [Caller -> PC]
  /\ key \in [Caller -> Key]
  /\ ttl \in [Caller -> TTL \cup {0}]
  /\ result \in [Caller -> Answer]
  /\ began \in [Caller -> Nat]
  /\ landed \in [Caller -> Nat]

(* A caller that joined a flight is never stranded: the flight of its key  *)
(* still has a leader that is running the function passed to group.Do.     *)
WaitersHaveLeader ==
  \A c \in Caller : pc[c] = "wait" =>
    \E l \in Caller : flight[key[c]] = l /\ key[l] = key[c] /\ pc[l] \in Leading

(* Collapsing: at no moment do two goroutines run the function passed to   *)
(* group.Do for one key, so Prometheus sees one request per key at a time. *)
OneFlightPerKey ==
  \A c, d \in Caller :
    pc[c] \in Leading /\ pc[d] \in Leading /\ key[c] = key[d] => c = d

(* What Get returns was obtained while the call ran, or else it was read   *)
(* from the cache by a call that allows caching, and it had landed no more *)
(* than the process's largest ttl before the call began.                   *)
BoundedStaleness ==
  \A c \in Caller : pc[c] = "return" =>
    landed[c] >= began[c] \/ (ttl[c] > 0 /\ landed[c] + MaxTTL >= began[c])

(* A transport failure, a bad status, a malformed body or a cancellation   *)
(* is never pinned: whoever gets one gets it from a request that was still *)
(* under way when it called Get.                                           *)
ErrorsNeverPinned ==
  \A c \in Caller :
    pc[c] = "return" /\ result[c].err \in Broken => landed[c] >= began[c]

(* The cache does bound the query cost: a call that allows caching reaches *)
(* Prometheus past a usable entry only if that entry was stored while the  *)
(* call itself was running, between its load and its turn to lead.         *)
CacheSparesUpstream ==
  \A c \in Caller :
    pc[c] = "upstream" /\ ttl[c] > 0 /\ Fresh(key[c])
      => cache[key[c]].storedAt >= began[c]

(* Flights of one key are serial and each stores before it is published,   *)
(* so a slow answer never overwrites the answer of a later query.          *)
NoRegress(k) ==
  cache[k] # NoEntry =>
    cache'[k] # NoEntry /\ cache'[k].answer.asOf >= cache[k].answer.asOf

CacheNeverRegresses == [][\A k \in Key : NoRegress(k)]_vars

(* The reading behind each entry, and what each call looks like from       *)
(* outside.                                                                *)
Latest ==
  [k \in Key |-> IF cache[k] = NoEntry THEN NoEntry
                 ELSE [answer |-> cache[k].answer, renewed |-> cache[k].storedAt]]

Status ==
  [c \in Caller |-> IF pc[c] = "idle" THEN "idle"
                    ELSE IF pc[c] = "return" THEN "answered" ELSE "asked"]

Answered == [c \in Caller |-> IF pc[c] = "return" THEN result[c] ELSE Pending]

R == INSTANCE Readings WITH NoReading <- NoEntry, latest <- Latest, status <- Status,
                            since <- began, answer <- Answered

(* Seen by its callers, the whole of Get, with its two critical sections   *)
(* and its flights in between, is one atomic step of Readings: the latest  *)
(* reading while it is young enough, or an answer the backend gave after   *)
(* one of the calls that get it had begun, never older than that reading.  *)
ImplementsReadings == R!Spec

(* Get's comment: it serves a reading "from cache when a reading younger   *)
(* than ttl is already on hand", ttl being its own argument.  The entry's  *)
(* life is in fact set by the ttl of the call that stored it.              *)
ReadersTTLHonoured ==
  \A c \in Caller :
    pc[c] = "return" /\ ttl[c] > 0 => landed[c] + ttl[c] >= began[c]

=============================================================================
