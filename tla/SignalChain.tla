------------------------------ MODULE SignalChain ------------------------------
(***************************************************************************)
(* From the gauges of the server to the metric KEDA scales on, through     *)
(* clocks that share nothing: Prometheus scrapes, the scaler's cache       *)
(* expires, KEDA polls GetMetrics, and the stream tickers and the other    *)
(* ScaledObjects query the same keys whenever they like.                   *)
(*                                                                         *)
(* A reading is "over" or "under" its threshold, or "absent"; the score is *)
(* over its target exactly when a reading is over (the Saturation runs).   *)
(* Ages are in ticks.  Queries take no time: what they take adds to the    *)
(* bounds below.  An entry is dropped as it expires, Get never serving it  *)
(* again.  Prometheus marks the series of a failed scrape stale, and KEDA  *)
(* keeps the metric it has when GetMetrics fails.                          *)
(***************************************************************************)
EXTENDS MockVLLM

CONSTANTS
  ScrapeInterval,                 (* Of the ServiceMonitor.                *)
  CacheTTL, PollingInterval,      (* Of the ScaledObject.                  *)
  LongestTTL,                     (* The longest cacheTTL of the objects   *)
                                  (* that share its queries, its own one   *)
                                  (* included.                             *)
  QueueThreshold, KVThreshold,    (* The latter in slots.                  *)
  NoEntry                         (* A key is not in the cache.            *)

(* Thresholds are positive in the code's units, so no gauge is over at 0.  *)
ASSUME SignalAssumption ==
  /\ ScrapeInterval \in Nat \ {0}
  /\ LongestTTL \in Nat
  /\ CacheTTL \in 0 .. LongestTTL
  /\ PollingInterval \in Nat \ {0}
  /\ QueueThreshold \in Nat
  /\ KVThreshold \in Nat
  /\ NoEntry \notin [reading : {"over", "under", "absent"}, left : Nat]

Dimension == {"queue", "kv"}

(* How long after the last change of the load, and the last fault, the     *)
(* metric must have followed, and how old what it follows may be.  An      *)
(* entry lives as long as the object that stored it says.                  *)
Reach == ScrapeInterval + LongestTTL
Bound == Reach + PollingInterval

VARIABLES
  strict,        (* The ScaledObject's treatMissingAsError.                *)
  sample,        (* What an instant query of each series returns.          *)
  sinceScrape,   (* The age of the last scrape.                            *)
  cache,         (* CachingSource.cache: a reading and its remaining life. *)
  metric,        (* The metric of the last GetMetrics that succeeded.      *)
  sincePoll,     (* The age of the last GetMetrics.                        *)
  sinceUnder,    (* History: how long ago each gauge was under.            *)
  settled        (* History: how long nothing changed and nothing failed.  *)

chainVars == <<strict, sample, sinceScrape, cache, metric, sincePoll>>
history == <<sinceUnder, settled>>
allVars == <<vars, chainVars, history>>

-----------------------------------------------------------------------------

Over(d) == IF d = "queue" THEN waiting > QueueThreshold ELSE running > KVThreshold
Gauge(d) == IF Over(d) THEN "over" ELSE "under"

Capped(n, max) == IF n < max THEN n + 1 ELSE n

ChainInit ==
  /\ Init
  /\ strict \in BOOLEAN
  /\ sample = [d \in Dimension |-> "under"]
  /\ sinceScrape = 0
  /\ cache = [d \in Dimension |-> NoEntry]
  /\ metric = "under"
  /\ sincePoll = 0
  /\ sinceUnder = [d \in Dimension |-> 0]
  /\ settled = 0

(* A request arrives, is woken or ends, and the gauges move.               *)
Serve(r) ==
  /\ Enter(r) \/ Wait(r) \/ Resume(r) \/ Leave(r)
  /\ sinceUnder' = [d \in Dimension |-> IF Over(d)' THEN sinceUnder[d] ELSE 0]
  /\ settled' = IF \E d \in Dimension : Over(d)' # Over(d) THEN 0 ELSE settled
  /\ UNCHANGED chainVars

Scrape ==
  /\ sample' = [d \in Dimension |-> Gauge(d)]
  /\ sinceScrape' = 0
  /\ UNCHANGED <<vars, strict, cache, metric, sincePoll, history>>

ScrapeFails ==
  /\ sample' = [d \in Dimension |-> "absent"]
  /\ sinceScrape' = 0
  /\ settled' = 0
  /\ UNCHANGED <<vars, strict, cache, metric, sincePoll, sinceUnder>>

(* Get goes upstream: nothing is cached, or its ttl asks for that.         *)
Upstream(d, ttl) == ttl = 0 \/ cache[d] = NoEntry

(* Get's result, and the entry it leaves.                                  *)
Got(d, ttl) == IF Upstream(d, ttl) THEN sample[d] ELSE cache[d].reading

(* Mutant: a hit extends the life of the entry.                            *)
LeftSliding(d, ttl) == IF ttl = 0 THEN cache[d] ELSE [reading |-> Got(d, ttl), left |-> ttl]
Left(d, ttl) ==
  IF ttl > 0 /\ Upstream(d, ttl) THEN [reading |-> sample[d], left |-> ttl] ELSE cache[d]

(* A stream ticker or IsActive queries d, for this object or for another   *)
(* one that shares the query and has a cacheTTL of its own.                *)
OtherQuery(d, ttl) ==
  /\ cache' = [cache EXCEPT ![d] = Left(d, ttl)]
  /\ UNCHANGED <<vars, strict, sample, sinceScrape, metric, sincePoll, history>>

(* Mutant: an absent series reads as idle whatever the object says.        *)
PollLax ==
  /\ cache' = [d \in Dimension |-> Left(d, CacheTTL)]
  /\ metric' = IF \E d \in Dimension : Got(d, CacheTTL) = "over" THEN "over" ELSE "under"
  /\ sincePoll' = 0
  /\ UNCHANGED <<vars, strict, sample, sinceScrape, history>>

(* GetMetrics: an absent reading is an error or reads as idle.             *)
Poll ==
  /\ cache' = [d \in Dimension |-> Left(d, CacheTTL)]
  /\ metric' = IF strict /\ \E d \in Dimension : Got(d, CacheTTL) = "absent" THEN metric
               ELSE IF \E d \in Dimension : Got(d, CacheTTL) = "over" THEN "over" ELSE "under"
  /\ sincePoll' = 0
  /\ UNCHANGED <<vars, strict, sample, sinceScrape, history>>

(* A query that is not served from the cache fails, and GetMetrics with it. *)
(* What became of the other one is OtherQuery, or nothing.                 *)
PollFails ==
  /\ \E d \in Dimension : Upstream(d, CacheTTL)
  /\ sincePoll' = 0
  /\ settled' = 0
  /\ UNCHANGED <<vars, strict, sample, sinceScrape, cache, metric, sinceUnder>>

(* Mutant: an entry lives a tick longer than its ttl.                      *)
TickExpiresLate ==
  /\ sinceScrape < ScrapeInterval /\ sinceScrape' = sinceScrape + 1
  /\ sincePoll < PollingInterval /\ sincePoll' = sincePoll + 1
  /\ cache' = [d \in Dimension |->
       IF cache[d] = NoEntry \/ cache[d].left < 0 THEN NoEntry
       ELSE [cache[d] EXCEPT !.left = @ - 1]]
  /\ sinceUnder' = [d \in Dimension |->
                      IF Over(d) THEN Capped(sinceUnder[d], Reach + 1) ELSE 0]
  /\ settled' = Capped(settled, Bound + 1)
  /\ UNCHANGED <<vars, strict, sample, metric>>

Tick ==
  /\ sinceScrape < ScrapeInterval /\ sinceScrape' = sinceScrape + 1
  /\ sincePoll < PollingInterval /\ sincePoll' = sincePoll + 1
  /\ cache' = [d \in Dimension |->
       IF cache[d] = NoEntry \/ cache[d].left = 0 THEN NoEntry
       ELSE [cache[d] EXCEPT !.left = @ - 1]]
  /\ sinceUnder' = [d \in Dimension |->
                      IF Over(d) THEN Capped(sinceUnder[d], Reach + 1) ELSE 0]
  /\ settled' = Capped(settled, Bound + 1)
  /\ UNCHANGED <<vars, strict, sample, metric>>

ChainNext ==
  \/ \E r \in Request : Serve(r)
  \/ Scrape \/ ScrapeFails
  \/ \E d \in Dimension, ttl \in 0 .. LongestTTL : OtherQuery(d, ttl)
  \/ Poll \/ PollFails
  \/ Tick

ChainSpec == ChainInit /\ [][ChainNext]_allVars

-----------------------------------------------------------------------------

Entry == [reading : {"over", "under", "absent"}, left : 0 .. LongestTTL]

(* Every variable stays in its type.                                       *)
ChainTypeOK ==
  /\ TypeOK
  /\ strict \in BOOLEAN
  /\ sample \in [Dimension -> {"over", "under", "absent"}]
  /\ sinceScrape \in 0 .. ScrapeInterval
  /\ cache \in [Dimension -> Entry \cup {NoEntry}]
  /\ metric \in {"over", "under"}
  /\ sincePoll \in 0 .. PollingInterval
  /\ sinceUnder \in [Dimension -> 0 .. Reach + 1]
  /\ settled \in 0 .. Bound + 1

Saturated == \E d \in Dimension : Over(d)

(* Once the load has kept its side of the thresholds, and nothing has      *)
(* failed, for a scrape, a cache life and a poll, the metric KEDA scales   *)
(* on is on that side too, whatever the phases of the clocks and whoever   *)
(* filled the cache.  A cache life is the longest ttl of the objects that  *)
(* share the queries, not the object's own: whoever stores an entry sets   *)
(* how long all are served it.                                             *)
MetricFollowsLoad == settled > Bound => (metric = "over" <=> Saturated)

(* With treatMissingAsError, the metric never falls below its target       *)
(* unless the load did: each gauge was under its threshold no longer than  *)
(* a scrape and a cache life (the longest of the objects that share the    *)
(* queries) ago.  Missed scrapes and failed queries never scale in.        *)
ScaleInIsReal ==
  [][ strict /\ metric = "over" /\ metric' = "under"
        => \A d \in Dimension : sinceUnder[d] <= Reach ]_allVars

(* docs/autoscaling-signal-staleness.md: "worst_case_signal_age =          *)
(* scrape_interval + pollingInterval", to which CacheTTL "doesn't add in   *)
(* the worst case".  It does when somebody else's query left an old sample *)
(* in the cache just before the poll.                                      *)
SignalAgeAsDocumented ==
  settled > ScrapeInterval + PollingInterval => (metric = "over" <=> Saturated)

=============================================================================
