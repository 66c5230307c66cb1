--------------------------- MODULE SignalChainProofs ---------------------------
(***************************************************************************)
(* Proofs about SignalChain for every number of requests, every capacity,  *)
(* every pair of thresholds and every set of intervals.                    *)
(***************************************************************************)
EXTENDS SignalChain, MockVLLMProofs

(* An entry is at most as old as the life it would have spent of the       *)
(* longest one there is.                                                   *)
Age(entry) == LongestTTL - entry.left

(* What each stage of the chain holds once the load has kept its side of   *)
(* the thresholds for longer than the age of what the stage holds.         *)
SampleFollows == \A d \in Dimension : settled > sinceScrape => sample[d] = Gauge(d)

CacheFollows == \A d \in Dimension :
  cache[d] # NoEntry /\ settled > ScrapeInterval + Age(cache[d]) => cache[d].reading = Gauge(d)

MetricFollows == settled > Reach + sincePoll => (metric = "over" <=> Saturated)

(* A gauge that is under now was so no time ago, and whoever holds an      *)
(* "under" holds one from when the gauge was, not longer ago than its age. *)
UnderIsNow == \A d \in Dimension : ~Over(d) => sinceUnder[d] = 0

SampleWasUnder == \A d \in Dimension : sample[d] = "under" => sinceUnder[d] <= sinceScrape

CacheWasUnder == \A d \in Dimension :
  cache[d] # NoEntry /\ cache[d].reading = "under"
    => sinceUnder[d] <= ScrapeInterval + Age(cache[d])

CInv ==
  /\ ChainTypeOK
  /\ SampleFollows /\ CacheFollows /\ MetricFollows
  /\ UnderIsNow /\ SampleWasUnder /\ CacheWasUnder

-----------------------------------------------------------------------------

(* The chain drives mock-vllm, and nothing else moves it.                  *)
LEMMA ChainDrivesMock ==
  ASSUME [ChainNext]_allVars
  PROVE  [Next]_vars
  BY DEF ChainNext, Next, Serve, Scrape, ScrapeFails, OtherQuery, Poll, PollFails, Tick,
         allVars, vars

(* Every behaviour of the chain is a behaviour of mock-vllm, whose gauges  *)
(* it reads: scrapes, queries and polls do not reach back into it.         *)
LEMMA ChainRunsMock == ChainSpec => Spec
<1>1. ChainInit => Init
  BY DEF ChainInit
<1> QED
  BY <1>1, ChainDrivesMock, PTL DEF ChainSpec, Spec

(* So what holds of mock-vllm holds of it in the chain.                    *)
LEMMA ChainKeepsMock == ChainSpec => []MInv
  BY ChainRunsMock, MockInvariance, PTL

-----------------------------------------------------------------------------

(* The intervals, and the two sums of them, are naturals.                  *)
LEMMA Intervals ==
  /\ ScrapeInterval \in Nat /\ LongestTTL \in Nat /\ PollingInterval \in Nat
  /\ CacheTTL \in 0 .. LongestTTL
  /\ Reach \in Nat /\ Bound \in Nat
  /\ Reach = ScrapeInterval + LongestTTL /\ Bound = Reach + PollingInterval
  BY SignalAssumption DEF Reach, Bound

(* No entry is mistaken for the absence of one.                            *)
LEMMA EntriesAreThere == \A e \in Entry : e # NoEntry
<1>1. \A e \in Entry : e \in [reading : {"over", "under", "absent"}, left : Nat]
  BY Intervals DEF Entry
<1> QED
  BY <1>1, SignalAssumption

(* The gauges' sides of their thresholds stay where they are.              *)
LEMMA SameLoad ==
  ASSUME waiting' = waiting, running' = running
  PROVE  /\ \A d \in Dimension : Over(d)' = Over(d) /\ Gauge(d)' = Gauge(d)
         /\ Saturated' = Saturated
  BY DEF Over, Gauge, Saturated

(* The initial states satisfy the invariant.                               *)
LEMMA ChainInitial == ChainInit /\ MInv => CInv
<1> SUFFICES ASSUME ChainInit, MInv
             PROVE  CInv
  OBVIOUS
<1>1. \A d \in Dimension : ~Over(d)
  BY SignalAssumption DEF ChainInit, Init, Over
<1>2. ChainTypeOK
  BY Intervals DEF ChainInit, ChainTypeOK, MInv
<1>3. SampleFollows /\ CacheFollows /\ UnderIsNow /\ SampleWasUnder /\ CacheWasUnder
  BY <1>1 DEF ChainInit, SampleFollows, CacheFollows, UnderIsNow, SampleWasUnder,
              CacheWasUnder, Gauge
<1>4. MetricFollows
  BY <1>1 DEF ChainInit, MetricFollows, Saturated
<1> QED
  BY <1>2, <1>3, <1>4 DEF CInv

(* What a query gets, and the entry it leaves, if any, follow the load as  *)
(* the cache does, whichever ttl the query comes with.                     *)
LEMMA QueryFollows ==
  ASSUME CInv, NEW d \in Dimension, NEW ttl \in 0 .. LongestTTL
  PROVE  /\ Got(d, ttl) \in {"over", "under", "absent"}
         /\ settled > Reach => Got(d, ttl) = Gauge(d)
         /\ Got(d, ttl) = "under" => sinceUnder[d] <= Reach
         /\ Left(d, ttl) # NoEntry =>
              /\ Left(d, ttl) \in Entry
              /\ settled > ScrapeInterval + Age(Left(d, ttl))
                   => Left(d, ttl).reading = Gauge(d)
              /\ Left(d, ttl).reading = "under"
                   => sinceUnder[d] <= ScrapeInterval + Age(Left(d, ttl))
<1>1. /\ sample[d] \in {"over", "under", "absent"} /\ sinceScrape \in 0 .. ScrapeInterval
      /\ sinceUnder[d] \in Nat /\ settled \in Nat
      /\ cache[d] = NoEntry \/ cache[d] \in Entry
  BY Intervals DEF CInv, ChainTypeOK, Entry
<1>2. /\ settled > sinceScrape => sample[d] = Gauge(d)
      /\ sample[d] = "under" => sinceUnder[d] <= sinceScrape
  BY DEF CInv, SampleFollows, SampleWasUnder
<1>3. ASSUME cache[d] # NoEntry
      PROVE  /\ cache[d] \in Entry
             /\ settled > ScrapeInterval + Age(cache[d]) => cache[d].reading = Gauge(d)
             /\ cache[d].reading = "under" => sinceUnder[d] <= ScrapeInterval + Age(cache[d])
             /\ Age(cache[d]) \in 0 .. LongestTTL
  BY <1>1, <1>3, Intervals DEF CInv, CacheFollows, CacheWasUnder, Entry, Age
<1>4. /\ Got(d, ttl) \in {"over", "under", "absent"}
      /\ settled > Reach => Got(d, ttl) = Gauge(d)
      /\ Got(d, ttl) = "under" => sinceUnder[d] <= Reach
  <2>1. CASE Upstream(d, ttl)
    BY <1>1, <1>2, <2>1, Intervals DEF Got
  <2>2. CASE ~Upstream(d, ttl)
    <3>1. cache[d] # NoEntry /\ Got(d, ttl) = cache[d].reading
      BY <2>2 DEF Got, Upstream
    <3>2. cache[d].reading \in {"over", "under", "absent"}
      BY <1>3, <3>1 DEF Entry
    <3> QED
      BY <1>1, <1>3, <3>1, <3>2, Intervals
  <2> QED
    BY <2>1, <2>2
<1>5. CASE ttl > 0 /\ Upstream(d, ttl)
  <2>1. Left(d, ttl) = [reading |-> sample[d], left |-> ttl]
    BY <1>5 DEF Left
  <2>2. /\ Left(d, ttl) \in Entry /\ Left(d, ttl).reading = sample[d]
        /\ Age(Left(d, ttl)) = LongestTTL - ttl
    BY <1>1, <2>1 DEF Entry, Age
  <2>3. /\ settled > ScrapeInterval + (LongestTTL - ttl) => settled > sinceScrape
        /\ sinceUnder[d] <= sinceScrape => sinceUnder[d] <= ScrapeInterval + (LongestTTL - ttl)
    BY <1>1, Intervals
  <2> QED
    BY <1>2, <1>4, <2>2, <2>3
<1>6. CASE ~(ttl > 0 /\ Upstream(d, ttl))
  <2>1. Left(d, ttl) = cache[d]
    BY <1>6 DEF Left
  <2> QED
    BY <1>3, <1>4, <2>1
<1> QED
  BY <1>5, <1>6

(* A tick drops an entry or takes a tick of its life.                      *)
LEMMA TickAges ==
  ASSUME ChainTypeOK, Tick, NEW d \in Dimension
  PROVE  \/ cache'[d] = NoEntry
         \/ /\ cache[d] # NoEntry /\ cache'[d] \in Entry
            /\ cache'[d].reading = cache[d].reading /\ cache'[d].left = cache[d].left - 1
<1>1. CASE cache[d] = NoEntry \/ cache[d].left = 0
  BY <1>1 DEF Tick
<1>2. CASE cache[d] # NoEntry /\ cache[d].left # 0
  <2>1. cache[d] \in Entry
    BY <1>2 DEF ChainTypeOK, Entry
  <2>2. cache'[d] = [cache[d] EXCEPT !.left = @ - 1]
    BY <1>2 DEF Tick
  <2>3. cache'[d] = [reading |-> cache[d].reading, left |-> cache[d].left - 1]
    BY <2>1, <2>2 DEF Entry
  <2>4. cache[d].left - 1 \in 0 .. LongestTTL
    BY <1>2, <2>1, Intervals DEF Entry
  <2> QED
    BY <1>2, <2>1, <2>3, <2>4 DEF Entry
<1> QED
  BY <1>1, <1>2

(* Every step keeps the types of the chain.                                *)
LEMMA ChainTypes ==
  ASSUME CInv, MInv', [ChainNext]_allVars
  PROVE  ChainTypeOK'
<1>0. ChainTypeOK /\ TypeOK'
  BY DEF CInv, MInv
<1>1. ASSUME NEW r \in Request, Serve(r)
      PROVE  ChainTypeOK'
  BY <1>0, <1>1, Intervals DEF Serve, ChainTypeOK, chainVars
<1>2. CASE Scrape \/ ScrapeFails
  BY <1>0, <1>2, Intervals DEF Scrape, ScrapeFails, ChainTypeOK, Gauge, history
<1>3. ASSUME NEW d \in Dimension, NEW ttl \in 0 .. LongestTTL, OtherQuery(d, ttl)
      PROVE  ChainTypeOK'
  <2>1. \A e \in Dimension : cache'[e] = NoEntry \/ cache'[e] \in Entry
    BY <1>0, <1>3, QueryFollows DEF OtherQuery, ChainTypeOK, Entry
  <2> QED
    BY <1>0, <1>3, <2>1 DEF OtherQuery, ChainTypeOK, history, Entry
<1>4. CASE Poll
  <2>1. \A e \in Dimension : cache'[e] = NoEntry \/ cache'[e] \in Entry
    BY <1>4, QueryFollows, Intervals DEF Poll
  <2>2. metric' \in {"over", "under"}
    BY <1>0, <1>4 DEF Poll, ChainTypeOK
  <2> QED
    BY <1>0, <1>4, <2>1, <2>2, Intervals DEF Poll, ChainTypeOK, history, Entry
<1>5. CASE PollFails
  BY <1>0, <1>5, Intervals DEF PollFails, ChainTypeOK
<1>6. CASE Tick
  <2>1. /\ sinceScrape' \in 0 .. ScrapeInterval /\ sincePoll' \in 0 .. PollingInterval
        /\ sinceUnder' \in [Dimension -> 0 .. Reach + 1] /\ settled' \in 0 .. Bound + 1
    BY <1>0, <1>6, Intervals DEF Tick, ChainTypeOK, Capped
  <2>2. ASSUME NEW d \in Dimension
        PROVE  cache'[d] = NoEntry \/ cache'[d] \in Entry
    BY <1>0, <1>6, TickAges
  <2> QED
    BY <1>0, <1>6, <2>1, <2>2 DEF Tick, ChainTypeOK, Entry
<1>7. CASE UNCHANGED allVars
  BY <1>0, <1>7 DEF ChainTypeOK, allVars, vars, chainVars, history
<1> QED
  BY <1>1, <1>2, <1>3, <1>4, <1>5, <1>6, <1>7 DEF ChainNext

(* Every step keeps what Prometheus's samples follow.                      *)
LEMMA SampleStep ==
  ASSUME CInv, [ChainNext]_allVars
  PROVE  SampleFollows' /\ UnderIsNow' /\ SampleWasUnder'
<1>0. /\ ChainTypeOK /\ SampleFollows /\ UnderIsNow /\ SampleWasUnder
      /\ settled \in 0 .. Bound + 1 /\ sinceScrape \in 0 .. ScrapeInterval
      /\ \A d \in Dimension : sinceUnder[d] \in 0 .. Reach + 1
  BY DEF CInv, ChainTypeOK
<1>1. ASSUME NEW r \in Request, Serve(r)
      PROVE  SampleFollows' /\ UnderIsNow' /\ SampleWasUnder'
  <2>1. /\ sample' = sample /\ sinceScrape' = sinceScrape
        /\ sinceUnder' = [d \in Dimension |-> IF Over(d)' THEN sinceUnder[d] ELSE 0]
        /\ settled' = IF \E d \in Dimension : Over(d)' # Over(d) THEN 0 ELSE settled
    BY <1>1 DEF Serve, chainVars
  <2>2. SampleFollows'
    <3>1. CASE \E d \in Dimension : Over(d)' # Over(d)
      BY <1>0, <2>1, <3>1, Intervals DEF SampleFollows
    <3>2. CASE \A d \in Dimension : Over(d)' = Over(d)
      BY <1>0, <2>1, <3>2 DEF SampleFollows, Gauge
    <3> QED
      BY <3>1, <3>2
  <2>3. UnderIsNow'
    BY <2>1 DEF UnderIsNow
  <2>4. SampleWasUnder'
    BY <1>0, <2>1, Intervals DEF SampleWasUnder
  <2> QED
    BY <2>2, <2>3, <2>4
<1>2. CASE Scrape \/ ScrapeFails
  <2>1. /\ \A d \in Dimension : Over(d)' = Over(d) /\ Gauge(d)' = Gauge(d)
        /\ sinceUnder' = sinceUnder
    BY <1>2, SameLoad DEF Scrape, ScrapeFails, vars, history
  <2>2. CASE Scrape
    BY <1>0, <2>1, <2>2 DEF Scrape, SampleFollows, UnderIsNow, SampleWasUnder, Gauge
  <2>3. CASE ScrapeFails
    BY <1>0, <2>1, <2>3 DEF ScrapeFails, SampleFollows, UnderIsNow, SampleWasUnder
  <2> QED
    BY <1>2, <2>2, <2>3
<1>3. CASE UNCHANGED <<vars, sample, sinceScrape, history>>
  <2>1. \A d \in Dimension : Over(d)' = Over(d) /\ Gauge(d)' = Gauge(d)
    BY <1>3, SameLoad DEF vars
  <2> QED
    BY <1>0, <1>3, <2>1 DEF history, SampleFollows, UnderIsNow, SampleWasUnder
<1>4. CASE PollFails
  <2>1. \A d \in Dimension : Over(d)' = Over(d) /\ Gauge(d)' = Gauge(d)
    BY <1>4, SameLoad DEF PollFails, vars
  <2> QED
    BY <1>0, <1>4, <2>1 DEF PollFails, SampleFollows, UnderIsNow, SampleWasUnder
<1>5. CASE Tick
  <2>1. /\ \A d \in Dimension : Over(d)' = Over(d) /\ Gauge(d)' = Gauge(d)
        /\ sample' = sample
    BY <1>5, SameLoad DEF Tick, vars
  <2>2. /\ sinceScrape' = sinceScrape + 1 /\ sinceScrape + 1 <= ScrapeInterval
        /\ settled' = IF settled < Bound + 1 THEN settled + 1 ELSE settled
        /\ sinceUnder' = [d \in Dimension |-> IF Over(d) THEN
               IF sinceUnder[d] < Reach + 1 THEN sinceUnder[d] + 1 ELSE sinceUnder[d] ELSE 0]
    BY <1>0, <1>5, Intervals DEF Tick, Capped
  <2>3. settled' > sinceScrape' => settled > sinceScrape
    BY <1>0, <2>2, Intervals
  <2>4. \A d \in Dimension : sinceUnder[d] <= sinceScrape => sinceUnder'[d] <= sinceScrape'
    BY <1>0, <2>2, Intervals
  <2> QED
    BY <1>0, <2>1, <2>2, <2>3, <2>4 DEF SampleFollows, UnderIsNow, SampleWasUnder
<1>6. ASSUME ChainNext
      PROVE  \/ \E r \in Request : Serve(r)
             \/ Scrape \/ ScrapeFails \/ PollFails \/ Tick
             \/ UNCHANGED <<vars, sample, sinceScrape, history>>
  BY <1>6 DEF ChainNext, OtherQuery, Poll
<1>7. CASE UNCHANGED allVars
  BY <1>3, <1>7 DEF allVars, chainVars
<1> QED
  BY <1>1, <1>2, <1>3, <1>4, <1>5, <1>6, <1>7

(* Every step keeps what the cache follows.                                *)
LEMMA CacheStep ==
  ASSUME CInv, [ChainNext]_allVars
  PROVE  CacheFollows' /\ CacheWasUnder'
<1>0. /\ ChainTypeOK /\ CacheFollows /\ CacheWasUnder
      /\ settled \in 0 .. Bound + 1
      /\ \A d \in Dimension : sinceUnder[d] \in 0 .. Reach + 1
      /\ \A d \in Dimension : cache[d] # NoEntry =>
           cache[d].left \in 0 .. LongestTTL /\ Age(cache[d]) \in 0 .. LongestTTL
  BY Intervals DEF CInv, ChainTypeOK, Entry, Age
<1> USE DEF Age
<1>1. ASSUME NEW r \in Request, Serve(r)
      PROVE  CacheFollows' /\ CacheWasUnder'
  <2>1. /\ cache' = cache
        /\ sinceUnder' = [d \in Dimension |-> IF Over(d)' THEN sinceUnder[d] ELSE 0]
        /\ settled' = IF \E d \in Dimension : Over(d)' # Over(d) THEN 0 ELSE settled
    BY <1>1 DEF Serve, chainVars
  <2>2. CacheFollows'
    <3>1. CASE \E d \in Dimension : Over(d)' # Over(d)
      BY <1>0, <2>1, <3>1, Intervals DEF CacheFollows
    <3>2. CASE \A d \in Dimension : Over(d)' = Over(d)
      BY <1>0, <2>1, <3>2 DEF CacheFollows, Gauge
    <3> QED
      BY <3>1, <3>2
  <2>3. CacheWasUnder'
    BY <1>0, <2>1, Intervals DEF CacheWasUnder
  <2> QED
    BY <2>2, <2>3
<1>2. ASSUME UNCHANGED <<vars, sinceUnder>>, settled' = settled,
             NEW D \in SUBSET Dimension, NEW ttl \in 0 .. LongestTTL,
             cache' = [d \in Dimension |-> IF d \in D THEN Left(d, ttl) ELSE cache[d]]
      PROVE  CacheFollows' /\ CacheWasUnder'
  <2>1. \A d \in Dimension : Gauge(d)' = Gauge(d)
    BY <1>2, SameLoad DEF vars
  <2>2. ASSUME NEW d \in Dimension, cache'[d] # NoEntry
        PROVE  /\ settled > ScrapeInterval + Age(cache'[d]) => cache'[d].reading = Gauge(d)
               /\ cache'[d].reading = "under"
                    => sinceUnder[d] <= ScrapeInterval + Age(cache'[d])
    <3>1. CASE d \in D
      BY <1>2, <2>2, <3>1, QueryFollows
    <3>2. CASE d \notin D
      BY <1>0, <1>2, <2>2, <3>2 DEF CacheFollows, CacheWasUnder
    <3> QED
      BY <3>1, <3>2
  <2> QED
    BY <1>2, <2>1, <2>2 DEF CacheFollows, CacheWasUnder
<1>3. ASSUME NEW d \in Dimension, NEW ttl \in 0 .. LongestTTL, OtherQuery(d, ttl)
      PROVE  CacheFollows' /\ CacheWasUnder'
  <2>1. cache' = [e \in Dimension |-> IF e \in {d} THEN Left(e, ttl) ELSE cache[e]]
    BY <1>0, <1>3 DEF OtherQuery, ChainTypeOK
  <2> QED
    BY <1>2, <1>3, <2>1 DEF OtherQuery, history
<1>4. CASE Poll
  <2>1. cache' = [e \in Dimension |->
                    IF e \in Dimension THEN Left(e, CacheTTL) ELSE cache[e]]
    BY <1>4 DEF Poll
  <2> QED
    BY <1>2, <1>4, <2>1, Intervals DEF Poll, history
<1>5. CASE UNCHANGED <<vars, cache, sinceUnder>> /\ settled' \in {0, settled}
  <2>1. \A d \in Dimension : Gauge(d)' = Gauge(d)
    BY <1>5, SameLoad DEF vars
  <2>2. CASE settled' = settled
    BY <1>0, <1>5, <2>1, <2>2 DEF CacheFollows, CacheWasUnder
  <2>3. CASE settled' = 0
    BY <1>0, <1>5, <2>1, <2>3, Intervals DEF CacheFollows, CacheWasUnder
  <2> QED
    BY <1>5, <2>2, <2>3
<1>6. CASE Tick
  <2>1. \A d \in Dimension : Gauge(d)' = Gauge(d)
    BY <1>6, SameLoad DEF Tick, vars
  <2>2. /\ settled' = IF settled < Bound + 1 THEN settled + 1 ELSE settled
        /\ sinceUnder' = [d \in Dimension |-> IF Over(d) THEN
               IF sinceUnder[d] < Reach + 1 THEN sinceUnder[d] + 1 ELSE sinceUnder[d] ELSE 0]
    BY <1>6 DEF Tick, Capped
  <2>3. ASSUME NEW d \in Dimension, cache'[d] # NoEntry
        PROVE  /\ settled' > ScrapeInterval + Age(cache'[d]) => cache'[d].reading = Gauge(d)'
               /\ cache'[d].reading = "under"
                    => sinceUnder'[d] <= ScrapeInterval + Age(cache'[d])
    <3>1. /\ cache[d] # NoEntry /\ cache[d].left \in 0 .. LongestTTL
          /\ cache'[d].reading = cache[d].reading /\ cache'[d].left = cache[d].left - 1
          /\ cache[d].left - 1 >= 0
      BY <1>0, <1>6, <2>3, TickAges, Intervals DEF Entry
    <3>2. settled' > ScrapeInterval + Age(cache'[d]) => settled > ScrapeInterval + Age(cache[d])
      BY <1>0, <2>2, <3>1, Intervals
    <3>3. sinceUnder[d] <= ScrapeInterval + Age(cache[d])
            => sinceUnder'[d] <= ScrapeInterval + Age(cache'[d])
      BY <1>0, <2>2, <3>1, Intervals
    <3> QED
      BY <1>0, <2>1, <3>1, <3>2, <3>3 DEF CacheFollows, CacheWasUnder
  <2> QED
    BY <2>3 DEF CacheFollows, CacheWasUnder
<1>7. ASSUME [ChainNext]_allVars
      PROVE  \/ \E r \in Request : Serve(r)
             \/ \E d \in Dimension, ttl \in 0 .. LongestTTL : OtherQuery(d, ttl)
             \/ Poll \/ Tick
             \/ UNCHANGED <<vars, cache, sinceUnder>> /\ settled' \in {0, settled}
  BY <1>7 DEF ChainNext, Scrape, ScrapeFails, PollFails, history, allVars, chainVars
<1> QED
  BY <1>1, <1>3, <1>4, <1>5, <1>6, <1>7

(* Every step keeps what the metric follows.                               *)
LEMMA MetricStep ==
  ASSUME CInv, [ChainNext]_allVars
  PROVE  MetricFollows'
<1>0. /\ ChainTypeOK /\ MetricFollows
      /\ settled \in 0 .. Bound + 1 /\ sincePoll \in 0 .. PollingInterval
  BY DEF CInv, ChainTypeOK
<1>1. ASSUME NEW r \in Request, Serve(r)
      PROVE  MetricFollows'
  <2>1. /\ metric' = metric /\ sincePoll' = sincePoll
        /\ settled' = IF \E d \in Dimension : Over(d)' # Over(d) THEN 0 ELSE settled
    BY <1>1 DEF Serve, chainVars
  <2>2. CASE \E d \in Dimension : Over(d)' # Over(d)
    BY <1>0, <2>1, <2>2, Intervals DEF MetricFollows
  <2>3. CASE \A d \in Dimension : Over(d)' = Over(d)
    BY <1>0, <2>1, <2>3 DEF MetricFollows, Saturated
  <2> QED
    BY <2>2, <2>3
<1>2. CASE Poll
  <2>1. /\ Saturated' = Saturated /\ settled' = settled /\ sincePoll' = 0
    BY <1>2, SameLoad DEF Poll, vars, history
  <2>2. ASSUME settled > Reach
        PROVE  metric' = "over" <=> Saturated
    <3>1. \A d \in Dimension : Got(d, CacheTTL) = Gauge(d)
      BY <2>2, QueryFollows, Intervals
    <3>2. metric' = IF \E d \in Dimension : Got(d, CacheTTL) = "over" THEN "over" ELSE "under"
      BY <1>2, <3>1 DEF Poll, Gauge
    <3> QED
      BY <3>1, <3>2 DEF Gauge, Saturated
  <2> QED
    BY <2>1, <2>2, Intervals DEF MetricFollows
<1>3. CASE UNCHANGED <<vars, metric, sincePoll>> /\ settled' \in {0, settled}
  <2>1. Saturated' = Saturated
    BY <1>3, SameLoad DEF vars
  <2> QED
    BY <1>0, <1>3, <2>1, Intervals DEF MetricFollows
<1>4. CASE PollFails
  BY <1>4, Intervals DEF PollFails, MetricFollows
<1>5. CASE Tick
  <2>1. Saturated' = Saturated /\ metric' = metric
    BY <1>5, SameLoad DEF Tick, vars
  <2>2. /\ sincePoll' = sincePoll + 1 /\ sincePoll + 1 <= PollingInterval
        /\ settled' = IF settled < Bound + 1 THEN settled + 1 ELSE settled
    BY <1>0, <1>5, Intervals DEF Tick, Capped
  <2>3. settled' > Reach + sincePoll' => settled > Reach + sincePoll
    BY <1>0, <2>2, Intervals
  <2> QED
    BY <1>0, <2>1, <2>2, <2>3 DEF MetricFollows
<1>6. ASSUME [ChainNext]_allVars
      PROVE  \/ \E r \in Request : Serve(r)
             \/ Poll \/ PollFails \/ Tick
             \/ UNCHANGED <<vars, metric, sincePoll>> /\ settled' \in {0, settled}
  BY <1>6 DEF ChainNext, Scrape, ScrapeFails, OtherQuery, history, allVars, chainVars
<1> QED
  BY <1>1, <1>2, <1>3, <1>4, <1>5, <1>6

(* Every step of the chain preserves the invariant.                        *)
LEMMA ChainStep ==
  ASSUME CInv, MInv', [ChainNext]_allVars
  PROVE  CInv'
<1>1. ChainTypeOK'
  BY ChainTypes
<1>2. SampleFollows' /\ UnderIsNow' /\ SampleWasUnder'
  BY SampleStep
<1>3. CacheFollows' /\ CacheWasUnder'
  BY CacheStep
<1>4. MetricFollows'
  BY MetricStep
<1> QED
  BY <1>1, <1>2, <1>3, <1>4 DEF CInv

(* The inductive invariant of the chain: what each stage holds is no older *)
(* than the intervals before it allow.                                     *)
THEOREM ChainInvariance == ChainSpec => []CInv
<1>1. CInv /\ MInv' /\ [ChainNext]_allVars => CInv'
  BY ChainStep
<1> QED
  BY ChainInitial, ChainKeepsMock, <1>1, PTL DEF ChainSpec

(* Every variable of the chain stays in its type.                          *)
THEOREM ChainTypeCorrect == ChainSpec => []ChainTypeOK
<1>1. CInv => ChainTypeOK
  BY DEF CInv
<1> QED
  BY <1>1, ChainInvariance, PTL

(* In the chain, too, the gauges that Prometheus scrapes are true.         *)
THEOREM ChainGaugesAreTrue == ChainSpec => []GaugesAreTrue
  BY ChainRunsMock, MockGaugesAreTrue, PTL

(* Nor does a request of the chain wait for a slot that is free.           *)
THEOREM ChainLosesNoWakeup == ChainSpec => []NoLostWakeup
  BY ChainRunsMock, MockLosesNoWakeup, PTL

(* A scrape, a cache life and a poll after the load came to rest, KEDA     *)
(* scales on it: the sum of the three intervals bounds what fetch and      *)
(* metrics.CachingSource.Get make of a sample, whatever their phases.      *)
THEOREM TheMetricFollows == ChainSpec => []MetricFollowsLoad
<1>1. CInv => MetricFollowsLoad
  <2> SUFFICES ASSUME CInv, settled > Bound
               PROVE  metric = "over" <=> Saturated
    BY DEF MetricFollowsLoad
  <2>1. settled \in Nat /\ sincePoll \in 0 .. PollingInterval
    BY Intervals DEF CInv, ChainTypeOK
  <2>2. settled > Reach + sincePoll
    BY <2>1, Intervals
  <2> QED
    BY <2>2 DEF CInv, MetricFollows
<1> QED
  BY <1>1, ChainInvariance, PTL

(* With treatMissingAsError, the metric falls below its target only when   *)
(* both gauges were under no longer than a scrape and a cache life ago.    *)
THEOREM ScaleInsAreReal == ChainSpec => ScaleInIsReal
<1>1. ASSUME CInv, [ChainNext]_allVars, strict, metric = "over", metric' = "under",
             NEW d \in Dimension
      PROVE  sinceUnder[d] <= Reach
  <2>1. Poll
    BY <1>1 DEF ChainNext, Serve, Scrape, ScrapeFails, OtherQuery, PollFails, Tick,
                allVars, chainVars
  <2>2. Got(d, CacheTTL) # "absent" /\ Got(d, CacheTTL) # "over"
    BY <1>1, <2>1 DEF Poll
  <2> QED
    BY <1>1, <2>2, QueryFollows, Intervals
<1>2. CInv /\ [ChainNext]_allVars =>
        [ strict /\ metric = "over" /\ metric' = "under"
            => \A d \in Dimension : sinceUnder[d] <= Reach ]_allVars
  BY <1>1
<1> QED
  BY <1>2, ChainInvariance, PTL DEF ChainSpec, ScaleInIsReal

=============================================================================
