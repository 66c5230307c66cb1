------------------------------- MODULE MCScaler -------------------------------
(* Two objects that share both their queries, crosswise, one of which      *)
(* treats an absent series as an error.                                    *)
EXTENDS Scaler, TLC

CONSTANTS lax, strict, Ttl

MCDefault ==
  [QueueQuery |-> "waiting", KVQuery |-> "cache", QueueThreshold |-> <<3, 1>>,
   KVThreshold |-> <<7, 10>>, Activation |-> <<1, 1>>, CacheTTL |-> 5,
   StreamPollInterval |-> 1, StreamMaxConsecutiveFailures |-> 5]

MCMetadata ==
  lax :> [prometheusAddress |-> {"prom"}, cacheTTL |-> {Ttl}, treatMissingAsError |-> {}]
  @@ strict :> [prometheusAddress |-> {"prom"}, cacheTTL |-> {Ttl},
                queueQuery |-> {"cache"}, kvCacheQuery |-> {"waiting"},
                treatMissingAsError |-> {TRUE}]

MCKey == {<<"prom", "waiting">>, <<"prom", "cache">>}

MCValue == {<<2, 1>>, <<9, 10>>}

Series(text, number) == [http |-> "200", json |-> TRUE,
                         result |-> << [text |-> text, number |-> number] >>]
NoSeries == [http |-> "200", json |-> TRUE, result |-> <<>>]
Unavailable == [http |-> "503", json |-> FALSE, result |-> <<>>]

(* Each query has a number of its own.                                     *)
MCReply ==
  <<"prom", "waiting">> :> {Series(TRUE, {<<2, 1>>}), NoSeries, Unavailable}
  @@ <<"prom", "cache">> :> {Series(TRUE, {<<9, 10>>}), NoSeries, Unavailable}
MCAbsent == [k \in MCKey |-> {Series(FALSE, {})}]

(* What the future of a state depends on: not the gauges, which the scaler *)
(* only writes, nor the arguments of calls that are over.                  *)
LiveState ==
  <<now, cache, flight, pc, ttl, result, began, landed, phase, context, groupErr, goroutine,
    reading, [q \in Query |-> IF pc[q] = "idle" THEN NoCaller ELSE key[q]],
    [r \in Request |-> IF phase[r] = "idle" THEN NoCaller ELSE object[r]]>>

(* The same, without CachingSource's history either.                       *)
LiveStateNoHistory ==
  <<now, cache, flight, pc, ttl, result, phase, context, groupErr, goroutine, reading,
    [q \in Query |-> IF pc[q] = "idle" THEN NoCaller ELSE key[q]],
    [r \in Request |-> IF phase[r] = "idle" THEN NoCaller ELSE object[r]]>>

RequestSymmetry == Permutations(Request)

=============================================================================
