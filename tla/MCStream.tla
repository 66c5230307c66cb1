-------------------------------- MODULE MCStream --------------------------------
(* Stream with every kind of value its two keys can have.                  *)
EXTENDS Stream

MCDefault ==
  [QueueQuery |-> "queue", KVQuery |-> "kv", QueueThreshold |-> <<3, 1>>,
   KVThreshold |-> <<7, 10>>, Activation |-> <<1, 1>>, CacheTTL |-> 1,
   StreamPollInterval |-> 3, StreamMaxConsecutiveFailures |-> 5]

(* Unset or malformed, negative, zero, and two good ones.                  *)
MCMetadata ==
  [prometheusAddress : {{}, {"prom"}},
   streamPollInterval : {{}, {-5}, {0}, {1}, {7}},
   streamMaxConsecutiveFailures : {{}, {-1}, {0}, {1}, {2}}]

=============================================================================
