----------------------------- MODULE MCSaturation -----------------------------
(* One ScaledObject's decisions, from the replies to its two queries to    *)
(* what IsActive and GetMetrics make of them: its metadata is fixed, the   *)
(* replies change from decision to decision.  Every combination of the     *)
(* sets below is reached.                                                  *)
EXTENDS Saturation, Config, Sequences

CONSTANTS Metadata, Reply

(* Thresholds, the activation and samples are what ParseFloat returns.     *)
ASSUME NumbersAssumption ==
  /\ \A m \in Metadata, key \in {"queueThreshold", "kvCacheThreshold", "activationThreshold"} :
       Field(m, key) \subseteq Float
  /\ {Default.QueueThreshold, Default.KVThreshold, Default.Activation} \subseteq Float
  /\ \A r \in Reply : r.result # <<>> => Head(r.result).number \subseteq Float

P == INSTANCE Prometheus

VARIABLES
  conf,      (* What Parse makes of the metadata.                          *)
  queue, kv  (* What Instant makes of the two replies.                     *)

vars == <<conf, queue, kv>>

MCDefault ==
  [QueueQuery |-> "waiting", KVQuery |-> "cache", QueueThreshold |-> <<3, 1>>,
   KVThreshold |-> <<7, 10>>, Activation |-> <<1, 1>>, CacheTTL |-> 15,
   StreamPollInterval |-> 10, StreamMaxConsecutiveFailures |-> 5]

(* Nothing that parses, a zero, a negative number, a number, Inf and NaN.  *)
MCMetadata ==
  [prometheusAddress : {{"prom"}},
   queueThreshold : {{}, {Zero}, {<<-1, 1>>}, {Inf}},
   kvCacheThreshold : {{}, {Zero}, {Inf}, {NaN}},
   activationThreshold : {{}, {Zero}, {<<-1, 1>>}, {TargetValue}},
   treatMissingAsError : {{}, {TRUE}}]

Body(series) == [http |-> "200", json |-> TRUE, result |-> series]
Numbers == {<<-1, 1>>, Zero, <<1, 2>>, <<3, 1>>, <<7, 2>>, Inf, NaN}

(* One series with a number, which is not one, or not a string; two        *)
(* series; none; a 503; a body that does not decode.                       *)
MCReply ==
  {Body(<< [text |-> TRUE, number |-> {v}] >>) : v \in Numbers}
    \cup {Body(<< [text |-> TRUE, number |-> {}] >>),
          Body(<< [text |-> FALSE, number |-> {}] >>),
          Body(<< [text |-> TRUE, number |-> {Zero}],
                  [text |-> TRUE, number |-> {Inf}] >>),
          Body(<<>>),
          [http |-> "503", json |-> TRUE, result |-> <<>>],
          [http |-> "200", json |-> FALSE, result |-> <<>>]}

Init ==
  /\ \E m \in Metadata : Parses(m) /\ conf = Parse(m)
  /\ queue = [err |-> "missing"] /\ kv = [err |-> "missing"]

Decide ==
  /\ \E asked, other \in Reply : queue' = P!Instant(asked) /\ kv' = P!Instant(other)
  /\ UNCHANGED conf

Spec == Init /\ [][Decide]_vars

(* saturationFor's errors, and the values that are in queue and kv.        *)
Hard(got) == got.err = "failed" \/ (got.err = "missing" /\ conf.TreatMissingAsError)
Replies == ~Hard(queue) /\ ~Hard(kv)
Reading(got) == IF got.err = "nil" THEN got.value ELSE Zero

score == Score(Reading(queue), conf.QueueThreshold, Reading(kv), conf.KVThreshold)

Limits(threshold) == Less(Zero, threshold)

(* The reading exceeds activation per cent of its threshold, or does not   *)
(* limit scaling and the activation is below the 0 it contributes.         *)
Over(got, threshold) ==
  IF Limits(threshold)
  THEN Less(Times(conf.Activation, threshold), Times(TargetValue, Reading(got)))
  ELSE Less(conf.Activation, Zero)

(* The ratio is not NaN.                                                   *)
Usable(got, threshold) ==
  Limits(threshold) => ~IsNaN(Reading(got)) /\ ~(Reading(got)[2] = 0 /\ threshold[2] = 0)

(* IsActive is true exactly when one of the dimensions on its own exceeds  *)
(* activationThreshold per cent of its threshold, whichever dimension it   *)
(* is and whatever its reply looked like, infinite readings included       *)
(* unless the threshold is infinite, too; a dimension whose threshold is   *)
(* not positive, NaN included, limits nothing whatever it reads, and an    *)
(* absent one the object tolerates reads as 0.                             *)
ActiveIffADimensionIsOver ==
  Replies /\ Usable(queue, conf.QueueThreshold) /\ Usable(kv, conf.KVThreshold) =>
    (Active(score, conf.Activation)
       <=> Over(queue, conf.QueueThreshold) \/ Over(kv, conf.KVThreshold))

RisesOrStays(got, next) ==
  /\ ~IsNaN(Reading(got)) /\ ~IsNaN(Reading(next))
  /\ ~Less(Reading(next), Reading(got))

(* Load that rises in one dimension and falls in none never lowers the     *)
(* score KEDA scales on.                                                   *)
MoreLoadNeverScoresLess ==
  [][ Replies /\ Replies' /\ RisesOrStays(queue, queue') /\ RisesOrStays(kv, kv')
        => ~Less(score', score) ]_vars

Saturated(got, threshold) == Limits(threshold) /\ Less(threshold, Reading(got))

(* main.go: the scaler "scales on whichever is closer to its threshold".   *)
(* A NaN reading, which Prometheus returns for 0/0 and ParseFloat accepts, *)
(* hides the other dimension however saturated that one is.                *)
SaturatedDimensionScalesOut ==
  Replies /\ (Saturated(queue, conf.QueueThreshold) \/ Saturated(kv, conf.KVThreshold))
    => Less(TargetValue, score)

=============================================================================
