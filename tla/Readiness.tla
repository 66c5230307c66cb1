------------------------------- MODULE Readiness -------------------------------
(***************************************************************************)
(* The loop that readiness closes: KEDA's calls make the scaler query      *)
(* Prometheus, queries feed Health, the kubelet's probe of /readyz puts    *)
(* the pod in or out of the Service, and KEDA reaches the scaler only      *)
(* through the Service.                                                    *)
(*                                                                         *)
(* A query is one step here (Scaler has its interleavings), and so is a    *)
(* probe.  Times are kept as ages, in ticks, and stop growing once nothing *)
(* distinguishes them, so time itself is unbounded.                        *)
(***************************************************************************)
EXTENDS Integers

CONSTANTS
  Window,            (* READY_WINDOW.                                      *)
  TTL,               (* cacheTTL of the objects KEDA asks for; 0 disables. *)
  PollPeriod,        (* KEDA asks at least this often while connected.     *)
  DialPeriod,        (* KEDA dials at the latest this long after a call.    *)
  ProbePeriod,       (* periodSeconds of the readiness probe.              *)
  FailureThreshold   (* Failed probes in a row that take the pod out.      *)

ASSUME ReadinessAssumption ==
  /\ Window \in Nat \ {0} /\ TTL \in Nat
  /\ PollPeriod \in Nat \ {0} /\ DialPeriod \in Nat \ {0}
  /\ ProbePeriod \in Nat \ {0} /\ FailureThreshold \in Nat \ {0}

VARIABLES
  up,          (* Prometheus answers.                                      *)
  hasOK,       (* Health.hasOK                                             *)
  lastOK,      (* Age of Health.lastOK.                                    *)
  startedAt,   (* Age of Health.startedAt.                                 *)
  cached,      (* Age of the cached reading, or NoReading.                 *)
  endpoint,    (* The Service routes to the pod.                           *)
  failed,      (* Probes failed in a row.                                  *)
  connected,   (* KEDA holds a connection to the scaler.                   *)
  quiet,       (* Time since KEDA's last call, or the start.              *)
  sinceProbe,
  silence      (* History: time since Prometheus answered, or the start.   *)

health == <<hasOK, lastOK, startedAt>>
pod == <<endpoint, failed, sinceProbe>>
vars == <<up, health, cached, pod, connected, quiet, silence>>

NoReading == TTL + 1
MaxQuiet == IF PollPeriod < DialPeriod THEN DialPeriod ELSE PollPeriod
ProbeDelay == FailureThreshold * ProbePeriod
MaxSilence == Window + TTL + ProbeDelay   \* as far as silence counts

-----------------------------------------------------------------------------

(* NewHealth and NewCachingSource: a process that has just started.  The   *)
(* pod is out of the Service until a probe passes.                         *)
Init ==
  /\ up \in BOOLEAN
  /\ hasOK = FALSE /\ lastOK = 0 /\ startedAt = 0
  /\ cached = NoReading
  /\ endpoint = FALSE /\ failed = 0 /\ sinceProbe = 0
  /\ connected = FALSE /\ quiet = 0
  /\ silence = 0

(* The scaler's process dies and its container starts again.               *)
Restart ==
  /\ hasOK' = FALSE /\ lastOK' = 0 /\ startedAt' = 0
  /\ cached' = NoReading
  /\ endpoint' = FALSE /\ failed' = 0 /\ sinceProbe' = 0
  /\ connected' = FALSE /\ quiet' = 0
  /\ silence' = 0
  /\ UNCHANGED up

Ready == IF hasOK THEN lastOK < Window ELSE startedAt < Window

(* Mutant: only the first success is dated.                                *)
RecordFirstSuccess ==
  hasOK' = TRUE /\ lastOK' = (IF hasOK THEN lastOK ELSE 0) /\ UNCHANGED startedAt

RecordSuccess == hasOK' = TRUE /\ lastOK' = 0 /\ UNCHANGED startedAt

Hit == TTL > 0 /\ cached <= TTL

(* Mutant: serving a reading from the cache renews it.                     *)
QueryHitRenews ==
  /\ connected
  /\ Hit
  /\ RecordSuccess
  /\ cached' = 0
  /\ quiet' = 0
  /\ UNCHANGED <<up, pod, connected, silence>>

(* queryInstant records a success for a cache hit too.                     *)
QueryHit ==
  /\ connected
  /\ Hit
  /\ RecordSuccess
  /\ quiet' = 0
  /\ UNCHANGED <<up, cached, pod, connected, silence>>

(* Mutant: a reading expires two TTLs from now.                            *)
QueryAnsweredKeptTwice ==
  /\ connected
  /\ ~Hit
  /\ up
  /\ RecordSuccess
  /\ cached' = IF TTL > 0 THEN -TTL ELSE NoReading
  /\ silence' = 0
  /\ quiet' = 0
  /\ UNCHANGED <<up, pod, connected>>

QueryAnswered ==
  /\ connected
  /\ ~Hit
  /\ up
  /\ RecordSuccess
  /\ cached' = IF TTL > 0 THEN 0 ELSE NoReading
  /\ silence' = 0
  /\ quiet' = 0
  /\ UNCHANGED <<up, pod, connected>>

QueryFails ==
  /\ connected
  /\ ~Hit
  /\ ~up
  /\ quiet' = 0
  /\ UNCHANGED <<up, health, cached, pod, connected, silence>>

Query == QueryHit \/ QueryAnswered \/ QueryFails

(* The kubelet gets /readyz and the Service follows.  One probe that       *)
(* passes puts the pod in; it takes FailureThreshold failures in a row to  *)
(* take it out.  A connection KEDA holds already stays up.                 *)
ProbePasses ==
  /\ sinceProbe = ProbePeriod
  /\ Ready
  /\ endpoint' = TRUE /\ failed' = 0
  /\ sinceProbe' = 0
  /\ UNCHANGED <<up, health, cached, connected, quiet, silence>>

ProbeFails ==
  /\ sinceProbe = ProbePeriod
  /\ ~Ready
  /\ failed' = IF failed < FailureThreshold THEN failed + 1 ELSE failed
  /\ endpoint' = (endpoint /\ failed' < FailureThreshold)
  /\ sinceProbe' = 0
  /\ UNCHANGED <<up, health, cached, connected, quiet, silence>>

Probe == ProbePasses \/ ProbeFails

(* KEDA dials the scaler's Service, which must have an endpoint.           *)
Connect ==
  /\ ~connected
  /\ endpoint
  /\ connected' = TRUE
  /\ UNCHANGED <<up, health, cached, pod, quiet, silence>>

(* KEDA restarts, or the connection breaks.                                *)
Disconnect ==
  /\ connected
  /\ connected' = FALSE
  /\ UNCHANGED <<up, health, cached, pod, quiet, silence>>

PrometheusChanges ==
  /\ up' = ~up
  /\ UNCHANGED <<health, cached, pod, connected, quiet, silence>>

Older(a, limit) == IF a < limit THEN a + 1 ELSE a

(* Time passes, but not past a poll, a dial or a probe that is due.        *)
Tick ==
  /\ connected => quiet < PollPeriod
  /\ endpoint /\ ~connected => quiet < DialPeriod
  /\ sinceProbe < ProbePeriod
  /\ lastOK' = Older(lastOK, Window)
  /\ startedAt' = Older(startedAt, Window)
  /\ cached' = Older(cached, NoReading)
  /\ quiet' = Older(quiet, MaxQuiet)
  /\ sinceProbe' = sinceProbe + 1
  /\ silence' = Older(silence, MaxSilence)
  /\ UNCHANGED <<up, hasOK, endpoint, failed, connected>>

Next ==
  \/ Query \/ Probe \/ Connect \/ Disconnect \/ Restart \/ PrometheusChanges \/ Tick

Spec == Init /\ [][Next]_vars

(* Time passes, KEDA polls and dials, the kubelet probes.  A KEDA whose    *)
(* connection breaks again and again still gets a call through now and     *)
(* then.  Nothing has to break: the other steps have no fairness.          *)
Fairness == WF_vars(Tick) /\ SF_vars(Query) /\ WF_vars(Probe) /\ WF_vars(Connect)

FairSpec == Spec /\ Fairness

-----------------------------------------------------------------------------

(* Every age is within its bound.                                          *)
TypeOK ==
  /\ up \in BOOLEAN /\ hasOK \in BOOLEAN /\ endpoint \in BOOLEAN /\ connected \in BOOLEAN
  /\ lastOK \in 0..Window /\ startedAt \in 0..Window
  /\ cached \in 0..NoReading /\ silence \in 0..MaxSilence
  /\ failed \in 0..FailureThreshold
  /\ quiet \in 0..MaxQuiet /\ sinceProbe \in 0..ProbePeriod

(* Hits count as successes and probes lag, but not without end: /readyz    *)
(* passes for less than a window and a ttl after Prometheus (or the        *)
(* process) last gave a sign of life, and the pod is in the Service for    *)
(* less than FailureThreshold probes longer.                               *)
EndpointMeansRecentAnswer ==
  /\ Ready => silence < Window + TTL
  /\ endpoint => silence < Window + TTL + ProbeDelay

(* An outage that lasts takes the pod out of the Service, and nothing but  *)
(* a new process (which starts out ready) brings it back.                  *)
OutageMarksUnready ==
  (<>[]~up /\ <>[][~Restart]_vars) => <>[]~endpoint

(* As long as KEDA stays connected and Prometheus answers, the pod comes   *)
(* back into the Service and stays, whatever outage came before: KEDA's    *)
(* polls are frequent enough, hit or miss, to keep the window from closing. *)
StaysReadyWhileConnected == <>[](up /\ connected) => <>[]endpoint

(* What config.go says of a stream that gives up, "letting KEDA            *)
(* re-establish it": with Prometheus back for good and a scaler that has   *)
(* served KEDA before and keeps running, KEDA is connected again and       *)
(* again.  It is not: an unready pod is queried by no one, so Health never *)
(* records the success that would make it ready, and a KEDA that lost its  *)
(* connection in the meantime cannot dial.                                 *)
KedaCanReestablish == <>[](up /\ hasOK) => []<>connected

=============================================================================
