-------------------------------- MODULE Stream --------------------------------
(***************************************************************************)
(* main.go: StreamIsActive, the loop that polls IsActive for one           *)
(* ScaledObject and pushes each answer to KEDA, with its timer, its        *)
(* backoff and its count of consecutive failures; and KEDA, which opens    *)
(* the stream again whenever it ends.                                      *)
(*                                                                         *)
(* Durations are Go's int64: they wrap beyond MaxInt.  A timer armed with  *)
(* a duration fires some time later; how much later is not modelled, only  *)
(* the duration it was armed with.                                         *)
(***************************************************************************)
EXTENDS Config

CONSTANTS
  Metadata,      (* Metadata of the ScaledObjects KEDA may stream for.     *)
  MaxInt         (* The largest time.Duration.                             *)

(* What the loop needs of its settings.  A sixteenth of the longest        *)
(* Duration is 18 years: no timer armed with more fires within the life of *)
(* a process, so what the loop would do after it is not of interest.       *)
Interval == {i \in Nat \ {0} : 16 * i <= MaxInt}
MaxFailures == Nat \ {0}

(* Metadata may hold any integer, negative and zero ones included.         *)
ASSUME StreamAssumption ==
  /\ MaxInt \in Nat
  /\ Default.StreamPollInterval \in Interval
  /\ Default.StreamMaxConsecutiveFailures \in MaxFailures
  /\ \A m \in Metadata :
       /\ \A d \in Field(m, "streamPollInterval") : d \in Int /\ 16 * d <= MaxInt
       /\ Field(m, "streamMaxConsecutiveFailures") \subseteq Int

VARIABLES
  loop,       (* Where the handler is; "closed" when no stream is open.    *)
  interval,   (* c.StreamPollInterval.                                     *)
  max,        (* c.StreamMaxConsecutiveFailures.                           *)
  timer,      (* "armed", "fired" (timer.C holds a tick) or "off".         *)
  wait,       (* The duration the timer was last armed with.               *)
  backoff,
  failures,   (* consecutiveFailures                                       *)
  client,     (* KEDA's end is there: stream.Context() is not done.        *)
  up          (* A query would succeed.                                    *)

vars == <<loop, interval, max, timer, wait, backoff, failures, client, up>>
config == <<interval, max>>

-----------------------------------------------------------------------------

maxStreamBackoffMultiplier == 8

(* int64 arithmetic.                                                       *)
Wrap(d) == ((d + MaxInt + 1) % (2 * MaxInt + 2)) - MaxInt - 1

BackoffUncapped(current, base) == Wrap(current * 2)      \* mutant: no cap
nextStreamBackoff(current, base) ==
  LET next == Wrap(current * 2)
      capped == Wrap(base * maxStreamBackoffMultiplier)
  IN IF next > capped THEN capped ELSE next

Arm(d) == timer' = "armed" /\ wait' = d

Init ==
  /\ loop = "closed" /\ timer = "off" /\ wait = 0 /\ backoff = 0 /\ failures = 0
  /\ interval = Default.StreamPollInterval
  /\ max = Default.StreamMaxConsecutiveFailures
  /\ client = FALSE
  /\ up \in BOOLEAN

(* KEDA calls StreamIsActive.                                              *)
Open ==
  /\ loop = "closed"
  /\ loop' = "select"
  /\ \E m \in Metadata :
       /\ Parses(m)
       /\ interval' = Parse(m).StreamPollInterval
       /\ max' = Parse(m).StreamMaxConsecutiveFailures
  /\ Arm(interval')
  /\ backoff' = interval'
  /\ failures' = 0
  /\ client' = TRUE
  /\ UNCHANGED up

(* timer.Stop() runs as the handler returns.                               *)
Close ==
  /\ loop' = "closed"
  /\ timer' = "off"
  /\ UNCHANGED wait

TimerFires ==
  /\ timer = "armed"
  /\ timer' = "fired"
  /\ UNCHANGED <<loop, config, wait, backoff, failures, client, up>>

(* Mutant: the select watches a context that is never done.                *)
SelectDoneUnheard == FALSE /\ UNCHANGED vars

(* The two cases of the select; either is taken when both are ready.       *)
SelectDone ==
  /\ loop = "select"
  /\ ~client
  /\ Close
  /\ UNCHANGED <<config, backoff, failures, client, up>>

SelectTick ==
  /\ loop = "select"
  /\ timer = "fired"
  /\ loop' = "poll"
  /\ timer' = "off"
  /\ UNCHANGED <<config, wait, backoff, failures, client, up>>

(* Mutant: the failure is not counted.                                     *)
PollFailsUncounted ==
  /\ loop = "poll"
  /\ ~up \/ ~client
  /\ failures < max
  /\ backoff' = nextStreamBackoff(backoff, interval)
  /\ Arm(backoff')
  /\ loop' = "select"
  /\ UNCHANGED <<config, failures, client, up>>

(* Mutant: continue without timer.Reset.                                   *)
PollFailsUnarmed ==
  /\ loop = "poll"
  /\ ~up \/ ~client
  /\ failures' = failures + 1
  /\ failures' < max
  /\ backoff' = nextStreamBackoff(backoff, interval)
  /\ loop' = "select"
  /\ UNCHANGED <<config, timer, wait, client, up>>

(* IsActive fails: Prometheus does, or the stream's context is done.       *)
PollFails ==
  /\ loop = "poll"
  /\ ~up \/ ~client
  /\ failures' = failures + 1
  /\ failures' < max
  /\ backoff' = nextStreamBackoff(backoff, interval)
  /\ Arm(backoff')
  /\ loop' = "select"
  /\ UNCHANGED <<config, client, up>>

PollFailsForGood ==
  /\ loop = "poll"
  /\ ~up \/ ~client
  /\ failures' = failures + 1
  /\ failures' >= max
  /\ Close
  /\ UNCHANGED <<config, backoff, client, up>>

(* Mutant: a success forgives one failure.                                 *)
PollSucceedsForgivesOne ==
  /\ loop = "poll"
  /\ up
  /\ failures' = failures - 1
  /\ backoff' = interval
  /\ loop' = "send"
  /\ UNCHANGED <<config, timer, wait, client, up>>

(* IsActive succeeds; stream.Send comes next.  A poll under way when the   *)
(* client leaves may still succeed, from the cache or by arriving in time. *)
PollSucceeds ==
  /\ loop = "poll"
  /\ up
  /\ failures' = 0
  /\ backoff' = interval
  /\ loop' = "send"
  /\ UNCHANGED <<config, timer, wait, client, up>>

SendSucceeds ==
  /\ loop = "send"
  /\ Arm(interval)
  /\ loop' = "select"
  /\ UNCHANGED <<config, backoff, failures, client, up>>

SendFails ==
  /\ loop = "send"
  /\ ~client
  /\ Close
  /\ UNCHANGED <<config, backoff, failures, client, up>>

ClientLeaves ==
  /\ loop # "closed"
  /\ client
  /\ client' = FALSE
  /\ UNCHANGED <<loop, config, timer, wait, backoff, failures, up>>

PrometheusChanges ==
  /\ up' = ~up
  /\ UNCHANGED <<loop, config, timer, wait, backoff, failures, client>>

Poll == PollFails \/ PollFailsForGood \/ PollSucceeds
Send == SendSucceeds \/ SendFails

Next ==
  \/ Open \/ TimerFires \/ SelectDone \/ SelectTick \/ Poll \/ Send
  \/ ClientLeaves \/ PrometheusChanges

Spec == Init /\ [][Next]_vars

(* Armed timers fire, the handler's goroutine runs, IsActive and Send      *)
(* return, and KEDA, as long as it can reach the Service, opens a stream   *)
(* that ended again.  Go's select takes a ready case at random, so one     *)
(* that is ready again and again is taken.                                 *)
Fairness ==
  /\ WF_vars(Open) /\ WF_vars(TimerFires)
  /\ WF_vars(SelectTick) /\ SF_vars(SelectDone)
  /\ WF_vars(Poll) /\ WF_vars(Send)

FairSpec == Spec /\ Fairness

-----------------------------------------------------------------------------

TypeOK ==
  /\ loop \in {"closed", "select", "poll", "send"}
  /\ interval \in Interval /\ max \in MaxFailures
  /\ timer \in {"armed", "fired", "off"}
  /\ wait \in Int /\ backoff \in Int /\ failures \in Nat
  /\ client \in BOOLEAN /\ up \in BOOLEAN

(* What the loop waits for after n failures in a row.                      *)
Law(n) ==
  CASE n = 0 -> interval
    [] n = 1 -> 2 * interval
    [] n = 2 -> 4 * interval
    [] OTHER -> 8 * interval

(* A waiting stream waits for its interval doubled once per failure since  *)
(* the last success and at most eightfold, and never with no tick ahead.   *)
BackoffLaw ==
  loop = "select" => timer # "off" /\ wait = Law(failures) /\ failures < max

(* Whatever the metadata says, malformed, zero and negative values         *)
(* included, and however long queries fail, the loop never spins: a stream *)
(* always waits for a positive time, and only a positive limit ends it.    *)
NeverSpins == loop = "select" => wait > 0 /\ max > 0

(* A stream whose client left ends, whatever its polls and sends do.       *)
StreamEndsAfterItsClient == ~client ~> loop = "closed"

(* While queries keep failing no stream is held open indefinitely.         *)
FailingStreamEnds == <>[]~up => []<>(loop = "closed")

(* Once queries succeed and the client stays, answers are pushed again     *)
(* and again, whatever outage, backoff or reconnection came before.  That  *)
(* a stream that ended is opened again is the fairness of Open: KEDA must  *)
(* be able to reach the scaler, which it is not when its connection broke  *)
(* in a long outage (KedaCanReestablish of Readiness).                     *)
PushesResume == <>[](up /\ (loop # "closed" => client)) => []<>(loop = "send")

=============================================================================
