------------------------------- MODULE Readings -------------------------------
(***************************************************************************)
(* What CachingSource promises to the callers of Get: each key has a       *)
(* latest shareable reading, which is only ever renewed by one that is not *)
(* older, and a call ends with that reading while it is young enough, or   *)
(* with one obtained on behalf of a call that is under way, shared by any  *)
(* number of calls for the same key.  Locks, flights and their leaders are *)
(* not here.                                                               *)
(***************************************************************************)
EXTENDS Integers

CONSTANTS Caller, Key, TTL, MaxTTL, Value, NoValue, NoReading

VARIABLES
  now,      (* The process's clock.                                        *)
  latest,   (* Each key's shareable reading and when it was renewed.       *)
  status,   (* Each caller's call: "idle", "asked" or "answered".          *)
  key, ttl, (* Its arguments.                                              *)
  since,    (* When it asked.                                              *)
  answer    (* What it got.                                                *)

vars == <<now, latest, status, key, ttl, since, answer>>

Shareable == {"nil", "missing"}
Unshareable == {"failed", "canceled"}

(* The answers the backend can have given by now.                          *)
Answers(errs) == [err : errs, value : Value \cup {NoValue}, asOf : 0 .. now]

NoAnswer == [err |-> "canceled", value |-> NoValue, asOf |-> 0]

Asking(k) == {c \in Caller : status[c] = "asked" /\ key[c] = k}

NotOlder(asOf, k) == latest[k] = NoReading \/ latest[k].answer.asOf <= asOf

Init ==
  /\ now = 0
  /\ latest = [k \in Key |-> NoReading]
  /\ status = [c \in Caller |-> "idle"]
  /\ key \in [Caller -> Key]
  /\ ttl = [c \in Caller |-> 0]
  /\ since = [c \in Caller |-> 0]
  /\ answer = [c \in Caller |-> NoAnswer]

Ask(c, k, t) ==
  /\ status[c] = "idle"
  /\ status' = [status EXCEPT ![c] = "asked"]
  /\ key' = [key EXCEPT ![c] = k]
  /\ ttl' = [ttl EXCEPT ![c] = t]
  /\ since' = [since EXCEPT ![c] = now]
  /\ UNCHANGED <<now, latest, answer>>

(* The backend evaluated the query for a call that is under way and allows *)
(* caching: a value or an absent series, never an error.                   *)
Renew(k) ==
  /\ UNCHANGED <<now, status, key, ttl, since, answer>>
  /\ \E c \in Asking(k) : \E a \in Answers(Shareable) :
       /\ ttl[c] > 0 /\ since[c] <= a.asOf
       /\ NotOlder(a.asOf, k)
       /\ latest' = [latest EXCEPT ![k] = [answer |-> a, renewed |-> now]]

(* A call that allows caching gets the latest reading.                     *)
Share(c) ==
  /\ status[c] = "asked"
  /\ ttl[c] > 0
  /\ latest[key[c]] # NoReading
  /\ latest[key[c]].renewed + MaxTTL >= now
  /\ status' = [status EXCEPT ![c] = "answered"]
  /\ answer' = [answer EXCEPT ![c] = latest[key[c]].answer]
  /\ UNCHANGED <<now, latest, key, ttl, since>>

(* Some of the calls under way for a key get one and the same answer, that *)
(* the backend gave after one of them had asked.  It is not older than the *)
(* reading the others share.                                               *)
Answer(k) ==
  /\ UNCHANGED <<now, latest, key, ttl, since>>
  /\ \E served \in SUBSET Asking(k) :
       /\ status' = [c \in Caller |-> IF c \in served THEN "answered" ELSE status[c]]
       /\ \E c \in served : \E a \in Answers(Shareable \cup Unshareable) :
            /\ since[c] <= a.asOf
            /\ NotOlder(a.asOf, k)
            /\ answer' = [d \in Caller |-> IF d \in served THEN a ELSE answer[d]]

Done(c) ==
  /\ status[c] = "answered"
  /\ status' = [status EXCEPT ![c] = "idle"]
  /\ ttl' = [ttl EXCEPT ![c] = 0]
  /\ since' = [since EXCEPT ![c] = 0]
  /\ answer' = [answer EXCEPT ![c] = NoAnswer]
  /\ UNCHANGED <<now, latest, key>>

Tick ==
  /\ now' = now + 1
  /\ UNCHANGED <<latest, status, key, ttl, since, answer>>

Next ==
  \/ Tick
  \/ \E c \in Caller : Share(c) \/ Done(c)
  \/ \E k \in Key : Renew(k) \/ Answer(k)
  \/ \E c \in Caller, k \in Key, t \in TTL : Ask(c, k, t)

Spec == Init /\ [][Next]_vars

=============================================================================
