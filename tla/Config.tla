-------------------------------- MODULE Config --------------------------------
(***************************************************************************)
(* internal/config: Parse, from a ScaledObject's metadata to its settings. *)
(*                                                                         *)
(* A metadata value is a string, here the set of the values it parses to:  *)
(* one, or none when it is empty or malformed.  Metadata is a map with     *)
(* some of the keys.                                                       *)
(***************************************************************************)
EXTENDS Integers

CONSTANT Default   (* A Config record: what Parse starts from.             *)

(* m[key]: the empty string when the key is not there.                     *)
Field(m, key) == IF key \in DOMAIN m THEN m[key] ELSE {}

(* floatOr, boolOr and durationOr.                                         *)
parsedOr(s, def) == IF s = {} THEN def ELSE CHOOSE v \in s : TRUE

positiveDurationOr(s, def) == IF parsedOr(s, def) > 0 THEN parsedOr(s, def) ELSE def
positiveIntOr(s, def) == IF parsedOr(s, def) < 1 THEN def ELSE parsedOr(s, def)

(* prometheusAddress is the only key without a default: Parse returns an   *)
(* error unless it is there, and its callers then change nothing.          *)
Parses(m) == Field(m, "prometheusAddress") # {}

Parse(m) ==
  [PromAddr |-> parsedOr(Field(m, "prometheusAddress"), ""),
   QueueQuery |-> parsedOr(Field(m, "queueQuery"), Default.QueueQuery),
   KVQuery |-> parsedOr(Field(m, "kvCacheQuery"), Default.KVQuery),
   QueueThreshold |-> parsedOr(Field(m, "queueThreshold"), Default.QueueThreshold),
   KVThreshold |-> parsedOr(Field(m, "kvCacheThreshold"), Default.KVThreshold),
   Activation |-> parsedOr(Field(m, "activationThreshold"), Default.Activation),
   TreatMissingAsError |-> parsedOr(Field(m, "treatMissingAsError"), FALSE),
   CacheTTL |-> parsedOr(Field(m, "cacheTTL"), Default.CacheTTL),
   StreamPollInterval |->
     positiveDurationOr(Field(m, "streamPollInterval"), Default.StreamPollInterval),
   StreamMaxConsecutiveFailures |->
     positiveIntOr(Field(m, "streamMaxConsecutiveFailures"),
                   Default.StreamMaxConsecutiveFailures)]

=============================================================================
