------------------------------ MODULE Prometheus ------------------------------
(***************************************************************************)
(* internal/metrics/metrics.go: what Instant makes of a reply to an        *)
(* instant query.                                                          *)
(*                                                                         *)
(* A reply is a record: http says whether there was one and its status,    *)
(* json whether the body decodes into Instant's struct, and result holds   *)
(* the series.  Of a series only the second element of its value pair      *)
(* matters: text says whether it is a string, and number is the set of     *)
(* what strconv.ParseFloat makes of it, empty for one it rejects.          *)
(***************************************************************************)
EXTENDS Sequences

(* No reply, another status than 200, or a body that does not decode.      *)
Fails(reply) == reply.http # "200" \/ ~reply.json

(* Instant looks at the first series only, however many there are.         *)
Instant(reply) ==
  IF Fails(reply) THEN [err |-> "failed"]
  ELSE IF reply.result = <<>> \/ ~Head(reply.result).text THEN [err |-> "missing"]
  ELSE IF Head(reply.result).number = {} THEN [err |-> "failed"]
  ELSE [err |-> "nil", value |-> CHOOSE v \in Head(reply.result).number : TRUE]

=============================================================================
