------------------------------ MODULE MCBroker ------------------------------
(* Broker with three connections and the lines the properties tell apart:  *)
(* batch work, interactive work that stops its connection and has its id   *)
(* under the alias, and a blank line.                                      *)
EXTENDS Broker

MCLines == {[method |-> "embed_batch", key |-> "request_id"],
            [method |-> "shutdown", key |-> "id"],
            [method |-> "blank", key |-> "none"]}
=============================================================================
