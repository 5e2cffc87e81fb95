---------------------------- MODULE MCEmbedding -----------------------------
(* Embedding with limits scaled down so that texts at, below and above     *)
(* each of them fit into one request.                                      *)
EXTENDS Embedding

MCPins ==
  {[pooling |-> "cls", max_text_tokens |-> 5, eos_reserve |-> 0,
    special_token_overhead |-> 2],
   [pooling |-> "last", max_text_tokens |-> 4, eos_reserve |-> 1,
    special_token_overhead |-> 1],
   [pooling |-> "last", max_text_tokens |-> 1, eos_reserve |-> 1,
    special_token_overhead |-> 1]}

(* One token; at the limits; over them with an unstable cut. *)
MCTexts ==
  {[tokens |-> 1, stable |-> {1}],
   [tokens |-> 3, stable |-> {1, 2, 3}],
   [tokens |-> 6, stable |-> {1}]}
=============================================================================
