----------------------------- MODULE Embedding ------------------------------
(***************************************************************************)
(* One embed call of the llama.cpp engine, src/engine.rs with              *)
(* src/truncate.rs: the texts are fitted to the model's token limit and    *)
(* grouped under the limits of one context; each group is encoded, and a   *)
(* group that fails for the sake of one input is bisected until that input *)
(* is alone and gets a zero vector.                                        *)
(*                                                                         *)
(* A text is what its tokenization tells: its token count and the prefix   *)
(* lengths that detokenize to text that tokenizes to them again.  A group  *)
(* is a run of neighbours, so a group is its first and its last input, and *)
(* the recursion of isolate is the worklist of runs still to encode.       *)
(***************************************************************************)
EXTENDS Naturals, Sequences

CONSTANTS
  Pins,             (* the limits and the pooling of the pinned models     *)
  Texts,            (* the texts a request may contain                     *)
  MaxTexts,         (* bound: the texts of a request                       *)
  ClsGroupTokens,   (* MAX_CLS_GROUP_TOKENS                                *)
  TokensPerEncode,  (* MAX_TOKENS_PER_ENCODE                               *)
  DecodeSequences,  (* MAX_DECODE_SEQUENCES                                *)
  BatchItems        (* MAX_BATCH_ITEMS                                     *)

PinType == [pooling : {"cls", "last"}, max_text_tokens : Nat,
            eos_reserve : Nat, special_token_overhead : Nat]

ASSUME EmbeddingAssumption ==
  /\ Pins \subseteq PinType
  /\ Texts \subseteq [tokens : Nat \ {0}, stable : SUBSET Nat]
  /\ MaxTexts \in Nat
  /\ ClsGroupTokens \in Nat /\ TokensPerEncode \in Nat
  /\ DecodeSequences \in Nat /\ BatchItems \in Nat

VARIABLES
  pin,          (* the model that is loaded                                *)
  texts,        (* the texts of the request                                *)
  poison,       (* the inputs no encode succeeds with                      *)
  slots,        (* "ample": a group without such an input never fails      *)
  stage,        (* build, group, encode, done                              *)
  inputs,       (* the token counts of the inputs built so far             *)
  current_max,  (* the longest input of the group that is growing          *)
  work,         (* the runs to encode; while grouping, the last one grows  *)
  vectors,      (* what was produced so far                                *)
  failure,      (* the error embed returns, or "none"                      *)
  encodes,      (* the contexts created so far                             *)
  groups        (* how many groups there were                              *)

request == <<pin, texts, poison, slots>>
vars == <<request, stage, inputs, current_max, work, vectors, failure,
          encodes, groups>>

Larger(m, n) == IF m >= n THEN m ELSE n

-----------------------------------------------------------------------------
Init ==
  /\ pin \in Pins
  /\ \E n \in 0..MaxTexts : texts \in [1..n -> Texts]
  /\ poison \in SUBSET DOMAIN texts
  /\ slots \in {"ample", "tight"}
  /\ stage = "build"
  /\ inputs = <<>>
  /\ current_max = 0
  /\ work = <<>>
  /\ vectors = <<>>
  /\ failure = "none"
  /\ encodes = 0
  /\ groups = 0

(***************************************************************************)
(* build_input                                                             *)
(***************************************************************************)
(* Mutant: the EOS marker is not reserved. *)
BudgetWithoutEos(p) ==
  IF p.max_text_tokens >= p.special_token_overhead
    THEN p.max_text_tokens - p.special_token_overhead ELSE 0

(* body_budget, saturating. *)
BodyBudget(p) ==
  LET reserve == p.eos_reserve + p.special_token_overhead
  IN  IF p.max_text_tokens >= reserve THEN p.max_text_tokens - reserve ELSE 0

(* The longest stable prefix of at most `budget` tokens: the loop of fit. *)
Shrunk(text, budget) ==
  LET kept[k \in Nat] ==
        IF k = 0 \/ k \in text.stable THEN k ELSE kept[k - 1]
  IN  kept[budget]

Fit(text, budget) ==
  IF text.tokens <= budget THEN text.tokens ELSE Shrunk(text, budget)

(* The EOS marker is appended after the cut, and the special tokens are    *)
(* added by the last tokenization.                                         *)
InputLength(text) ==
  Fit(text, BodyBudget(pin)) + pin.eos_reserve + pin.special_token_overhead

BuildInput ==
  /\ stage = "build"
  /\ Len(inputs) < Len(texts)
  /\ inputs' = Append(inputs, InputLength(texts[Len(inputs) + 1]))
  /\ UNCHANGED <<request, stage, current_max, work, vectors, failure, encodes,
                 groups>>

(* An error of the tokenizer fails the request. *)
TokenizeFails ==
  /\ stage = "build"
  /\ Len(inputs) < Len(texts)
  /\ stage' = "done"
  /\ failure' = "application"
  /\ UNCHANGED <<request, inputs, current_max, work, vectors, encodes, groups>>

InputsBuilt ==
  /\ stage = "build"
  /\ Len(inputs) = Len(texts)
  /\ stage' = "group"
  /\ UNCHANGED <<request, inputs, current_max, work, vectors, failure, encodes,
                 groups>>

(***************************************************************************)
(* group_by_cell_budget                                                    *)
(***************************************************************************)
GroupBudget == IF pin.pooling = "cls" THEN ClsGroupTokens ELSE TokensPerEncode
MaxSequences ==
  Larger(1, IF pin.pooling = "cls" THEN BatchItems ELSE DecodeSequences)

Last == work[Len(work)]
Size(run) == run.last - run.first + 1
Grouped == IF work = <<>> THEN 0 ELSE Last.last

(* Mutant: the budget applied to one member less. *)
FullOneLate(length) ==
  \/ Size(Last) >= MaxSequences
  \/ Larger(current_max, length) * Size(Last) > GroupBudget

(* A context has room for its longest input once for every input. *)
GroupFull(length) ==
  \/ Size(Last) >= MaxSequences
  \/ Larger(current_max, length) * (Size(Last) + 1) > GroupBudget

GroupInput ==
  /\ stage = "group"
  /\ Grouped < Len(inputs)
  /\ LET i == Grouped + 1
     IN  IF work = <<>> \/ GroupFull(inputs[i])
           THEN /\ work' = Append(work, [first |-> i, last |-> i])
                /\ current_max' = inputs[i]
           ELSE /\ work' = [work EXCEPT ![Len(work)].last = i]
                /\ current_max' = Larger(current_max, inputs[i])
  /\ UNCHANGED <<request, stage, inputs, vectors, failure, encodes,
                 groups>>

InputsGrouped ==
  /\ stage = "group"
  /\ Grouped = Len(inputs)
  /\ stage' = "encode"
  /\ groups' = Len(work)
  /\ UNCHANGED <<request, inputs, current_max, work, vectors, failure, encodes>>

(***************************************************************************)
(* encode_group, isolate                                                   *)
(***************************************************************************)
Run == work[1]
Members(run) == run.first..run.last

(* No tokens, an input llama.cpp rejects or a vector without direction, or *)
(* no room for this many sequences: bisecting helps.                       *)
MayFailAsItem ==
  \/ \E i \in Members(Run) : i \in poison \/ inputs[i] = 0
  \/ slots = "tight" /\ Size(Run) > 1

(* Every member embedded. *)
EncodeSucceeds ==
  /\ stage = "encode" /\ work # <<>>
  /\ \A i \in Members(Run) : i \notin poison /\ inputs[i] # 0
  /\ vectors' = vectors \o [i \in 1..Size(Run) |-> "vector"]
  /\ work' = Tail(work)
  /\ encodes' = encodes + 1
  /\ UNCHANGED <<request, stage, inputs, current_max, failure, groups>>

(* Mutant: one input split off. *)
OneByOne(run) ==
  <<[first |-> run.first, last |-> run.first],
    [first |-> run.first + 1, last |-> run.last]>>

Halves(run) ==
  LET mid == run.first + Size(run) \div 2
  IN  <<[first |-> run.first, last |-> mid - 1],
        [first |-> mid, last |-> run.last]>>

(* Mutant: the whole run zeroed. *)
ZeroTheRun ==
  /\ stage = "encode" /\ work # <<>>
  /\ MayFailAsItem
  /\ encodes' = encodes + 1
  /\ vectors' = vectors \o [i \in 1..Size(Run) |-> "zero"]
  /\ work' = Tail(work)
  /\ UNCHANGED <<request, stage, inputs, current_max, failure, groups>>

(* One input gets the zero vector, several are bisected. *)
EncodeFailsAsItem ==
  /\ stage = "encode" /\ work # <<>>
  /\ MayFailAsItem
  /\ encodes' = encodes + 1
  /\ IF Size(Run) = 1
       THEN /\ vectors' = Append(vectors, "zero")
            /\ work' = Tail(work)
       ELSE /\ work' = Halves(Run) \o Tail(work)
            /\ UNCHANGED vectors
  /\ UNCHANGED <<request, stage, inputs, current_max, failure, groups>>

(* Mutants: the class of the failure lost; a broken backend taken for a bad input. *)
FailAsItem(class) ==
  /\ stage = "encode" /\ work # <<>>
  /\ stage' = "done"
  /\ failure' = "item"
  /\ encodes' = encodes + 1
  /\ UNCHANGED <<request, inputs, current_max, work, vectors, groups>>
BisectSystemic(class) ==
  /\ stage = "encode" /\ work # <<>>
  /\ Size(Run) = 1
  /\ failure' = class
  /\ vectors' = Append(vectors, "zero")
  /\ work' = Tail(work)
  /\ encodes' = encodes + 1
  /\ UNCHANGED <<request, stage, inputs, current_max, groups>>

(* A context that cannot be allocated, or a backend that broke: the whole  *)
(* request fails with that error at once.                                  *)
EncodeFailsForAll(class) ==
  /\ stage = "encode" /\ work # <<>>
  /\ stage' = "done"
  /\ failure' = class
  /\ encodes' = encodes + 1
  /\ UNCHANGED <<request, inputs, current_max, work, vectors, groups>>

(* The counts must agree. *)
Finish ==
  /\ stage = "encode" /\ work = <<>>
  /\ stage' = "done"
  /\ failure' = IF Len(vectors) = Len(texts) THEN failure ELSE "application"
  /\ UNCHANGED <<request, inputs, current_max, work, vectors, encodes, groups>>

-----------------------------------------------------------------------------
Classes == {"application", "resource_exhausted"}

Next ==
  \/ BuildInput \/ TokenizeFails \/ InputsBuilt
  \/ GroupInput \/ InputsGrouped
  \/ EncodeSucceeds \/ EncodeFailsAsItem
  \/ \E class \in Classes : EncodeFailsForAll(class)
  \/ Finish

(* The call runs on one thread, which goes on. *)
Spec == Init /\ [][Next]_vars /\ WF_vars(Next)

-----------------------------------------------------------------------------
RunType == [first : Nat, last : Nat]

(* The state has its type. *)
TypeOK ==
  /\ pin \in Pins
  /\ texts \in Seq(Texts)
  /\ poison \subseteq DOMAIN texts
  /\ slots \in {"ample", "tight"}
  /\ stage \in {"build", "group", "encode", "done"}
  /\ inputs \in Seq(Nat)
  /\ current_max \in Nat
  /\ work \in Seq(RunType)
  /\ vectors \in Seq({"vector", "zero"})
  /\ failure \in Classes \cup {"none"}
  /\ encodes \in Nat /\ groups \in Nat

(* The longest of some inputs. *)
Longest(run) == CHOOSE n \in {inputs[i] : i \in Members(run)} :
                  \A i \in Members(run) : inputs[i] <= n

(* A context never needs more cells than the ceiling, nor more sequences   *)
(* than the backend can place, unless for one input that is longer alone;  *)
(* so a non-causal encoder has its group in one micro-batch                *)
(* (engine.rs:52-58, 69-74, 726-734).                                      *)
ContextsBounded ==
  stage \in {"group", "encode"} =>
    \A k \in 1..Len(work) :
      \/ Size(work[k]) = 1
      \/ /\ Longest(work[k]) * Size(work[k]) <= GroupBudget
         /\ Size(work[k]) <= MaxSequences

(* No input is longer than the model allows, the EOS marker and the        *)
(* special tokens included, however little they leave to the text; and the *)
(* text is cut no shorter than the round trip demands (truncate.rs:30-42). *)
InputsFitTightly ==
  \A i \in 1..Len(inputs) :
    LET reserve == pin.eos_reserve + pin.special_token_overhead
        body == inputs[i] - reserve
        allowed == {0} \cup texts[i].stable \cup {texts[i].tokens}
    IN  /\ inputs[i] <= Larger(pin.max_text_tokens, reserve)
        /\ body \in allowed
        /\ \A n \in allowed :
             n <= texts[i].tokens /\ n + reserve <= pin.max_text_tokens
               => n <= body

(* "vectors.len() always equals items.len()" (engine.rs:847): an answer    *)
(* has one vector per text in input order, and only the inputs that cannot *)
(* be encoded have the zero vector, whatever the grouping and however many *)
(* of them share a group.  A backend that broke is never reported as a     *)
(* working embedding: the call ends where the failure is known             *)
(* (engine.rs:849-851).                                                    *)
OnlyPoisonIsZeroed ==
  /\ stage = "done" /\ failure = "none" =>
       /\ Len(vectors) = Len(texts)
       /\ \A i \in 1..Len(texts) :
            vectors[i] = "zero" <=> i \in poison \/ inputs[i] = 0
  /\ failure # "none" => stage = "done"

(* The bisections a run of n inputs needs to come down to one input: the   *)
(* logarithm of n to base two, rounded up.                                 *)
TwoTo[d \in Nat] == IF d = 0 THEN 1 ELSE 2 * TwoTo[d - 1]
Halvings(n) ==
  CHOOSE d \in 0..n : TwoTo[d] >= n /\ \A e \in 0..n : TwoTo[e] >= n => d <= e

(* "a single poison item costs about log2(n) extra encodes"                *)
(* (engine.rs:844): two contexts for every halving, and one for each       *)
(* group.                                                                  *)
PoisonIsCheap ==
  stage = "done" /\ slots = "ample" /\ (\E i \in DOMAIN texts : poison = {i})
    /\ (\A i \in DOMAIN inputs : inputs[i] # 0)
    => encodes <= groups + 2 * Halvings(Len(texts))

=============================================================================
