-------------------------- MODULE EmbeddingProofs ---------------------------
(***************************************************************************)
(* What one embed call guarantees for every model, request and limit.      *)
(*                                                                         *)
(* First the arithmetic the call rests on: what the loop of fit computes,  *)
(* and the logarithm of the bisection.  Then the inductive invariant: the  *)
(* runs of the worklist are the inputs that have no vector yet, in order   *)
(* and without gap or overlap.                                             *)
(***************************************************************************)
EXTENDS Embedding, WellFoundedInduction, TLAPS

(* A nonempty set of numbers has a least one ... *)
LEMMA LeastExists ==
  ASSUME NEW S \in SUBSET Nat, S # {}
  PROVE  \E i \in S : \A j \in S : i <= j
<1> DEFINE R == {ss \in Nat \X Nat : ss[1] < ss[2]}
<1>1. IsWellFoundedOn(R, Nat)
  BY NatLessThanWellFounded, Zenon DEF OpToRel
<1>2. PICK i \in S : \A j \in S : ~ (<<j, i>> \in R)
  <2> HIDE DEF R
  <2>. QED
    BY <1>1, WFMin
<1>3. ASSUME NEW j \in S PROVE i <= j
  <2>1. <<j, i>> \notin R /\ <<j, i>> \in Nat \X Nat
    BY <1>2
  <2>2. ~ (j < i)
    BY <2>1, Zenon
  <2>. QED
    BY <2>2
<1>. QED
  BY <1>3

(* ... and one with an upper bound has a greatest. *)
LEMMA GreatestExists ==
  ASSUME NEW S \in SUBSET Nat, S # {}, NEW bound \in Nat, \A i \in S : i <= bound
  PROVE  \E i \in S : \A j \in S : j <= i
<1> DEFINE T == {t \in 0..bound : bound - t \in S}
<1>1. T \in SUBSET Nat /\ T # {}
  <2>1. PICK i \in S : TRUE
    OBVIOUS
  <2>2. bound - i \in T
    OBVIOUS
  <2>3. T \in SUBSET Nat
    OBVIOUS
  <2> HIDE DEF T
  <2>. QED
    BY <2>2, <2>3
<1>2. PICK t \in T : \A u \in T : t <= u
  <2> HIDE DEF T
  <2>. QED
    BY <1>1, LeastExists
<1>3. bound - t \in S
  BY <1>2
<1>4. ASSUME NEW j \in S PROVE j <= bound - t
  <2>1. bound - j \in T /\ t \in Int /\ j \in Int
    OBVIOUS
  <2> HIDE DEF T
  <2>2. t <= bound - j
    BY <1>2, <2>1
  <2>. QED
    BY <2>1, <2>2
<1>. QED
  BY <1>3, <1>4

(* Induction, for a set of numbers. *)
LEMMA Induction ==
  ASSUME NEW S \in SUBSET Nat, 0 \in S, \A n \in S : n + 1 \in S
  PROVE  S = Nat
<1> SUFFICES ASSUME Nat \ S # {} PROVE FALSE
  OBVIOUS
<1>1. PICK i \in Nat \ S : \A j \in Nat \ S : i <= j
  BY LeastExists
<1>2. i - 1 \in S
  BY <1>1
<1>. QED
  BY <1>1, <1>2

-----------------------------------------------------------------------------
(* The prefix lengths up to k that survive the round trip. *)
Stable(stable, k) == {n \in 0..k : n = 0 \/ n \in stable}

(* The loop of fit finds the longest of them (truncate.rs:30-42). *)
LEMMA ShrunkIsLongest ==
  ASSUME NEW text \in [tokens : Nat \ {0}, stable : SUBSET Nat], NEW budget \in Nat
  PROVE  /\ Shrunk(text, budget) \in Stable(text.stable, budget)
         /\ \A n \in Stable(text.stable, budget) : n <= Shrunk(text, budget)
<1> DEFINE stable == text.stable
           Loop(g) == [k \in Nat |-> IF k = 0 \/ k \in stable THEN k ELSE g[k - 1]]
           Greatest(k, m) == /\ m \in Stable(stable, k)
                             /\ \A n \in Stable(stable, k) : n <= m
           best == [k \in Nat |-> CHOOSE m : Greatest(k, m)]
           kept == CHOOSE g : g = Loop(g)
<1>1. Shrunk(text, budget) = kept[budget]
  BY DEF Shrunk
<1>2. ASSUME NEW k \in Nat PROVE Greatest(k, best[k])
  <2>1. Stable(stable, k) \in SUBSET Nat /\ Stable(stable, k) # {}
        /\ \A n \in Stable(stable, k) : n <= k
    BY DEF Stable
  <2>2. \E m : Greatest(k, m)
    BY <2>1, GreatestExists
  <2>. QED
    BY <2>2
<1>3. ASSUME NEW k \in Nat, NEW m, NEW n, Greatest(k, m), Greatest(k, n) PROVE m = n
  BY <1>3 DEF Stable
<1>4. ASSUME NEW k \in Nat PROVE best[k] = Loop(best)[k]
  <2>1. CASE k = 0 \/ k \in stable
    <3>1. Greatest(k, k)
      BY <2>1 DEF Stable
    <3>2. best[k] = k
      BY <1>2, <1>3, <3>1
    <3>. QED
      BY <2>1, <3>2
  <2>2. CASE ~(k = 0 \/ k \in stable)
    <3>1. k - 1 \in Nat /\ Stable(stable, k) = Stable(stable, k - 1)
      BY <2>2 DEF Stable
    <3>2. Greatest(k, best[k - 1])
      BY <1>2, <3>1
    <3>3. best[k] = best[k - 1]
      BY <1>2, <1>3, <3>2
    <3> HIDE DEF best
    <3>. QED
      BY <2>2, <3>3
  <2>. QED
    BY <2>1, <2>2
<1>5. best = Loop(best)
  <2>1. best = [k \in Nat |-> best[k]]
    OBVIOUS
  <2>2. Loop(best) = [k \in Nat |-> Loop(best)[k]]
    OBVIOUS
  <2> HIDE DEF Greatest, best, Loop
  <2>. QED
    BY <1>4, <2>1, <2>2
<1>6. kept = Loop(kept)
  <2> HIDE DEF Loop, best
  <2>. QED
    BY <1>5
<1> HIDE DEF best, kept, stable
<1> DEFINE Right == {k \in Nat : Greatest(k, kept[k])}
<1>7. Right = Nat
  <2>1. Right \in SUBSET Nat
    OBVIOUS
  <2>2. \A k \in Nat : kept[k] = IF k = 0 \/ k \in stable THEN k ELSE kept[k - 1]
    BY <1>6
  <2>3. 0 \in Right
    BY <2>2 DEF Stable
  <2>4. ASSUME NEW k \in Right PROVE k + 1 \in Right
    <3>1. k + 1 \in Nat /\ Greatest(k, kept[k])
      OBVIOUS
    <3>2. kept[k + 1] = IF k + 1 \in stable THEN k + 1 ELSE kept[k]
      BY <2>2
    <3>3. Greatest(k + 1, kept[k + 1])
      BY <3>1, <3>2 DEF Stable
    <3>. QED
      BY <3>1, <3>3
  <2> HIDE DEF Right
  <2>. QED
    BY <2>1, <2>3, <2>4, Induction
<1>. QED
  BY <1>1, <1>7 DEF stable

(***************************************************************************)
(* No input is longer than the model allows, and none is shorter than the  *)
(* round trip demands (truncate.rs:21-42).                                 *)
(***************************************************************************)
LEMMA FitIsTight ==
  ASSUME NEW p \in PinType,
         NEW text \in [tokens : Nat \ {0}, stable : SUBSET Nat]
  PROVE  LET reserve == p.eos_reserve + p.special_token_overhead
             body == Fit(text, BodyBudget(p))
             allowed == {0} \cup text.stable \cup {text.tokens}
         IN  /\ body \in Nat
             /\ body + reserve <= Larger(p.max_text_tokens, reserve)
             /\ body \in allowed
             /\ \A n \in allowed :
                  n <= text.tokens /\ n + reserve <= p.max_text_tokens => n <= body
<1> DEFINE reserve == p.eos_reserve + p.special_token_overhead
           budget == BodyBudget(p)
           body == Fit(text, budget)
           allowed == {0} \cup text.stable \cup {text.tokens}
<1>1. /\ reserve \in Nat /\ p.max_text_tokens \in Nat
      /\ text.tokens \in Nat \ {0} /\ text.stable \in SUBSET Nat
  BY DEF PinType
<1>2. /\ budget \in Nat
      /\ budget = IF p.max_text_tokens >= reserve
                    THEN p.max_text_tokens - reserve ELSE 0
  BY <1>1 DEF BodyBudget
<1> HIDE DEF reserve, budget
<1>3. /\ body \in Nat /\ body <= budget /\ body \in allowed
      /\ \A n \in allowed : n <= text.tokens /\ n <= budget => n <= body
  <2>1. CASE text.tokens <= budget
    BY <1>1, <1>2, <2>1 DEF Fit
  <2>2. CASE ~(text.tokens <= budget)
    <3>1. body = Shrunk(text, budget)
      BY <2>2 DEF Fit
    <3>2. /\ Shrunk(text, budget) \in Stable(text.stable, budget)
          /\ \A n \in Stable(text.stable, budget) : n <= Shrunk(text, budget)
      BY <1>2, ShrunkIsLongest
    <3> HIDE DEF body
    <3>. QED
      BY <1>1, <1>2, <2>2, <3>1, <3>2 DEF Stable
  <2>. QED
    BY <2>1, <2>2
<1> HIDE DEF body
<1>4. body + reserve <= Larger(p.max_text_tokens, reserve)
  BY <1>1, <1>2, <1>3 DEF Larger
<1>5. ASSUME NEW n \in allowed, n <= text.tokens, n + reserve <= p.max_text_tokens
      PROVE  n <= body
  <2>1. n \in Nat /\ n <= budget
    BY <1>1, <1>2, <1>5
  <2>. QED
    BY <1>3, <1>5, <2>1
<1>. QED
  BY <1>3, <1>4, <1>5 DEF reserve, budget, body

-----------------------------------------------------------------------------
(* The powers of two. *)
LEMMA TwoToDef ==
  /\ TwoTo \in [Nat -> Nat \ {0}]
  /\ TwoTo[0] = 1
  /\ \A d \in Nat : TwoTo[d + 1] = 2 * TwoTo[d]
<1> DEFINE Step(g) == [d \in Nat |-> IF d = 0 THEN 1 ELSE 2 * g[d - 1]]
           UpTo(n, g) == /\ g \in [0..n -> Nat \ {0}]
                         /\ \A d \in 0..n : g[d] = IF d = 0 THEN 1 ELSE 2 * g[d - 1]
           Reached == {n \in Nat : \E g : UpTo(n, g)}
<1>1. TwoTo = CHOOSE g : g = Step(g)
  BY DEF TwoTo
<1>2. Reached = Nat
  <2>1. 0 \in Reached
    <3>1. UpTo(0, [d \in 0..0 |-> 1])
      OBVIOUS
    <3>. QED
      BY <3>1
  <2>2. ASSUME NEW n \in Reached PROVE n + 1 \in Reached
    <3>1. n \in Nat
      OBVIOUS
    <3>2. PICK g : UpTo(n, g)
      OBVIOUS
    <3> DEFINE h == [d \in 0..(n + 1) |-> IF d = n + 1 THEN 2 * g[n] ELSE g[d]]
    <3>3. UpTo(n + 1, h)
      BY <3>1, <3>2
    <3> HIDE DEF UpTo, h
    <3>. QED
      BY <3>1, <3>3
  <2>3. Reached \in SUBSET Nat
    OBVIOUS
  <2> HIDE DEF Reached
  <2>. QED
    BY <2>1, <2>2, <2>3, Induction
<1>3. ASSUME NEW m \in Nat, NEW n \in Nat, m <= n,
             NEW g, NEW h, UpTo(m, g), UpTo(n, h)
      PROVE  \A d \in 0..m : g[d] = h[d]
  <2> DEFINE Same == {d \in Nat : d <= m => g[d] = h[d]}
  <2>1. 0 \in Same
    BY <1>3
  <2>2. ASSUME NEW d \in Same PROVE d + 1 \in Same
    <3> SUFFICES ASSUME d + 1 <= m PROVE g[d + 1] = h[d + 1]
      OBVIOUS
    <3>1. d + 1 \in 0..m /\ d + 1 \in 0..n /\ d + 1 # 0 /\ (d + 1) - 1 = d
      BY <1>3
    <3>2. g[d + 1] = 2 * g[d] /\ h[d + 1] = 2 * h[d]
      BY <1>3, <3>1
    <3>3. g[d] = h[d]
      BY <1>3
    <3>. QED
      BY <3>2, <3>3
  <2>3. Same \in SUBSET Nat
    OBVIOUS
  <2>4. Same = Nat
    <3> HIDE DEF Same
    <3>. QED
      BY <2>1, <2>2, <2>3, Induction
  <2>. QED
    BY <2>4
<1> DEFINE power(n) == CHOOSE g : UpTo(n, g)
           P == [n \in Nat |-> power(n)[n]]
<1>4. ASSUME NEW n \in Nat PROVE UpTo(n, power(n))
  <2>1. \E g : UpTo(n, g)
    BY <1>2
  <2> HIDE DEF UpTo
  <2>. QED
    BY <2>1
<1>5. /\ P \in [Nat -> Nat \ {0}] /\ P[0] = 1
      /\ \A n \in Nat : P[n + 1] = 2 * P[n]
  <2>1. ASSUME NEW n \in Nat PROVE P[n] \in Nat \ {0}
    <3> HIDE DEF power
    <3>. QED
      BY <1>4
  <2>2. P[0] = 1
    <3> HIDE DEF power
    <3>. QED
      BY <1>4
  <2>3. ASSUME NEW n \in Nat PROVE P[n + 1] = 2 * P[n]
    <3>1. power(n + 1)[n + 1] = 2 * power(n + 1)[n]
      <4> HIDE DEF power
      <4>. QED
        BY <1>4
    <3>2. power(n + 1)[n] = power(n)[n]
      <4> HIDE DEF power, UpTo
      <4>. QED
        BY <1>3, <1>4
    <3> HIDE DEF power
    <3>. QED
      BY <3>1, <3>2
  <2> HIDE DEF power
  <2>. QED
    BY <2>1, <2>2, <2>3
<1>6. P = Step(P)
  <2>1. P = [n \in Nat |-> P[n]]
    <3> HIDE DEF power
    <3>. QED
      OBVIOUS
  <2> HIDE DEF P
  <2>2. ASSUME NEW n \in Nat PROVE P[n] = IF n = 0 THEN 1 ELSE 2 * P[n - 1]
    BY <1>5
  <2>. QED
    BY <2>1, <2>2
<1>7. TwoTo = Step(TwoTo)
  <2> HIDE DEF P, Step
  <2>. QED
    BY <1>1, <1>6
<1>8. \A d \in Nat : TwoTo[d] = IF d = 0 THEN 1 ELSE 2 * TwoTo[d - 1]
  BY <1>7
<1> DEFINE Positive == {d \in Nat : TwoTo[d] \in Nat \ {0}}
<1>9. Positive = Nat
  <2>1. 0 \in Positive /\ \A d \in Positive : d + 1 \in Positive
    BY <1>8
  <2>2. Positive \in SUBSET Nat
    OBVIOUS
  <2> HIDE DEF Positive
  <2>. QED
    BY <2>1, <2>2, Induction
<1>10. TwoTo \in [Nat -> Nat \ {0}]
  <2>1. \A d \in Nat : TwoTo[d] \in Nat \ {0}
    BY <1>9
  <2>2. TwoTo = [d \in Nat |-> TwoTo[d]]
    BY <1>7
  <2>. QED
    BY <2>1, <2>2
<1>. QED
  BY <1>8, <1>10

(* Halvings is the logarithm to base two, rounded up. *)
LEMMA HalvingsIsLog ==
  ASSUME NEW n \in Nat
  PROVE  /\ Halvings(n) \in Nat
         /\ TwoTo[Halvings(n)] >= n
         /\ \A e \in Nat : TwoTo[e] >= n => Halvings(n) <= e
<1> DEFINE Enough == {d \in 0..n : TwoTo[d] >= n}
           Large == {d \in Nat : TwoTo[d] >= d}
<1>1. Large = Nat
  <2>1. 0 \in Large /\ \A d \in Large : d + 1 \in Large
    BY TwoToDef
  <2>2. Large \in SUBSET Nat
    OBVIOUS
  <2> HIDE DEF Large
  <2>. QED
    BY <2>1, <2>2, Induction
<1>2. n \in Enough /\ Enough \in SUBSET Nat
  BY <1>1
<1>3. \E d \in Enough : \A e \in Enough : d <= e
  <2> HIDE DEF Enough
  <2>. QED
    BY <1>2, LeastExists
<1>4. /\ Halvings(n) \in 0..n /\ TwoTo[Halvings(n)] >= n
      /\ \A e \in 0..n : TwoTo[e] >= n => Halvings(n) <= e
  BY <1>3 DEF Halvings
<1>. QED
  BY <1>4

(* A shorter run needs no more bisections, and half a run one less. *)
LEMMA HalvingsGrows ==
  ASSUME NEW m \in Nat, NEW n \in Nat, m <= n
  PROVE  Halvings(m) <= Halvings(n)
<1>1. Halvings(n) \in Nat /\ TwoTo[Halvings(n)] >= n
  BY HalvingsIsLog
<1>2. TwoTo[Halvings(n)] \in Nat
  BY <1>1, TwoToDef
<1>3. TwoTo[Halvings(n)] >= m
  BY <1>1, <1>2
<1>. QED
  BY <1>1, <1>3, HalvingsIsLog

LEMMA HalvingsOfHalf ==
  ASSUME NEW m \in Nat, NEW n \in Nat, n > 1, 2 * m <= n + 1
  PROVE  Halvings(m) + 1 <= Halvings(n)
<1> DEFINE d == Halvings(n)
<1>1. d \in Nat /\ TwoTo[d] >= n
  BY HalvingsIsLog
<1> HIDE DEF d
<1>2. d # 0
  BY <1>1, TwoToDef
<1>3. d - 1 \in Nat /\ TwoTo[d] = 2 * TwoTo[d - 1] /\ TwoTo[d - 1] \in Nat
  <2>1. d - 1 \in Nat /\ (d - 1) + 1 = d
    BY <1>1, <1>2
  <2>. QED
    BY <2>1, TwoToDef
<1>4. TwoTo[d - 1] >= m
  BY <1>1, <1>3
<1>5. Halvings(m) \in Nat /\ Halvings(m) <= d - 1
  BY <1>3, <1>4, HalvingsIsLog
<1>. QED
  BY <1>1, <1>5 DEF d

-----------------------------------------------------------------------------
(* The inputs are built before they are grouped, and grouped before the    *)
(* first of them is encoded.                                               *)
Built ==
  /\ Len(inputs) <= Len(texts)
  /\ \A i \in 1..Len(inputs) : inputs[i] = InputLength(texts[i])
  /\ stage \in {"group", "encode"} => Len(inputs) = Len(texts)
  /\ stage \in {"build", "group"} => vectors = <<>> /\ encodes = 0 /\ groups = 0
  /\ stage = "build" => work = <<>>

(* A run of the worklist is one of inputs; it begins behind those before   *)
(* it, and where the last one ends.                                        *)
RunOK(k) ==
  /\ 1 <= work[k].first /\ work[k].first <= work[k].last
  /\ work[k].last <= Len(inputs)
  /\ \A j \in 1..(k - 1) : work[j].last < work[k].first
  /\ k > 1 => work[k].first = work[k - 1].last + 1

(* The first run is where the vectors end, and the last where the inputs   *)
(* end: what has no vector yet is in a run.                                *)
Covered ==
  /\ work # <<>> => work[1].first = Len(vectors) + 1
  /\ stage = "encode" =>
       IF work = <<>> THEN Len(vectors) = Len(inputs) ELSE Last.last = Len(inputs)

(* The vectors so far are right. *)
Answered ==
  /\ Len(vectors) <= Len(inputs)
  /\ \A i \in 1..Len(vectors) :
       vectors[i] = "zero" <=> i \in poison \/ inputs[i] = 0
  /\ failure # "none" => stage = "done"
  /\ stage = "done" /\ failure = "none" => Len(vectors) = Len(texts)

EmbeddingInv ==
  /\ TypeOK
  /\ Built
  /\ \A k \in 1..Len(work) : RunOK(k)
  /\ Covered
  /\ Answered

(* There is room for a run in one context.  While a run grows, current_max *)
(* is not below any of its inputs.                                         *)
Room(run) ==
  \/ Size(run) = 1
  \/ /\ Size(run) <= MaxSequences
     /\ \A i \in Members(run) : inputs[i] * Size(run) <= GroupBudget

RoomInv ==
  stage \in {"group", "encode"} =>
    /\ \A k \in 1..Len(work) : Room(work[k])
    /\ stage = "group" /\ work # <<>> =>
         \A i \in Members(Last) : inputs[i] <= current_max

(* Input i alone cannot be encoded, and nothing else goes wrong. *)
OnlyBad(i) ==
  /\ slots = "ample" /\ poison = {i}
  /\ \A j \in DOMAIN inputs : inputs[j] # 0

Allowance == groups + 2 * Halvings(Len(texts))

(* A run without that input costs one context, and the run with it two     *)
(* more for each halving it has before it.                                 *)
CostInv ==
  \A i \in DOMAIN texts : OnlyBad(i) =>
    /\ stage = "encode" =>
         /\ encodes + Len(work) <= Allowance
         /\ \A k \in 1..Len(work) :
              i \in Members(work[k]) =>
                encodes + Len(work) + 2 * Halvings(Size(work[k])) <= Allowance
    /\ stage = "done" => encodes <= Allowance

-----------------------------------------------------------------------------
(* Two sequences one behind the other. *)
LEMMA Concatenated ==
  ASSUME NEW S, NEW s \in Seq(S), NEW t \in Seq(S)
  PROVE  /\ s \o t \in Seq(S) /\ Len(s \o t) = Len(s) + Len(t)
         /\ \A k \in 1..Len(s) : (s \o t)[k] = s[k]
         /\ \A k \in (Len(s) + 1)..(Len(s) + Len(t)) : (s \o t)[k] = t[k - Len(s)]
OBVIOUS

LEMMA TwoForTheFirst ==
  ASSUME NEW S, NEW a \in S, NEW b \in S, NEW w \in Seq(S), w # <<>>
  PROVE  LET v == <<a, b>> \o Tail(w)
         IN  /\ v \in Seq(S) /\ Len(v) = Len(w) + 1
             /\ v[1] = a /\ v[2] = b
             /\ \A k \in 3..Len(v) : k - 1 \in 2..Len(w) /\ v[k] = w[k - 1]
<1> DEFINE s == <<a, b>>
           t == Tail(w)
           v == s \o t
<1>1. s \in Seq(S) /\ Len(s) = 2 /\ s[1] = a /\ s[2] = b
  OBVIOUS
<1>2. /\ t \in Seq(S) /\ Len(t) = Len(w) - 1 /\ Len(w) \in Nat \ {0}
      /\ \A k \in 1..Len(t) : t[k] = w[k + 1]
  OBVIOUS
<1> HIDE DEF s, t
<1>3. /\ v \in Seq(S) /\ Len(v) = Len(s) + Len(t)
      /\ \A k \in 1..Len(s) : v[k] = s[k]
      /\ \A k \in (Len(s) + 1)..(Len(s) + Len(t)) : v[k] = t[k - Len(s)]
  <2>1. s \in Seq(S) /\ t \in Seq(S)
    BY <1>1, <1>2
  <2>. QED
    BY <2>1, Concatenated
<1> HIDE DEF v
<1>4. /\ Len(v) = Len(w) + 1 /\ v[1] = a /\ v[2] = b
      /\ \A k \in 3..(Len(w) + 1) : v[k] = t[k - 2]
  BY <1>1, <1>2, <1>3
<1>5. ASSUME NEW k \in 3..Len(v) PROVE k - 1 \in 2..Len(w) /\ v[k] = w[k - 1]
  <2>1. /\ k - 2 \in 1..Len(t) /\ (k - 2) + 1 = k - 1
        /\ k \in 3..(Len(w) + 1) /\ k - 1 \in 2..Len(w)
    BY <1>2, <1>4
  <2>2. v[k] = t[k - 2]
    BY <1>4, <2>1
  <2>3. t[k - 2] = w[k - 1]
    BY <1>2, <2>1
  <2>. QED
    BY <2>1, <2>2, <2>3
<1>6. /\ v \in Seq(S) /\ Len(v) = Len(w) + 1 /\ v[1] = a /\ v[2] = b
      /\ \A k \in 3..Len(v) : k - 1 \in 2..Len(w) /\ v[k] = w[k - 1]
  BY <1>3, <1>4, <1>5
<1>. QED
  BY <1>6, Zenon DEF v, s, t

(* Where a run is halved. *)
LEMMA Middle ==
  ASSUME NEW first \in Nat, NEW last \in Nat, first < last
  PROVE  LET n == last - first + 1
             mid == first + n \div 2
         IN  /\ mid \in Nat /\ first < mid /\ mid <= last
             /\ 2 * (mid - first) <= n
             /\ 2 * (last - mid + 1) <= n + 1
<1> DEFINE n == last - first + 1
           h == n \div 2
<1>1. n \in Nat /\ n > 1
  OBVIOUS
<1>2. h \in Nat /\ 2 * h <= n /\ n <= 2 * h + 1 /\ h > 0
  <2> HIDE DEF n
  <2>. QED
    BY <1>1
<1> HIDE DEF h
<1>3. /\ first + h \in Nat /\ first < first + h /\ first + h <= last
      /\ 2 * ((first + h) - first) <= n
      /\ 2 * (last - (first + h) + 1) <= n + 1
  BY <1>2
<1>. QED
  BY <1>3 DEF h

(* The steps on the worklist: the run of input i is added; the last run    *)
(* grows to input i; the first run is done with; it is halved at mid.      *)
RunAdded(i) ==
  /\ work' \in Seq(RunType) /\ Len(work) \in Nat
  /\ Len(work') = Len(work) + 1
  /\ \A k \in 1..Len(work) : work'[k] = work[k]
  /\ work'[Len(work')].first = i /\ work'[Len(work')].last = i

RunGrown(i) ==
  /\ work' \in Seq(RunType) /\ Len(work) \in Nat \ {0}
  /\ Len(work') = Len(work)
  /\ \A k \in 1..(Len(work) - 1) : work'[k] = work[k]
  /\ work'[Len(work)].first = work[Len(work)].first
  /\ work'[Len(work)].last = i

RunDone ==
  /\ work' \in Seq(RunType) /\ Len(work) \in Nat \ {0}
  /\ Len(work') = Len(work) - 1
  /\ \A k \in 1..Len(work') : k + 1 \in 1..Len(work) /\ work'[k] = work[k + 1]

RunHalved(mid) ==
  /\ Run.first < mid /\ mid <= Run.last
  /\ 2 * (mid - Run.first) <= Size(Run)
  /\ 2 * (Run.last - mid + 1) <= Size(Run) + 1
  /\ work' \in Seq(RunType) /\ Len(work) \in Nat \ {0}
  /\ Len(work') = Len(work) + 1
  /\ work'[1].first = Run.first /\ work'[1].last = mid - 1
  /\ work'[2].first = mid /\ work'[2].last = Run.last
  /\ \A k \in 3..Len(work') : k - 1 \in 2..Len(work) /\ work'[k] = work[k - 1]

LEMMA AppendAddsRun ==
  ASSUME work \in Seq(RunType), NEW i \in Nat,
         work' = Append(work, [first |-> i, last |-> i])
  PROVE  RunAdded(i)
<1>1. [first |-> i, last |-> i] \in RunType
  BY DEF RunType
<1>2. /\ work' \in Seq(RunType) /\ Len(work) \in Nat /\ Len(work') = Len(work) + 1
      /\ \A k \in 1..Len(work) : work'[k] = work[k]
      /\ work'[Len(work) + 1] = [first |-> i, last |-> i]
  BY <1>1
<1>. QED
  BY <1>2 DEF RunAdded

LEMMA ExceptGrowsRun ==
  ASSUME work \in Seq(RunType), work # <<>>, NEW i \in Nat,
         work' = [work EXCEPT ![Len(work)].last = i]
  PROVE  RunGrown(i)
<1>1. /\ Len(work) \in Nat \ {0} /\ DOMAIN work = 1..Len(work)
      /\ Len(work) \in DOMAIN work /\ work[Len(work)] \in RunType
  OBVIOUS
<1>2. [work[Len(work)] EXCEPT !.last = i] \in RunType
  BY <1>1 DEF RunType
<1>3. /\ work' = [work EXCEPT ![Len(work)] = [work[Len(work)] EXCEPT !.last = i]]
      /\ work' \in Seq(RunType)
  BY <1>1, <1>2
<1>4. DOMAIN work' = 1..Len(work)
  BY <1>1, <1>3
<1>5. Len(work') = Len(work)
  BY <1>1, <1>3, <1>4
<1>6. /\ \A k \in 1..(Len(work) - 1) : work'[k] = work[k]
      /\ work'[Len(work)] = [work[Len(work)] EXCEPT !.last = i]
  BY <1>1, <1>3
<1>7. /\ [work[Len(work)] EXCEPT !.last = i].first = work[Len(work)].first
      /\ [work[Len(work)] EXCEPT !.last = i].last = i
  BY <1>1 DEF RunType
<1>. QED
  BY <1>1, <1>3, <1>5, <1>6, <1>7 DEF RunGrown

LEMMA TailDropsRun ==
  ASSUME work \in Seq(RunType), work # <<>>, work' = Tail(work)
  PROVE  RunDone
BY DEF RunDone

LEMMA HalvesReplaceRun ==
  ASSUME work \in Seq(RunType), work # <<>>, Run.first <= Run.last, Size(Run) # 1,
         work' = Halves(Run) \o Tail(work)
  PROVE  \E mid \in Nat : RunHalved(mid)
<1> DEFINE mid == Run.first + Size(Run) \div 2
           left == [first |-> Run.first, last |-> mid - 1]
           right == [first |-> mid, last |-> Run.last]
<1>1. Run \in RunType /\ Len(work) \in Nat \ {0}
  BY DEF Run
<1>2. Run.first \in Nat /\ Run.last \in Nat
  BY <1>1 DEF RunType
<1>3. Run.first < Run.last /\ Size(Run) = Run.last - Run.first + 1
  BY <1>2 DEF Size
<1>4. /\ mid \in Nat /\ Run.first < mid /\ mid <= Run.last
      /\ 2 * (mid - Run.first) <= Size(Run)
      /\ 2 * (Run.last - mid + 1) <= Size(Run) + 1
  BY <1>2, <1>3, Middle
<1>5. Halves(Run) = <<left, right>>
  BY DEF Halves
<1> HIDE DEF mid
<1>6. /\ left \in RunType /\ right \in RunType
      /\ left.first = Run.first /\ left.last = mid - 1
      /\ right.first = mid /\ right.last = Run.last
  <2>1. mid - 1 \in Nat /\ mid \in Nat
    BY <1>2, <1>4
  <2>. QED
    BY <1>2, <2>1 DEF RunType
<1> HIDE DEF left, right
<1>7. /\ work' \in Seq(RunType) /\ Len(work') = Len(work) + 1
      /\ work'[1] = left /\ work'[2] = right
      /\ \A k \in 3..Len(work') : k - 1 \in 2..Len(work) /\ work'[k] = work[k - 1]
  BY <1>5, <1>6, TwoForTheFirst
<1>. QED
  BY <1>1, <1>4, <1>6, <1>7 DEF RunHalved

-----------------------------------------------------------------------------
(* What is built from a text is a number of tokens. *)
LEMMA InputLengthType ==
  ASSUME TypeOK, NEW i \in 1..Len(texts)
  PROVE  InputLength(texts[i]) \in Nat
<1>1. pin \in PinType /\ texts[i] \in [tokens : Nat \ {0}, stable : SUBSET Nat]
  BY EmbeddingAssumption DEF TypeOK
<1>2. Fit(texts[i], BodyBudget(pin)) \in Nat
  BY <1>1, FitIsTight
<1>. QED
  BY <1>1, <1>2 DEF InputLength, PinType

LEMMA RunsTyped ==
  ASSUME TypeOK, NEW k \in 1..Len(work)
  PROVE  work[k] \in RunType /\ work[k].first \in Nat /\ work[k].last \in Nat
<1>1. work[k] \in RunType
  BY DEF TypeOK
<1>. QED
  BY <1>1 DEF RunType

(* A step of the grouping keeps the runs in order. *)
LEMMA GroupingKeepsRuns ==
  ASSUME EmbeddingInv, GroupInput
  PROVE  /\ work' \in Seq(RunType) /\ current_max' \in Nat
         /\ \A k \in 1..Len(work') : RunOK(k)'
         /\ work'[1].first = 1
<1> DEFINE i == Grouped + 1
<1>1. /\ inputs' = inputs /\ vectors = <<>> /\ Grouped < Len(inputs)
      /\ Len(inputs) \in Nat /\ Len(work) \in Nat /\ work \in Seq(RunType)
  BY DEF EmbeddingInv, TypeOK, Built, GroupInput
<1>2. /\ Grouped \in Nat
      /\ work # <<>> => Len(work) \in 1..Len(work) /\ Grouped = work[Len(work)].last
  <2>1. CASE work = <<>>
    BY <2>1 DEF Grouped
  <2>2. CASE work # <<>>
    <3>1. Len(work) \in 1..Len(work)
      BY <1>1, <2>2
    <3>. QED
      BY <2>2, <3>1, RunsTyped DEF Grouped, Last, EmbeddingInv
  <2>. QED
    BY <2>1, <2>2
<1>3. i \in 1..Len(inputs) /\ i \in Nat /\ inputs[i] \in Nat
  BY <1>1, <1>2 DEF EmbeddingInv, TypeOK
<1>4. current_max' \in Nat
  BY <1>3 DEF GroupInput, Larger, EmbeddingInv, TypeOK
<1>5. ASSUME NEW k \in 1..Len(work)
      PROVE  RunOK(k) /\ work[k].first \in Nat /\ work[k].last \in Nat
  BY RunsTyped DEF EmbeddingInv
<1>6. work # <<>> => work[1].first = 1
  BY <1>1 DEF EmbeddingInv, Covered
<1> HIDE DEF i
<1>7. CASE work = <<>> \/ GroupFull(inputs[i])
  <2>1. work' = Append(work, [first |-> i, last |-> i])
    BY <1>7 DEF GroupInput, i
  <2>2. /\ work' \in Seq(RunType) /\ Len(work') = Len(work) + 1
        /\ \A k \in 1..Len(work) : work'[k] = work[k]
        /\ work'[Len(work')].first = i /\ work'[Len(work')].last = i
    BY <1>1, <1>3, <2>1, AppendAddsRun DEF RunAdded
  <2>3. ASSUME NEW k \in 1..Len(work), NEW j \in 1..k PROVE work[j].last < i
    <3>1. /\ Len(work) \in 1..Len(work) /\ work # <<>> /\ j \in 1..Len(work)
          /\ work[Len(work)].last + 1 = i
      BY <1>1, <1>2 DEF i
    <3>2. CASE j = Len(work)
      BY <1>5, <3>1, <3>2
    <3>3. CASE j < Len(work)
      <4>1. /\ work[j].last < work[Len(work)].first
            /\ work[Len(work)].first <= work[Len(work)].last
        BY <1>5, <3>1, <3>3 DEF RunOK
      <4>2. /\ work[j].last \in Nat /\ work[Len(work)].first \in Nat
            /\ work[Len(work)].last \in Nat
        BY <1>5, <3>1
      <4>. QED
        BY <3>1, <4>1, <4>2
    <3>. QED
      BY <1>1, <3>1, <3>2, <3>3
  <2>4. work'[1].first = 1
    <3>1. CASE work = <<>>
      BY <2>2, <3>1 DEF Grouped, i
    <3>2. CASE work # <<>>
      BY <1>1, <1>2, <1>6, <2>2, <3>2
    <3>. QED
      BY <3>1, <3>2
  <2>5. ASSUME NEW k \in 1..Len(work') PROVE RunOK(k)'
    <3>1. CASE k \in 1..Len(work)
      <4>1. RunOK(k) /\ work'[k] = work[k]
        BY <1>5, <2>2, <3>1
      <4>2. /\ \A j \in 1..(k - 1) : work'[j] = work[j]
            /\ k > 1 => work'[k - 1] = work[k - 1]
        <5>1. /\ \A j \in 1..(k - 1) : j \in 1..Len(work)
              /\ k > 1 => k - 1 \in 1..Len(work)
          BY <3>1
        <5>. QED
          BY <2>2, <5>1
      <4>. QED
        BY <1>1, <4>1, <4>2 DEF RunOK
    <3>2. CASE k = Len(work) + 1
      <4>1. /\ work'[k].first = i /\ work'[k].last = i
            /\ 1 <= i /\ i <= Len(inputs)
        BY <1>3, <2>2, <3>2
      <4>2. \A j \in 1..(k - 1) : work'[j].last < i
        BY <1>1, <2>2, <2>3, <3>2
      <4>3. k > 1 => i = work'[k - 1].last + 1
        BY <1>1, <1>2, <2>2, <3>2 DEF i
      <4>. QED
        BY <1>1, <1>3, <4>1, <4>2, <4>3 DEF RunOK
    <3>. QED
      BY <1>1, <2>2, <3>1, <3>2
  <2>. QED
    BY <1>4, <2>2, <2>4, <2>5
<1>8. CASE ~(work = <<>> \/ GroupFull(inputs[i]))
  <2>1. work' = [work EXCEPT ![Len(work)].last = i] /\ work # <<>>
    BY <1>8 DEF GroupInput, i
  <2>2. /\ work' \in Seq(RunType) /\ Len(work) \in Nat \ {0}
        /\ Len(work') = Len(work)
        /\ \A k \in 1..(Len(work) - 1) : work'[k] = work[k]
        /\ work'[Len(work)].first = work[Len(work)].first
        /\ work'[Len(work)].last = i
    BY <1>1, <1>3, <2>1, ExceptGrowsRun DEF RunGrown
  <2>3. work'[1].first = 1
    BY <1>6, <2>1, <2>2
  <2>4. ASSUME NEW k \in 1..Len(work') PROVE RunOK(k)'
    <3>1. CASE k < Len(work)
      <4>1. RunOK(k) /\ work'[k] = work[k]
        BY <1>5, <2>2, <3>1
      <4>2. /\ \A j \in 1..(k - 1) : work'[j] = work[j]
            /\ k > 1 => work'[k - 1] = work[k - 1]
        <5>1. /\ \A j \in 1..(k - 1) : j \in 1..(Len(work) - 1)
              /\ k > 1 => k - 1 \in 1..(Len(work) - 1)
          BY <2>2, <3>1
        <5>. QED
          BY <2>2, <5>1
      <4>. QED
        BY <1>1, <4>1, <4>2 DEF RunOK
    <3>2. CASE k = Len(work)
      <4>1. /\ work'[k].first = work[k].first /\ work'[k].last = i
            /\ work[k].last < i /\ i <= Len(inputs)
        BY <1>2, <1>3, <1>5, <2>1, <2>2, <3>2 DEF i
      <4>2. /\ 1 <= work'[k].first /\ work'[k].first <= work'[k].last
        <5>1. /\ 1 <= work[k].first /\ work[k].first <= work[k].last
              /\ work[k].first \in Nat /\ work[k].last \in Nat
          BY <1>5, <2>2, <3>2 DEF RunOK
        <5>. QED
          BY <1>3, <4>1, <5>1
      <4>3. /\ \A j \in 1..(k - 1) : work'[j].last < work'[k].first
            /\ k > 1 => work'[k].first = work'[k - 1].last + 1
        <5>1. RunOK(k)
          BY <1>5, <2>2, <3>2
        <5>2. /\ \A j \in 1..(k - 1) : work'[j] = work[j]
              /\ k > 1 => work'[k - 1] = work[k - 1]
          BY <2>2, <3>2
        <5>. QED
          BY <4>1, <5>1, <5>2 DEF RunOK
      <4>. QED
        BY <1>1, <4>1, <4>2, <4>3 DEF RunOK
    <3>. QED
      BY <2>2, <3>1, <3>2
  <2>. QED
    BY <1>4, <2>2, <2>3, <2>4
<1>. QED
  BY <1>7, <1>8

(* When the first run has its vectors, the others still cover the rest. *)
LEMMA ConsumingKeepsRuns ==
  ASSUME EmbeddingInv, stage = "encode", work # <<>>, RunDone,
         UNCHANGED <<stage, inputs>>, Len(vectors') = Run.last
  PROVE  /\ work' \in Seq(RunType)
         /\ \A k \in 1..Len(work') : RunOK(k)'
         /\ Covered'
<1>1. /\ work' \in Seq(RunType) /\ Len(work) \in Nat \ {0}
      /\ Len(work') = Len(work) - 1
      /\ \A k \in 1..Len(work') : k + 1 \in 1..Len(work) /\ work'[k] = work[k + 1]
  BY DEF RunDone
<1>2. ASSUME NEW k \in 1..Len(work)
      PROVE  RunOK(k) /\ work[k].first \in Nat /\ work[k].last \in Nat
  BY RunsTyped DEF EmbeddingInv
<1>3. ASSUME NEW k \in 1..Len(work') PROVE RunOK(k)'
  <2>1. k + 1 \in 1..Len(work) /\ work'[k] = work[k + 1] /\ RunOK(k + 1)
    BY <1>1, <1>2
  <2>2. ASSUME NEW j \in 1..(k - 1) PROVE work'[j].last < work'[k].first
    <3>1. /\ j \in 1..Len(work') /\ j + 1 \in 1..((k + 1) - 1)
          /\ work'[j] = work[j + 1]
      BY <1>1
    <3>. QED
      BY <2>1, <3>1 DEF RunOK
  <2>3. ASSUME k > 1 PROVE work'[k].first = work'[k - 1].last + 1
    <3>1. /\ k - 1 \in 1..Len(work') /\ (k - 1) + 1 = (k + 1) - 1
          /\ work'[k - 1] = work[(k - 1) + 1] /\ k + 1 > 1
      BY <1>1, <2>3
    <3>. QED
      BY <2>1, <3>1 DEF RunOK
  <2>. QED
    BY <2>1, <2>2, <2>3 DEF RunOK
<1>4. Last.last = Len(inputs)
  BY DEF EmbeddingInv, Covered
<1>5. CASE work' = <<>>
  <2>1. Len(work) = 1
    BY <1>1, <1>5
  <2>. QED
    BY <1>1, <1>3, <1>4, <1>5, <2>1 DEF Covered, Last, Run
<1>6. CASE work' # <<>>
  <2>1. /\ Len(work') \in 1..Len(work') /\ 1 \in 1..Len(work')
        /\ Len(work') + 1 = Len(work) /\ 2 \in 1..Len(work)
    BY <1>1, <1>6
  <2>2. work'[1].first = Run.last + 1
    BY <1>1, <1>2, <2>1 DEF RunOK, Run
  <2>3. work'[Len(work')].last = Len(inputs)
    BY <1>1, <1>4, <2>1 DEF Last
  <2>. QED
    BY <1>1, <1>3, <1>6, <2>2, <2>3 DEF Covered, Last
<1>. QED
  BY <1>1, <1>3, <1>5, <1>6

(* So do the two halves of a run. *)
LEMMA HalvingKeepsRuns ==
  ASSUME EmbeddingInv, stage = "encode", work # <<>>,
         NEW mid \in Nat, RunHalved(mid), UNCHANGED <<stage, inputs, vectors>>
  PROVE  /\ work' \in Seq(RunType)
         /\ \A k \in 1..Len(work') : RunOK(k)'
         /\ Covered'
<1>1. work \in Seq(RunType) /\ Len(work) \in Nat \ {0} /\ 1 \in 1..Len(work)
  BY DEF EmbeddingInv, TypeOK
<1>2. ASSUME NEW k \in 1..Len(work)
      PROVE  RunOK(k) /\ work[k].first \in Nat /\ work[k].last \in Nat
  BY RunsTyped DEF EmbeddingInv
<1>4. /\ Run.first < mid /\ mid <= Run.last
      /\ work' \in Seq(RunType) /\ Len(work') = Len(work) + 1
      /\ work'[1].first = Run.first /\ work'[1].last = mid - 1
      /\ work'[2].first = mid /\ work'[2].last = Run.last
      /\ \A k \in 3..Len(work') : k - 1 \in 2..Len(work) /\ work'[k] = work[k - 1]
  BY DEF RunHalved
<1>5. /\ work[1] = Run /\ Run.first \in Nat /\ Run.last \in Nat
      /\ 1 <= Run.first /\ Run.last <= Len(inputs)
  BY <1>1, <1>2 DEF RunOK, Run
<1>6. ASSUME NEW k \in 1..Len(work') PROVE RunOK(k)'
  <2>1. CASE k = 1
    <3>1. /\ 1 <= work'[1].first /\ work'[1].first <= work'[1].last
          /\ work'[1].last <= Len(inputs)
      <4>1. Len(inputs) \in Nat
        BY DEF EmbeddingInv, TypeOK
      <4>. QED
        BY <1>4, <1>5, <4>1
    <3>. QED
      BY <2>1, <3>1 DEF RunOK
  <2>2. CASE k = 2
    <3>1. /\ 1 <= work'[2].first /\ work'[2].first <= work'[2].last
          /\ work'[2].last <= Len(inputs)
          /\ work'[1].last < work'[2].first /\ work'[2].first = work'[1].last + 1
      BY <1>4, <1>5
    <3>. QED
      BY <2>2, <3>1 DEF RunOK
  <2>3. CASE k \in 3..Len(work')
    <3>1. k - 1 \in 2..Len(work) /\ k - 1 \in 1..Len(work) /\ work'[k] = work[k - 1]
      BY <1>1, <1>4, <2>3
    <3>2. RunOK(k - 1) /\ work[k - 1].first \in Nat
      BY <1>2, <3>1
    <3>3. Run.last < work'[k].first
      BY <1>5, <3>1, <3>2 DEF RunOK
    <3>4. ASSUME NEW j \in 1..(k - 1) PROVE work'[j].last < work'[k].first
      <4>1. CASE j = 1
        BY <1>4, <1>5, <3>1, <3>2, <3>3, <4>1
      <4>2. CASE j = 2
        BY <1>4, <3>3, <4>2
      <4>3. CASE j \in 3..(k - 1)
        <5>1. j \in 3..Len(work') /\ j - 1 \in 1..((k - 1) - 1)
          BY <1>1, <1>4, <2>3, <4>3
        <5>. QED
          BY <1>4, <3>1, <3>2, <5>1 DEF RunOK
      <4>. QED
        BY <2>3, <4>1, <4>2, <4>3
    <3>5. work'[k].first = work'[k - 1].last + 1
      <4>1. work[k - 1].first = work[(k - 1) - 1].last + 1
        BY <3>1, <3>2 DEF RunOK
      <4>2. CASE k = 3
        BY <1>4, <1>5, <3>1, <4>1, <4>2
      <4>3. CASE k - 1 \in 3..Len(work')
        BY <1>4, <3>1, <4>1, <4>3
      <4>. QED
        BY <1>1, <1>4, <2>3, <4>2, <4>3
    <3>. QED
      BY <3>1, <3>2, <3>4, <3>5 DEF RunOK
  <2>. QED
    BY <1>1, <1>4, <2>1, <2>2, <2>3
<1>7. Last.last = Len(inputs) /\ work[1].first = Len(vectors) + 1
  BY DEF EmbeddingInv, Covered
<1>8. work'[Len(work')].last = Len(inputs)
  <2>1. CASE Len(work) = 1
    BY <1>4, <1>7, <2>1 DEF Last, Run
  <2>2. CASE Len(work) # 1
    <3>1. \A n \in Nat \ {0} : n # 1 => n + 1 \in 3..(n + 1) /\ (n + 1) - 1 = n
      OBVIOUS
    <3>2. Len(work') \in 3..Len(work') /\ Len(work') - 1 = Len(work)
      BY <1>1, <1>4, <2>2, <3>1
    <3>. QED
      BY <1>4, <1>7, <3>2 DEF Last
  <2>. QED
    BY <2>1, <2>2
<1>9. Covered'
  BY <1>1, <1>4, <1>5, <1>7, <1>8 DEF Covered, Last
<1>. QED
  BY <1>4, <1>6, <1>9

(***************************************************************************)
(* The inputs without a vector are in the worklist, in order and once      *)
(* each, and those with one have the right one.                            *)
(***************************************************************************)
THEOREM EmbeddingInvariant == Spec => []EmbeddingInv
<1>1. Init => EmbeddingInv
  <2> SUFFICES ASSUME Init PROVE EmbeddingInv
    OBVIOUS
  <2>1. PICK n \in 0..MaxTexts : texts \in [1..n -> Texts]
    BY DEF Init
  <2>2. texts \in Seq(Texts) /\ Len(texts) = n /\ n \in Nat /\ DOMAIN texts = 1..n
    BY <2>1, EmbeddingAssumption
  <2>3. TypeOK
    BY <2>2 DEF Init, TypeOK, Classes
  <2>4. Len(inputs) = 0 /\ Len(work) = 0 /\ Len(vectors) = 0
    BY DEF Init
  <2>5. Built /\ Covered /\ Answered
    BY <2>2, <2>4 DEF Init, Built, Covered, Answered
  <2>. QED
    BY <2>3, <2>4, <2>5 DEF EmbeddingInv
<1>2. ASSUME EmbeddingInv, [Next]_vars PROVE EmbeddingInv'
  <2> USE <1>2
  <2>0. TypeOK /\ Built /\ Covered /\ Answered /\ \A k \in 1..Len(work) : RunOK(k)
    BY DEF EmbeddingInv
  <2>t. /\ Len(inputs) \in Nat /\ Len(work) \in Nat /\ Len(vectors) \in Nat
        /\ Len(texts) \in Nat /\ Classes \subseteq Classes \cup {"none"}
    BY <2>0 DEF TypeOK
  <2>1. CASE BuildInput
    <3>1. /\ Len(inputs) + 1 \in 1..Len(texts) /\ work = <<>> /\ vectors = <<>>
          /\ UNCHANGED <<request, stage, current_max, work, vectors, failure,
                         encodes, groups>>
      BY <2>0, <2>t, <2>1 DEF BuildInput, Built
    <3>2. InputLength(texts[Len(inputs) + 1]) \in Nat
      BY <2>0, <3>1, InputLengthType
    <3>3. /\ inputs' \in Seq(Nat) /\ Len(inputs') = Len(inputs) + 1
          /\ \A i \in 1..Len(inputs) : inputs'[i] = inputs[i]
          /\ inputs'[Len(inputs) + 1] = InputLength(texts[Len(inputs) + 1])
      BY <2>0, <2>1, <3>2 DEF BuildInput, TypeOK
    <3>4. TypeOK'
      BY <2>0, <3>1, <3>3 DEF TypeOK, request
    <3>5. ASSUME NEW i \in 1..Len(inputs') PROVE inputs'[i] = InputLength(texts[i])'
      <4>1. InputLength(texts[i])' = InputLength(texts[i])
        BY <3>1 DEF request, InputLength
      <4>2. i \in 1..Len(inputs) \/ i = Len(inputs) + 1
        BY <2>t, <3>3
      <4>. QED
        BY <2>0, <3>3, <4>1, <4>2 DEF Built
    <3>6. Built'
      BY <2>0, <2>t, <2>1, <3>1, <3>3, <3>5 DEF Built, BuildInput, request
    <3>7. Len(work') = 0 /\ Len(vectors') = 0
      BY <3>1
    <3>8. Covered' /\ Answered'
      BY <2>0, <2>t, <2>1, <3>1, <3>3, <3>7
      DEF Covered, Answered, BuildInput, request
    <3>. QED
      BY <3>4, <3>6, <3>7, <3>8 DEF EmbeddingInv
  <2>2. CASE TokenizeFails
    <3>1. /\ UNCHANGED <<request, inputs, current_max, work, vectors, encodes, groups>>
          /\ stage' = "done" /\ failure' = "application"
          /\ stage = "build"
      BY <2>2 DEF TokenizeFails
    <3>2. TypeOK'
      BY <2>0, <3>1 DEF TypeOK, request, Classes
    <3>3. Built'
      BY <2>0, <3>1 DEF Built, request, InputLength
    <3>4. (\A k \in 1..Len(work) : RunOK(k))' /\ Covered' /\ Answered'
      BY <2>0, <3>1 DEF RunOK, Covered, Answered, request
    <3>. QED
      BY <3>2, <3>3, <3>4 DEF EmbeddingInv
  <2>3. CASE InputsBuilt
    <3>1. /\ UNCHANGED <<request, inputs, current_max, work, vectors, failure,
                         encodes, groups>>
          /\ stage = "build" /\ stage' = "group" /\ Len(inputs) = Len(texts)
      BY <2>3 DEF InputsBuilt
    <3>2. TypeOK'
      BY <2>0, <3>1 DEF TypeOK, request
    <3>3. Built'
      BY <2>0, <3>1 DEF Built, request, InputLength
    <3>4. (\A k \in 1..Len(work) : RunOK(k))' /\ Covered' /\ Answered'
      BY <2>0, <3>1 DEF RunOK, Covered, Answered, request
    <3>. QED
      BY <3>2, <3>3, <3>4 DEF EmbeddingInv
  <2>4. CASE GroupInput
    <3>1. /\ UNCHANGED <<request, stage, inputs, vectors, failure, encodes, groups>>
          /\ stage = "group" /\ vectors = <<>>
      BY <2>0, <2>4 DEF GroupInput, Built
    <3>2. /\ work' \in Seq(RunType) /\ current_max' \in Nat
          /\ \A k \in 1..Len(work') : RunOK(k)'
          /\ work'[1].first = 1
      BY <2>4, GroupingKeepsRuns
    <3>3. TypeOK'
      BY <2>0, <3>1, <3>2 DEF TypeOK, request
    <3>4. Built'
      BY <2>0, <3>1 DEF Built, request, InputLength
    <3>5. Covered'
      BY <3>1, <3>2 DEF Covered
    <3>6. Answered'
      BY <2>0, <3>1 DEF Answered, request
    <3>. QED
      BY <3>2, <3>3, <3>4, <3>5, <3>6 DEF EmbeddingInv
  <2>5. CASE InputsGrouped
    <3>1. /\ UNCHANGED <<request, inputs, current_max, work, vectors, failure, encodes>>
          /\ stage = "group" /\ stage' = "encode" /\ groups' = Len(work)
          /\ Grouped = Len(inputs) /\ vectors = <<>>
      BY <2>0, <2>5 DEF InputsGrouped, Built
    <3>2. TypeOK'
      BY <2>0, <2>t, <3>1 DEF TypeOK, request
    <3>3. Built'
      BY <2>0, <3>1 DEF Built, request, InputLength
    <3>4. Covered'
      BY <2>0, <3>1 DEF Covered, Grouped, Last
    <3>5. (\A k \in 1..Len(work) : RunOK(k))' /\ Answered'
      BY <2>0, <3>1 DEF RunOK, Answered, request
    <3>. QED
      BY <3>2, <3>3, <3>4, <3>5 DEF EmbeddingInv
  <2>6. CASE EncodeSucceeds
    <3>1. /\ UNCHANGED <<request, stage, inputs, current_max, failure, groups>>
          /\ stage = "encode" /\ work # <<>> /\ encodes' = encodes + 1
          /\ \A i \in Members(Run) : i \notin poison /\ inputs[i] # 0
          /\ work' = Tail(work)
      BY <2>6 DEF EncodeSucceeds
    <3>2. RunDone
      <4>1. work \in Seq(RunType)
        BY <2>0 DEF TypeOK
      <4>. QED
        BY <3>1, <4>1, TailDropsRun
    <3>3. /\ Run.first \in Nat /\ Run.last \in Nat
          /\ Run.first <= Run.last /\ Run.last <= Len(inputs)
          /\ Run.first = Len(vectors) + 1
      <4>1. 1 \in 1..Len(work)
        BY <3>2 DEF RunDone
      <4>. QED
        BY <2>0, <3>1, <4>1, RunsTyped DEF RunOK, Covered, Run
    <3> DEFINE new == [i \in 1..Size(Run) |-> "vector"]
    <3>4. /\ Size(Run) \in Nat /\ Size(Run) = Run.last - Run.first + 1
          /\ Len(vectors) + Size(Run) = Run.last
      BY <2>t, <3>3 DEF Size
    <3>5. /\ new \in Seq({"vector", "zero"}) /\ Len(new) = Size(Run)
          /\ \A i \in 1..Size(Run) : new[i] = "vector"
      BY <3>4
    <3>6. vectors' = vectors \o new
      BY <2>6 DEF EncodeSucceeds
    <3> HIDE DEF new
    <3>7. /\ vectors' \in Seq({"vector", "zero"})
          /\ Len(vectors') = Len(vectors) + Len(new)
          /\ \A i \in 1..Len(vectors) : vectors'[i] = vectors[i]
          /\ \A i \in (Len(vectors) + 1)..(Len(vectors) + Len(new)) :
               vectors'[i] = new[i - Len(vectors)]
      <4>1. vectors \in Seq({"vector", "zero"}) /\ new \in Seq({"vector", "zero"})
        BY <2>0, <3>5 DEF TypeOK
      <4>. QED
        BY <3>6, <4>1, Concatenated
    <3>8. /\ Len(vectors') = Run.last
          /\ \A i \in Members(Run) : vectors'[i] = "vector"
      <4>1. \A i \in Members(Run) :
              /\ i \in (Len(vectors) + 1)..(Len(vectors) + Len(new))
              /\ i - Len(vectors) \in 1..Size(Run)
        BY <2>t, <3>3, <3>4, <3>5 DEF Members
      <4>. QED
        BY <3>4, <3>5, <3>7, <4>1
    <3>9. /\ work' \in Seq(RunType)
          /\ \A k \in 1..Len(work') : RunOK(k)'
          /\ Covered'
      BY <3>1, <3>2, <3>8, ConsumingKeepsRuns
    <3>10. TypeOK'
      BY <2>0, <3>1, <3>7, <3>9 DEF TypeOK, request
    <3>11. Built'
      BY <2>0, <3>1 DEF Built, request, InputLength
    <3>12. ASSUME NEW i \in 1..Len(vectors')
           PROVE  vectors'[i] = "zero" <=> i \in poison \/ inputs[i] = 0
      <4>1. i \in 1..Len(vectors) \/ i \in Members(Run)
        BY <2>t, <3>3, <3>8 DEF Members
      <4>2. CASE i \in 1..Len(vectors)
        BY <2>0, <3>7, <4>2 DEF Answered
      <4>3. CASE i \in Members(Run)
        BY <3>1, <3>8, <4>3
      <4>. QED
        BY <4>1, <4>2, <4>3
    <3>13. Answered'
      BY <2>0, <3>1, <3>3, <3>8, <3>12 DEF Answered, request
    <3>. QED
      BY <3>9, <3>10, <3>11, <3>13 DEF EmbeddingInv
  <2>7. CASE EncodeFailsAsItem
    <3>1. /\ UNCHANGED <<request, stage, inputs, current_max, failure, groups>>
          /\ stage = "encode" /\ work # <<>> /\ encodes' = encodes + 1
          /\ MayFailAsItem
      BY <2>7 DEF EncodeFailsAsItem
    <3>2. 1 \in 1..Len(work)
      BY <2>0, <3>1 DEF TypeOK
    <3>3. /\ Run.first \in Nat /\ Run.last \in Nat
          /\ Run.first <= Run.last /\ Run.last <= Len(inputs)
          /\ Run.first = Len(vectors) + 1
      BY <2>0, <3>1, <3>2, RunsTyped DEF RunOK, Covered, Run
    <3>4. Built'
      BY <2>0, <3>1 DEF Built, request, InputLength
    <3>5. CASE Size(Run) = 1
      <4>1. work' = Tail(work) /\ vectors' = Append(vectors, "zero")
        BY <2>7, <3>5 DEF EncodeFailsAsItem
      <4>2. RunDone
        BY <2>0, <3>1, <4>1, TailDropsRun DEF TypeOK
      <4>3. /\ vectors' \in Seq({"vector", "zero"})
            /\ Len(vectors') = Len(vectors) + 1
            /\ \A i \in 1..Len(vectors) : vectors'[i] = vectors[i]
            /\ vectors'[Len(vectors) + 1] = "zero"
        BY <2>0, <4>1 DEF TypeOK
      <4>4. Run.last = Len(vectors) + 1
        BY <2>t, <3>3, <3>5 DEF Size
      <4>5. Len(vectors) + 1 \in poison \/ inputs[Len(vectors) + 1] = 0
        <5>1. PICK i \in Members(Run) : i \in poison \/ inputs[i] = 0
          BY <3>1, <3>5 DEF MayFailAsItem
        <5>2. i = Len(vectors) + 1
          BY <2>t, <3>3, <4>4 DEF Members
        <5>. QED
          BY <5>1, <5>2
      <4>6. /\ work' \in Seq(RunType)
            /\ \A k \in 1..Len(work') : RunOK(k)'
            /\ Covered'
        BY <3>1, <4>2, <4>3, <4>4, ConsumingKeepsRuns
      <4>7. TypeOK'
        BY <2>0, <3>1, <4>3, <4>6 DEF TypeOK, request
      <4>8. ASSUME NEW i \in 1..Len(vectors')
            PROVE  vectors'[i] = "zero" <=> i \in poison \/ inputs[i] = 0
        <5>1. i \in 1..Len(vectors) \/ i = Len(vectors) + 1
          BY <2>t, <4>3
        <5>. QED
          BY <2>0, <4>3, <4>5, <5>1 DEF Answered
      <4>9. Answered'
        BY <2>0, <3>1, <3>3, <4>3, <4>4, <4>8 DEF Answered, request
      <4>. QED
        BY <3>4, <4>6, <4>7, <4>9 DEF EmbeddingInv
    <3>6. CASE Size(Run) # 1
      <4>1. work' = Halves(Run) \o Tail(work) /\ vectors' = vectors
        BY <2>7, <3>6 DEF EncodeFailsAsItem
      <4>2. PICK mid \in Nat : RunHalved(mid)
        BY <2>0, <3>1, <3>3, <3>6, <4>1, HalvesReplaceRun DEF TypeOK
      <4>3. /\ work' \in Seq(RunType)
            /\ \A k \in 1..Len(work') : RunOK(k)'
            /\ Covered'
        BY <3>1, <4>1, <4>2, HalvingKeepsRuns
      <4>4. TypeOK'
        <5>1. vectors' = vectors
          BY <4>1
        <5>. QED
          BY <2>0, <3>1, <5>1, <4>3 DEF TypeOK, request
      <4>5. Answered'
        <5>1. vectors' = vectors
          BY <4>1
        <5>. QED
          BY <2>0, <3>1, <5>1 DEF Answered, request
      <4>. QED
        BY <3>4, <4>3, <4>4, <4>5 DEF EmbeddingInv
    <3>. QED
      BY <3>5, <3>6
  <2>8. ASSUME NEW class \in Classes, EncodeFailsForAll(class) PROVE EmbeddingInv'
    <3>1. /\ UNCHANGED <<request, inputs, current_max, work, vectors, groups>>
          /\ stage = "encode" /\ stage' = "done" /\ failure' = class
          /\ encodes' = encodes + 1
      BY <2>8 DEF EncodeFailsForAll
    <3>2. TypeOK'
      BY <2>0, <3>1 DEF TypeOK, request
    <3>3. Built'
      BY <2>0, <3>1 DEF Built, request, InputLength
    <3>4. (\A k \in 1..Len(work) : RunOK(k))' /\ Covered' /\ Answered'
      BY <2>0, <3>1 DEF RunOK, Covered, Answered, request, Classes
    <3>. QED
      BY <3>2, <3>3, <3>4 DEF EmbeddingInv
  <2>9. CASE Finish
    <3>1. /\ UNCHANGED <<request, inputs, current_max, work, vectors, encodes, groups>>
          /\ stage = "encode" /\ stage' = "done"
          /\ failure' = IF Len(vectors) = Len(texts) THEN failure ELSE "application"
      BY <2>9 DEF Finish
    <3>2. TypeOK'
      BY <2>0, <3>1 DEF TypeOK, request, Classes
    <3>3. Built'
      BY <2>0, <3>1 DEF Built, request, InputLength
    <3>4. (\A k \in 1..Len(work) : RunOK(k))' /\ Covered' /\ Answered'
      BY <2>0, <3>1 DEF RunOK, Covered, Answered, request
    <3>. QED
      BY <3>2, <3>3, <3>4 DEF EmbeddingInv
  <2>10. CASE UNCHANGED vars
    <3>1. TypeOK' /\ Built'
      BY <2>0, <2>10 DEF vars, request, TypeOK, Built, InputLength
    <3>2. (\A k \in 1..Len(work) : RunOK(k))' /\ Covered' /\ Answered'
      BY <2>0, <2>10 DEF vars, request, RunOK, Covered, Answered, Last
    <3>. QED
      BY <3>1, <3>2 DEF EmbeddingInv
  <2>. QED
    BY <2>1, <2>2, <2>3, <2>4, <2>5, <2>6, <2>7, <2>8, <2>9, <2>10 DEF Next
<1>. QED
  BY <1>1, <1>2, PTL DEF Spec

(* TypeOK is an invariant. *)
THEOREM EmbeddingTypeCorrect == Spec => []TypeOK
<1>1. EmbeddingInv => TypeOK
  BY DEF EmbeddingInv
<1>. QED
  BY <1>1, EmbeddingInvariant, PTL

(* No input is longer than the model allows, or shorter than the round     *)
(* trip demands (truncate.rs:30-42).                                       *)
THEOREM InputsAreFitted == Spec => []InputsFitTightly
<1>1. EmbeddingInv => InputsFitTightly
  <2> SUFFICES ASSUME EmbeddingInv, NEW i \in 1..Len(inputs)
               PROVE  LET reserve == pin.eos_reserve + pin.special_token_overhead
                          body == inputs[i] - reserve
                          allowed == {0} \cup texts[i].stable \cup {texts[i].tokens}
                      IN  /\ inputs[i] <= Larger(pin.max_text_tokens, reserve)
                          /\ body \in allowed
                          /\ \A n \in allowed :
                               n <= texts[i].tokens /\ n + reserve <= pin.max_text_tokens
                                 => n <= body
    BY DEF InputsFitTightly
  <2> DEFINE reserve == pin.eos_reserve + pin.special_token_overhead
             body == Fit(texts[i], BodyBudget(pin))
             allowed == {0} \cup texts[i].stable \cup {texts[i].tokens}
  <2>1. /\ pin \in PinType
        /\ texts[i] \in [tokens : Nat \ {0}, stable : SUBSET Nat]
    <3>1. i \in 1..Len(texts) /\ pin \in Pins /\ texts \in Seq(Texts)
      BY DEF EmbeddingInv, TypeOK, Built
    <3>2. texts[i] \in Texts
      BY <3>1
    <3>. QED
      BY <3>1, <3>2, EmbeddingAssumption
  <2>2. /\ body \in Nat
        /\ body + reserve <= Larger(pin.max_text_tokens, reserve)
        /\ body \in allowed
        /\ \A n \in allowed :
             n <= texts[i].tokens /\ n + reserve <= pin.max_text_tokens => n <= body
    BY <2>1, FitIsTight
  <2>3. reserve \in Nat
    BY <2>1 DEF PinType
  <2>4. inputs[i] = body + pin.eos_reserve + pin.special_token_overhead
    BY DEF EmbeddingInv, Built, InputLength
  <2> HIDE DEF body
  <2>5. inputs[i] = body + reserve /\ inputs[i] - reserve = body
    BY <2>1, <2>2, <2>4 DEF PinType
  <2>. QED
    BY <2>2, <2>5
<1>. QED
  BY <1>1, EmbeddingInvariant, PTL

(* An answer has one vector per text, in order, and the zero vector only   *)
(* for the inputs that cannot be encoded (engine.rs:847-851).              *)
THEOREM ZeroOnlyForPoison == Spec => []OnlyPoisonIsZeroed
<1>1. EmbeddingInv => OnlyPoisonIsZeroed
  BY DEF EmbeddingInv, Answered, OnlyPoisonIsZeroed
<1>. QED
  BY <1>1, EmbeddingInvariant, PTL

-----------------------------------------------------------------------------
LEMMA LimitsTyped ==
  ASSUME TypeOK
  PROVE  GroupBudget \in Nat /\ MaxSequences \in Nat
BY EmbeddingAssumption DEF GroupBudget, MaxSequences, Larger

(* What is asked of a context shrinks with its inputs and its sequences. *)
LEMMA Smaller ==
  ASSUME NEW a \in Nat, NEW b \in Nat, NEW c \in Nat, NEW d \in Nat, a <= b, c <= d
  PROVE  a * c <= b * d /\ a * c \in Nat /\ b * d \in Nat
OBVIOUS

(* A run within a run there is room for has room too. *)
LEMMA RoomForPart ==
  ASSUME EmbeddingInv, NEW k \in 1..Len(work), Room(work[k]), Size(work[k]) # 1,
         NEW run \in RunType, work[k].first <= run.first, run.first <= run.last,
         run.last <= work[k].last
  PROVE  Room(run)
<1>1. /\ work[k].first \in Nat /\ work[k].last \in Nat
      /\ run.first \in Nat /\ run.last \in Nat
  BY RunsTyped DEF EmbeddingInv, RunType
<1>2. /\ Size(run) \in Nat /\ Size(work[k]) \in Nat /\ Size(run) <= Size(work[k])
  <2>1. \A a, b, c, d \in Nat : a <= c /\ c <= d /\ d <= b =>
          /\ d - c + 1 \in Nat /\ b - a + 1 \in Nat /\ d - c + 1 <= b - a + 1
    OBVIOUS
  <2>. QED
    BY <1>1, <2>1 DEF Size
<1>3. GroupBudget \in Nat /\ MaxSequences \in Nat
  BY LimitsTyped DEF EmbeddingInv
<1>4. ASSUME NEW i \in Members(run) PROVE inputs[i] * Size(run) <= GroupBudget
  <2>1. i \in Members(work[k])
    BY <1>1 DEF Members
  <2>2. inputs[i] \in Nat
    <3>1. i \in 1..Len(inputs)
      BY <1>1, <2>1 DEF Members, EmbeddingInv, RunOK
    <3>. QED
      BY <3>1 DEF EmbeddingInv, TypeOK
  <2>3. inputs[i] * Size(run) <= inputs[i] * Size(work[k])
    BY <1>2, <2>2, Smaller
  <2>4. inputs[i] * Size(work[k]) <= GroupBudget
    BY <2>1 DEF Room
  <2>5. inputs[i] * Size(run) \in Nat /\ inputs[i] * Size(work[k]) \in Nat
    BY <1>2, <2>2
  <2>. QED
    BY <1>3, <2>3, <2>4, <2>5
<1>5. Size(run) <= MaxSequences
  BY <1>2, <1>3 DEF Room
<1>. QED
  BY <1>4, <1>5 DEF Room

(* The room of a run depends on the request and its inputs alone. *)
LEMMA RoomKept ==
  ASSUME UNCHANGED <<request, inputs>>
  PROVE  \A run, k : work'[k] = run /\ Room(run) => Room(work[k])'
BY DEF request, Room, Size, Members, MaxSequences, GroupBudget

LEMMA RoomIsInductive ==
  ASSUME EmbeddingInv, EmbeddingInv', RoomInv, [Next]_vars
  PROVE  RoomInv'
<1>0. /\ TypeOK /\ Built /\ Covered /\ \A k \in 1..Len(work) : RunOK(k)
      /\ Len(work) \in Nat /\ Len(inputs) \in Nat
  BY DEF EmbeddingInv, TypeOK
<1>1. CASE \/ BuildInput \/ TokenizeFails \/ Finish
           \/ \E class \in Classes : EncodeFailsForAll(class)
  BY <1>1 DEF BuildInput, TokenizeFails, Finish, EncodeFailsForAll, RoomInv
<1>2. CASE InputsBuilt
  <2>1. work' = <<>> /\ Len(work') = 0
    BY <1>0, <1>2 DEF InputsBuilt, Built
  <2>. QED
    BY <2>1 DEF RoomInv
<1>3. CASE GroupInput
  <2> DEFINE i == Grouped + 1
  <2>1. /\ stage = "group" /\ stage' = "group" /\ UNCHANGED <<request, inputs>>
        /\ Grouped < Len(inputs)
    BY <1>3 DEF GroupInput
  <2>2. /\ Grouped \in Nat
        /\ work # <<>> => Len(work) \in 1..Len(work) /\ Grouped = work[Len(work)].last
    <3>1. CASE work = <<>>
      BY <3>1 DEF Grouped
    <3>2. CASE work # <<>>
      <4>1. Len(work) \in 1..Len(work)
        BY <1>0, <3>2 DEF TypeOK
      <4>. QED
        BY <1>0, <3>2, <4>1, RunsTyped DEF Grouped, Last
    <3>. QED
      BY <3>1, <3>2
  <2>3. i \in 1..Len(inputs) /\ i \in Nat /\ inputs[i] \in Nat
    BY <1>0, <2>1, <2>2 DEF TypeOK
  <2>4. /\ GroupBudget \in Nat /\ MaxSequences \in Nat
        /\ GroupBudget' = GroupBudget /\ MaxSequences' = MaxSequences
    BY <1>0, <2>1, LimitsTyped DEF request, GroupBudget, MaxSequences
  <2>5. CASE work = <<>> \/ GroupFull(inputs[i])
    <3>1. work' = Append(work, [first |-> i, last |-> i]) /\ current_max' = inputs[i]
      BY <1>3, <2>5 DEF GroupInput
    <3> HIDE DEF i
    <3>2. RunAdded(i)
      BY <1>0, <2>3, <3>1, AppendAddsRun DEF TypeOK
    <3>3. /\ Len(work') = Len(work) + 1
          /\ \A k \in 1..Len(work) : work'[k] = work[k]
          /\ work'[Len(work')].first = i /\ work'[Len(work')].last = i
      BY <3>2 DEF RunAdded
    <3>4. ASSUME NEW k \in 1..Len(work') PROVE Room(work[k])'
      <4>1. CASE k \in 1..Len(work)
        BY <2>1, <3>3, <4>1, RoomKept DEF RoomInv
      <4>2. CASE k = Len(work')
        BY <2>3, <3>3, <4>2 DEF Room, Size
      <4>. QED
        BY <1>0, <3>3, <4>1, <4>2
    <3>5. \A j \in Members(Last)' : inputs'[j] <= current_max'
      <4>1. Members(Last)' = i..i
        BY <3>3 DEF Members, Last
      <4>2. current_max' = inputs[i]
        BY <3>1
      <4>. QED
        BY <2>1, <2>3, <4>1, <4>2
    <3>. QED
      BY <3>4, <3>5 DEF RoomInv
  <2>6. CASE ~(work = <<>> \/ GroupFull(inputs[i]))
    <3>1. /\ work' = [work EXCEPT ![Len(work)].last = i]
          /\ current_max' = Larger(current_max, inputs[i]) /\ work # <<>>
          /\ ~GroupFull(inputs[i])
      BY <1>3, <2>6 DEF GroupInput
    <3>2. RunGrown(i)
      <4> HIDE DEF i
      <4>. QED
        BY <1>0, <2>3, <3>1, ExceptGrowsRun DEF TypeOK
    <3>3. /\ Len(work') = Len(work) /\ Len(work) \in 1..Len(work)
          /\ \A k \in 1..(Len(work) - 1) : work'[k] = work[k]
          /\ work'[Len(work)].first = Last.first /\ work'[Len(work)].last = i
      BY <3>2 DEF RunGrown, Last
    <3>4. /\ Last.first \in Nat /\ Last.last \in Nat /\ Last.first <= Last.last
          /\ i = Last.last + 1 /\ Size(Last) = Last.last - Last.first + 1
          /\ Size(Last) \in Nat
      BY <1>0, <2>2, <3>1, <3>3, RunsTyped DEF RunOK, Last, Size
    <3> DEFINE grown == Larger(current_max, inputs[i])
    <3>5. /\ Size(Last) + 1 <= MaxSequences /\ grown * (Size(Last) + 1) <= GroupBudget
          /\ grown \in Nat /\ current_max <= grown /\ inputs[i] <= grown
      <4>1. grown \in Nat /\ current_max <= grown /\ inputs[i] <= grown
        BY <1>0, <2>3 DEF TypeOK, Larger
      <4> HIDE DEF i, grown
      <4>2. ~(Size(Last) >= MaxSequences) /\ ~(grown * (Size(Last) + 1) > GroupBudget)
        BY <3>1 DEF GroupFull, grown
      <4>3. grown * (Size(Last) + 1) \in Nat
        BY <3>4, <4>1
      <4>. QED
        BY <2>4, <3>4, <4>1, <4>2, <4>3
    <3> HIDE DEF i, grown
    <3>6. ASSUME NEW j \in Last.first..i PROVE inputs[j] \in Nat /\ inputs[j] <= grown
      <4>1. j \in 1..Len(inputs) /\ inputs[j] \in Nat
        <5>1. 1 <= Last.first
          BY <1>0, <3>3 DEF RunOK, Last
        <5>2. j \in 1..Len(inputs)
          BY <1>0, <2>3, <3>4, <5>1
        <5>. QED
          BY <1>0, <5>2 DEF TypeOK
      <4>2. CASE j = i
        BY <3>5, <4>1, <4>2
      <4>3. CASE j # i
        <5>1. j \in Members(Last)
          BY <3>4, <4>3 DEF Members
        <5>2. inputs[j] <= current_max /\ current_max \in Nat
          BY <1>0, <2>1, <3>1, <5>1 DEF RoomInv, TypeOK
        <5>. QED
          BY <3>5, <4>1, <5>2
      <4>. QED
        BY <4>2, <4>3
    <3>7. /\ Size(work[Len(work)])' = Size(Last) + 1
          /\ Members(work[Len(work)])' = Last.first..i
      BY <3>3, <3>4 DEF Size, Members
    <3>8. ASSUME NEW k \in 1..Len(work') PROVE Room(work[k])'
      <4>1. CASE k \in 1..(Len(work) - 1)
        BY <1>0, <2>1, <3>3, <4>1, RoomKept DEF RoomInv
      <4>2. CASE k = Len(work')
        <5>1. ASSUME NEW j \in Last.first..i
              PROVE  inputs[j] * (Size(Last) + 1) <= GroupBudget
          <6>1. /\ inputs[j] \in Nat /\ grown \in Nat /\ Size(Last) + 1 \in Nat
                /\ inputs[j] <= grown /\ Size(Last) + 1 <= Size(Last) + 1
            <7>1. Size(Last) + 1 \in Nat /\ Size(Last) + 1 <= Size(Last) + 1
              BY <3>4
            <7>2. grown \in Nat
              BY <3>5
            <7>. QED
              BY <3>6, <7>1, <7>2
          <6>2. /\ inputs[j] * (Size(Last) + 1) <= grown * (Size(Last) + 1)
                /\ inputs[j] * (Size(Last) + 1) \in Nat
                /\ grown * (Size(Last) + 1) \in Nat
            BY <6>1, Smaller
          <6>. QED
            BY <2>4, <3>5, <6>2
        <5>2. work'[k] = work'[Len(work)] /\ Len(work') = Len(work)
          BY <3>3, <4>2
        <5>. QED
          BY <2>1, <2>4, <3>5, <3>7, <4>2, <5>1, <5>2 DEF Room
      <4>. QED
        BY <1>0, <3>3, <4>1, <4>2
    <3>9. \A j \in Members(Last)' : inputs'[j] <= current_max'
      <4>1. Members(Last)' = Last.first..i
        BY <3>3, <3>7 DEF Last
      <4>2. current_max' = grown
        BY <3>1 DEF grown
      <4>. QED
        BY <2>1, <3>6, <4>1, <4>2
    <3>. QED
      BY <3>8, <3>9 DEF RoomInv
  <2>. QED
    BY <2>5, <2>6
<1>4. CASE InputsGrouped
  <2>1. /\ UNCHANGED <<request, inputs, work>> /\ stage = "group" /\ stage' = "encode"
    BY <1>4 DEF InputsGrouped
  <2>2. \A k \in 1..Len(work') : Room(work[k])'
    BY <2>1, RoomKept DEF RoomInv
  <2>. QED
    BY <2>1, <2>2 DEF RoomInv
<1>5. ASSUME RunDone, UNCHANGED <<request, inputs, stage>>, stage = "encode"
      PROVE  RoomInv'
  <2>1. \A k \in 1..Len(work') : k + 1 \in 1..Len(work) /\ work'[k] = work[k + 1]
    BY <1>5 DEF RunDone
  <2>2. \A k \in 1..Len(work') : Room(work[k])'
    BY <1>5, <2>1, RoomKept DEF RoomInv
  <2>. QED
    BY <1>5, <2>2 DEF RoomInv
<1>6. CASE EncodeSucceeds
  <2>1. /\ UNCHANGED <<request, inputs, stage>> /\ stage = "encode" /\ work # <<>>
        /\ work' = Tail(work)
    BY <1>6 DEF EncodeSucceeds
  <2>2. RunDone
    BY <1>0, <2>1, TailDropsRun DEF TypeOK
  <2>. QED
    BY <1>5, <2>1, <2>2
<1>7. CASE EncodeFailsAsItem
  <2>1. UNCHANGED <<request, inputs, stage>> /\ stage = "encode" /\ work # <<>>
    BY <1>7 DEF EncodeFailsAsItem
  <2>2. CASE Size(Run) = 1
    <3>1. work' = Tail(work)
      BY <1>7, <2>2 DEF EncodeFailsAsItem
    <3>2. RunDone
      BY <1>0, <2>1, <3>1, TailDropsRun DEF TypeOK
    <3>. QED
      BY <1>5, <2>1, <3>2
  <2>3. CASE Size(Run) # 1
    <3>1. work' = Halves(Run) \o Tail(work)
      BY <1>7, <2>3 DEF EncodeFailsAsItem
    <3>2. /\ 1 \in 1..Len(work) /\ work[1] = Run /\ Run.first <= Run.last
          /\ Run.first \in Nat /\ Run.last \in Nat
      <4>1. 1 \in 1..Len(work)
        BY <1>0, <2>1 DEF TypeOK
      <4>. QED
        BY <1>0, <4>1, RunsTyped DEF RunOK, Run
    <3>3. PICK mid \in Nat : RunHalved(mid)
      BY <1>0, <2>1, <2>3, <3>1, <3>2, HalvesReplaceRun DEF TypeOK
    <3>4. /\ Run.first < mid /\ mid <= Run.last
          /\ work' \in Seq(RunType) /\ Len(work') = Len(work) + 1
          /\ work'[1].first = Run.first /\ work'[1].last = mid - 1
          /\ work'[2].first = mid /\ work'[2].last = Run.last
          /\ \A k \in 3..Len(work') : k - 1 \in 2..Len(work) /\ work'[k] = work[k - 1]
      BY <3>3 DEF RunHalved
    <3>5. ASSUME NEW k \in 1..Len(work') PROVE Room(work[k])'
      <4>1. CASE k \in 3..Len(work')
        <5>1. k - 1 \in 1..Len(work) /\ work'[k] = work[k - 1]
          BY <1>0, <3>4, <4>1
        <5>2. Room(work[k - 1])
          BY <2>1, <5>1 DEF RoomInv
        <5>. QED
          BY <2>1, <5>1, <5>2, RoomKept
      <4>2. CASE k \in 1..2
        <5>1. \A run \in RunType :
                Run.first <= run.first /\ run.first <= run.last /\ run.last <= Run.last
                  => Room(run)
          BY <2>1, <2>3, <3>2, RoomForPart DEF RoomInv
        <5>2. /\ work'[k] \in RunType
              /\ Run.first <= work'[k].first /\ work'[k].first <= work'[k].last
              /\ work'[k].last <= Run.last
          BY <1>0, <3>2, <3>4, <4>2
        <5>3. PICK run \in RunType : run = work'[k] /\ Room(run)
          BY <5>1, <5>2
        <5>. QED
          BY <2>1, <5>3, RoomKept
      <4>. QED
        BY <1>0, <3>4, <4>1, <4>2
    <3>. QED
      BY <2>1, <3>5 DEF RoomInv
  <2>. QED
    BY <2>2, <2>3
<1>8. CASE UNCHANGED vars
  <2>1. UNCHANGED <<request, inputs, work, stage, current_max>>
    BY <1>8 DEF vars
  <2>2. stage \in {"group", "encode"} => \A k \in 1..Len(work') : Room(work[k])'
    BY <2>1, RoomKept DEF RoomInv
  <2>. QED
    BY <2>1, <2>2 DEF RoomInv, Last, Members
<1>. QED
  BY <1>1, <1>2, <1>3, <1>4, <1>6, <1>7, <1>8 DEF Next

(* There is room in one context for every run. *)
THEOREM RoomInvariant == Spec => []RoomInv
<1>1. Init => RoomInv
  BY DEF Init, RoomInv
<1>2. EmbeddingInv /\ EmbeddingInv' /\ RoomInv /\ [Next]_vars => RoomInv'
  BY RoomIsInductive
<1>. QED
  BY <1>1, <1>2, EmbeddingInvariant, PTL DEF Spec

(* No context needs more cells or sequences than the limits, unless for    *)
(* one input that is longer alone (engine.rs:52-58, 69-74, 726-734).       *)
THEOREM ContextsAreBounded == Spec => []ContextsBounded
<1>1. EmbeddingInv /\ RoomInv => ContextsBounded
  <2> SUFFICES ASSUME EmbeddingInv, RoomInv, stage \in {"group", "encode"},
                      NEW k \in 1..Len(work), Size(work[k]) # 1
               PROVE  /\ Longest(work[k]) * Size(work[k]) <= GroupBudget
                      /\ Size(work[k]) <= MaxSequences
    BY DEF ContextsBounded
  <2> DEFINE run == work[k]
             lengths == {inputs[i] : i \in Members(run)}
  <2>1. /\ run.first \in Nat /\ run.last \in Nat /\ run.first <= run.last
        /\ 1 <= run.first /\ run.last <= Len(inputs)
        /\ inputs \in Seq(Nat) /\ GroupBudget \in Nat
    BY RunsTyped, LimitsTyped DEF EmbeddingInv, RunOK, TypeOK
  <2>2. /\ Size(run) <= MaxSequences
        /\ \A i \in Members(run) : inputs[i] * Size(run) <= GroupBudget
    BY DEF RoomInv, Room
  <2> HIDE DEF run
  <2>3. Size(run) \in Nat \ {0}
    BY <2>1 DEF Size
  <2>4. ASSUME NEW i \in Members(run)
        PROVE  inputs[i] \in Nat /\ inputs[i] <= GroupBudget
    <3>1. i \in 1..Len(inputs)
      BY <2>1 DEF Members
    <3>2. inputs[i] \in Nat /\ 1 \in Nat /\ 1 <= Size(run) /\ inputs[i] <= inputs[i]
      <4>1. inputs[i] \in Nat
        BY <2>1, <3>1
      <4>. QED
        BY <2>3, <4>1
    <3>3. /\ inputs[i] * 1 <= inputs[i] * Size(run)
          /\ inputs[i] * Size(run) \in Nat
      BY <2>3, <3>2, Smaller
    <3>. QED
      BY <2>1, <2>2, <3>2, <3>3
  <2>5. run.first \in Members(run)
    BY <2>1 DEF Members
  <2>6. \E n \in lengths : \A m \in lengths : m <= n
    <3>1. /\ lengths \in SUBSET Nat /\ lengths # {}
          /\ \A n \in lengths : n <= GroupBudget
      BY <2>4, <2>5
    <3> HIDE DEF lengths
    <3>. QED
      BY <2>1, <3>1, GreatestExists
  <2>7. Longest(run) \in lengths
    <3>1. \E n \in lengths : \A i \in Members(run) : inputs[i] <= n
      BY <2>6
    <3>. QED
      BY <3>1 DEF Longest
  <2>8. PICK j \in Members(run) : Longest(run) = inputs[j]
    BY <2>7
  <2>9. Longest(run) * Size(run) <= GroupBudget
    BY <2>2, <2>8
  <2>. QED
    BY <2>2, <2>9 DEF run
<1>. QED
  BY <1>1, EmbeddingInvariant, RoomInvariant, PTL

-----------------------------------------------------------------------------
(* Only a run with the bad input fails. *)
LEMMA FailingRunHasPoison ==
  ASSUME EmbeddingInv, work # <<>>, MayFailAsItem, NEW i, OnlyBad(i)
  PROVE  i \in Members(Run)
<1>1. 1 \in 1..Len(work) /\ DOMAIN inputs = 1..Len(inputs) /\ Len(inputs) \in Nat
  BY DEF EmbeddingInv, TypeOK
<1>2. /\ Run.first \in Nat /\ Run.last \in Nat
      /\ 1 <= Run.first /\ Run.last <= Len(inputs)
  BY <1>1, RunsTyped DEF EmbeddingInv, RunOK, Run
<1>3. PICK j \in Members(Run) : j \in poison \/ inputs[j] = 0
  BY DEF MayFailAsItem, OnlyBad
<1>4. j \in DOMAIN inputs
  BY <1>1, <1>2 DEF Members
<1>. QED
  BY <1>3, <1>4 DEF OnlyBad

(* It is in no other run. *)
LEMMA PoisonInOneRun ==
  ASSUME EmbeddingInv, NEW i, i \in Members(Run), NEW k \in 2..Len(work)
  PROVE  i \notin Members(work[k])
<1>1. k \in 1..Len(work) /\ 1 \in 1..Len(work) /\ 1 \in 1..(k - 1)
  BY DEF EmbeddingInv, TypeOK
<1>2. Run.last < work[k].first
  BY <1>1 DEF EmbeddingInv, RunOK, Run
<1>3. /\ Run.first \in Nat /\ Run.last \in Nat
      /\ work[k].first \in Nat /\ work[k].last \in Nat
  BY <1>1, RunsTyped DEF EmbeddingInv, Run
<1>. QED
  BY <1>2, <1>3 DEF Members

LEMMA CostsTyped ==
  ASSUME TypeOK
  PROVE  /\ encodes \in Nat /\ Len(work) \in Nat /\ groups \in Nat
         /\ Len(texts) \in Nat /\ Halvings(Len(texts)) \in Nat /\ Allowance \in Nat
<1>1. encodes \in Nat /\ Len(work) \in Nat /\ groups \in Nat /\ Len(texts) \in Nat
  BY DEF TypeOK
<1>2. Halvings(Len(texts)) \in Nat
  BY <1>1, HalvingsIsLog
<1>. QED
  BY <1>1, <1>2 DEF Allowance

LEMMA SizesTyped ==
  ASSUME EmbeddingInv, NEW k \in 1..Len(work)
  PROVE  /\ Size(work[k]) \in Nat \ {0} /\ Size(work[k]) <= Len(inputs)
         /\ Halvings(Size(work[k])) \in Nat
<1>1. /\ work[k].first \in Nat /\ work[k].last \in Nat /\ Len(inputs) \in Nat
      /\ 1 <= work[k].first /\ work[k].first <= work[k].last
      /\ work[k].last <= Len(inputs)
  BY RunsTyped DEF EmbeddingInv, RunOK, TypeOK
<1>2. Size(work[k]) \in Nat \ {0} /\ Size(work[k]) <= Len(inputs)
  BY <1>1 DEF Size
<1>. QED
  BY <1>2, HalvingsIsLog

LEMMA CostIsInductive ==
  ASSUME EmbeddingInv, EmbeddingInv', CostInv, [Next]_vars
  PROVE  CostInv'
<1> SUFFICES ASSUME NEW i \in (DOMAIN texts)', OnlyBad(i)'
             PROVE  /\ (stage = "encode")' =>
                         /\ (encodes + Len(work) <= Allowance)'
                         /\ \A k \in 1..Len(work') :
                              i \in Members(work[k])' =>
                                (encodes + Len(work) + 2 * Halvings(Size(work[k]))
                                   <= Allowance)'
                    /\ (stage = "done")' => (encodes <= Allowance)'
  BY DEF CostInv
<1>0. /\ encodes \in Nat /\ Len(work) \in Nat /\ groups \in Nat
      /\ Len(texts) \in Nat /\ Halvings(Len(texts)) \in Nat /\ Allowance \in Nat
  BY CostsTyped DEF EmbeddingInv
<1>t. /\ work \in Seq(RunType) /\ DOMAIN texts = 1..Len(texts)
  BY DEF EmbeddingInv, TypeOK
<1>1. CASE BuildInput \/ InputsBuilt \/ GroupInput
  BY <1>1 DEF BuildInput, InputsBuilt, GroupInput
<1>2. CASE TokenizeFails
  <2>1. encodes = 0 /\ UNCHANGED <<request, encodes, groups>> /\ stage' = "done"
    BY <1>2 DEF TokenizeFails, EmbeddingInv, Built
  <2>2. Allowance' = Allowance
    BY <2>1 DEF Allowance, request
  <2>. QED
    BY <1>0, <2>1, <2>2
<1>3. ASSUME UNCHANGED <<request, inputs>>
      PROVE  i \in DOMAIN texts /\ OnlyBad(i)
  BY <1>3 DEF request, OnlyBad
<1>4. CASE InputsGrouped
  <2>1. /\ UNCHANGED <<request, inputs, work, encodes>> /\ encodes = 0
        /\ stage' = "encode" /\ groups' = Len(work) /\ Len(inputs) = Len(texts)
    BY <1>4 DEF InputsGrouped, EmbeddingInv, Built
  <2>2. Allowance' = Len(work) + 2 * Halvings(Len(texts))
    BY <2>1 DEF Allowance, request
  <2>3. ASSUME NEW k \in 1..Len(work)
        PROVE  /\ Halvings(Size(work[k])) \in Nat
               /\ Halvings(Size(work[k])) <= Halvings(Len(texts))
    BY <1>0, <2>1, SizesTyped, HalvingsGrows
  <2>4. \A k \in 1..Len(work) : Size(work[k])' = Size(work[k])
    BY <2>1 DEF Size
  <2>5. \A k \in 1..Len(work) :
          0 + Len(work) + 2 * Halvings(Size(work[k]))
            <= Len(work) + 2 * Halvings(Len(texts))
    BY <1>0, <2>3
  <2>. QED
    BY <1>0, <2>1, <2>2, <2>4, <2>5
<1>5. ASSUME stage = "encode", UNCHANGED <<request, inputs>>
      PROVE  /\ encodes + Len(work) <= Allowance
             /\ \A k \in 1..Len(work) :
                  i \in Members(work[k]) =>
                    encodes + Len(work) + 2 * Halvings(Size(work[k])) <= Allowance
  BY <1>3, <1>5 DEF CostInv
<1>6. ASSUME RunDone, stage = "encode", encodes' = encodes + 1,
             UNCHANGED <<request, inputs, stage, groups>>
      PROVE  /\ (encodes + Len(work) <= Allowance)'
             /\ \A k \in 1..Len(work') :
                  i \in Members(work[k])' =>
                    (encodes + Len(work) + 2 * Halvings(Size(work[k])) <= Allowance)'
  <2>1. /\ encodes' + Len(work') = encodes + Len(work)
        /\ \A k \in 1..Len(work') : k + 1 \in 1..Len(work) /\ work'[k] = work[k + 1]
    BY <1>0, <1>6 DEF RunDone
  <2>2. Allowance' = Allowance
    BY <1>6 DEF Allowance, request
  <2>3. ASSUME NEW k \in 1..Len(work'), i \in Members(work[k])'
        PROVE  (encodes + Len(work) + 2 * Halvings(Size(work[k])) <= Allowance)'
    <3>1. i \in Members(work[k + 1]) /\ Size(work[k])' = Size(work[k + 1])
      BY <2>1, <2>3 DEF Members, Size
    <3>2. encodes + Len(work) + 2 * Halvings(Size(work[k + 1])) <= Allowance
      BY <1>5, <1>6, <2>1, <3>1
    <3>. QED
      BY <2>1, <2>2, <3>1, <3>2
  <2>4. (encodes + Len(work) <= Allowance)'
    BY <1>5, <1>6, <2>1, <2>2
  <2>. QED
    BY <2>3, <2>4
<1>7. CASE EncodeSucceeds
  <2>1. /\ UNCHANGED <<request, inputs, stage, groups>> /\ stage = "encode"
        /\ work # <<>> /\ work' = Tail(work) /\ encodes' = encodes + 1
    BY <1>7 DEF EncodeSucceeds
  <2>2. RunDone
    BY <1>t, <2>1, TailDropsRun
  <2>. QED
    BY <1>6, <2>1, <2>2
<1>8. CASE EncodeFailsAsItem
  <2>1. /\ UNCHANGED <<request, inputs, stage, groups>> /\ stage = "encode"
        /\ work # <<>> /\ encodes' = encodes + 1 /\ MayFailAsItem
    BY <1>8 DEF EncodeFailsAsItem
  <2>2. CASE Size(Run) = 1
    <3>1. work' = Tail(work)
      BY <1>8, <2>2 DEF EncodeFailsAsItem
    <3>2. RunDone
      BY <1>t, <2>1, <3>1, TailDropsRun
    <3>. QED
      BY <1>6, <2>1, <3>2
  <2>3. CASE Size(Run) # 1
    <3>1. work' = Halves(Run) \o Tail(work)
      BY <1>8, <2>3 DEF EncodeFailsAsItem
    <3>2. /\ 1 \in 1..Len(work) /\ work[1] = Run /\ Run.first <= Run.last
          /\ Run.first \in Nat /\ Run.last \in Nat
      <4>1. 1 \in 1..Len(work)
        BY <1>t, <2>1
      <4>. QED
        BY <4>1, RunsTyped DEF EmbeddingInv, RunOK, Run
    <3>3. PICK mid \in Nat : RunHalved(mid)
      BY <1>t, <2>1, <2>3, <3>1, <3>2, HalvesReplaceRun
    <3>4. /\ Run.first < mid /\ mid <= Run.last
          /\ 2 * (mid - Run.first) <= Size(Run)
          /\ 2 * (Run.last - mid + 1) <= Size(Run) + 1
          /\ Len(work') = Len(work) + 1
          /\ work'[1].first = Run.first /\ work'[1].last = mid - 1
          /\ work'[2].first = mid /\ work'[2].last = Run.last
          /\ \A k \in 3..Len(work') : k - 1 \in 2..Len(work) /\ work'[k] = work[k - 1]
      BY <3>3 DEF RunHalved
    <3>5. i \in Members(Run)
      BY <1>3, <2>1, FailingRunHasPoison
    <3>6. /\ Allowance' = Allowance
          /\ encodes' + Len(work') = encodes + Len(work) + 2
      BY <1>0, <2>1, <3>4 DEF Allowance, request
    <3>7. encodes + Len(work) + 2 * Halvings(Size(Run)) <= Allowance
      BY <1>5, <2>1, <3>2, <3>5
    <3>8. Size(Run) \in Nat /\ Size(Run) > 1 /\ Halvings(Size(Run)) \in Nat
      BY <2>3, <3>2, SizesTyped
    <3>9. ASSUME NEW m \in Nat, 2 * m <= Size(Run) + 1
          PROVE  /\ Halvings(m) \in Nat
                 /\ encodes' + Len(work') + 2 * Halvings(m) <= Allowance'
      <4>1. Halvings(m) \in Nat /\ Halvings(m) + 1 <= Halvings(Size(Run))
        BY <3>8, <3>9, HalvingsIsLog, HalvingsOfHalf
      <4>2. \A a, b, h, g \in Nat : g + 1 <= h /\ a + 2 * h <= b => (a + 2) + 2 * g <= b
        OBVIOUS
      <4>3. encodes + Len(work) \in Nat
        BY <1>0
      <4>4. ((encodes + Len(work)) + 2) + 2 * Halvings(m) <= Allowance
        BY <1>0, <3>7, <3>8, <4>1, <4>2, <4>3
      <4>. QED
        BY <3>6, <4>1, <4>4
    <3>10. encodes' + Len(work') <= Allowance'
      <4>1. 2 * 0 <= Size(Run) + 1
        BY <3>8
      <4>2. Halvings(0) \in Nat /\ encodes' + Len(work') + 2 * Halvings(0) <= Allowance'
        BY <3>9, <4>1
      <4>. QED
        BY <1>0, <3>6, <4>2
    <3>11. ASSUME NEW k \in 1..Len(work'), i \in Members(work[k])'
           PROVE  encodes' + Len(work') + 2 * Halvings(Size(work[k])') <= Allowance'
      <4>1. CASE k = 1
        <5>1. Size(work[k])' = mid - Run.first /\ mid - Run.first \in Nat
          <6>1. Size(work[k])' = (mid - 1) - Run.first + 1
            BY <3>4, <4>1 DEF Size
          <6>2. Run.first < mid /\ Run.first \in Nat
            BY <3>2, <3>4
          <6>. QED
            BY <6>1, <6>2
        <5>. QED
          BY <3>4, <3>8, <3>9, <5>1
      <4>2. CASE k = 2
        <5>1. Size(work[k])' = Run.last - mid + 1 /\ Run.last - mid + 1 \in Nat
          <6>1. Size(work[k])' = Run.last - mid + 1
            BY <3>4, <4>2 DEF Size
          <6>2. mid <= Run.last /\ Run.last \in Nat
            BY <3>2, <3>4
          <6>. QED
            BY <6>1, <6>2
        <5>. QED
          BY <3>4, <3>9, <5>1
      <4>3. CASE k \in 3..Len(work')
        <5>1. k - 1 \in 2..Len(work) /\ i \in Members(work[k - 1])
          BY <3>4, <3>11, <4>3 DEF Members
        <5>. QED
          BY <3>5, <5>1, PoisonInOneRun
      <4>. QED
        BY <1>0, <3>4, <4>1, <4>2, <4>3
    <3>. QED
      BY <2>1, <3>10, <3>11
  <2>. QED
    BY <2>2, <2>3
<1>9. CASE \E class \in Classes : EncodeFailsForAll(class)
  <2>1. /\ UNCHANGED <<request, inputs, groups>> /\ stage = "encode"
        /\ stage' = "done" /\ work # <<>> /\ encodes' = encodes + 1
    BY <1>9 DEF EncodeFailsForAll
  <2>2. Allowance' = Allowance
    BY <2>1 DEF Allowance, request
  <2>3. Len(work) >= 1
    BY <1>t, <2>1
  <2>. QED
    BY <1>0, <1>5, <2>1, <2>2, <2>3
<1>10. CASE Finish
  <2>1. /\ UNCHANGED <<request, inputs, groups, encodes>> /\ stage = "encode"
        /\ stage' = "done"
    BY <1>10 DEF Finish
  <2>2. Allowance' = Allowance
    BY <2>1 DEF Allowance, request
  <2>. QED
    BY <1>0, <1>5, <2>1, <2>2
<1>11. CASE UNCHANGED vars
  <2>1. UNCHANGED <<request, inputs, work, stage, encodes, groups>>
    BY <1>11 DEF vars
  <2>. QED
    BY <1>3, <2>1 DEF CostInv, Allowance, request, Members, Size
<1>. QED
  BY <1>1, <1>2, <1>4, <1>7, <1>8, <1>9, <1>10, <1>11 DEF Next

(* The contexts still to come are paid for. *)
THEOREM CostInvariant == Spec => []CostInv
<1>1. Init => CostInv
  BY DEF Init, CostInv
<1>2. EmbeddingInv /\ EmbeddingInv' /\ CostInv /\ [Next]_vars => CostInv'
  BY CostIsInductive
<1>. QED
  BY <1>1, <1>2, EmbeddingInvariant, PTL DEF Spec

(* "a single poison item costs about log2(n) extra encodes"                *)
(* (engine.rs:844): two contexts for every halving of the batch, beside    *)
(* the one that each group needs.                                          *)
THEOREM PoisonCostsLog == Spec => []PoisonIsCheap
<1>1. CostInv => PoisonIsCheap
  BY DEF CostInv, PoisonIsCheap, OnlyBad, Allowance
<1>. QED
  BY <1>1, CostInvariant, PTL

=============================================================================
