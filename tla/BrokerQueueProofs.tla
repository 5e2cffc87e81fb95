------------------------- MODULE BrokerQueueProofs -------------------------
(***************************************************************************)
(* What the broker's queue guarantees for every capacity, burst and set of *)
(* requests.  First BrokerQueue itself: its safety properties together are *)
(* inductive.  Then the history of BrokerQueueFairness: the bounds on      *)
(* overtaking and delay become inductive once they count the part of the   *)
(* current burst that is already spent.                                    *)
(***************************************************************************)
EXTENDS BrokerQueueFairness, SequenceTheorems, TLAPS

(* The inductive invariant of BrokerQueue. *)
QueueInv ==
  /\ TypeOK
  /\ CapacityRespected
  /\ NoLostWakeup
  /\ BurstStartsFresh

(* OvertakingBounded with the part of the current burst already spent. *)
OvertakingAccount ==
  \A i \in 1 .. Len(batch) :
    overtaken[i].interactive
      <= INTERACTIVE_BURST * (overtaken[i].place - i)
           + interactive_since_batch_waited

(* InteractiveDelayBounded with the part of the current burst spent. *)
DelayAccount ==
  \A i \in 1 .. Len(interactive) :
    INTERACTIVE_BURST * delayed[i].batch + interactive_since_batch_waited
      <= INTERACTIVE_BURST + delayed[i].interactive

(* The inductive invariant of the history, relative to QueueInv. *)
HistoryInv == HistoryOK /\ OvertakingAccount /\ DelayAccount

-----------------------------------------------------------------------------
(* try_enqueue keeps the invariant. *)
LEMMA EnqueueKeepsQueueInv ==
  ASSUME QueueInv, NEW class \in RequestClass, NEW r \in Requests,
         TryEnqueue(class, r)
  PROVE  QueueInv'
<1> USE QueueAssumption DEF QueueInv, TypeOK
<1>1. /\ Len(interactive) + Len(batch) < QUEUE_CAPACITY
      /\ scheduler' \in {"out", "woken"}
      /\ UNCHANGED <<interactive_since_batch_waited, expired, taken>>
  BY DEF TryEnqueue, Full, NotifyOne, SchedulerState
<1>2. CASE class = "Interactive"
  <2>1. interactive' = Append(interactive, r) /\ UNCHANGED batch
    BY <1>2 DEF TryEnqueue, PushBack
  <2>. QED
    BY <1>1, <2>1
       DEF SchedulerState, CapacityRespected, NoLostWakeup, BurstStartsFresh
<1>3. CASE class = "Batch"
  <2>1. batch' = Append(batch, r) /\ UNCHANGED interactive
    BY <1>3 DEF TryEnqueue, PushBack
  <2>. QED
    BY <1>1, <2>1
       DEF SchedulerState, CapacityRespected, NoLostWakeup, BurstStartsFresh
<1>. QED
  BY <1>2, <1>3 DEF RequestClass

(* dequeue keeps the invariant, whichever class it serves. *)
LEMMA PopInteractiveKeepsQueueInv ==
  ASSUME QueueInv, PopInteractive
  PROVE  QueueInv'
<1> USE QueueAssumption DEF QueueInv, TypeOK
<1>1. /\ interactive # <<>>
      /\ interactive' = Tail(interactive)
      /\ UNCHANGED batch
      /\ scheduler' = "out"
      /\ expired' \subseteq Requests
  BY DEF PopInteractive, Return
<1>2. /\ interactive_since_batch_waited' \in 0 .. INTERACTIVE_BURST
      /\ batch = <<>> => interactive_since_batch_waited' = 0
  BY DEF PopInteractive, CountInteractive, InteractiveMayPass
<1>3. taken' \in Dequeued
  BY <1>1 DEF PopInteractive, Return, Dequeued
<1>4. TypeOK'
  BY <1>1, <1>2, <1>3 DEF SchedulerState
<1>5. CapacityRespected' /\ NoLostWakeup' /\ BurstStartsFresh'
  BY <1>1, <1>2 DEF CapacityRespected, NoLostWakeup, BurstStartsFresh
<1>. QED
  BY <1>4, <1>5

(* The same for a batch value. *)
LEMMA PopBatchKeepsQueueInv ==
  ASSUME QueueInv, PopBatch
  PROVE  QueueInv'
<1> USE QueueAssumption DEF QueueInv, TypeOK
<1>1. /\ batch # <<>>
      /\ batch' = Tail(batch)
      /\ UNCHANGED interactive
      /\ scheduler' = "out"
      /\ expired' \subseteq Requests
      /\ interactive_since_batch_waited' = 0
  BY DEF PopBatch, Return
<1>2. taken' \in Dequeued
  BY <1>1 DEF PopBatch, Return, Dequeued
<1>3. TypeOK'
  BY <1>1, <1>2 DEF SchedulerState
<1>4. CapacityRespected' /\ NoLostWakeup' /\ BurstStartsFresh'
  BY <1>1 DEF CapacityRespected, NoLostWakeup, BurstStartsFresh
<1>. QED
  BY <1>3, <1>4

(* Every behaviour of the queue keeps the invariant. *)
THEOREM QueueInvariant == Spec => []QueueInv
<1>1. Init => QueueInv
  BY QueueAssumption
     DEF Init, QueueInv, TypeOK, CapacityRespected, NoLostWakeup,
         BurstStartsFresh, SchedulerState
<1>2. QueueInv /\ [Next]_vars => QueueInv'
  <2> SUFFICES ASSUME QueueInv, [Next]_vars PROVE QueueInv'
    OBVIOUS
  <2>1. ASSUME NEW r \in Requests, NEW class \in RequestClass,
               TryEnqueue(class, r)
        PROVE  QueueInv'
    BY <2>1, EnqueueKeepsQueueInv
  <2>2. CASE PopInteractive
    BY <2>2, PopInteractiveKeepsQueueInv
  <2>3. CASE PopBatch
    BY <2>3, PopBatchKeepsQueueInv
  <2>4. CASE WaitReady
    BY <2>4, QueueAssumption
       DEF WaitReady, QueueInv, TypeOK, CapacityRespected, NoLostWakeup,
           BurstStartsFresh, SchedulerState
  <2>5. CASE SpuriousWakeup
    BY <2>5
       DEF SpuriousWakeup, state, QueueInv, TypeOK, CapacityRespected,
           NoLostWakeup, BurstStartsFresh, SchedulerState
  <2>6. ASSUME NEW r \in Requests, Expire(r)
        PROVE  QueueInv'
    BY <2>6
       DEF Expire, state, QueueInv, TypeOK, CapacityRespected, NoLostWakeup,
           BurstStartsFresh
  <2>7. CASE UNCHANGED vars
    BY <2>7
       DEF vars, state, QueueInv, TypeOK, CapacityRespected, NoLostWakeup,
           BurstStartsFresh
  <2>. QED
    BY <2>1, <2>2, <2>3, <2>4, <2>5, <2>6, <2>7 DEF Next, TryEnqueueFull, Dequeue
<1>. QED
  BY <1>1, <1>2, PTL DEF Spec

(* The capacity is never exceeded (queue.rs:61), for every capacity. *)
THEOREM QueueCapacity == Spec => []CapacityRespected
BY QueueInvariant, PTL DEF QueueInv

(* The scheduler never sleeps while a value waits (queue.rs:69, 83). *)
THEOREM QueueNoLostWakeup == Spec => []NoLostWakeup
BY QueueInvariant, PTL DEF QueueInv

(* A batch value never inherits a spent burst (queue.rs:95, 98). *)
THEOREM QueueBurstStartsFresh == Spec => []BurstStartsFresh
BY QueueInvariant, PTL DEF QueueInv

(* The history only observes: an observed behaviour is one of the queue. *)
THEOREM ObservedIsQueue == ObservedSpec => Spec
<1>1. ObservedInit => Init
  BY DEF ObservedInit
<1>2. [ObservedNext]_observed => [Next]_vars
  BY DEF ObservedNext, observed, Next, ObservedEnqueue, ObservedDequeue, Dequeue
<1>. QED
  BY <1>1, <1>2, PTL DEF ObservedSpec, Spec

-----------------------------------------------------------------------------
(* The arithmetic of a burst: b values per place, c of them spent. *)
LEMMA ProductsAreIntegers == \A b \in Nat, k \in Int : b * k \in Int
OBVIOUS

(* One place up pays for the burst spent in the old place. *)
LEMMA BurstPaysForOnePlace ==
  ASSUME NEW b \in Nat, NEW o \in Nat, NEW p \in Nat, NEW i \in Nat,
         NEW c \in 0 .. b,
         o <= b * (p - (i + 1)) + c
  PROVE  o <= b * (p - i)
<1>1. b * (p - (i + 1)) = b * (p - i) - b
  OBVIOUS
<1>. QED
  BY <1>1, ProductsAreIntegers

(* One batch value served uses a whole burst up. *)
LEMMA BatchCostsOneBurst ==
  ASSUME NEW b \in Nat, NEW d \in Nat, NEW n \in Nat, b * d + b <= b + n
  PROVE  b * (d + 1) <= b + n
<1>1. b * (d + 1) = b * d + b
  OBVIOUS
<1>. QED
  BY <1>1

(* One more interactive value served, at most one more counted. *)
LEMMA OneMoreServed ==
  ASSUME NEW x \in Int, NEW b \in Int, NEW n \in Nat, NEW c \in Int,
         NEW d \in Int, d <= c + 1, x + c <= b + n
  PROVE  x + d <= b + (n + 1)
OBVIOUS

(* One more overtaking, counted once. *)
LEMMA OneMoreOvertaken ==
  ASSUME NEW x \in Int, NEW o \in Nat, NEW c \in Int, o <= x + c
  PROVE  o + 1 <= x + (c + 1)
OBVIOUS

(* The spent part of a burst can be dropped from the smaller side. *)
LEMMA SpentBurstOnlyHelps ==
  ASSUME NEW x \in Int, NEW b \in Nat, NEW n \in Nat, NEW c \in Nat,
         x + c <= b + n
  PROVE  x <= b + n
OBVIOUS

(* The spent part of a burst is at most a whole one. *)
LEMMA SpentBurstIsBounded ==
  ASSUME NEW x \in Int, NEW b \in Nat, NEW n \in Nat, NEW c \in 0 .. b,
         n <= x + c
  PROVE  n <= x + b
OBVIOUS

(* A function on 1..n is a sequence of length n. *)
LEMMA FunctionIsSeq ==
  ASSUME NEW S, NEW n \in Nat, NEW f \in [1 .. n -> S]
  PROVE  f \in Seq(S) /\ Len(f) = n
<1>1. f \in Seq(S)
  BY SeqDef
<1>2. DOMAIN f = 1 .. Len(f) /\ Len(f) \in Nat
  BY <1>1, LenProperties
<1>. QED
  BY <1>1, <1>2

(* The numbers in the histories of queued values. *)
LEMMA HistoryNumbers ==
  ASSUME TypeOK, HistoryOK
  PROVE  /\ \A i \in 1 .. Len(batch) :
              /\ i \in 1 .. Len(overtaken)
              /\ overtaken[i].place \in Nat
              /\ overtaken[i].interactive \in Nat
         /\ \A i \in 1 .. Len(interactive) :
              /\ i \in 1 .. Len(delayed)
              /\ delayed[i].batch \in Nat
              /\ delayed[i].interactive \in Nat
<1>1. \A i \in 1 .. Len(overtaken) : overtaken[i] \in OvertakenEntry
  BY ElementOfSeq DEF TypeOK, HistoryOK
<1>2. \A i \in 1 .. Len(delayed) : delayed[i] \in DelayedEntry
  BY ElementOfSeq DEF TypeOK, HistoryOK
<1>3. Len(overtaken) = Len(batch) /\ Len(delayed) = Len(interactive)
  BY DEF TypeOK, HistoryOK
<1>4. /\ \A e \in OvertakenEntry : e.place \in Nat /\ e.interactive \in Nat
      /\ \A e \in DelayedEntry : e.batch \in Nat /\ e.interactive \in Nat
  BY DEF OvertakenEntry, DelayedEntry
<1>. QED
  BY <1>1, <1>2, <1>3, <1>4

(* The history updates on one entry. *)
LEMMA ServedEntries ==
  /\ \A e \in DelayedEntry :
       /\ ServedInteractive(e) \in DelayedEntry
       /\ ServedInteractive(e).batch = e.batch
       /\ ServedInteractive(e).interactive = e.interactive + 1
       /\ ServedBatch(e) \in DelayedEntry
       /\ ServedBatch(e).batch = e.batch + 1
       /\ ServedBatch(e).interactive = e.interactive
  /\ \A e \in OvertakenEntry :
       /\ ServedInteractive(e) \in OvertakenEntry
       /\ ServedInteractive(e).place = e.place
       /\ ServedInteractive(e).interactive = e.interactive + 1
BY DEF ServedInteractive, ServedBatch, DelayedEntry, OvertakenEntry

(* What serving an interactive value does to the histories. *)
LEMMA InteractivePopHistory ==
  ASSUME TypeOK, HistoryOK, RecordInteractivePop, Len(interactive) > 0
  PROVE  /\ delayed' \in Seq(DelayedEntry)
         /\ Len(delayed') = Len(delayed) - 1
         /\ \A i \in 1 .. Len(delayed) - 1 :
              /\ delayed'[i].batch = delayed[i + 1].batch
              /\ delayed'[i].interactive = delayed[i + 1].interactive + 1
         /\ overtaken' \in Seq(OvertakenEntry)
         /\ Len(overtaken') = Len(overtaken)
         /\ \A i \in 1 .. Len(overtaken) :
              /\ overtaken'[i].place = overtaken[i].place
              /\ overtaken'[i].interactive = overtaken[i].interactive + 1
<1>1. Len(delayed) - 1 \in Nat /\ Len(overtaken) \in Nat
  BY DEF TypeOK, HistoryOK
<1>2. \A i \in 1 .. Len(delayed) : delayed[i] \in DelayedEntry
  BY ElementOfSeq DEF HistoryOK
<1>3. \A i \in 1 .. Len(overtaken) :
        overtaken[i] \in OvertakenEntry
  BY ElementOfSeq DEF HistoryOK
<1>4. \A i \in 1 .. Len(delayed) - 1 :
        /\ i + 1 \in 1 .. Len(delayed)
        /\ ServedInteractive(delayed[i + 1]) \in DelayedEntry
        /\ ServedInteractive(delayed[i + 1]).batch = delayed[i + 1].batch
        /\ ServedInteractive(delayed[i + 1]).interactive
             = delayed[i + 1].interactive + 1
  BY <1>1, <1>2, ServedEntries
<1>5. delayed' \in [1 .. Len(delayed) - 1 -> DelayedEntry]
  BY <1>4 DEF RecordInteractivePop
<1>6. \A i \in 1 .. Len(overtaken) :
        /\ ServedInteractive(overtaken[i]) \in OvertakenEntry
        /\ ServedInteractive(overtaken[i]).place = overtaken[i].place
        /\ ServedInteractive(overtaken[i]).interactive
             = overtaken[i].interactive + 1
  BY <1>1, <1>3, ServedEntries
<1>7. overtaken' \in [1 .. Len(overtaken) -> OvertakenEntry]
  BY <1>6 DEF RecordInteractivePop
<1>8. /\ delayed' \in Seq(DelayedEntry)
      /\ Len(delayed') = Len(delayed) - 1
  BY <1>1, <1>5, FunctionIsSeq
<1>9. /\ overtaken' \in Seq(OvertakenEntry)
      /\ Len(overtaken') = Len(overtaken)
  BY <1>1, <1>7, FunctionIsSeq
<1>. QED
  BY <1>4, <1>6, <1>8, <1>9 DEF RecordInteractivePop

(* What serving a batch value does to the histories. *)
LEMMA BatchPopHistory ==
  ASSUME TypeOK, HistoryOK, RecordBatchPop, Len(batch) > 0
  PROVE  /\ overtaken' \in Seq(OvertakenEntry)
         /\ Len(overtaken') = Len(overtaken) - 1
         /\ \A i \in 1 .. Len(overtaken) - 1 : overtaken'[i] = overtaken[i + 1]
         /\ delayed' \in Seq(DelayedEntry)
         /\ Len(delayed') = Len(delayed)
         /\ \A i \in 1 .. Len(delayed) :
              /\ delayed'[i].batch = delayed[i].batch + 1
              /\ delayed'[i].interactive = delayed[i].interactive
<1> USE DEF TypeOK, HistoryOK
<1>1. Len(delayed) \in Nat /\ overtaken # <<>>
  OBVIOUS
<1>2. \A i \in 1 .. Len(delayed) : delayed[i] \in DelayedEntry
  BY ElementOfSeq
<1>3. \A i \in 1 .. Len(delayed) :
        /\ ServedBatch(delayed[i]) \in DelayedEntry
        /\ ServedBatch(delayed[i]).batch = delayed[i].batch + 1
        /\ ServedBatch(delayed[i]).interactive = delayed[i].interactive
  BY <1>1, <1>2, ServedEntries
<1>4. delayed' \in [1 .. Len(delayed) -> DelayedEntry]
  BY <1>3 DEF RecordBatchPop
<1>5. /\ delayed' \in Seq(DelayedEntry)
      /\ Len(delayed') = Len(delayed)
  BY <1>1, <1>4, FunctionIsSeq
<1>6. /\ overtaken' \in Seq(OvertakenEntry)
      /\ Len(overtaken') = Len(overtaken) - 1
      /\ \A i \in 1 .. Len(overtaken) - 1 : overtaken'[i] = overtaken[i + 1]
  BY <1>1, HeadTailProperties DEF RecordBatchPop
<1>. QED
  BY <1>3, <1>5, <1>6 DEF RecordBatchPop

(* An observed try_enqueue keeps the history invariant. *)
LEMMA EnqueueKeepsHistoryInv ==
  ASSUME QueueInv, HistoryInv, NEW class \in RequestClass, NEW r \in Requests,
         ObservedEnqueue(class, r)
  PROVE  HistoryInv'
<1> USE QueueAssumption DEF QueueInv, HistoryInv
<1>1. CASE class = "Interactive"
  <2>1. /\ interactive' = Append(interactive, r)
        /\ delayed' = Append(delayed, [interactive |-> 0, batch |-> 0])
        /\ UNCHANGED <<batch, overtaken, interactive_since_batch_waited>>
    BY <1>1 DEF ObservedEnqueue, TryEnqueue, PushBack, RecordPush
  <2>2. [interactive |-> 0, batch |-> 0] \in DelayedEntry
    BY DEF DelayedEntry
  <2>3. HistoryOK'
    BY <2>1, <2>2 DEF TypeOK, HistoryOK
  <2>4. OvertakingAccount'
    BY <2>1 DEF OvertakingAccount
  <2>5. DelayAccount'
    BY <2>1 DEF DelayAccount, TypeOK, HistoryOK
  <2>. QED
    BY <2>3, <2>4, <2>5
<1>2. CASE class = "Batch"
  <2>1. /\ batch' = Append(batch, r)
        /\ overtaken' = Append(overtaken,
                               [place |-> Len(batch) + 1, interactive |-> 0])
        /\ UNCHANGED <<interactive, delayed, interactive_since_batch_waited>>
    BY <1>2 DEF ObservedEnqueue, TryEnqueue, PushBack, RecordPush
  <2>2. [place |-> Len(batch) + 1, interactive |-> 0] \in OvertakenEntry
    BY DEF TypeOK, OvertakenEntry
  <2>3. HistoryOK'
    BY <2>1, <2>2 DEF TypeOK, HistoryOK
  <2>4. OvertakingAccount'
    <3>1. SUFFICES ASSUME NEW i \in 1 .. Len(batch) + 1
                   PROVE  overtaken'[i].interactive
                            <= INTERACTIVE_BURST * (overtaken'[i].place - i)
                                 + interactive_since_batch_waited
      BY <2>1 DEF OvertakingAccount, TypeOK, HistoryOK
    <3>2. CASE i \in 1 .. Len(batch)
      <4>1. overtaken'[i] = overtaken[i]
        BY <2>1, <3>2 DEF TypeOK, HistoryOK
      <4>. QED
        BY <3>2, <4>1 DEF OvertakingAccount
    <3>3. CASE i = Len(batch) + 1
      <4>1. overtaken'[i].interactive = 0 /\ overtaken'[i].place = i
        BY <2>1, <3>3 DEF TypeOK, HistoryOK
      <4>2. INTERACTIVE_BURST * (i - i) = 0
        BY DEF TypeOK, HistoryOK
      <4>. QED
        BY <4>1, <4>2 DEF TypeOK, HistoryOK
    <3>. QED
      BY <3>2, <3>3 DEF TypeOK, HistoryOK
  <2>5. DelayAccount'
    BY <2>1 DEF DelayAccount
  <2>. QED
    BY <2>3, <2>4, <2>5
<1>. QED
  BY <1>1, <1>2 DEF RequestClass

(* Serving an interactive value keeps the inductive invariant. *)
LEMMA PopInteractiveKeepsHistoryInv ==
  ASSUME QueueInv, HistoryInv, PopInteractive, RecordInteractivePop
  PROVE  HistoryInv'
<1> USE QueueAssumption DEF QueueInv, HistoryInv
<1>1. /\ interactive # <<>>
      /\ interactive' = Tail(interactive)
      /\ UNCHANGED batch
  BY DEF PopInteractive, TypeOK
<1>2. Len(interactive) > 0
  BY <1>1 DEF TypeOK
<1>3. interactive_since_batch_waited' \in 0 .. INTERACTIVE_BURST
      /\ interactive_since_batch_waited' <= interactive_since_batch_waited + 1
      /\ (batch = <<>> => interactive_since_batch_waited' = 0)
      /\ (batch # <<>> => interactive_since_batch_waited'
                            = interactive_since_batch_waited + 1)
  BY DEF PopInteractive, CountInteractive, InteractiveMayPass, TypeOK
<1>4. /\ delayed' \in Seq(DelayedEntry)
      /\ Len(delayed') = Len(delayed) - 1
      /\ \A i \in 1 .. Len(delayed) - 1 :
           /\ delayed'[i].batch = delayed[i + 1].batch
           /\ delayed'[i].interactive = delayed[i + 1].interactive + 1
      /\ overtaken' \in Seq(OvertakenEntry)
      /\ Len(overtaken') = Len(overtaken)
      /\ \A i \in 1 .. Len(overtaken) :
           /\ overtaken'[i].place = overtaken[i].place
           /\ overtaken'[i].interactive = overtaken[i].interactive + 1
  BY <1>2, InteractivePopHistory DEF PopInteractive
<1>5. HistoryOK'
  BY <1>1, <1>2, <1>4 DEF TypeOK, HistoryOK
<1>6. OvertakingAccount'
  <2>1. SUFFICES ASSUME NEW i \in 1 .. Len(batch)
                 PROVE  overtaken'[i].interactive
                          <= INTERACTIVE_BURST * (overtaken'[i].place - i)
                               + interactive_since_batch_waited'
    BY <1>1 DEF OvertakingAccount
  <2>2. /\ i \in 1 .. Len(overtaken)
        /\ overtaken[i].place \in Nat
        /\ overtaken[i].interactive \in Nat
    BY HistoryNumbers
  <2>3. batch # <<>>
    BY DEF TypeOK
  <2>4. overtaken[i].interactive
          <= INTERACTIVE_BURST * (overtaken[i].place - i)
               + interactive_since_batch_waited
    BY DEF OvertakingAccount
  <2>5. INTERACTIVE_BURST * (overtaken[i].place - i) \in Int
    BY <2>2, ProductsAreIntegers
  <2>6. /\ overtaken'[i].place = overtaken[i].place
        /\ overtaken'[i].interactive = overtaken[i].interactive + 1
        /\ interactive_since_batch_waited' = interactive_since_batch_waited + 1
    BY <1>3, <1>4, <2>2, <2>3
  <2>7. interactive_since_batch_waited \in Int
    BY DEF TypeOK
  <2>. QED
    BY <2>2, <2>4, <2>5, <2>6, <2>7, OneMoreOvertaken
<1>7. DelayAccount'
  <2>1. SUFFICES ASSUME NEW i \in 1 .. Len(interactive) - 1
                 PROVE  INTERACTIVE_BURST * delayed'[i].batch
                          + interactive_since_batch_waited'
                            <= INTERACTIVE_BURST + delayed'[i].interactive
    BY <1>1, <1>2 DEF DelayAccount, TypeOK
  <2>2. /\ i \in 1 .. Len(delayed) - 1
        /\ i + 1 \in 1 .. Len(interactive)
        /\ delayed[i + 1].batch \in Nat
        /\ delayed[i + 1].interactive \in Nat
    <3>1. i + 1 \in 1 .. Len(interactive) /\ Len(delayed) = Len(interactive)
      BY DEF TypeOK, HistoryOK
    <3>. QED
      BY <3>1, HistoryNumbers
  <2>3. INTERACTIVE_BURST * delayed[i + 1].batch
          + interactive_since_batch_waited
            <= INTERACTIVE_BURST + delayed[i + 1].interactive
    BY <2>2 DEF DelayAccount
  <2>4. INTERACTIVE_BURST * delayed[i + 1].batch \in Int
    BY <2>2, ProductsAreIntegers
  <2>5. /\ delayed'[i].batch = delayed[i + 1].batch
        /\ delayed'[i].interactive = delayed[i + 1].interactive + 1
    BY <1>4, <2>2
  <2>6. /\ INTERACTIVE_BURST \in Int
        /\ interactive_since_batch_waited \in Int
        /\ interactive_since_batch_waited' \in Int
        /\ interactive_since_batch_waited' <= interactive_since_batch_waited + 1
    BY <1>3 DEF TypeOK
  <2>7. INTERACTIVE_BURST * delayed[i + 1].batch
          + interactive_since_batch_waited'
            <= INTERACTIVE_BURST + (delayed[i + 1].interactive + 1)
    BY <2>2, <2>3, <2>4, <2>6, OneMoreServed
  <2>. QED
    BY <2>5, <2>7
<1>. QED
  BY <1>5, <1>6, <1>7

(* Serving a batch value keeps the inductive invariant. *)
LEMMA PopBatchKeepsHistoryInv ==
  ASSUME QueueInv, HistoryInv, PopBatch, RecordBatchPop
  PROVE  HistoryInv'
<1> USE QueueAssumption DEF QueueInv, HistoryInv
<1>1. /\ batch # <<>>
      /\ batch' = Tail(batch)
      /\ UNCHANGED interactive
      /\ interactive_since_batch_waited' = 0
  BY DEF PopBatch, TypeOK
<1>2. Len(batch) > 0
  BY <1>1 DEF TypeOK
<1>3. interactive # <<>> =>
        interactive_since_batch_waited = INTERACTIVE_BURST
  BY DEF PopBatch, InteractiveMayPass, TypeOK
<1>4. /\ overtaken' \in Seq(OvertakenEntry)
      /\ Len(overtaken') = Len(overtaken) - 1
      /\ \A i \in 1 .. Len(overtaken) - 1 : overtaken'[i] = overtaken[i + 1]
      /\ delayed' \in Seq(DelayedEntry)
      /\ Len(delayed') = Len(delayed)
      /\ \A i \in 1 .. Len(delayed) :
           /\ delayed'[i].batch = delayed[i].batch + 1
           /\ delayed'[i].interactive = delayed[i].interactive
  BY <1>2, BatchPopHistory DEF PopBatch
<1>5. HistoryOK'
  BY <1>1, <1>2, <1>4 DEF TypeOK, HistoryOK
<1>6. OvertakingAccount'
  <2>1. Len(batch') = Len(batch) - 1 /\ Len(overtaken) = Len(batch)
    BY <1>1, <1>2 DEF TypeOK, HistoryOK
  <2>2. SUFFICES ASSUME NEW i \in 1 .. Len(batch) - 1
                 PROVE  overtaken'[i].interactive
                          <= INTERACTIVE_BURST * (overtaken'[i].place - i)
                               + interactive_since_batch_waited'
    BY <2>1 DEF OvertakingAccount
  <2>3. i \in Nat /\ i + 1 \in 1 .. Len(batch)
    BY DEF TypeOK
  <2>4. overtaken[i + 1].place \in Nat /\ overtaken[i + 1].interactive \in Nat
    BY <2>3, HistoryNumbers
  <2>5. overtaken[i + 1].interactive
          <= INTERACTIVE_BURST * (overtaken[i + 1].place - (i + 1))
               + interactive_since_batch_waited
    BY <2>3 DEF OvertakingAccount
  <2>6. INTERACTIVE_BURST \in Nat
        /\ interactive_since_batch_waited \in 0 .. INTERACTIVE_BURST
    BY DEF TypeOK
  <2>7. overtaken[i + 1].interactive
          <= INTERACTIVE_BURST * (overtaken[i + 1].place - i)
    BY <2>3, <2>4, <2>5, <2>6, BurstPaysForOnePlace
  <2>8. INTERACTIVE_BURST * (overtaken[i + 1].place - i) \in Int
    BY <2>3, <2>4, <2>6, ProductsAreIntegers
  <2>9. overtaken'[i] = overtaken[i + 1] /\ interactive_since_batch_waited' = 0
    BY <1>1, <1>4, <2>1
  <2>. QED
    BY <2>4, <2>7, <2>8, <2>9
<1>7. DelayAccount'
  <2>1. SUFFICES ASSUME NEW i \in 1 .. Len(interactive)
                 PROVE  INTERACTIVE_BURST * delayed'[i].batch
                            <= INTERACTIVE_BURST + delayed'[i].interactive
    <3>1. \A j \in 1 .. Len(interactive) :
            INTERACTIVE_BURST * delayed'[j].batch + 0
              = INTERACTIVE_BURST * delayed'[j].batch
      <4> SUFFICES ASSUME NEW j \in 1 .. Len(interactive)
                   PROVE  INTERACTIVE_BURST * delayed'[j].batch \in Int
        OBVIOUS
      <4>1. delayed'[j].batch \in Nat
        <5>1. j \in 1 .. Len(delayed) /\ delayed[j].batch \in Nat
          BY HistoryNumbers
        <5>2. delayed'[j].batch = delayed[j].batch + 1
          BY <1>4, <5>1
        <5>. QED
          BY <5>1, <5>2
      <4>. QED
        BY <4>1, ProductsAreIntegers
    <3>. QED
      BY <1>1, <3>1 DEF DelayAccount
  <2>2. /\ i \in 1 .. Len(delayed)
        /\ delayed[i].batch \in Nat
        /\ delayed[i].interactive \in Nat
    BY HistoryNumbers
  <2>3. interactive_since_batch_waited = INTERACTIVE_BURST
    BY <1>3 DEF TypeOK
  <2>4. INTERACTIVE_BURST * delayed[i].batch + interactive_since_batch_waited
            <= INTERACTIVE_BURST + delayed[i].interactive
    BY DEF DelayAccount
  <2>5. /\ delayed'[i].batch = delayed[i].batch + 1
        /\ delayed'[i].interactive = delayed[i].interactive
    BY <1>4, <2>2
  <2>. QED
    BY <2>2, <2>3, <2>4, <2>5, BatchCostsOneBurst
<1>. QED
  BY <1>5, <1>6, <1>7

(* The history keeps its invariant. *)
THEOREM HistoryInvariant == ObservedSpec => []HistoryInv
<1>1. ObservedInit => HistoryInv
  BY DEF ObservedInit, Init, HistoryInv, HistoryOK, OvertakingAccount,
         DelayAccount
<1>2. QueueInv /\ HistoryInv /\ [ObservedNext]_observed => HistoryInv'
  <2> SUFFICES ASSUME QueueInv, HistoryInv, [ObservedNext]_observed
               PROVE  HistoryInv'
    OBVIOUS
  <2>1. ASSUME NEW r \in Requests, NEW class \in RequestClass,
               ObservedEnqueue(class, r)
        PROVE  HistoryInv'
    BY <2>1, EnqueueKeepsHistoryInv
  <2>2. CASE PopInteractive /\ RecordInteractivePop
    BY <2>2, PopInteractiveKeepsHistoryInv
  <2>3. CASE PopBatch /\ RecordBatchPop
    BY <2>3, PopBatchKeepsHistoryInv
  <2>4. CASE WaitReady /\ UNCHANGED history
    BY <2>4, QueueAssumption
       DEF WaitReady, history, QueueInv, TypeOK, HistoryInv, HistoryOK,
           OvertakingAccount, DelayAccount
  <2>5. CASE UNCHANGED <<state, history>>
    BY <2>5 DEF state, history, HistoryInv, HistoryOK, OvertakingAccount,
                DelayAccount
  <2>. QED
    BY <2>1, <2>2, <2>3, <2>4, <2>5
       DEF ObservedNext, ObservedDequeue, SpuriousWakeup, Expire, observed, vars
<1>3. ObservedSpec => []QueueInv
  BY ObservedIsQueue, QueueInvariant
<1>. QED
  BY <1>1, <1>2, <1>3, PTL DEF ObservedSpec

(* A waiting batch value is overtaken by a bounded number of interactive   *)
(* values (queue.rs:88-100), for every capacity and burst.                 *)
THEOREM QueueOvertakingBounded == ObservedSpec => []OvertakingBounded
<1>1. QueueInv /\ HistoryInv => OvertakingBounded
  <2>1. SUFFICES ASSUME QueueInv, HistoryInv, NEW i \in 1 .. Len(batch)
                 PROVE  overtaken[i].interactive
                          <= INTERACTIVE_BURST * (overtaken[i].place - i)
                               + INTERACTIVE_BURST
    BY DEF OvertakingBounded
  <2>2. overtaken[i].place \in Nat /\ overtaken[i].interactive \in Nat
    BY <2>1, HistoryNumbers DEF QueueInv, HistoryInv
  <2>3. INTERACTIVE_BURST * (overtaken[i].place - i) \in Int
    BY <2>2, QueueAssumption, ProductsAreIntegers
  <2>4. overtaken[i].interactive
          <= INTERACTIVE_BURST * (overtaken[i].place - i)
               + interactive_since_batch_waited
    BY <2>1 DEF QueueInv, HistoryInv, OvertakingAccount
  <2>5. /\ INTERACTIVE_BURST \in Nat
        /\ interactive_since_batch_waited \in 0 .. INTERACTIVE_BURST
    BY <2>1, QueueAssumption DEF QueueInv, TypeOK
  <2>. QED
    BY <2>2, <2>3, <2>4, <2>5, SpentBurstIsBounded
<1>. QED
  BY <1>1, ObservedIsQueue, QueueInvariant, HistoryInvariant, PTL

(* An interactive value is passed by few batch values while it waits       *)
(* (queue.rs:90), for every capacity and burst.                            *)
THEOREM QueueInteractiveDelayBounded == ObservedSpec => []InteractiveDelayBounded
<1>1. QueueInv /\ HistoryInv => InteractiveDelayBounded
  <2>1. SUFFICES ASSUME QueueInv, HistoryInv, NEW i \in 1 .. Len(interactive)
                 PROVE  INTERACTIVE_BURST * delayed[i].batch
                          <= INTERACTIVE_BURST + delayed[i].interactive
    BY DEF InteractiveDelayBounded
  <2>2. delayed[i].batch \in Nat /\ delayed[i].interactive \in Nat
    BY <2>1, HistoryNumbers DEF QueueInv, HistoryInv
  <2>3. INTERACTIVE_BURST * delayed[i].batch \in Int
    BY <2>2, QueueAssumption, ProductsAreIntegers
  <2>4. INTERACTIVE_BURST * delayed[i].batch + interactive_since_batch_waited
          <= INTERACTIVE_BURST + delayed[i].interactive
    BY <2>1 DEF QueueInv, HistoryInv, DelayAccount
  <2>5. INTERACTIVE_BURST \in Nat /\ interactive_since_batch_waited \in Nat
    BY <2>1, QueueAssumption DEF QueueInv, TypeOK
  <2>. QED
    BY <2>2, <2>3, <2>4, <2>5, SpentBurstOnlyHelps
<1>. QED
  BY <1>1, ObservedIsQueue, QueueInvariant, HistoryInvariant, PTL
=============================================================================
