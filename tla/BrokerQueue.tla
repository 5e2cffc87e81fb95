---------------------------- MODULE BrokerQueue ----------------------------
(***************************************************************************)
(* The broker's bounded two-class request queue, src/broker/queue.rs: many *)
(* connection threads call try_enqueue, one scheduler thread calls         *)
(* dequeue.  Both operations run under the queue's mutex, so each is one   *)
(* step; the scheduler blocked in Condvar::wait is explicit state.         *)
(*                                                                         *)
(* A queued value is identified by its request.  A connection has at most  *)
(* one request outstanding, so no request is queued twice.                 *)
(***************************************************************************)
EXTENDS Naturals, Sequences

CONSTANTS
  Requests,           (* the values that can be queued                     *)
  QUEUE_CAPACITY,     (* the most values both classes hold together        *)
  INTERACTIVE_BURST,  (* interactive values served per waiting batch value *)
  Nothing             (* no value taken yet                                *)

ASSUME QueueAssumption ==
  /\ QUEUE_CAPACITY \in Nat \ {0}
  /\ INTERACTIVE_BURST \in Nat \ {0}
  /\ Nothing \notin [value : Requests, outcome : {"Ready", "Expired"}]

VARIABLES
  interactive,                    (* VecDeque of the interactive class     *)
  batch,                          (* VecDeque of the batch class           *)
  interactive_since_batch_waited, (* the burst counter                     *)
  expired,                        (* queued values whose deadline passed   *)
  scheduler,                      (* where the consuming thread is         *)
  taken                           (* what the last dequeue returned        *)

state == <<interactive, batch, interactive_since_batch_waited>>
vars == <<state, expired, scheduler, taken>>

RequestClass == {"Interactive", "Batch"}
SchedulerState == {"out",      (* outside dequeue, handling a request      *)
                   "waiting",  (* blocked in ready.wait, mutex released    *)
                   "woken"}    (* returned from ready.wait, loops again    *)
Dequeued == [value : Requests, outcome : {"Ready", "Expired"}]

(* The values of either class that wait to be served. *)
Queued == {interactive[i] : i \in DOMAIN interactive}
            \cup {batch[i] : i \in DOMAIN batch}

-----------------------------------------------------------------------------
Init ==
  /\ interactive = <<>>
  /\ batch = <<>>
  /\ interactive_since_batch_waited = 0
  /\ expired = {}
  /\ scheduler = "out"
  /\ taken = Nothing

(***************************************************************************)
(* try_enqueue                                                             *)
(***************************************************************************)
Full == Len(interactive) + Len(batch) >= QUEUE_CAPACITY

PushBack(class, r) ==
  \/ /\ class = "Interactive"
     /\ interactive' = Append(interactive, r)
     /\ UNCHANGED batch
  \/ /\ class = "Batch"
     /\ batch' = Append(batch, r)
     /\ UNCHANGED interactive

(* Mutant: the notification forgotten. *)
NotifyNobody == UNCHANGED scheduler

(* Condvar::notify_one: nothing happens unless the scheduler is waiting. *)
NotifyOne ==
  scheduler' = IF scheduler = "waiting" THEN "woken" ELSE scheduler

TryEnqueue(class, r) ==
  /\ r \notin Queued
  /\ ~Full
  /\ PushBack(class, r)
  /\ NotifyOne
  /\ UNCHANGED <<interactive_since_batch_waited, expired, taken>>

(* The refused call: Err(QueueError::Full), nothing stored. *)
TryEnqueueFull == Full /\ UNCHANGED vars

(***************************************************************************)
(* dequeue                                                                 *)
(***************************************************************************)
(* Mutants: a limit one too high; batch first. *)
InteractivePassesOnceMore == interactive_since_batch_waited <= INTERACTIVE_BURST
InteractiveNeverPasses == FALSE

(* A waiting batch value yields to an interactive one this often. *)
InteractiveMayPass == interactive_since_batch_waited < INTERACTIVE_BURST

Return(r) ==
  /\ taken' = [value |-> r,
               outcome |-> IF r \in expired THEN "Expired" ELSE "Ready"]
  /\ expired' = expired \ {r}
  /\ scheduler' = "out"

(* The burst counter after an interactive value was taken. *)
CountInteractive == IF batch = <<>> THEN 0 ELSE interactive_since_batch_waited + 1

PopInteractive ==
  /\ interactive # <<>>
  /\ batch = <<>> \/ InteractiveMayPass
  /\ interactive_since_batch_waited' = CountInteractive
  /\ interactive' = Tail(interactive)
  /\ Return(Head(interactive))
  /\ UNCHANGED batch

PopBatch ==
  /\ batch # <<>>
  /\ interactive = <<>> \/ ~InteractiveMayPass
  /\ interactive_since_batch_waited' = 0
  /\ batch' = Tail(batch)
  /\ Return(Head(batch))
  /\ UNCHANGED interactive

(* take_next returned None: the mutex is released and the thread blocks. *)
WaitReady ==
  /\ interactive = <<>>
  /\ batch = <<>>
  /\ interactive_since_batch_waited' = 0
  /\ scheduler' = "waiting"
  /\ UNCHANGED <<interactive, batch, expired, taken>>

Dequeue ==
  /\ scheduler # "waiting"
  /\ PopInteractive \/ PopBatch \/ WaitReady

(* A condition variable may return without a notification. *)
SpuriousWakeup ==
  /\ scheduler = "waiting"
  /\ scheduler' = "woken"
  /\ UNCHANGED <<state, expired, taken>>

(* Time passes the deadline of a value that is still queued. *)
Expire(r) ==
  /\ r \in Queued \ expired
  /\ expired' = expired \cup {r}
  /\ UNCHANGED <<state, scheduler, taken>>

-----------------------------------------------------------------------------
Next ==
  \/ \E r \in Requests, class \in RequestClass : TryEnqueue(class, r)
  \/ TryEnqueueFull
  \/ Dequeue
  \/ SpuriousWakeup
  \/ \E r \in Requests : Expire(r)

Spec == Init /\ [][Next]_vars

(* The scheduler loop calls dequeue again after every request (mod.rs:76). *)
FairSpec == Spec /\ WF_vars(Dequeue)

-----------------------------------------------------------------------------
(* The state has its type; the burst counter never leaves its range. *)
TypeOK ==
  /\ interactive \in Seq(Requests)
  /\ batch \in Seq(Requests)
  /\ interactive_since_batch_waited \in 0 .. INTERACTIVE_BURST
  /\ expired \subseteq Requests
  /\ scheduler \in SchedulerState
  /\ taken \in Dequeued \cup {Nothing}

(* try_enqueue never lets the two classes together exceed the capacity,    *)
(* whatever the interleaving of producers and the scheduler (queue.rs:61). *)
CapacityRespected == Len(interactive) + Len(batch) <= QUEUE_CAPACITY

(* No lost wakeup (queue.rs:69, 83): a scheduler asleep on the condition   *)
(* variable means there is nothing to serve.                               *)
NoLostWakeup == scheduler = "waiting" => interactive = <<>> /\ batch = <<>>

(* A fresh batch value never inherits a spent burst: the counter is zero   *)
(* whenever no batch value waits (queue.rs:95, 98).                        *)
BurstStartsFresh == batch = <<>> => interactive_since_batch_waited = 0

(* Every queued value is returned by dequeue at last, of either class and  *)
(* expired or not, if the scheduler keeps calling it.                      *)
EveryRequestTaken == \A r \in Requests : r \in Queued ~> r \notin Queued
=============================================================================
