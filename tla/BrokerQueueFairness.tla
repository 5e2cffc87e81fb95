------------------------ MODULE BrokerQueueFairness ------------------------
(***************************************************************************)
(* How fair the two-class queue is.  BrokerQueue with history variables:   *)
(* for every queued value, what was served while it waited.  They only     *)
(* observe; every step is a step of BrokerQueue.                           *)
(***************************************************************************)
EXTENDS BrokerQueue

VARIABLES
  overtaken,  (* of a batch value: its place on arrival and how many       *)
              (* interactive values were served while it waited            *)
  delayed     (* of an interactive value: how many values of each class    *)
              (* were served while it waited                               *)

history == <<overtaken, delayed>>
observed == <<vars, history>>

OvertakenEntry == [place : Nat, interactive : Nat]
DelayedEntry == [interactive : Nat, batch : Nat]

ServedInteractive(entry) == [entry EXCEPT !.interactive = @ + 1]
ServedBatch(entry) == [entry EXCEPT !.batch = @ + 1]

RecordPush(class) ==
  \/ /\ class = "Interactive"
     /\ delayed' = Append(delayed, [interactive |-> 0, batch |-> 0])
     /\ UNCHANGED overtaken
  \/ /\ class = "Batch"
     /\ overtaken' = Append(overtaken,
                            [place |-> Len(batch) + 1, interactive |-> 0])
     /\ UNCHANGED delayed

RecordInteractivePop ==
  /\ delayed' = [i \in 1 .. Len(delayed) - 1 |->
                   ServedInteractive(delayed[i + 1])]
  /\ overtaken' = [i \in 1 .. Len(overtaken) |-> ServedInteractive(overtaken[i])]

RecordBatchPop ==
  /\ overtaken' = Tail(overtaken)
  /\ delayed' = [i \in 1 .. Len(delayed) |-> ServedBatch(delayed[i])]

-----------------------------------------------------------------------------
ObservedInit == Init /\ overtaken = <<>> /\ delayed = <<>>

ObservedEnqueue(class, r) == TryEnqueue(class, r) /\ RecordPush(class)

ObservedDequeue ==
  /\ scheduler # "waiting"
  /\ \/ PopInteractive /\ RecordInteractivePop
     \/ PopBatch /\ RecordBatchPop
     \/ WaitReady /\ UNCHANGED history

ObservedNext ==
  \/ \E r \in Requests, class \in RequestClass : ObservedEnqueue(class, r)
  \/ ObservedDequeue
  \/ SpuriousWakeup /\ UNCHANGED history
  \/ \E r \in Requests : Expire(r) /\ UNCHANGED history

ObservedSpec == ObservedInit /\ [][ObservedNext]_observed

(* FairSpec, observed. *)
ObservedFairSpec == ObservedSpec /\ WF_observed(ObservedDequeue)

-----------------------------------------------------------------------------
(* Every queued value has its history entry. *)
HistoryOK ==
  /\ overtaken \in Seq(OvertakenEntry)
  /\ delayed \in Seq(DelayedEntry)
  /\ Len(overtaken) = Len(batch)
  /\ Len(delayed) = Len(interactive)

(* No starvation of batch work (queue.rs:88-100): a batch value that was   *)
(* p-th in line when it arrived and is i-th now has been overtaken by at   *)
(* most INTERACTIVE_BURST interactive values per place it moved up, plus   *)
(* one burst for the place it is in.                                       *)
OvertakingBounded ==
  \A i \in 1 .. Len(batch) :
    overtaken[i].interactive
      <= INTERACTIVE_BURST * (overtaken[i].place - i) + INTERACTIVE_BURST

(* Interactive work keeps its priority: while an interactive value waits,  *)
(* batch values are served at most once per INTERACTIVE_BURST interactive  *)
(* ones, plus one (queue.rs:90).                                           *)
InteractiveDelayBounded ==
  \A i \in 1 .. Len(interactive) :
    INTERACTIVE_BURST * delayed[i].batch
      <= INTERACTIVE_BURST + delayed[i].interactive
=============================================================================
