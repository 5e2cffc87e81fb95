------------------------------- MODULE Broker -------------------------------
(***************************************************************************)
(* A broker process that serves: connection threads (handle_connection),   *)
(* the queue (BrokerQueue), the scheduler loop of serve_with_loader and    *)
(* the request watchdog, src/broker/mod.rs and src/broker/watchdog.rs.     *)
(*                                                                         *)
(* A connection thread reads a line, enqueues it with a one-slot channel   *)
(* and blocks on the channel, so a queued request is named by its          *)
(* connection.  A line is abstracted to its method and the key that holds  *)
(* its id, a reply to its kind, whether it carries that id, and            *)
(* stop_connection.  The engine may hang; a client may stop reading.       *)
(***************************************************************************)
EXTENDS Naturals, Sequences

CONSTANTS
  Conns,              (* the connections                                   *)
  Lines,              (* the request lines clients send                    *)
  QUEUE_CAPACITY,     (* as in BrokerQueue                                 *)
  INTERACTIVE_BURST,  (* as in BrokerQueue                                 *)
  Nothing             (* as in BrokerQueue                                 *)

Line == [method : {"embed_batch", "embed_query", "shutdown", "blank"},
         key : {"request_id", "id", "none"}]

ASSUME BrokerAssumption ==
  /\ Lines \subseteq Line
  /\ QUEUE_CAPACITY \in Nat \ {0}
  /\ INTERACTIVE_BURST \in Nat \ {0}

VARIABLES
  interactive, batch, interactive_since_batch_waited, expired, scheduler,
  taken,         (* the variables of BrokerQueue                           *)
  alive,         (* the process runs                                       *)
  conn,          (* what each connection thread does                       *)
  line,          (* the line a connection is working on                    *)
  reply,         (* what its channel holds, or what it is writing          *)
  step,          (* where the scheduler loop is                            *)
  active_since   (* what the request watchdog sees: the age of the arming  *)

Q == INSTANCE BrokerQueue WITH Requests <- Conns

queue == <<interactive, batch, interactive_since_batch_waited, expired,
           scheduler, taken>>
vars == <<queue, alive, conn, line, reply, step, active_since>>

ConnState == {"closed", "reading", "waiting", "writing"}
SchedulerStep == {"dequeue", "handle", "process", "disarm"}
Age == {"None", "young", "overdue"}

NoLine == [method |-> "none", key |-> "none"]
ReplyKind == {"answer", "BrokerQueueFull", "BrokerRequestExpired", "oversized",
              "silence", "broken"}
Reply == [kind : ReplyKind, id : {"", "echoed"}, stop : BOOLEAN]
Empty == [kind |-> "empty", id |-> "", stop |-> FALSE]

(* The request the scheduler took from the queue. *)
InHand == taken.value

-----------------------------------------------------------------------------
(* request_class: everything but embed_batch is interactive. *)
RequestClass(l) == IF l.method = "embed_batch" THEN "Batch" ELSE "Interactive"

(* request_id, used for the broker's own failures, knows one key only. *)
RequestId(l) == IF l.key = "request_id" THEN "echoed" ELSE ""

(* extract_request_id, used by the protocol, knows the alias, too. *)
ExtractRequestId(l) == IF l.key \in {"request_id", "id"} THEN "echoed" ELSE ""

(* Mutant: a refused shutdown still stops the connection. *)
StoppingFailure(l, kind) ==
  [kind |-> kind, id |-> RequestId(l), stop |-> l.method = "shutdown"]

FailureReply(l, kind) == [kind |-> kind, id |-> RequestId(l), stop |-> FALSE]

(* process_line: Ok(None) for a blank line, Err if no reply serializes. *)
ProcessLine(l) ==
  IF l.method = "blank"
  THEN {[kind |-> "silence", id |-> "", stop |-> FALSE]}
  ELSE {[kind |-> "answer", id |-> ExtractRequestId(l),
         stop |-> l.method = "shutdown"],
        [kind |-> "broken", id |-> "", stop |-> FALSE]}

-----------------------------------------------------------------------------
Init ==
  /\ Q!Init
  /\ alive = TRUE
  /\ conn = [c \in Conns |-> "closed"]
  /\ line = [c \in Conns |-> NoLine]
  /\ reply = [c \in Conns |-> Empty]
  /\ step = "dequeue"
  /\ active_since = "None"

(***************************************************************************)
(* Connection threads                                                      *)
(***************************************************************************)
Accept(c) ==
  /\ alive
  /\ conn[c] = "closed"
  /\ conn' = [conn EXCEPT ![c] = "reading"]
  /\ UNCHANGED <<queue, alive, line, reply, step, active_since>>

(* EOF or a read error ends the thread. *)
Eof(c) ==
  /\ alive
  /\ conn[c] = "reading"
  /\ conn' = [conn EXCEPT ![c] = "closed"]
  /\ UNCHANGED <<queue, alive, line, reply, step, active_since>>

(* read_request rejects an oversized line; its id was never read. *)
ReadOversized(c) ==
  /\ alive
  /\ conn[c] = "reading"
  /\ line' = [line EXCEPT ![c] = NoLine]
  /\ reply' = [reply EXCEPT ![c] =
                 [kind |-> "oversized", id |-> "", stop |-> FALSE]]
  /\ conn' = [conn EXCEPT ![c] = "writing"]
  /\ UNCHANGED <<queue, alive, step, active_since>>

ReadLine(c, l) ==
  /\ alive
  /\ conn[c] = "reading"
  /\ line' = [line EXCEPT ![c] = l]
  /\ Q!TryEnqueue(RequestClass(l), c)
  /\ conn' = [conn EXCEPT ![c] = "waiting"]
  /\ UNCHANGED <<alive, reply, step, active_since>>

ReadLineQueueFull(c, l) ==
  /\ alive
  /\ conn[c] = "reading"
  /\ line' = [line EXCEPT ![c] = l]
  /\ Q!TryEnqueueFull
  /\ reply' = [reply EXCEPT ![c] = FailureReply(l, "BrokerQueueFull")]
  /\ conn' = [conn EXCEPT ![c] = "writing"]
  /\ UNCHANGED <<alive, step, active_since>>

(* The thread is done with its line: it reads on, or it ends. *)
Finish(c, next) ==
  /\ conn' = [conn EXCEPT ![c] = next]
  /\ line' = [line EXCEPT ![c] = NoLine]
  /\ reply' = [reply EXCEPT ![c] = Empty]

(* reply_rx.recv returned: Err ends the thread, None means read on. *)
ReceiveReply(c) ==
  /\ alive
  /\ conn[c] = "waiting"
  /\ reply[c] # Empty
  /\ \/ reply[c].kind = "broken" /\ Finish(c, "closed")
     \/ reply[c].kind = "silence" /\ Finish(c, "reading")
     \/ /\ reply[c].kind \notin {"broken", "silence"}
        /\ conn' = [conn EXCEPT ![c] = "writing"]
        /\ UNCHANGED <<line, reply>>
  /\ UNCHANGED <<queue, alive, step, active_since>>

(* write_reply; it fails if the client is gone. *)
WriteReply(c) ==
  /\ alive
  /\ conn[c] = "writing"
  /\ \/ Finish(c, IF reply[c].stop THEN "closed" ELSE "reading")
     \/ Finish(c, "closed")
  /\ UNCHANGED <<queue, alive, step, active_since>>

(***************************************************************************)
(* The scheduler loop                                                      *)
(***************************************************************************)
Dequeue ==
  /\ alive
  /\ step = "dequeue"
  /\ Q!Dequeue
  /\ step' = IF scheduler' = "out" THEN "handle" ELSE "dequeue"
  /\ UNCHANGED <<alive, conn, line, reply, active_since>>

(* Mutant: an expired request is put aside without a reply. *)
ForgetExpired ==
  /\ alive
  /\ step = "handle"
  /\ taken.outcome = "Expired"
  /\ step' = "dequeue"
  /\ UNCHANGED <<queue, alive, conn, line, reply, active_since>>

HandleExpired ==
  /\ alive
  /\ step = "handle"
  /\ taken.outcome = "Expired"
  /\ reply' = [reply EXCEPT ![InHand] =
                 FailureReply(line[InHand], "BrokerRequestExpired")]
  /\ step' = "dequeue"
  /\ UNCHANGED <<queue, alive, conn, line, active_since>>

(* Mutant: the watchdog is not told. *)
ArmNothing ==
  /\ alive
  /\ step = "handle"
  /\ taken.outcome = "Ready"
  /\ step' = "process"
  /\ UNCHANGED <<queue, alive, conn, line, reply, active_since>>

Arm ==
  /\ alive
  /\ step = "handle"
  /\ taken.outcome = "Ready"
  /\ active_since' = "young"
  /\ step' = "process"
  /\ UNCHANGED <<queue, alive, conn, line, reply>>

(* process_line returns and its result is sent. *)
Process ==
  /\ alive
  /\ step = "process"
  /\ \E r \in ProcessLine(line[InHand]) : reply' = [reply EXCEPT ![InHand] = r]
  /\ step' = "disarm"
  /\ UNCHANGED <<queue, alive, conn, line, active_since>>

(* Mutant: the arming outlives the request. *)
KeepArmed ==
  /\ alive
  /\ step = "disarm"
  /\ step' = "dequeue"
  /\ UNCHANGED <<queue, alive, conn, line, reply, active_since>>

(* Drop of ActiveRequest at the end of the loop body. *)
Disarm ==
  /\ alive
  /\ step = "disarm"
  /\ active_since' = "None"
  /\ step' = "dequeue"
  /\ UNCHANGED <<queue, alive, conn, line, reply>>

(***************************************************************************)
(* Time, the watchdog and the end of the process                           *)
(***************************************************************************)
Expire(c) ==
  /\ alive
  /\ Q!Expire(c)
  /\ UNCHANGED <<alive, conn, line, reply, step, active_since>>

SpuriousWakeup ==
  /\ alive
  /\ Q!SpuriousWakeup
  /\ UNCHANGED <<alive, conn, line, reply, step, active_since>>

(* REQUEST_WATCHDOG_TIMEOUT has passed since the arming. *)
BecomeOverdue ==
  /\ alive
  /\ active_since = "young"
  /\ active_since' = "overdue"
  /\ UNCHANGED <<queue, alive, conn, line, reply, step>>

Abort ==
  /\ alive
  /\ active_since = "overdue"
  /\ alive' = FALSE
  /\ UNCHANGED <<queue, conn, line, reply, step, active_since>>

(* The owner's stdin ended, a panic, a kill.                               *)
Crash ==
  /\ alive
  /\ alive' = FALSE
  /\ UNCHANGED <<queue, conn, line, reply, step, active_since>>

-----------------------------------------------------------------------------
Next ==
  \/ \E c \in Conns :
       \/ Accept(c) \/ Eof(c) \/ ReadOversized(c) \/ ReceiveReply(c)
       \/ WriteReply(c) \/ Expire(c)
       \/ \E l \in Lines : ReadLine(c, l) \/ ReadLineQueueFull(c, l)
  \/ Dequeue \/ HandleExpired \/ Arm \/ Process \/ Disarm
  \/ SpuriousWakeup \/ BecomeOverdue \/ Abort \/ Crash

(* The threads are scheduled and time passes.  The engine may hang, and    *)
(* nothing is asked of the clients: Process, WriteReply and reading a line *)
(* may never happen.                                                       *)
Spec ==
  /\ Init
  /\ [][Next]_vars
  /\ WF_vars(Dequeue \/ HandleExpired \/ Arm \/ Disarm)
  /\ WF_vars(BecomeOverdue)
  /\ WF_vars(Abort)
  /\ \A c \in Conns : WF_vars(ReceiveReply(c))

-----------------------------------------------------------------------------
(* The state has its type; the queue's part by the queue's own invariant. *)
TypeOK ==
  /\ Q!TypeOK
  /\ alive \in BOOLEAN
  /\ conn \in [Conns -> ConnState]
  /\ line \in [Conns -> Lines \cup {NoLine}]
  /\ reply \in [Conns -> Reply \cup {Empty}]
  /\ step \in SchedulerStep
  /\ active_since \in Age

(* The request of a waiting connection is in exactly one place (mod.rs:    *)
(* 144-158): queued, in the scheduler's hand, or answered in the channel.  *)
(* No thread blocks in recv for a request that nobody will answer, and no  *)
(* request outlives its connection's wait.                                 *)
PendingInOnePlace ==
  \A c \in Conns :
    LET queued == c \in Q!Queued
        inHand == step \in {"handle", "process"} /\ InHand = c
    IN  /\ conn[c] = "waiting" /\ reply[c] = Empty <=> queued \/ inHand
        /\ ~(queued /\ inHand)

(* Nobody waits on a sleeping scheduler (queue.rs:69, 83; mod.rs:149-158): *)
(* when the scheduler blocks, every waiting connection has its reply.      *)
SleepsOnlyWhenAllAnswered ==
  scheduler = "waiting" =>
    \A c \in Conns : conn[c] = "waiting" => reply[c] # Empty

(* The watchdog is armed exactly while a request runs (mod.rs:90-93), so   *)
(* an idle broker is never aborted and a running request is always timed.  *)
ArmedExactlyWhileBusy ==
  active_since # "None" <=> step \in {"process", "disarm"}

(* The outcomes that may settle a line the broker accepted. *)
Settles(l, o) ==
  \/ /\ o.kind = "answer" /\ l.method # "blank"
     /\ o.id = ExtractRequestId(l)
     /\ o.stop = (l.method = "shutdown")
  \/ o.kind = "silence" /\ l.method = "blank"
  \/ o.kind = "broken"
  \/ o.kind = "BrokerRequestExpired" /\ ~o.stop

Service ==
  INSTANCE RequestService WITH
    Clients <- Conns,
    Fits <- Settles,
    Outcomes <- Reply,
    NoOutcome <- Empty,
    Refusals <- {o \in Reply : /\ o.kind \in {"BrokerQueueFull", "oversized"}
                               /\ ~o.stop},
    up <- alive,
    pending <- [c \in Conns |-> IF conn[c] = "waiting" /\ reply[c] = Empty
                                THEN line[c]
                                ELSE NoLine],
    outcome <- reply

(* The broker implements the request service (mod.rs:76-93, 128-166;       *)
(* watchdog.rs:59-66).  Every accepted line is settled at most once, by an *)
(* outcome fit for it, so that only an answered shutdown closes the        *)
(* connection; and it is settled at last, or the process ends: a hung      *)
(* engine is aborted, an expired request is answered, and a client that    *)
(* does not read stalls nobody.                                            *)
ImplementsRequestService == Service!Spec
=============================================================================
