---------------------------- MODULE BrokerProofs ----------------------------
(***************************************************************************)
(* What a serving broker guarantees for every set of connections and lines *)
(* and every capacity and burst of its queue.  The inductive invariant     *)
(* accounts for every request: the queue holds no request twice, what it   *)
(* gives out is in the scheduler's hand alone, and a connection that does  *)
(* not wait has an empty channel.                                          *)
(***************************************************************************)
EXTENDS Broker, SequenceTheorems, TLAPS

(* The values of a class, and that it holds each of them once. *)
Values(s) == {s[i] : i \in DOMAIN s}
Distinct(s) == \A i, j \in DOMAIN s : s[i] = s[j] => i = j

QueueOK ==
  /\ interactive \in Seq(Conns) /\ Distinct(interactive)
  /\ batch \in Seq(Conns) /\ Distinct(batch)
  /\ Values(interactive) \cap Values(batch) = {}

Waiters == Values(interactive) \cup Values(batch)

(* push_back adds its value ... *)
LEMMA PushAdds ==
  ASSUME NEW s \in Seq(Conns), Distinct(s), NEW c \in Conns, c \notin Values(s)
  PROVE  /\ Append(s, c) \in Seq(Conns)
         /\ Distinct(Append(s, c))
         /\ Values(Append(s, c)) = Values(s) \cup {c}
<1> DEFINE t == Append(s, c)
<1>1. /\ t \in Seq(Conns) /\ Len(t) = Len(s) + 1
      /\ \A i \in 1..Len(s) : t[i] = s[i]
      /\ t[Len(s) + 1] = c
  OBVIOUS
<1>2. DOMAIN s = 1..Len(s) /\ DOMAIN t = 1..(Len(s) + 1) /\ Len(s) \in Nat
  BY <1>1
<1> HIDE DEF t
<1>3. Distinct(t)
  BY <1>1, <1>2 DEF Distinct, Values
<1>4. Values(t) = Values(s) \cup {c}
  BY <1>1, <1>2 DEF Values
<1>. QED
  BY <1>1, <1>3, <1>4 DEF t

(* ... and pop_front removes the front. *)
LEMMA PopRemoves ==
  ASSUME NEW s \in Seq(Conns), Distinct(s), s # <<>>
  PROVE  /\ Head(s) \in Values(s) /\ Head(s) \in Conns
         /\ Tail(s) \in Seq(Conns)
         /\ Distinct(Tail(s))
         /\ Values(Tail(s)) = Values(s) \ {Head(s)}
<1> DEFINE t == Tail(s)
<1>1. /\ t \in Seq(Conns) /\ Len(t) = Len(s) - 1
      /\ \A i \in 1..Len(t) : t[i] = s[i + 1]
      /\ Head(s) = s[1] /\ Len(s) \in Nat \ {0}
  OBVIOUS
<1>2. DOMAIN s = 1..Len(s) /\ DOMAIN t = 1..(Len(s) - 1)
  BY <1>1
<1> HIDE DEF t
<1>3. Distinct(t)
  <2> SUFFICES ASSUME NEW i \in DOMAIN t, NEW j \in DOMAIN t, t[i] = t[j]
               PROVE  i = j
    BY DEF Distinct
  <2>1. /\ i + 1 \in DOMAIN s /\ j + 1 \in DOMAIN s
        /\ s[i + 1] = s[j + 1]
        /\ i \in Int /\ j \in Int
    BY <1>1, <1>2
  <2>2. i + 1 = j + 1
    BY <2>1 DEF Distinct
  <2>. QED
    BY <2>1, <2>2
<1>4. Head(s) \in Values(s) /\ Head(s) \in Conns
  BY <1>1, <1>2 DEF Values
<1>5. ASSUME NEW v \in Values(t) PROVE v \in Values(s) \ {Head(s)}
  <2>1. PICK i \in 1..(Len(s) - 1) : v = t[i]
    BY <1>2 DEF Values
  <2>2. i + 1 \in DOMAIN s /\ v = s[i + 1] /\ 1 \in DOMAIN s /\ i + 1 # 1
    BY <1>1, <1>2, <2>1
  <2>3. v # s[1]
    BY <2>2 DEF Distinct
  <2>. QED
    BY <1>1, <2>2, <2>3 DEF Values
<1>6. ASSUME NEW v \in Values(s) \ {Head(s)} PROVE v \in Values(t)
  <2>1. PICK i \in 1..Len(s) : v = s[i]
    BY <1>2 DEF Values
  <2>2. i - 1 \in 1..(Len(s) - 1) /\ t[i - 1] = s[i]
    BY <1>1, <1>6, <2>1
  <2>. QED
    BY <1>2, <2>1, <2>2 DEF Values
<1>. QED
  BY <1>1, <1>3, <1>4, <1>5, <1>6 DEF t

(* The queue's operations seen as operations on the set of waiters. *)
LEMMA QueuedAreWaiters == QueueOK => Q!Queued = Waiters
BY DEF Q!Queued, Waiters, Values

LEMMA EnqueueAdds ==
  ASSUME QueueOK, NEW c \in Conns, NEW class \in {"Interactive", "Batch"},
         Q!TryEnqueue(class, c)
  PROVE  /\ QueueOK'
         /\ c \notin Waiters
         /\ Waiters' = Waiters \cup {c}
         /\ scheduler' = IF scheduler = "waiting" THEN "woken" ELSE scheduler
         /\ UNCHANGED <<expired, taken>>
<1>1. c \notin Values(interactive) /\ c \notin Values(batch)
  BY DEF Q!TryEnqueue, Q!Queued, Values
<1>2. /\ scheduler' = IF scheduler = "waiting" THEN "woken" ELSE scheduler
      /\ UNCHANGED <<expired, taken>>
  BY DEF Q!TryEnqueue, Q!NotifyOne
<1>3. CASE class = "Interactive"
  <2>1. interactive' = Append(interactive, c) /\ UNCHANGED batch
    BY <1>3 DEF Q!TryEnqueue, Q!PushBack
  <2>2. /\ interactive' \in Seq(Conns) /\ Distinct(interactive')
        /\ Values(interactive') = Values(interactive) \cup {c}
    BY <1>1, <2>1, PushAdds DEF QueueOK
  <2>. QED
    BY <1>1, <1>2, <2>1, <2>2 DEF QueueOK, Waiters
<1>4. CASE class = "Batch"
  <2>1. batch' = Append(batch, c) /\ UNCHANGED interactive
    BY <1>4 DEF Q!TryEnqueue, Q!PushBack
  <2>2. /\ batch' \in Seq(Conns) /\ Distinct(batch')
        /\ Values(batch') = Values(batch) \cup {c}
    BY <1>1, <2>1, PushAdds DEF QueueOK
  <2>. QED
    BY <1>1, <1>2, <2>1, <2>2 DEF QueueOK, Waiters
<1>. QED
  BY <1>3, <1>4

(* A value that dequeue returns is removed; if it returns none, the queue  *)
(* is empty.                                                               *)
LEMMA DequeueRemoves ==
  ASSUME QueueOK, Q!Dequeue
  PROVE  /\ QueueOK'
         /\ \/ /\ scheduler' = "out"
               /\ taken' \in [value : Conns, outcome : {"Ready", "Expired"}]
               /\ taken'.value \in Waiters
               /\ Waiters' = Waiters \ {taken'.value}
               /\ expired' = expired \ {taken'.value}
            \/ /\ scheduler' = "waiting" /\ Waiters = {}
               /\ UNCHANGED <<interactive, batch, taken, expired>>
<1>1. CASE Q!PopInteractive
  <2>1. /\ interactive # <<>> /\ interactive' = Tail(interactive)
        /\ UNCHANGED batch
        /\ scheduler' = "out"
        /\ taken' = [value |-> Head(interactive),
                     outcome |-> IF Head(interactive) \in expired
                                 THEN "Expired" ELSE "Ready"]
        /\ expired' = expired \ {Head(interactive)}
    BY <1>1 DEF Q!PopInteractive, Q!Return
  <2>2. /\ Head(interactive) \in Values(interactive) /\ Head(interactive) \in Conns
        /\ interactive' \in Seq(Conns) /\ Distinct(interactive')
        /\ Values(interactive') = Values(interactive) \ {Head(interactive)}
    BY <2>1, PopRemoves DEF QueueOK
  <2>3. /\ taken' \in [value : Conns, outcome : {"Ready", "Expired"}]
        /\ taken'.value = Head(interactive)
    BY <2>1, <2>2
  <2>. QED
    BY <2>1, <2>2, <2>3 DEF QueueOK, Waiters
<1>2. CASE Q!PopBatch
  <2>1. /\ batch # <<>> /\ batch' = Tail(batch)
        /\ UNCHANGED interactive
        /\ scheduler' = "out"
        /\ taken' = [value |-> Head(batch),
                     outcome |-> IF Head(batch) \in expired
                                 THEN "Expired" ELSE "Ready"]
        /\ expired' = expired \ {Head(batch)}
    BY <1>2 DEF Q!PopBatch, Q!Return
  <2>2. /\ Head(batch) \in Values(batch) /\ Head(batch) \in Conns
        /\ batch' \in Seq(Conns) /\ Distinct(batch')
        /\ Values(batch') = Values(batch) \ {Head(batch)}
    BY <2>1, PopRemoves DEF QueueOK
  <2>3. /\ taken' \in [value : Conns, outcome : {"Ready", "Expired"}]
        /\ taken'.value = Head(batch)
    BY <2>1, <2>2
  <2>. QED
    BY <2>1, <2>2, <2>3 DEF QueueOK, Waiters
<1>3. CASE Q!WaitReady
  <2>1. /\ interactive = <<>> /\ batch = <<>> /\ scheduler' = "waiting"
        /\ UNCHANGED <<interactive, batch, expired, taken>>
    BY <1>3 DEF Q!WaitReady
  <2>2. Waiters = {}
    BY <2>1 DEF Waiters, Values
  <2>. QED
    BY <2>1, <2>2 DEF QueueOK
<1>. QED
  BY <1>1, <1>2, <1>3 DEF Q!Dequeue

-----------------------------------------------------------------------------
(* What is known of the state's types apart from the queue's contents. *)
Types ==
  /\ interactive_since_batch_waited \in 0..INTERACTIVE_BURST
  /\ expired \subseteq Conns
  /\ scheduler \in {"out", "waiting", "woken"}
  /\ taken \in [value : Conns, outcome : {"Ready", "Expired"}] \cup {Nothing}
  /\ alive \in BOOLEAN
  /\ conn \in [Conns -> ConnState]
  /\ line \in [Conns -> Lines \cup {NoLine}]
  /\ reply \in [Conns -> Reply \cup {Empty}]
  /\ step \in SchedulerStep
  /\ active_since \in Age

(* The connection waits for an answer; the scheduler works on its request. *)
Pending(c) == conn[c] = "waiting" /\ reply[c] = Empty
InWork(c) == step \in {"handle", "process"} /\ taken.value = c

(* Every request is accounted for. *)
Account ==
  /\ \A c \in Conns : /\ Pending(c) <=> c \in Waiters \/ InWork(c)
                      /\ ~(c \in Waiters /\ InWork(c))
  /\ \A c \in Conns : conn[c] \in {"closed", "reading"} => reply[c] = Empty
  /\ \A c \in Conns : conn[c] = "waiting" => line[c] \in Lines
  /\ step # "dequeue" =>
       /\ scheduler = "out"
       /\ taken \in [value : Conns, outcome : {"Ready", "Expired"}]
  /\ scheduler = "waiting" => Waiters = {}
  /\ ArmedExactlyWhileBusy

BrokerInv == QueueOK /\ Types /\ Account

(* The replies are replies. *)
LEMMA FailureIsReply ==
  ASSUME NEW l \in Lines \cup {NoLine}, NEW kind \in ReplyKind
  PROVE  FailureReply(l, kind) \in Reply
BY DEF FailureReply, RequestId, Reply

LEMMA ProcessedIsReply ==
  ASSUME NEW l \in Lines \cup {NoLine}, NEW r \in ProcessLine(l)
  PROVE  r \in Reply
<1>1. (l.method = "shutdown") \in BOOLEAN
  OBVIOUS
<1> DEFINE stop == l.method = "shutdown"
<1> HIDE DEF stop
<1>2. /\ [kind |-> "answer", id |-> ExtractRequestId(l), stop |-> stop] \in Reply
      /\ [kind |-> "broken", id |-> "", stop |-> FALSE] \in Reply
      /\ [kind |-> "silence", id |-> "", stop |-> FALSE] \in Reply
  BY <1>1 DEF ExtractRequestId, Reply, ReplyKind, stop
<1>. QED
  BY <1>2 DEF ProcessLine, stop

LEMMA EmptyIsNoReply == Empty \notin Reply
BY DEF Empty, Reply, ReplyKind

-----------------------------------------------------------------------------
(* A step that leaves the queue and the scheduler alone keeps the account  *)
(* if it changes one connection, which is pending neither before nor after *)
(* it.                                                                     *)
LEMMA ConnectionKeepsInv ==
  ASSUME BrokerInv, NEW c \in Conns, NEW state \in ConnState,
         NEW l \in Lines \cup {NoLine}, NEW r \in Reply \cup {Empty},
         UNCHANGED <<queue, alive, step, active_since>>,
         conn' = [conn EXCEPT ![c] = state],
         line' = [line EXCEPT ![c] = l],
         reply' = [reply EXCEPT ![c] = r],
         ~Pending(c), state = "waiting" => r # Empty /\ l \in Lines,
         state \in {"closed", "reading"} => r = Empty
  PROVE  BrokerInv'
<1>1. UNCHANGED <<interactive, batch, interactive_since_batch_waited, expired,
                  scheduler, taken, Waiters>>
  BY DEF queue, Waiters, Values
<1>2. QueueOK'
  BY <1>1 DEF BrokerInv, QueueOK
<1>3. Types'
  BY <1>1 DEF BrokerInv, Types
<1>4. Account'
  <2>1. ASSUME NEW d \in Conns
        PROVE  (Pending(d) <=> Pending(d)') /\ (InWork(d) <=> InWork(d)')
    BY <1>1 DEF BrokerInv, Types, Pending, InWork
  <2>2. ASSUME NEW d \in Conns
        PROVE  /\ conn'[d] \in {"closed", "reading"} => reply'[d] = Empty
               /\ conn'[d] = "waiting" => line'[d] \in Lines
    BY DEF BrokerInv, Types, Account
  <2>. QED
    BY <1>1, <2>1, <2>2 DEF BrokerInv, Account, ArmedExactlyWhileBusy
<1>. QED
  BY <1>2, <1>3, <1>4 DEF BrokerInv

(* What a connection thread does apart from enqueueing. *)
LEMMA ThreadKeepsInv ==
  ASSUME BrokerInv, NEW c \in Conns,
         \/ Accept(c) \/ Eof(c) \/ ReadOversized(c) \/ ReceiveReply(c)
         \/ WriteReply(c)
  PROVE  BrokerInv'
<1>1. /\ conn \in [Conns -> ConnState]
      /\ line \in [Conns -> Lines \cup {NoLine}]
      /\ reply \in [Conns -> Reply \cup {Empty}]
      /\ conn[c] \in {"closed", "reading"} => reply[c] = Empty
      /\ conn[c] = "waiting" => line[c] \in Lines
  BY DEF BrokerInv, Types, Account
<1>2. UNCHANGED <<queue, alive, step, active_since>>
  BY DEF Accept, Eof, ReadOversized, ReceiveReply, WriteReply
<1>3. ~Pending(c)
  BY DEF Accept, Eof, ReadOversized, ReceiveReply, WriteReply, Pending
<1>4. CASE Accept(c) \/ Eof(c)
  <2>1. PICK state \in {"closed", "reading"} : conn' = [conn EXCEPT ![c] = state]
    BY <1>4 DEF Accept, Eof
  <2>2. /\ line' = [line EXCEPT ![c] = line[c]]
        /\ reply' = [reply EXCEPT ![c] = reply[c]]
        /\ reply[c] = Empty
    BY <1>1, <1>4 DEF Accept, Eof
  <2>. QED
    BY <1>1, <1>2, <1>3, <2>1, <2>2, ConnectionKeepsInv DEF ConnState
<1>5. CASE ReadOversized(c)
  <2> DEFINE r == [kind |-> "oversized", id |-> "", stop |-> FALSE]
  <2>1. r \in Reply
    BY DEF Reply, ReplyKind
  <2>2. /\ line' = [line EXCEPT ![c] = NoLine]
        /\ reply' = [reply EXCEPT ![c] = r]
        /\ conn' = [conn EXCEPT ![c] = "writing"]
    BY <1>5 DEF ReadOversized
  <2> HIDE DEF r
  <2>. QED
    BY <1>2, <1>3, <2>1, <2>2, ConnectionKeepsInv DEF ConnState
<1>6. ASSUME NEW next \in {"closed", "reading"}, Finish(c, next) PROVE BrokerInv'
  BY <1>2, <1>3, <1>6, ConnectionKeepsInv DEF ConnState, Finish
<1>7. CASE conn' = [conn EXCEPT ![c] = "writing"] /\ UNCHANGED <<line, reply>>
  <2>1. /\ line' = [line EXCEPT ![c] = line[c]]
        /\ reply' = [reply EXCEPT ![c] = reply[c]]
    BY <1>1, <1>7
  <2>. QED
    BY <1>1, <1>2, <1>3, <1>7, <2>1, ConnectionKeepsInv DEF ConnState
<1>8. CASE ReceiveReply(c)
  BY <1>6, <1>7, <1>8 DEF ReceiveReply
<1>9. CASE WriteReply(c)
  BY <1>6, <1>9 DEF WriteReply
<1>. QED
  BY <1>4, <1>5, <1>8, <1>9

(* A line that finds the queue full is refused. *)
LEMMA RefusalKeepsInv ==
  ASSUME BrokerInv, NEW c \in Conns, NEW l \in Lines, ReadLineQueueFull(c, l)
  PROVE  BrokerInv'
<1> DEFINE r == FailureReply(l, "BrokerQueueFull")
<1>1. r \in Reply
  BY FailureIsReply DEF ReplyKind
<1>2. /\ UNCHANGED <<queue, alive, step, active_since>>
      /\ line' = [line EXCEPT ![c] = l]
      /\ reply' = [reply EXCEPT ![c] = r]
      /\ conn' = [conn EXCEPT ![c] = "writing"]
      /\ conn[c] = "reading"
  BY DEF ReadLineQueueFull, Q!TryEnqueueFull, Q!vars, Q!state, queue
<1> HIDE DEF r
<1>. QED
  BY <1>1, <1>2, ConnectionKeepsInv DEF ConnState, Pending

(* A line that is queued becomes pending. *)
LEMMA EnqueueKeepsInv ==
  ASSUME BrokerInv, NEW c \in Conns, NEW l \in Lines, ReadLine(c, l)
  PROVE  BrokerInv'
<1>1. /\ conn[c] = "reading" /\ Q!TryEnqueue(RequestClass(l), c)
      /\ line' = [line EXCEPT ![c] = l]
      /\ conn' = [conn EXCEPT ![c] = "waiting"]
      /\ UNCHANGED <<alive, reply, step, active_since>>
  BY DEF ReadLine
<1>2. RequestClass(l) \in {"Interactive", "Batch"}
  BY DEF RequestClass
<1>3. /\ QueueOK'
      /\ Waiters' = Waiters \cup {c}
      /\ scheduler' = IF scheduler = "waiting" THEN "woken" ELSE scheduler
      /\ UNCHANGED <<expired, taken>>
  BY <1>1, <1>2, EnqueueAdds DEF BrokerInv
<1>4. UNCHANGED interactive_since_batch_waited
  BY <1>1 DEF Q!TryEnqueue
<1>5. Types'
  BY <1>1, <1>3, <1>4 DEF BrokerInv, Types, ConnState
<1>6. Account'
  <2>1. ASSUME NEW d \in Conns PROVE InWork(d) <=> InWork(d)'
    BY <1>1, <1>3 DEF InWork
  <2>2. ASSUME NEW d \in Conns PROVE Pending(d)' <=> Pending(d) \/ d = c
    BY <1>1 DEF BrokerInv, Types, Account, Pending
  <2>3. ~Pending(c)
    BY <1>1 DEF Pending
  <2>4. ASSUME NEW d \in Conns
        PROVE  /\ Pending(d)' <=> d \in Waiters' \/ InWork(d)'
               /\ ~(d \in Waiters' /\ InWork(d)')
    BY <1>3, <2>1, <2>2, <2>3 DEF BrokerInv, Account
  <2>5. ASSUME NEW d \in Conns
        PROVE  /\ conn'[d] \in {"closed", "reading"} => reply'[d] = Empty
               /\ conn'[d] = "waiting" => line'[d] \in Lines
    BY <1>1 DEF BrokerInv, Types, Account
  <2>. QED
    BY <1>1, <1>3, <2>4, <2>5 DEF BrokerInv, Types, Account, ArmedExactlyWhileBusy
<1>. QED
  BY <1>3, <1>5, <1>6 DEF BrokerInv

(* dequeue takes a request into the scheduler's hand, or finds none. *)
LEMMA DequeueKeepsInv ==
  ASSUME BrokerInv, Dequeue
  PROVE  BrokerInv'
<1> DEFINE Given == [value : Conns, outcome : {"Ready", "Expired"}]
<1>1. /\ step = "dequeue" /\ Q!Dequeue
      /\ step' = IF scheduler' = "out" THEN "handle" ELSE "dequeue"
      /\ UNCHANGED <<alive, conn, line, reply, active_since>>
  BY DEF Dequeue
<1>2. /\ QueueOK'
      /\ \/ /\ scheduler' = "out" /\ taken' \in Given
            /\ taken'.value \in Waiters
            /\ Waiters' = Waiters \ {taken'.value}
            /\ expired' = expired \ {taken'.value}
         \/ /\ scheduler' = "waiting" /\ Waiters = {}
            /\ UNCHANGED <<interactive, batch, taken, expired>>
  BY <1>1, DequeueRemoves DEF BrokerInv
<1>3. interactive_since_batch_waited' \in 0..INTERACTIVE_BURST
  BY <1>1, BrokerAssumption
     DEF BrokerInv, Types, Q!Dequeue, Q!PopInteractive, Q!PopBatch, Q!WaitReady,
         Q!CountInteractive, Q!InteractiveMayPass
<1> HIDE DEF Given
<1>4. Types'
  BY <1>1, <1>2, <1>3 DEF BrokerInv, Types, SchedulerStep, Given
<1>5. ASSUME NEW d \in Conns PROVE ~InWork(d) /\ (Pending(d) <=> Pending(d)')
  BY <1>1 DEF InWork, Pending
<1>6. CASE scheduler' = "out"
  <2>1. /\ step' = "handle" /\ taken' \in Given
        /\ taken'.value \in Waiters
        /\ Waiters' = Waiters \ {taken'.value}
    BY <1>1, <1>2, <1>6
  <2>2. ASSUME NEW d \in Conns
        PROVE  /\ Pending(d)' <=> d \in Waiters' \/ InWork(d)'
               /\ ~(d \in Waiters' /\ InWork(d)')
    BY <1>5, <2>1 DEF BrokerInv, Account, InWork
  <2>. QED
    BY <1>1, <1>2, <1>4, <1>6, <2>1, <2>2
       DEF BrokerInv, Account, ArmedExactlyWhileBusy, Given
<1>7. CASE scheduler' # "out"
  <2>1. /\ step' = "dequeue" /\ scheduler' = "waiting" /\ Waiters = {}
        /\ Waiters' = {}
    BY <1>1, <1>2, <1>7 DEF Waiters, Values
  <2>2. ASSUME NEW d \in Conns
        PROVE  /\ Pending(d)' <=> d \in Waiters' \/ InWork(d)'
               /\ ~(d \in Waiters' /\ InWork(d)')
    BY <1>5, <2>1 DEF BrokerInv, Account, InWork
  <2>. QED
    BY <1>1, <1>2, <1>4, <2>1, <2>2 DEF BrokerInv, Account, ArmedExactlyWhileBusy
<1>. QED
  BY <1>6, <1>7

(* The scheduler answers the request in its hand ... *)
LEMMA AnswerKeepsInv ==
  ASSUME BrokerInv, HandleExpired \/ Process
  PROVE  BrokerInv'
<1>1. /\ step \in {"handle", "process"} /\ step' \in {"dequeue", "disarm"}
      /\ step = "process" <=> step' = "disarm"
      /\ UNCHANGED <<queue, alive, conn, line, active_since>>
  BY DEF HandleExpired, Process
<1>2. /\ taken \in [value : Conns, outcome : {"Ready", "Expired"}]
      /\ InHand \in Conns /\ scheduler = "out"
      /\ line[InHand] \in Lines \cup {NoLine}
  BY <1>1 DEF BrokerInv, Types, Account, InHand
<1>3. \E r \in Reply : reply' = [reply EXCEPT ![InHand] = r]
  <2>1. CASE HandleExpired
    BY <1>2, <2>1, FailureIsReply DEF HandleExpired, ReplyKind
  <2>2. CASE Process
    BY <1>2, <2>2, ProcessedIsReply DEF Process
  <2>. QED
    BY <2>1, <2>2
<1>4. PICK r \in Reply : reply' = [reply EXCEPT ![InHand] = r]
  BY <1>3
<1>5. r # Empty
  BY EmptyIsNoReply
<1>6. UNCHANGED <<interactive, batch, interactive_since_batch_waited, expired,
                  scheduler, taken, Waiters>>
  BY <1>1 DEF queue, Waiters, Values
<1>7. QueueOK'
  BY <1>6 DEF BrokerInv, QueueOK
<1>8. Types'
  BY <1>1, <1>4, <1>6 DEF BrokerInv, Types, SchedulerStep
<1>9. Account'
  <2>1. ASSUME NEW d \in Conns
        PROVE  /\ ~InWork(d)' /\ (InWork(d) <=> d = InHand)
               /\ Pending(d)' <=> Pending(d) /\ d # InHand
    BY <1>1, <1>4, <1>5 DEF InWork, InHand, Pending, BrokerInv, Types
  <2>2. ASSUME NEW d \in Conns
        PROVE  /\ Pending(d)' <=> d \in Waiters' \/ InWork(d)'
               /\ ~(d \in Waiters' /\ InWork(d)')
    BY <1>6, <2>1 DEF BrokerInv, Account
  <2>3. conn[InHand] = "waiting"
    BY <1>2, <2>1 DEF BrokerInv, Account, Pending
  <2>4. ASSUME NEW d \in Conns
        PROVE  /\ conn'[d] \in {"closed", "reading"} => reply'[d] = Empty
               /\ conn'[d] = "waiting" => line'[d] \in Lines
    BY <1>1, <1>4, <2>3 DEF BrokerInv, Types, Account
  <2>5. ArmedExactlyWhileBusy'
    BY <1>1 DEF BrokerInv, Account, ArmedExactlyWhileBusy
  <2>. QED
    BY <1>2, <1>6, <2>2, <2>4, <2>5 DEF BrokerInv, Account
<1>. QED
  BY <1>7, <1>8, <1>9 DEF BrokerInv

(* ... and tells the watchdog when it begins and ends. *)
LEMMA ArmingKeepsInv ==
  ASSUME BrokerInv,
         Arm \/ Disarm \/ BecomeOverdue \/ Abort \/ Crash \/ UNCHANGED vars
  PROVE  BrokerInv'
<1>1. UNCHANGED <<queue, conn, line, reply>>
  BY DEF Arm, Disarm, BecomeOverdue, Abort, Crash, vars
<1>2. UNCHANGED <<interactive, batch, interactive_since_batch_waited, expired,
                  scheduler, taken, Waiters>>
  BY <1>1 DEF queue, Waiters, Values
<1>3. /\ step \in {"handle", "process"} <=> step' \in {"handle", "process"}
      /\ step' # "dequeue" => step # "dequeue"
      /\ step' \in SchedulerStep /\ active_since' \in Age
      /\ alive' \in BOOLEAN
      /\ ArmedExactlyWhileBusy'
  BY DEF Arm, Disarm, BecomeOverdue, Abort, Crash, vars, BrokerInv, Types, Account,
         ArmedExactlyWhileBusy, SchedulerStep, Age
<1>4. QueueOK'
  BY <1>2 DEF BrokerInv, QueueOK
<1>5. Types'
  BY <1>1, <1>2, <1>3 DEF BrokerInv, Types
<1>6. ASSUME NEW d \in Conns
      PROVE  (Pending(d) <=> Pending(d)') /\ (InWork(d) <=> InWork(d)')
  BY <1>1, <1>2, <1>3 DEF Pending, InWork
<1>7. Account'
  BY <1>1, <1>2, <1>3, <1>6 DEF BrokerInv, Account
<1>. QED
  BY <1>4, <1>5, <1>7 DEF BrokerInv

(* A deadline passes or the scheduler wakes for nothing. *)
LEMMA TimeKeepsInv ==
  ASSUME BrokerInv, SpuriousWakeup \/ \E c \in Conns : Expire(c)
  PROVE  BrokerInv'
<1>1. UNCHANGED <<alive, conn, line, reply, step, active_since, interactive,
                  batch, interactive_since_batch_waited, taken>>
  BY DEF SpuriousWakeup, Expire, Q!SpuriousWakeup, Q!Expire, Q!state
<1>2. /\ expired' \subseteq Conns
      /\ scheduler' \in {scheduler, "woken"} /\ (scheduler = "out" => scheduler' = "out")
  BY DEF SpuriousWakeup, Expire, Q!SpuriousWakeup, Q!Expire, BrokerInv, Types
<1>3. Waiters' = Waiters
  BY <1>1 DEF Waiters, Values
<1>4. QueueOK' /\ Types'
  BY <1>1, <1>2 DEF BrokerInv, QueueOK, Types
<1>5. ASSUME NEW d \in Conns
      PROVE  (Pending(d) <=> Pending(d)') /\ (InWork(d) <=> InWork(d)')
  BY <1>1 DEF Pending, InWork
<1>6. Account'
  BY <1>1, <1>2, <1>3, <1>5 DEF BrokerInv, Account, ArmedExactlyWhileBusy
<1>. QED
  BY <1>4, <1>6 DEF BrokerInv

(* Every behaviour of the broker keeps the invariant. *)
THEOREM BrokerInvariant == Spec => []BrokerInv
<1>1. Init => BrokerInv
  <2> SUFFICES ASSUME Init PROVE BrokerInv
    OBVIOUS
  <2> USE DEF Init, Q!Init
  <2>1. Values(interactive) = {} /\ Values(batch) = {}
    BY DEF Values
  <2>2. QueueOK
    BY <2>1 DEF QueueOK, Distinct
  <2>3. Types
    BY BrokerAssumption DEF Types, ConnState, SchedulerStep, Age
  <2>4. Account
    BY <2>1 DEF Account, Pending, InWork, Waiters, ArmedExactlyWhileBusy
  <2>. QED
    BY <2>2, <2>3, <2>4 DEF BrokerInv
<1>2. BrokerInv /\ [Next]_vars => BrokerInv'
  BY ThreadKeepsInv, RefusalKeepsInv, EnqueueKeepsInv, DequeueKeepsInv,
     AnswerKeepsInv, ArmingKeepsInv, TimeKeepsInv
     DEF Next
<1>. QED
  BY <1>1, <1>2, PTL DEF Spec

(* No thread blocks in recv for a request that nobody will answer          *)
(* (mod.rs:144-158).                                                       *)
THEOREM RequestsAreNotLost == Spec => []PendingInOnePlace
<1>1. BrokerInv => PendingInOnePlace
  BY QueuedAreWaiters DEF BrokerInv, Account, PendingInOnePlace, Pending, InWork,
                          InHand
<1>. QED
  BY <1>1, BrokerInvariant, PTL

(* Nobody waits on a sleeping scheduler (queue.rs:69, 83; mod.rs:149-158). *)
THEOREM SleeperLeavesNobodyWaiting == Spec => []SleepsOnlyWhenAllAnswered
<1>1. BrokerInv => SleepsOnlyWhenAllAnswered
  BY DEF BrokerInv, Account, SleepsOnlyWhenAllAnswered, Pending, InWork
<1>. QED
  BY <1>1, BrokerInvariant, PTL

(* The watchdog is armed exactly while a request runs (mod.rs:90-93). *)
THEOREM WatchdogFollowsRequests == Spec => []ArmedExactlyWhileBusy
<1>1. BrokerInv => ArmedExactlyWhileBusy
  BY DEF BrokerInv, Account
<1>. QED
  BY <1>1, BrokerInvariant, PTL

(* The state of a serving broker has its type. *)
THEOREM BrokerTypeCorrect == Spec => []TypeOK
<1>1. BrokerInv => TypeOK
  BY DEF BrokerInv, QueueOK, Types, TypeOK, Q!TypeOK, Q!SchedulerState, Q!Dequeued
<1>. QED
  BY <1>1, BrokerInvariant, PTL

-----------------------------------------------------------------------------
(* The safety part of the request service. *)
ServiceSafety == Service!Init /\ [][Service!Next]_(Service!vars)

(* What the service sees of a connection's request. *)
Asked == [c \in Conns |-> IF Pending(c) THEN line[c] ELSE NoLine]

(* A step changes no connection but c. *)
OthersLeftAlone(c) ==
  \A d \in Conns \ {c} :
    conn'[d] = conn[d] /\ line'[d] = line[d] /\ reply'[d] = reply[d]

LEMMA NoLineIsNoLine == NoLine \notin Lines
BY BrokerAssumption DEF NoLine, Line

(* A step that the service does not see. *)
LEMMA UnseenSteps ==
  ASSUME UNCHANGED <<alive, Asked, reply>>
  PROVE  UNCHANGED Service!vars
BY DEF Asked, Pending, Service!vars

(* A step of one connection changes what is asked of that connection only. *)
LEMMA AskedOfOne ==
  ASSUME BrokerInv, NEW c \in Conns,
         OthersLeftAlone(c)
  PROVE  Asked' = [Asked EXCEPT ![c] = IF Pending(c)' THEN line'[c] ELSE NoLine]
BY DEF Asked, Pending, OthersLeftAlone

(* What process_line returns settles its line. *)
LEMMA ProcessedFits ==
  ASSUME NEW l, NEW o \in ProcessLine(l)
  PROVE  Settles(l, o)
<1>1. CASE o = [kind |-> "answer", id |-> ExtractRequestId(l),
                stop |-> l.method = "shutdown"] /\ l.method # "blank"
  <2>1. o.kind = "answer" /\ o.id = ExtractRequestId(l)
    BY <1>1
  <2>2. o.stop = (l.method = "shutdown")
    BY <1>1, Zenon
  <2>. QED
    BY <1>1, <2>1, <2>2, Zenon DEF Settles
<1>2. CASE o = [kind |-> "broken", id |-> "", stop |-> FALSE]
  BY <1>2 DEF Settles
<1>3. CASE /\ o = [kind |-> "silence", id |-> "", stop |-> FALSE]
           /\ l.method = "blank"
  BY <1>3 DEF Settles
<1>. QED
  BY <1>1, <1>2, <1>3 DEF ProcessLine

(* Every step of the broker is a step of the service, or unseen by it. *)
LEMMA StepsAreService ==
  ASSUME BrokerInv, BrokerInv', [Next]_vars
  PROVE  [Service!Next]_(Service!vars)
<1>0. /\ conn \in [Conns -> ConnState]
      /\ line \in [Conns -> Lines \cup {NoLine}]
      /\ reply \in [Conns -> Reply \cup {Empty}]
      /\ \A c \in Conns : conn[c] \in {"closed", "reading"} => reply[c] = Empty
      /\ \A c \in Conns : conn[c] = "waiting" => line[c] \in Lines
  BY DEF BrokerInv, Types, Account
<1>1. ASSUME NEW c \in Conns, Accept(c) \/ Eof(c)
      PROVE  UNCHANGED Service!vars
  <2>1. UNCHANGED <<alive, line, reply>> /\ ~Pending(c) /\ ~Pending(c)'
    BY <1>0, <1>1 DEF Accept, Eof, Pending
  <2>2. UNCHANGED Asked
    BY <1>0, <1>1, <2>1 DEF Accept, Eof, Asked, Pending
  <2>. QED
    BY <2>1, <2>2, UnseenSteps
<1>2. ASSUME NEW c \in Conns, NEW l \in Lines, ReadLine(c, l)
      PROVE  Service!Ask(c, l)
  <2>1. /\ alive /\ UNCHANGED <<alive, reply>>
        /\ reply[c] = Empty /\ ~Pending(c) /\ Pending(c)' /\ line'[c] = l
    BY <1>0, <1>2 DEF ReadLine, Pending
  <2>2. Asked' = [Asked EXCEPT ![c] = l] /\ Asked[c] = NoLine
    <3>1. OthersLeftAlone(c)
      BY <1>0, <1>2 DEF ReadLine, OthersLeftAlone
    <3>. QED
      BY <2>1, <3>1, AskedOfOne DEF Asked
  <2>. QED
    BY <2>1, <2>2 DEF Service!Ask, Service!Idle, Asked, Pending
<1>3. ASSUME NEW c \in Conns,
             ReadOversized(c) \/ \E l \in Lines : ReadLineQueueFull(c, l)
      PROVE  Service!Refuse(c)
  <2> DEFINE Refusals == {o \in Reply : /\ o.kind \in {"BrokerQueueFull", "oversized"}
                                        /\ ~o.stop}
  <2>1. \E o \in Refusals : reply' = [reply EXCEPT ![c] = o]
    <3>1. CASE ReadOversized(c)
      BY <3>1 DEF ReadOversized, Reply, ReplyKind
    <3>2. ASSUME NEW l \in Lines, ReadLineQueueFull(c, l)
          PROVE  \E o \in Refusals : reply' = [reply EXCEPT ![c] = o]
      <4>1. /\ FailureReply(l, "BrokerQueueFull") \in Reply
            /\ FailureReply(l, "BrokerQueueFull").kind = "BrokerQueueFull"
            /\ ~FailureReply(l, "BrokerQueueFull").stop
        BY FailureIsReply DEF FailureReply, ReplyKind
      <4>. QED
        BY <3>2, <4>1 DEF ReadLineQueueFull
    <3>. QED
      BY <1>3, <3>1, <3>2
  <2>2. /\ alive /\ UNCHANGED alive
        /\ reply[c] = Empty /\ ~Pending(c) /\ ~Pending(c)'
    BY <1>0, <1>3 DEF ReadOversized, ReadLineQueueFull, Pending
  <2>3. OthersLeftAlone(c)
    BY <1>0, <1>3 DEF ReadOversized, ReadLineQueueFull, OthersLeftAlone
  <2>4. UNCHANGED Asked /\ Asked[c] = NoLine
    BY <2>2, <2>3, AskedOfOne DEF Asked
  <2>. QED
    BY <2>1, <2>2, <2>4 DEF Service!Refuse, Service!Idle, Asked, Pending
<1>4. ASSUME NEW c \in Conns, ReceiveReply(c) \/ WriteReply(c)
      PROVE  Service!Deliver(c) \/ UNCHANGED Service!vars
  <2>1. UNCHANGED alive /\ alive /\ ~Pending(c) /\ ~Pending(c)'
        /\ (reply' = [reply EXCEPT ![c] = Empty] \/ UNCHANGED reply)
    BY <1>0, <1>4 DEF ReceiveReply, WriteReply, Finish, Pending
  <2>2. UNCHANGED Asked
    <3>1. OthersLeftAlone(c)
      BY <1>0, <1>4 DEF ReceiveReply, WriteReply, Finish, OthersLeftAlone
    <3>. QED
      BY <2>1, <3>1, AskedOfOne DEF Asked
  <2>3. CASE reply[c] = Empty \/ UNCHANGED reply
    <3>1. UNCHANGED reply
      BY <1>0, <2>1, <2>3
    <3>. QED
      BY <2>1, <2>2, <3>1, UnseenSteps
  <2>4. CASE reply[c] # Empty /\ reply' = [reply EXCEPT ![c] = Empty]
    BY <2>1, <2>2, <2>4 DEF Service!Deliver, Asked, Pending
  <2>. QED
    BY <2>1, <2>3, <2>4
<1>5. ASSUME HandleExpired \/ Process PROVE \E c \in Conns : Service!Settle(c)
  <2>1. InHand \in Conns /\ Pending(InHand)
    BY <1>5 DEF HandleExpired, Process, BrokerInv, Account, InWork, InHand
  <2>2. PICK c \in Conns : c = InHand
    BY <2>1
  <2>3. Pending(c) /\ line[c] \in Lines
    BY <1>0, <2>1, <2>2 DEF Pending
  <2>4. \E o \in Reply : /\ Settles(line[c], o)
                         /\ reply' = [reply EXCEPT ![c] = o]
    <3>1. CASE HandleExpired
      <4> DEFINE o == FailureReply(line[c], "BrokerRequestExpired")
      <4>1. o \in Reply /\ o.kind = "BrokerRequestExpired" /\ ~o.stop
        BY <2>3, FailureIsReply DEF FailureReply, ReplyKind
      <4>. QED
        BY <2>2, <3>1, <4>1 DEF HandleExpired, Settles
    <3>2. CASE Process
      BY <2>2, <2>3, <3>2, ProcessedIsReply, ProcessedFits DEF Process
    <3>. QED
      BY <1>5, <3>1, <3>2
  <2>5. alive /\ UNCHANGED <<alive, conn, line>>
    BY <1>5 DEF HandleExpired, Process
  <2>6. OthersLeftAlone(c) /\ ~Pending(c)'
    BY <1>0, <2>4, <2>5, EmptyIsNoReply DEF OthersLeftAlone, Pending
  <2>7. /\ Asked' = [Asked EXCEPT ![c] = NoLine]
        /\ Asked[c] = line[c] /\ Asked[c] # NoLine
    BY <2>3, <2>6, AskedOfOne, NoLineIsNoLine DEF Asked
  <2>8. Service!Settle(c)
    BY <2>4, <2>5, <2>7 DEF Service!Settle, Asked, Pending
  <2>. QED
    BY <2>8
<1>6. ASSUME Abort \/ Crash PROVE Service!GoDown
  BY <1>6 DEF Abort, Crash, Service!GoDown
<1>7. ASSUME \/ Dequeue \/ Arm \/ Disarm \/ BecomeOverdue \/ SpuriousWakeup
             \/ UNCHANGED vars \/ \E c \in Conns : Expire(c)
      PROVE  UNCHANGED Service!vars
  <2>1. UNCHANGED <<alive, conn, line, reply>>
    BY <1>7 DEF Dequeue, Arm, Disarm, BecomeOverdue, SpuriousWakeup, Expire, vars
  <2>. QED
    BY <2>1, UnseenSteps DEF Asked, Pending
<1>. QED
  BY <1>1, <1>2, <1>3, <1>4, <1>5, <1>6, <1>7 DEF Next, Service!Next

(* The broker implements the safety part of the request service (mod.rs:   *)
(* 76-93, 128-166): a line is settled at most once and by an outcome fit   *)
(* for it, a refused line is never worked on, and no step answers two      *)
(* connections.                                                            *)
THEOREM BrokerIsRequestService == Spec => ServiceSafety
<1>1. Init => Service!Init
  BY DEF Init, Service!Init
<1>2. BrokerInv /\ BrokerInv' /\ [Next]_vars => [Service!Next]_(Service!vars)
  BY StepsAreService
<1>. QED
  BY <1>1, <1>2, BrokerInvariant, PTL DEF Spec, ServiceSafety
-----------------------------------------------------------------------------
(* The rest of the broker only uses the queue: every step of the broker is *)
(* a step of the queue or one the queue does not see (mod.rs:80, 149), so  *)
(* what is proved of the queue alone is true of it in the broker.          *)
THEOREM BrokerIsQueue == Spec => Q!Spec
<1>1. Init => Q!Init
  BY DEF Init
<1>2. ASSUME [Next]_vars PROVE [Q!Next]_(Q!vars)
  <2>1. ASSUME UNCHANGED queue PROVE UNCHANGED Q!vars
    BY <2>1 DEF queue, Q!vars, Q!state
  <2>2. ASSUME NEW c \in Conns, NEW l \in Lines, ReadLine(c, l) PROVE Q!Next
    <3>1. RequestClass(l) \in Q!RequestClass
      BY DEF RequestClass, Q!RequestClass
    <3>. QED
      BY <2>2, <3>1 DEF ReadLine, Q!Next
  <2>3. ASSUME NEW c \in Conns, NEW l \in Lines, ReadLineQueueFull(c, l) PROVE Q!Next
    BY <2>3 DEF ReadLineQueueFull, Q!Next
  <2>4. ASSUME NEW c \in Conns, Expire(c) PROVE Q!Next
    BY <2>4 DEF Expire, Q!Next
  <2>5. CASE Dequeue \/ SpuriousWakeup
    BY <2>5 DEF Dequeue, SpuriousWakeup, Q!Next
  <2>6. ASSUME NEW c \in Conns,
               \/ Accept(c) \/ Eof(c) \/ ReadOversized(c) \/ ReceiveReply(c)
               \/ WriteReply(c)
        PROVE  UNCHANGED queue
    BY <2>6 DEF Accept, Eof, ReadOversized, ReceiveReply, WriteReply
  <2>7. CASE \/ HandleExpired \/ Arm \/ Process \/ Disarm \/ BecomeOverdue
             \/ Abort \/ Crash \/ UNCHANGED vars
    <3>1. UNCHANGED queue
      BY <2>7 DEF HandleExpired, Arm, Process, Disarm, BecomeOverdue, Abort, Crash,
                  vars
    <3>. QED
      BY <2>1, <3>1
  <2>. QED
    BY <1>2, <2>1, <2>2, <2>3, <2>4, <2>5, <2>6, <2>7 DEF Next
<1>. QED
  BY <1>1, <1>2, PTL DEF Spec, Q!Spec

(* The connections together never have more than QUEUE_CAPACITY requests   *)
(* queued, however their lines are spread over the classes (queue.rs:61).  *)
THEOREM BrokerQueueBounded == Spec => []Q!CapacityRespected
<1>1. Init => Q!CapacityRespected
  BY BrokerAssumption DEF Init, Q!Init, Q!CapacityRespected
<1>2. ASSUME BrokerInv, Q!CapacityRespected, [Q!Next]_(Q!vars)
      PROVE  Q!CapacityRespected'
  <2>1. /\ interactive \in Seq(Conns) /\ batch \in Seq(Conns)
        /\ Len(interactive) \in Nat /\ Len(batch) \in Nat
        /\ QUEUE_CAPACITY \in Nat
        /\ Len(interactive) + Len(batch) <= QUEUE_CAPACITY
    BY <1>2, BrokerAssumption DEF BrokerInv, QueueOK, Q!CapacityRespected
  <2>2. ASSUME NEW c \in Conns, NEW class \in Q!RequestClass, Q!TryEnqueue(class, c)
        PROVE  Len(interactive') + Len(batch') <= QUEUE_CAPACITY
    <3>1. ~(Len(interactive) + Len(batch) >= QUEUE_CAPACITY)
      BY <2>2 DEF Q!TryEnqueue, Q!Full
    <3>2. Len(interactive') + Len(batch') = Len(interactive) + Len(batch) + 1
      <4>1. \/ interactive' = Append(interactive, c) /\ batch' = batch
            \/ batch' = Append(batch, c) /\ interactive' = interactive
        BY <2>2 DEF Q!TryEnqueue, Q!PushBack
      <4>2. /\ Len(Append(interactive, c)) = Len(interactive) + 1
            /\ Len(Append(batch, c)) = Len(batch) + 1
        BY <2>1
      <4>3. \/ /\ Len(interactive') = Len(interactive) + 1
               /\ Len(batch') = Len(batch)
            \/ /\ Len(interactive') = Len(interactive)
               /\ Len(batch') = Len(batch) + 1
        BY <4>1, <4>2, Zenon
      <4>4. Len(interactive) \in Nat /\ Len(batch) \in Nat
        BY <2>1
      <4>. QED
        BY <4>3, <4>4
    <3>. QED
      BY <2>1, <3>1, <3>2
  <2>3. CASE Q!Dequeue
    <3>1. \/ interactive # <<>> /\ interactive' = Tail(interactive) /\ batch' = batch
          \/ batch # <<>> /\ batch' = Tail(batch) /\ interactive' = interactive
          \/ UNCHANGED <<interactive, batch>>
      BY <2>3 DEF Q!Dequeue, Q!PopInteractive, Q!PopBatch, Q!WaitReady
    <3>2. /\ interactive # <<>> => Len(Tail(interactive)) = Len(interactive) - 1
          /\ batch # <<>> => Len(Tail(batch)) = Len(batch) - 1
      BY <2>1
    <3>3. Len(interactive') + Len(batch') <= Len(interactive) + Len(batch)
          /\ Len(interactive') \in Int /\ Len(batch') \in Int
      BY <2>1, <3>1, <3>2
    <3>. QED
      BY <2>1, <3>3 DEF Q!CapacityRespected
  <2>4. CASE \/ Q!TryEnqueueFull \/ Q!SpuriousWakeup \/ UNCHANGED Q!vars
             \/ \E c \in Conns : Q!Expire(c)
    <3>1. UNCHANGED <<interactive, batch>>
      BY <2>4 DEF Q!TryEnqueueFull, Q!SpuriousWakeup, Q!Expire, Q!vars, Q!state
    <3>. QED
      BY <2>1, <3>1 DEF Q!CapacityRespected
  <2>. QED
    BY <1>2, <2>2, <2>3, <2>4 DEF Q!Next, Q!CapacityRespected
<1>. QED
  BY <1>1, <1>2, BrokerInvariant, BrokerIsQueue, PTL DEF Spec, Q!Spec

=============================================================================
