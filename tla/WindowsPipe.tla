----------------------------- MODULE WindowsPipe ----------------------------
(***************************************************************************)
(* The Windows named-pipe transport, src/broker/transport/windows.rs: an   *)
(* accept thread and one thread for each connection start overlapped       *)
(* operations and wait for them, while other threads cancel them through   *)
(* cancel_pending and cancel_io.                                           *)
(*                                                                         *)
(* The kernel writes to the OVERLAPPED of an operation until the operation *)
(* is over, and gives the number of a closed handle to the next pipe.  A   *)
(* connection is read and written by one thread (broker/mod.rs:128-166)    *)
(* and a listener accepts in one (mod.rs:102-113), so a handle has at most *)
(* one operation; reads and writes take the same steps.                    *)
(***************************************************************************)
CONSTANTS
  Handles,  (* the values a handle may have                                *)
  NoPipe

(* Who cancel_pending is for, among those a cancel may be for. *)
Listener == "listener"

ASSUME PipeAssumption == NoPipe \notin Handles /\ Listener \notin Handles

VARIABLES
  open,             (* handles of open pipes                               *)
  op,               (* the kernel's operation on a handle                  *)
  overlapped,       (* handles whose operation's OVERLAPPED is allocated   *)
  (* Listener *)
  first,            (* the pipe that bind created, until it is taken       *)
  pending,          (* the registered handles                              *)
  cancel_requested, (* the listener, or the handle of a connection         *)
  (* the accept thread *)
  pc,               (* its next step                                       *)
  pipe,             (* the pipe it is accepting on                         *)
  (* the connections *)
  clones,           (* who holds a clone: <<h, "thread">>, <<h, "other">>  *)
  io,               (* the next step of a connection's thread              *)
  (* the cancelling threads *)
  canceller,        (* cancel_pending: idle, lock, cancel                  *)
  handles,          (* those it has yet to cancel, under the lock          *)
  flagged,          (* connections between cancel_io's two steps           *)
  (* history *)
  owed,             (* cancels that have aborted no operation yet          *)
  spent             (* those of them that an operation took which was over *)

kernel == <<open, op, overlapped>>
listener == <<first, pending>>
accepter == <<pc, pipe>>
connections == <<clones, io>>
cancels == <<canceller, handles, flagged>>
history == <<owed, spent>>
vars == <<kernel, listener, cancel_requested, accepter, connections, cancels,
          history>>

-----------------------------------------------------------------------------
(* Listener::bind. *)
Init ==
  /\ first \in Handles
  /\ open = {first}
  /\ op = [h \in Handles |-> "none"]
  /\ overlapped = {}
  /\ pending = {}
  /\ cancel_requested = {}
  /\ pc = "take"
  /\ pipe = NoPipe
  /\ clones = {}
  /\ io = [h \in Handles |-> "none"]
  /\ canceller = "idle"
  /\ handles = {}
  /\ flagged = {}
  /\ owed = {}
  /\ spent = {}

(***************************************************************************)
(* PendingIo                                                               *)
(***************************************************************************)
(* PendingIo::new and the call that starts the operation: it is pending,   *)
(* over at once, or refused.                                               *)
Begin(h) ==
  /\ overlapped' = overlapped \cup {h}
  /\ \E started \in {"pending", "done", "failed"} : op' = [op EXCEPT ![h] = started]

(* CancelIoEx: an operation that is pending ends; otherwise NOT_FOUND. *)
Cancelled(h) == [op EXCEPT ![h] = IF @ = "pending" THEN "aborted" ELSE @]

(* It is made for a cancel of `who`. *)
CancelFor(who, h) ==
  /\ op' = Cancelled(h)
  /\ owed' = IF op[h] = "pending" THEN owed \ {who} ELSE owed

(* cancel_requested.swap(false), and operation.cancel if it was set: an    *)
(* operation that is already over uses the cancel up.                      *)
SwapCancel(who, h) ==
  /\ cancel_requested' = cancel_requested \ {who}
  /\ IF who \in cancel_requested
       THEN /\ CancelFor(who, h)
            /\ spent' = owed' \cap (spent \cup {who})
       ELSE UNCHANGED <<op, history>>

(* Mutant: GetOverlappedResult without waiting. *)
NoWait(h) == TRUE

(* GetOverlappedResult waits until the kernel is done. *)
Completed(h) == op[h] # "pending"

(* The client connects, the data is there, or the peer is gone. *)
KernelFinishes(h) ==
  /\ op[h] = "pending"
  /\ \E end \in {"done", "failed"} : op' = [op EXCEPT ![h] = end]
  /\ UNCHANGED <<open, overlapped, listener, cancel_requested, accepter,
                 connections, cancels, history>>

(***************************************************************************)
(* Listener::accept                                                        *)
(***************************************************************************)
MutexFree == canceller # "cancel"

(* The first pipe, or a new instance; if there is none, accept fails and   *)
(* is called again.                                                        *)
TakePipe ==
  /\ pc = "take"
  /\ IF first # NoPipe
       THEN pipe' = first /\ first' = NoPipe /\ UNCHANGED open
       ELSE \E h \in Handles \ open :
              pipe' = h /\ open' = open \cup {h} /\ UNCHANGED first
  /\ pc' = "register"
  /\ UNCHANGED <<op, overlapped, pending, cancel_requested, connections,
                 cancels, history>>

Register ==
  /\ pc = "register"
  /\ MutexFree
  /\ pending' = pending \cup {pipe}
  /\ pc' = "connect"
  /\ UNCHANGED <<kernel, first, cancel_requested, pipe, connections, cancels,
                 history>>

(* Mutant: the flag is not looked at once the connect has begun. *)
ConnectUnasked ==
  /\ pc = "connect"
  /\ Begin(pipe)
  /\ pc' = "wait"
  /\ UNCHANGED <<open, listener, cancel_requested, pipe, connections, cancels,
                 history>>

(* ConnectNamedPipe, or no event for it. *)
Connect ==
  /\ pc = "connect"
  /\ \/ Begin(pipe) /\ pc' = "swap"
     \/ pc' = "unregister" /\ UNCHANGED <<op, overlapped>>
  /\ UNCHANGED <<open, listener, cancel_requested, pipe, connections, cancels,
                 history>>

AcceptSwap ==
  /\ pc = "swap"
  /\ SwapCancel(Listener, pipe)
  /\ pc' = "wait"
  /\ UNCHANGED <<open, overlapped, listener, pipe, connections, cancels>>

AcceptCompletes ==
  /\ pc = "wait"
  /\ Completed(pipe)
  /\ overlapped' = overlapped \ {pipe}
  /\ pc' = "unregister"
  /\ UNCHANGED <<open, op, listener, cancel_requested, pipe, connections,
                 cancels, history>>

(* Mutant: the pipe is closed while it is still registered. *)
CloseRegistered ==
  /\ pc = "unregister"
  /\ open' = IF op[pipe] = "done" THEN open ELSE open \ {pipe}
  /\ pc' = "return"
  /\ UNCHANGED <<op, overlapped, listener, cancel_requested, pipe, connections,
                 cancels, history>>

(* The registration is dropped ... *)
Unregister ==
  /\ pc = "unregister"
  /\ MutexFree
  /\ pending' = pending \ {pipe}
  /\ pc' = "return"
  /\ UNCHANGED <<kernel, first, cancel_requested, pipe, connections, cancels,
                 history>>

(* ... before the pipe, which becomes a connection or is closed. *)
AcceptReturns ==
  /\ pc = "return"
  /\ pc' = "take"
  /\ pipe' = NoPipe
  /\ op' = [op EXCEPT ![pipe] = "none"]
  /\ IF op[pipe] = "done"
       THEN /\ clones' = clones \cup {<<pipe, "thread">>}
            /\ io' = [io EXCEPT ![pipe] = "idle"]
            /\ UNCHANGED open
       ELSE open' = open \ {pipe} /\ UNCHANGED connections
  /\ UNCHANGED <<overlapped, listener, cancel_requested, cancels, history>>

(***************************************************************************)
(* Connection: read, write                                                 *)
(***************************************************************************)
(* ReadFile or WriteFile, or no event for it. *)
BeginIo(h) ==
  /\ io[h] = "idle"
  /\ \/ Begin(h) /\ io' = [io EXCEPT ![h] = "swap"]
     \/ io' = [io EXCEPT ![h] = "drop"] /\ UNCHANGED <<op, overlapped>>
  /\ UNCHANGED <<open, listener, cancel_requested, accepter, clones, cancels,
                 history>>

IoSwap(h) ==
  /\ io[h] = "swap"
  /\ SwapCancel(h, h)
  /\ io' = [io EXCEPT ![h] = "wait"]
  /\ UNCHANGED <<open, overlapped, listener, accepter, clones, cancels>>

(* finish_io; the caller goes on, or drops the connection. *)
IoReturns(h) ==
  /\ io[h] = "wait"
  /\ Completed(h)
  /\ overlapped' = overlapped \ {h}
  /\ op' = [op EXCEPT ![h] = "none"]
  /\ io' = [io EXCEPT ![h] = IF op[h] = "done" THEN "idle" ELSE "drop"]
  /\ UNCHANGED <<open, listener, cancel_requested, accepter, clones, cancels,
                 history>>

(* The last clone closes the pipe. *)
DropClone(h, who) ==
  /\ clones' = clones \ {<<h, who>>}
  /\ IF \E other \in {"thread", "other"} : <<h, other>> \in clones'
       THEN UNCHANGED <<open, cancel_requested, history>>
       ELSE /\ open' = open \ {h}
            /\ cancel_requested' = cancel_requested \ {h}
            /\ owed' = owed \ {h}
            /\ spent' = spent \ {h}

(* At EOF, after a shutdown or an error. *)
DropConnection(h) ==
  /\ io[h] \in {"idle", "drop"}
  /\ DropClone(h, "thread")
  /\ io' = [io EXCEPT ![h] = "none"]
  /\ UNCHANGED <<op, overlapped, listener, accepter, cancels>>

(***************************************************************************)
(* cancel_pending, cancel_io                                               *)
(***************************************************************************)
RequestCancel ==
  /\ canceller = "idle"
  /\ cancel_requested' = cancel_requested \cup {Listener}
  /\ owed' = owed \cup {Listener}
  /\ spent' = spent \ {Listener}
  /\ canceller' = "lock"
  /\ UNCHANGED <<kernel, listener, accepter, connections, handles, flagged>>

LockPending ==
  /\ canceller = "lock"
  /\ canceller' = "cancel"
  /\ handles' = pending
  /\ UNCHANGED <<kernel, listener, cancel_requested, accepter, connections,
                 flagged, history>>

(* cancel_handle for each registered handle. *)
CancelHandle(h) ==
  /\ canceller = "cancel"
  /\ h \in handles
  /\ handles' = handles \ {h}
  /\ CancelFor(Listener, h)
  /\ spent' = spent \cap owed'
  /\ UNCHANGED <<open, overlapped, listener, cancel_requested, accepter,
                 connections, canceller, flagged>>

CancelReturns ==
  /\ canceller = "cancel"
  /\ handles = {}
  /\ canceller' = "idle"
  /\ UNCHANGED <<kernel, listener, cancel_requested, accepter, connections,
                 handles, flagged, history>>

(* Another thread clones the connection. *)
Clone(h) ==
  /\ <<h, "thread">> \in clones
  /\ clones' = clones \cup {<<h, "other">>}
  /\ UNCHANGED <<kernel, listener, cancel_requested, accepter, io, cancels, history>>

RequestCancelIo(h) ==
  /\ <<h, "other">> \in clones
  /\ h \notin flagged
  /\ cancel_requested' = cancel_requested \cup {h}
  /\ owed' = owed \cup {h}
  /\ spent' = spent \ {h}
  /\ flagged' = flagged \cup {h}
  /\ UNCHANGED <<kernel, listener, accepter, connections, canceller, handles>>

CancelIo(h) ==
  /\ h \in flagged
  /\ CancelFor(h, h)
  /\ spent' = spent \cap owed'
  /\ flagged' = flagged \ {h}
  /\ UNCHANGED <<open, overlapped, listener, cancel_requested, accepter,
                 connections, canceller, handles>>

DropOther(h) ==
  /\ <<h, "other">> \in clones
  /\ h \notin flagged
  /\ DropClone(h, "other")
  /\ UNCHANGED <<op, overlapped, listener, accepter, io, cancels>>

-----------------------------------------------------------------------------
Accept ==
  \/ TakePipe \/ Register \/ Connect \/ AcceptSwap \/ AcceptCompletes
  \/ Unregister \/ AcceptReturns

CancelPending ==
  \/ RequestCancel \/ LockPending \/ CancelReturns
  \/ \E h \in Handles : CancelHandle(h)

Use(h) ==
  \/ KernelFinishes(h)
  \/ BeginIo(h) \/ IoSwap(h) \/ IoReturns(h) \/ DropConnection(h)
  \/ Clone(h) \/ RequestCancelIo(h) \/ CancelIo(h) \/ DropOther(h)

Next == Accept \/ CancelPending \/ \E h \in Handles : Use(h)

Spec == Init /\ [][Next]_vars

-----------------------------------------------------------------------------
(* The state has its type. *)
TypeOK ==
  /\ open \subseteq Handles
  /\ op \in [Handles -> {"none", "pending", "done", "failed", "aborted"}]
  /\ overlapped \subseteq Handles
  /\ first \in Handles \cup {NoPipe}
  /\ pending \subseteq Handles
  /\ cancel_requested \subseteq Handles \cup {Listener}
  /\ pc \in {"take", "register", "connect", "swap", "wait", "unregister", "return"}
  /\ pipe \in Handles \cup {NoPipe}
  /\ clones \subseteq Handles \X {"thread", "other"}
  /\ io \in [Handles -> {"none", "idle", "swap", "wait", "drop"}]
  /\ canceller \in {"idle", "lock", "cancel"}
  /\ handles \subseteq Handles
  /\ flagged \subseteq Handles
  /\ owed \subseteq Handles \cup {Listener}
  /\ spent \subseteq owed

(* The kernel never writes to memory that was freed or to a pipe that was  *)
(* closed: while an operation is pending its OVERLAPPED is allocated and   *)
(* its handle open, whoever cancels and however the operation ends         *)
(* (windows.rs:406-467).                                                   *)
KernelMemoryLive ==
  \A h \in Handles : op[h] = "pending" => h \in overlapped /\ h \in open

(* cancel_pending cancels accepts and nothing else: the handles it goes    *)
(* through are open and belong to the accept in progress, although a       *)
(* closed handle's value is soon a connection's (windows.rs:98-104,        *)
(* 381-404).                                                               *)
OnlyAcceptsCancelled ==
  \A h \in handles : h \in open /\ h = pipe /\ io[h] = "none"

(* A cancel is one-shot and not lost between the flag and the kernel: once *)
(* it has returned, no accept, read or write goes on waiting until the     *)
(* cancel has aborted an operation, or was used up by one that had come to *)
(* its end before it looked at the flag (windows.rs:72, 99-102, 115-116,   *)
(* 138, 163).  After that, the next operation waits as if nobody had       *)
(* cancelled.                                                              *)
CancelNotLost ==
  /\ pc = "wait" /\ op[pipe] = "pending" /\ canceller = "idle"
       => Listener \notin owed \ spent
  /\ \A h \in Handles :
       io[h] = "wait" /\ op[h] = "pending" /\ h \notin flagged
         => h \notin owed \ spent

(* A pipe has one owner, the listener, the accept in progress or a         *)
(* connection, and is closed by it: none leaks and none is closed under    *)
(* another thread.                                                         *)
OneOwner ==
  \A h \in Handles :
    /\ h \in open <=> \/ h \in {first, pipe}
                     \/ \E who \in {"thread", "other"} : <<h, who>> \in clones
    /\ ~ (h = first /\ h = pipe)
    /\ <<h, "thread">> \in clones <=> io[h] # "none"
    /\ h \in {first, pipe} => io[h] = "none" /\ <<h, "other">> \notin clones
=============================================================================
