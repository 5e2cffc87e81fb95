-------------------------- MODULE BrokerLifecycle --------------------------
(***************************************************************************)
(* Broker processes of one model that compete for the service lock and the *)
(* Unix socket: serve_with_loader (src/broker/mod.rs), ServiceLease        *)
(* (src/broker/lease.rs), the owner watchdog (src/broker/watchdog.rs) and  *)
(* bind (src/broker/transport/unix.rs).                                    *)
(*                                                                         *)
(* A process runs two threads here, the main thread and the detached owner *)
(* watchdog, which share endpoint_bound.  Each file-system call is a step. *)
(* A process lives once; the number of processes bounds the launches.      *)
(***************************************************************************)
EXTENDS Naturals

CONSTANTS
  Procs,   (* the broker processes that are ever launched                  *)
  Nobody   (* no holder, no socket file                                    *)

ASSUME LifecycleAssumption == Nobody \notin Procs

VARIABLES
  pc,              (* the main thread: the step it takes next              *)
  wd,              (* the owner watchdog thread                            *)
  owner,           (* TRUE while the owner keeps stdin open                *)
  endpoint_bound,  (* the flag the two threads share                       *)
  service_lease,   (* the process that holds the service lock, or Nobody   *)
  socket,          (* whose listener the socket file at the path is        *)
  failed_late,     (* history: the processes in which a call after         *)
                   (* UnixListener::bind failed before their end was near  *)
  unremoved        (* history: the processes whose watchdog failed to      *)
                   (* remove the socket file                               *)

history == <<failed_late, unremoved>>

vars == <<pc, wd, owner, endpoint_bound, service_lease, socket, history>>

MainStep == {"new", "lease", "watch", "load", "clear", "listen", "mark",
             "chmod", "unmark", "unlink", "spawn", "serving", "failing",
             "leaving", "exited", "killed"}
WatchdogStep == {"off", "reading", "eof", "unlink", "exit"}

Running(p) == pc[p] \notin {"new", "exited", "killed"}

-----------------------------------------------------------------------------
Init ==
  /\ pc = [p \in Procs |-> "new"]
  /\ wd = [p \in Procs |-> "off"]
  /\ owner = [p \in Procs |-> TRUE]
  /\ endpoint_bound = [p \in Procs |-> FALSE]
  /\ service_lease = Nobody
  /\ socket = Nobody
  /\ failed_late = {}
  /\ unremoved = {}

(* The process ends: its threads stop, its stdin is closed, its lock is    *)
(* freed by the system, a socket file it bound stays behind.               *)
End(p, how) ==
  /\ pc' = [pc EXCEPT ![p] = how]
  /\ wd' = [wd EXCEPT ![p] = "off"]
  /\ owner' = [owner EXCEPT ![p] = FALSE]
  /\ service_lease' = IF service_lease = p THEN Nobody ELSE service_lease
  /\ endpoint_bound' = [endpoint_bound EXCEPT ![p] = FALSE]
  /\ UNCHANGED <<socket, history>>

Goto(p, step) == pc' = [pc EXCEPT ![p] = step]

Launch(p) ==
  /\ pc[p] = "new"
  /\ Goto(p, "lease")
  /\ UNCHANGED <<wd, owner, endpoint_bound, service_lease, socket, history>>

(***************************************************************************)
(* The main thread: serve_with_loader                                      *)
(***************************************************************************)
(* Mutant: a held lock treated as acquired. *)
AcquireAnyway(p) ==
  /\ pc[p] = "lease"
  /\ service_lease' = p
  /\ Goto(p, "watch")
  /\ UNCHANGED <<wd, owner, endpoint_bound, socket, history>>

(* A held lock, or an error on the lock file, ends the process at once. *)
AcquireService(p) ==
  /\ pc[p] = "lease"
  /\ \/ /\ service_lease = Nobody
        /\ service_lease' = p
        /\ Goto(p, "watch")
        /\ UNCHANGED <<wd, owner, endpoint_bound, socket, history>>
     \/ End(p, "exited")

StartOwnerWatchdog(p) ==
  /\ pc[p] = "watch"
  /\ \/ wd' = [wd EXCEPT ![p] = "reading"] /\ Goto(p, "load")
     \/ Goto(p, "failing") /\ UNCHANGED wd
  /\ UNCHANGED <<owner, endpoint_bound, service_lease, socket, history>>

(* The accelerator lease and the engine; nothing of them outlives p. *)
LoadEngine(p) ==
  /\ pc[p] = "load"
  /\ Goto(p, "clear") \/ Goto(p, "failing")
  /\ UNCHANGED <<wd, owner, endpoint_bound, service_lease, socket, history>>

(* bind: the directory is secured and a stale socket file is removed. *)
ClearStaleSocket(p) ==
  /\ pc[p] = "clear"
  /\ \/ socket' = Nobody /\ Goto(p, "listen")
     \/ Goto(p, "failing") /\ UNCHANGED socket
  /\ UNCHANGED <<wd, owner, endpoint_bound, service_lease, history>>

(* UnixListener::bind refuses a path that exists. *)
Listen(p) ==
  /\ pc[p] = "listen"
  /\ \/ socket = Nobody /\ socket' = p /\ Goto(p, "mark")
     \/ Goto(p, "failing") /\ UNCHANGED socket
  /\ UNCHANGED <<wd, owner, endpoint_bound, service_lease, history>>

(* Mutant: the flag is never set. *)
MarkForgotten(p) ==
  /\ pc[p] = "mark"
  /\ Goto(p, "chmod")
  /\ UNCHANGED <<wd, owner, endpoint_bound, service_lease, socket, history>>

MarkBound(p) ==
  /\ pc[p] = "mark"
  /\ endpoint_bound' = [endpoint_bound EXCEPT ![p] = TRUE]
  /\ Goto(p, "chmod")
  /\ UNCHANGED <<wd, owner, service_lease, socket, history>>

(* set_permissions fails if the file is gone, too. *)
RestrictSocket(p) ==
  /\ pc[p] = "chmod"
  /\ \/ socket # Nobody /\ Goto(p, "spawn") /\ UNCHANGED failed_late
     \/ /\ Goto(p, "unmark")
        /\ failed_late' = IF wd[p] = "exit" THEN failed_late
                          ELSE failed_late \cup {p}
  /\ UNCHANGED <<wd, owner, endpoint_bound, service_lease, socket, unremoved>>

UnmarkBound(p) ==
  /\ pc[p] = "unmark"
  /\ endpoint_bound' = [endpoint_bound EXCEPT ![p] = FALSE]
  /\ Goto(p, "unlink")
  /\ UNCHANGED <<wd, owner, service_lease, socket, history>>

(* remove_file may fail, here and in the watchdog: the error is ignored. *)
UnlinkFailed(p) ==
  /\ pc[p] = "unlink"
  /\ socket' \in {Nobody, socket}
  /\ Goto(p, "failing")
  /\ UNCHANGED <<wd, owner, endpoint_bound, service_lease, history>>

(* The accept thread and the request watchdog; then the scheduler loop. *)
SpawnThreads(p) ==
  /\ pc[p] = "spawn"
  /\ \/ Goto(p, "serving") /\ UNCHANGED failed_late
     \/ Goto(p, "failing") /\ failed_late' = failed_late \cup {p}
  /\ UNCHANGED <<wd, owner, endpoint_bound, service_lease, socket, unremoved>>

(* serve_with_loader returns an error: the locals are dropped, the service *)
(* lease last, before main returns and ends the process.                   *)
DropServiceLease(p) ==
  /\ pc[p] = "failing"
  /\ service_lease' = IF service_lease = p THEN Nobody ELSE service_lease
  /\ Goto(p, "leaving")
  /\ UNCHANGED <<wd, owner, endpoint_bound, socket, history>>

LeaveMain(p) == pc[p] = "leaving" /\ End(p, "exited")

Main(p) ==
  \/ AcquireService(p)
  \/ StartOwnerWatchdog(p)
  \/ LoadEngine(p)
  \/ ClearStaleSocket(p)
  \/ Listen(p)
  \/ MarkBound(p)
  \/ RestrictSocket(p)
  \/ UnmarkBound(p)
  \/ UnlinkFailed(p)
  \/ SpawnThreads(p)
  \/ DropServiceLease(p)
  \/ LeaveMain(p)

(***************************************************************************)
(* The owner watchdog thread                                               *)
(***************************************************************************)
SeeOwnerEof(p) ==
  /\ wd[p] = "reading"
  /\ ~owner[p]
  /\ wd' = [wd EXCEPT ![p] = "eof"]
  /\ UNCHANGED <<pc, owner, endpoint_bound, service_lease, socket, history>>

(* Mutants: the flag ignored; EOF ignored until the endpoint is bound. *)
UnlinkUnasked(p) ==
  /\ wd[p] = "eof"
  /\ wd' = [wd EXCEPT ![p] = "unlink"]
  /\ UNCHANGED <<pc, owner, endpoint_bound, service_lease, socket, history>>
ExitOnlyIfBound(p) ==
  /\ wd[p] = "eof"
  /\ wd' = [wd EXCEPT ![p] = IF endpoint_bound[p] THEN "unlink" ELSE "reading"]
  /\ UNCHANGED <<pc, owner, endpoint_bound, service_lease, socket, history>>

CheckBound(p) ==
  /\ wd[p] = "eof"
  /\ wd' = [wd EXCEPT ![p] = IF endpoint_bound[p] THEN "unlink" ELSE "exit"]
  /\ UNCHANGED <<pc, owner, endpoint_bound, service_lease, socket, history>>

UnlinkEndpoint(p) ==
  /\ wd[p] = "unlink"
  /\ \/ socket' = Nobody /\ UNCHANGED unremoved
     \/ unremoved' = unremoved \cup {p} /\ UNCHANGED socket
  /\ wd' = [wd EXCEPT ![p] = "exit"]
  /\ UNCHANGED <<pc, owner, endpoint_bound, service_lease, failed_late>>

ExitProcess(p) == wd[p] = "exit" /\ End(p, "exited")

OwnerWatchdog(p) ==
  SeeOwnerEof(p) \/ CheckBound(p) \/ UnlinkEndpoint(p) \/ ExitProcess(p)

(***************************************************************************)
(* The environment: the owner goes away; a process is killed or aborts.    *)
(***************************************************************************)
OwnerCloses(p) ==
  /\ Running(p)
  /\ owner[p]
  /\ owner' = [owner EXCEPT ![p] = FALSE]
  /\ UNCHANGED <<pc, wd, endpoint_bound, service_lease, socket, history>>

Crash(p) == Running(p) /\ End(p, "killed")

-----------------------------------------------------------------------------
Next ==
  \E p \in Procs :
    Launch(p) \/ Main(p) \/ OwnerWatchdog(p) \/ OwnerCloses(p) \/ Crash(p)

Spec == Init /\ [][Next]_vars

(* Both threads are scheduled; loading the model may take for ever. *)
FairSpec ==
  /\ Spec
  /\ \A p \in Procs : /\ WF_vars(pc[p] # "load" /\ Main(p))
                      /\ WF_vars(OwnerWatchdog(p))

-----------------------------------------------------------------------------
(* The state has its type. *)
TypeOK ==
  /\ pc \in [Procs -> MainStep]
  /\ wd \in [Procs -> WatchdogStep]
  /\ owner \in [Procs -> BOOLEAN]
  /\ endpoint_bound \in [Procs -> BOOLEAN]
  /\ service_lease \in Procs \cup {Nobody}
  /\ socket \in Procs \cup {Nobody}
  /\ failed_late \subseteq Procs
  /\ unremoved \subseteq Procs

(* Between the lock and the end of serve_with_loader a process holds the   *)
(* service lock (mod.rs:57-75), so at most one broker of a model loads,    *)
(* binds or serves, also while a failed one is still leaving.              *)
OnlyHolderRuns ==
  \A p \in Procs :
    pc[p] \notin {"new", "lease", "leaving", "exited", "killed"}
      => service_lease = p

(* A broker that removed the stale socket never finds the address in use   *)
(* (unix.rs:45-50): nobody else binds in between.                          *)
NoAddressInUse == \A p \in Procs : pc[p] = "listen" => socket = Nobody

(* A broker that serves and is not yet shutting down is reachable: the     *)
(* socket file is its own, whatever other brokers start, fail, lose their  *)
(* owner or die (mod.rs:57-75, unix.rs:45-51), as long as no broker failed *)
(* after its bind.                                                         *)
EndpointBelongsToServer ==
  failed_late = {} =>
    \A p \in Procs :
      pc[p] = "serving" /\ wd[p] \in {"reading", "eof"} => socket = p

ChangesSocket(p) ==
  /\ \/ ClearStaleSocket(p) \/ Listen(p)
     \/ UnlinkFailed(p) \/ UnlinkEndpoint(p)
  /\ socket' # socket

(* Without the service lock the path is changed by one process only: a     *)
(* broker that failed after its bind and is leaving (mod.rs:69-75,         *)
(* watchdog.rs:29-35).                                                     *)
OthersLeaveSocketAlone ==
  [][\A p \in Procs :
       ChangesSocket(p) => service_lease = p
                             \/ (pc[p] = "leaving" /\ p \in failed_late)]_vars

(* README.md:27: "The lock holder alone removes a stale Unix socket", and  *)
(* creates it: no process without the service lock changes the path.       *)
LockHolderAloneChangesSocket ==
  [][\A p \in Procs : ChangesSocket(p) => service_lease = p]_vars

(* A broker that loses its owner while it serves removes its socket file   *)
(* unless it is killed or the removal itself fails, which the watchdog     *)
(* ignores (watchdog.rs:29-35).  A broker that loses its owner between     *)
(* UnixListener::bind and the store (unix.rs:50-51) leaves the file to the *)
(* next lock holder.                                                       *)
EofWhileServingRemovesSocket ==
  \A p \in Procs :
    pc[p] = "serving" /\ wd[p] = "reading" /\ ~owner[p]
      ~> socket # p \/ pc[p] = "killed" \/ p \in unremoved

(* The broker never outlives its owner, not even while the model is being  *)
(* loaded (watchdog.rs:26-40).                                             *)
OwnerLossEndsBroker ==
  \A p \in Procs : Running(p) /\ ~owner[p] ~> ~Running(p)
=============================================================================
