---------------------------- MODULE BrokerEngine ----------------------------
(***************************************************************************)
(* The engine each broker process owns, src/broker/engine.rs, and the      *)
(* user-global accelerator lock (src/broker/lease.rs) the brokers of       *)
(* different models compete for.  A broker without the lock loads on the   *)
(* CPU; one that exhausts the accelerator gives its engine and its lock    *)
(* back, reloads on the CPU and retries the request once.                  *)
(*                                                                         *)
(* The recovery inside embed is split where other processes can act: after *)
(* the engine is dropped, after the lock is dropped, and while the loader  *)
(* and the retry run.  A broker may die at every step; the operating       *)
(* system then frees its accelerator memory and its lock.                  *)
(***************************************************************************)
EXTENDS Naturals

CONSTANTS
  Brokers,  (* broker processes, one per model identity                    *)
  NoBroker  (* the accelerator lock is free                                *)

ASSUME BrokersAssumption == NoBroker \notin Brokers

VARIABLES
  phase,              (* where each process is                             *)
  inner,              (* BrokerEngineState::inner                          *)
  accelerator_lease,  (* the process whose file lock is held, or NoBroker  *)
  degraded_reason,    (* TRUE: accelerator_resource_exhausted is recorded  *)
  terminal_failure,   (* TRUE: the CPU reload failed                       *)
  answer              (* what the last embed returned                      *)

engine_vars == <<phase, inner, accelerator_lease, degraded_reason,
                 terminal_failure, answer>>

Phase == {"down",       (* not running                                     *)
          "loading",    (* in load_with: the loader runs                   *)
          "serving",    (* between requests                                *)
          "exhausted",  (* embed: resource exhaustion seen, recovery due   *)
          "dropped",    (* embed: the accelerated engine is gone           *)
          "reloading",  (* embed: the lock is gone, the CPU loader runs    *)
          "retrying"}   (* embed: the CPU engine embeds the request again  *)
Inner == {"none", "accelerated", "cpu", "unready"}
Answer == {"none", "ok", "application", "resource_exhausted"}

(* What a loader can come back with; unready: the model is not prepared. *)
Loaded == {"accelerated", "cpu", "unready", "error"}

Holds(b) == accelerator_lease = b

(* The backend policy load_with derives from the lease. *)
Policy(b) == IF Holds(b) THEN "Auto" ELSE "CpuOnly"

-----------------------------------------------------------------------------
EngineInit ==
  /\ phase = [b \in Brokers |-> "down"]
  /\ inner = [b \in Brokers |-> "none"]
  /\ accelerator_lease = NoBroker
  /\ degraded_reason = [b \in Brokers |-> FALSE]
  /\ terminal_failure = [b \in Brokers |-> FALSE]
  /\ answer = [b \in Brokers |-> "none"]

(* The end of a process, by exit, abort or kill: everything it held is     *)
(* freed, nothing of its state survives.                                   *)
Die(b) ==
  /\ phase' = [phase EXCEPT ![b] = "down"]
  /\ inner' = [inner EXCEPT ![b] = "none"]
  /\ accelerator_lease' = IF Holds(b) THEN NoBroker ELSE accelerator_lease
  /\ degraded_reason' = [degraded_reason EXCEPT ![b] = FALSE]
  /\ terminal_failure' = [terminal_failure EXCEPT ![b] = FALSE]
  /\ answer' = [answer EXCEPT ![b] = "none"]

(* AcceleratorLease::try_acquire; a held lock is no error. *)
TryAcquire(b) ==
  /\ phase[b] = "down"
  /\ phase' = [phase EXCEPT ![b] = "loading"]
  /\ accelerator_lease' =
       IF accelerator_lease = NoBroker THEN b ELSE accelerator_lease
  /\ UNCHANGED <<inner, degraded_reason, terminal_failure, answer>>

(***************************************************************************)
(* BrokerEngine::load_with                                                 *)
(***************************************************************************)
(* An engine the policy allows. *)
Allowed(policy, loaded) == policy = "Auto" \/ loaded # "accelerated"

(* Mutant: the lease outlives the decision for the CPU. *)
LeaseKept(b, loaded) == accelerator_lease

LeaseAfterLoad(b, loaded) ==
  IF Holds(b) /\ loaded # "accelerated" THEN NoBroker ELSE accelerator_lease

LoadReturns(b, loaded) ==
  /\ phase[b] = "loading"
  /\ \/ /\ loaded # "error" /\ Allowed(Policy(b), loaded)
        /\ phase' = [phase EXCEPT ![b] = "serving"]
        /\ inner' = [inner EXCEPT ![b] = loaded]
        /\ accelerator_lease' = LeaseAfterLoad(b, loaded)
        /\ UNCHANGED <<degraded_reason, terminal_failure, answer>>
     \/ /\ loaded = "error" \/ ~Allowed(Policy(b), loaded)
        /\ Die(b)

(***************************************************************************)
(* embed                                                                   *)
(***************************************************************************)
(* Mutant: the lease tested the wrong way round. *)
RecoverWithoutLease(b, result) ==
  /\ result = "resource_exhausted"
  /\ inner[b] = "accelerated"
  /\ ~Holds(b)

(* The recovery condition; the production loader is always present. *)
Recoverable(b, result) ==
  /\ result = "resource_exhausted"
  /\ inner[b] = "accelerated"
  /\ Holds(b)

(* The results the inner engine can give; an unready one always refuses. *)
InnerResults(b) == IF inner[b] = "unready" THEN {"application"}
                                           ELSE Answer \ {"none"}

(* A request after a failed reload: the recorded error is returned. *)
EmbedRefused(b) ==
  /\ phase[b] = "serving"
  /\ terminal_failure[b]
  /\ answer' = [answer EXCEPT ![b] = "application"]
  /\ UNCHANGED <<phase, inner, accelerator_lease, degraded_reason,
                 terminal_failure>>

EmbedReturns(b, result) ==
  /\ phase[b] = "serving"
  /\ ~terminal_failure[b]
  /\ result \in InnerResults(b)
  /\ \/ /\ ~Recoverable(b, result)
        /\ answer' = [answer EXCEPT ![b] = result]
        /\ UNCHANGED phase
     \/ /\ Recoverable(b, result)
        /\ phase' = [phase EXCEPT ![b] = "exhausted"]
        /\ UNCHANGED answer
  /\ UNCHANGED <<inner, accelerator_lease, degraded_reason, terminal_failure>>

(* Mutant: the lock given back before the engine that uses it is gone. *)
DropLeaseFirst(b) ==
  /\ phase[b] = "exhausted"
  /\ phase' = [phase EXCEPT ![b] = "dropped"]
  /\ accelerator_lease' = NoBroker
  /\ UNCHANGED <<inner, degraded_reason, terminal_failure, answer>>

(* drop(state.inner.take()) *)
DropInner(b) ==
  /\ phase[b] = "exhausted"
  /\ phase' = [phase EXCEPT ![b] = "dropped"]
  /\ inner' = [inner EXCEPT ![b] = "none"]
  /\ UNCHANGED <<accelerator_lease, degraded_reason, terminal_failure, answer>>

(* drop(state.accelerator_lease.take()), then the loader is called. *)
DropLease(b) ==
  /\ phase[b] = "dropped"
  /\ phase' = [phase EXCEPT ![b] = "reloading"]
  /\ accelerator_lease' = NoBroker
  /\ degraded_reason' = [degraded_reason EXCEPT ![b] = TRUE]
  /\ UNCHANGED <<inner, terminal_failure, answer>>

(* Mutant: a failure not kept. *)
FailureForgotten(b, loaded) ==
  /\ phase[b] = "reloading"
  /\ phase' = [phase EXCEPT ![b] = "serving"]
  /\ UNCHANGED <<inner, accelerator_lease, degraded_reason, terminal_failure,
                 answer>>

(* The CPU engine is installed and asked again, or the failure is kept and *)
(* returned, now and for every later request.                              *)
ReloadReturns(b, loaded) ==
  /\ phase[b] = "reloading"
  /\ \/ /\ loaded # "error" /\ Allowed("CpuOnly", loaded)
        /\ phase' = [phase EXCEPT ![b] = "retrying"]
        /\ inner' = [inner EXCEPT ![b] = loaded]
        /\ UNCHANGED <<terminal_failure, answer>>
     \/ /\ loaded = "error" \/ ~Allowed("CpuOnly", loaded)
        /\ phase' = [phase EXCEPT ![b] = "serving"]
        /\ terminal_failure' = [terminal_failure EXCEPT ![b] = TRUE]
        /\ answer' = [answer EXCEPT ![b] = "application"]
        /\ UNCHANGED inner
  /\ UNCHANGED <<accelerator_lease, degraded_reason>>

RetryReturns(b, result) ==
  /\ phase[b] = "retrying"
  /\ result \in InnerResults(b)
  /\ phase' = [phase EXCEPT ![b] = "serving"]
  /\ answer' = [answer EXCEPT ![b] = result]
  /\ UNCHANGED <<inner, accelerator_lease, degraded_reason, terminal_failure>>

(* Exit on owner EOF, abort by the request watchdog, or a kill. *)
EngineCrash(b) == phase[b] # "down" /\ Die(b)

-----------------------------------------------------------------------------
Recovery(b) ==
  \/ DropInner(b)
  \/ DropLease(b)
  \/ \E loaded \in Loaded : ReloadReturns(b, loaded)
  \/ \E result \in Answer : RetryReturns(b, result)

EngineNext ==
  \E b \in Brokers :
    \/ TryAcquire(b)
    \/ \E loaded \in Loaded : LoadReturns(b, loaded)
    \/ EmbedRefused(b)
    \/ \E result \in Answer : EmbedReturns(b, result)
    \/ Recovery(b)
    \/ EngineCrash(b)

EngineSpec == EngineInit /\ [][EngineNext]_engine_vars

(* Recovery runs inside an armed request: it goes on, or the request       *)
(* watchdog aborts the process.  The first load is not watched, and no     *)
(* fairness is assumed of it.                                              *)
EngineFairSpec ==
  /\ EngineSpec
  /\ \A b \in Brokers :
       WF_engine_vars(
         \/ Recovery(b)
         \/ /\ phase[b] \in {"exhausted", "dropped", "reloading", "retrying"}
            /\ EngineCrash(b))

-----------------------------------------------------------------------------
(* The state has its type. *)
EngineTypeOK ==
  /\ phase \in [Brokers -> Phase]
  /\ inner \in [Brokers -> Inner]
  /\ accelerator_lease \in Brokers \cup {NoBroker}
  /\ degraded_reason \in [Brokers -> BOOLEAN]
  /\ terminal_failure \in [Brokers -> BOOLEAN]
  /\ answer \in [Brokers -> Answer]

(* The accelerator is in use while a loader probes it and while an         *)
(* accelerated engine exists.                                              *)
UsesAccelerator(b) ==
  \/ inner[b] = "accelerated"
  \/ phase[b] = "loading" /\ Policy(b) = "Auto"

(* No two brokers use the accelerator at once, through loads, recoveries,  *)
(* crashes and restarts in any order (engine.rs:56-70, 130-131).           *)
AtMostOneAccelerator ==
  \A a, b \in Brokers : UsesAccelerator(a) /\ UsesAccelerator(b) => a = b

(* A serving broker holds the lock only for an accelerated engine: it      *)
(* never keeps the accelerator from the others for a CPU engine            *)
(* (engine.rs:68-70, 131).                                                 *)
NoIdleLease ==
  \A b \in Brokers :
    Holds(b) /\ phase[b] \in {"serving", "reloading", "retrying"}
      => inner[b] = "accelerated"

(* "live engine or terminal failure" (engine.rs:92, 118): whenever a       *)
(* request can be handled there is an engine, or a failure to return.      *)
LiveEngineOrTerminalFailure ==
  \A b \in Brokers :
    phase[b] \in {"serving", "retrying"}
      => (inner[b] # "none" /\ ~terminal_failure[b])
           \/ (inner[b] = "none" /\ terminal_failure[b])

(* Demotion lasts as long as the process: after the accelerator was        *)
(* exhausted the broker never has an accelerated engine or the lock again  *)
(* (engine.rs:130-154).                                                    *)
DemotionIsPermanent ==
  \A b \in Brokers :
    degraded_reason[b] => inner[b] # "accelerated" /\ ~Holds(b)

(* An exhausted accelerator is not the client's failure: embed returns     *)
(* resource exhaustion only if the engine that was asked last ran on the   *)
(* CPU (engine.rs:120-128).                                                *)
ExhaustionIsRecovered ==
  [][\A b \in Brokers :
       answer'[b] # answer[b] /\ answer'[b] = "resource_exhausted"
         => inner[b] = "cpu"]_engine_vars

=============================================================================
