-------------------------- MODULE BackendSelection --------------------------
(***************************************************************************)
(* Which device an engine is loaded on, src/backend_select.rs and the load *)
(* path of src/engine.rs.  Serve and broker processes start on one cache   *)
(* directory; each discovers devices, reuses the decision an earlier       *)
(* process stored for the same key or measures the devices itself, stores  *)
(* what it decided, and loads the model.  A device that fails the final    *)
(* load has its decision withdrawn and the CPU takes over.                 *)
(*                                                                         *)
(* The store is one file under one lock.  The lock, the read and the       *)
(* rename inside mutate_runtime_cache are steps of their own; each of its  *)
(* calls may fail, which ends it silently; a process may be killed at      *)
(* every step.  A file that cannot be read or parsed is an empty store.    *)
(***************************************************************************)
EXTENDS Naturals, Sequences

CONSTANTS
  Procs,        (* starting processes, each loads once                     *)
  Models,       (* the pinned models                                       *)
  Identities,   (* build, package, GPU and driver: what a key is made of   *)
  Uncacheable,  (* identities with a driver that cannot be identified      *)
  Declared,     (* the accelerators of the build, in stable order          *)
  DevicesOf,    (* the backends of an identity's devices, candidate order  *)
  Speeds,       (* the total probe times a device may show                 *)
  CpuSpeed,     (* the total probe time of the CPU                         *)
  Nobody        (* the lock is free                                        *)

Accelerators == {Declared[i] : i \in DOMAIN Declared}

ASSUME SelectionAssumption ==
  /\ Uncacheable \subseteq Identities
  /\ Declared \in Seq(STRING)
  /\ Accelerators \cap {"cpu", "none", "unknown"} = {}
  /\ \A i \in Identities : DevicesOf[i] \in Seq(Accelerators)
  /\ Speeds \subseteq Nat /\ CpuSpeed \in Nat
  /\ Nobody \notin Procs

VARIABLES
  machine,    (* the identity a discovery finds now                        *)
  store,      (* the decisions in backend-selection.json                   *)
  lock,       (* the holder of backend-selection.lock                      *)
  pc,         (* the step a process takes next                             *)
  forced,     (* JULIE_SIDECAR_FORCE_BACKEND, or cpu under CpuOnly         *)
  key,        (* the model and the identity discovered                     *)
  failures,   (* the accelerators whose module did not load                *)
  selection,  (* the RuntimeSelection                                      *)
  cache_key,  (* "set" if the selection carries its cache key              *)
  mutation,   (* what mutate_runtime_cache was called for                  *)
  snapshot,   (* the store it read                                         *)
  (* history *)
  measured,   (* <<key, device>>: measured to be faster than the CPU       *)
  misread,    (* processes whose read of the store failed                  *)
  assumed,    (* processes that filled in the device of an old entry       *)
  incomplete, (* processes one of whose probes failed                      *)
  floorless   (* processes in which something the CPU needs failed         *)

shared == <<machine, store, lock>>
history == <<measured, misread, assumed, incomplete, floorless>>
vars == <<shared, pc, forced, key, failures, selection, cache_key, mutation,
          snapshot, history>>

Keys == Models \X Identities
Backends == Accelerators \cup {"cpu"}
Reasons == {"none", "unknown", "unavailable", "failed", "slower"}

(* Selection::new; device 0 stands for no device_index. *)
Selection(requested, resolved, device, reason, capabilities) ==
  [requested |-> requested, resolved |-> resolved, device |-> device,
   degraded_reason |-> reason, capabilities |-> capabilities]
Cpu(capabilities) == Selection("cpu", "cpu", 0, "none", capabilities)
DegradedToCpu(requested, reason, capabilities) ==
  Selection(requested, "cpu", 0, reason, capabilities)

Choices ==
  [requested : Backends \cup {"unknown"}, resolved : Backends, device : Nat,
   degraded_reason : Reasons, capabilities : SUBSET Accelerators]

NoChoice == DegradedToCpu("unknown", "none", {})
Empty == [k \in Keys |-> NoChoice]

(* The device that may have won under a key, 0 if there is no entry. *)
Winners(k) ==
  {0} \cup (IF k[2] \in Uncacheable THEN {} ELSE DOMAIN DevicesOf[k[2]])

(* An entry written before device_index was stored: the device that won is *)
(* gone, only its backend is left.                                         *)
LegacyChoice(k, won) ==
  LET devices == DevicesOf[k[2]]
  IN  IF won = 0 THEN NoChoice
      ELSE Selection(devices[won], devices[won], 0, "none",
                     {devices[i] : i \in DOMAIN devices})

-----------------------------------------------------------------------------
Init ==
  /\ machine \in Identities
  /\ \E won \in [Keys -> UNION {Winners(k) : k \in Keys}] :
       /\ \A k \in Keys : won[k] \in Winners(k)
       /\ store = [k \in Keys |-> LegacyChoice(k, won[k])]
       /\ measured = {<<k, won[k]>> : k \in {j \in Keys : won[j] # 0}}
  /\ lock = Nobody
  /\ pc = [p \in Procs |-> "new"]
  /\ forced = [p \in Procs |-> "none"]
  /\ key \in {[p \in Procs |-> k] : k \in Models \X {machine}}
  /\ failures = [p \in Procs |-> {}]
  /\ selection = [p \in Procs |-> Cpu({})]
  /\ cache_key = [p \in Procs |-> "none"]
  /\ mutation = [p \in Procs |-> "none"]
  /\ snapshot = [p \in Procs |-> Empty]
  /\ misread = {}
  /\ assumed = {}
  /\ incomplete = {}
  /\ floorless = {}

Goto(p, step) == pc' = [pc EXCEPT ![p] = step]
Select(p, choice) == selection' = [selection EXCEPT ![p] = choice]

(* The process is gone with its memory; the system frees its lock. *)
End(p, how) ==
  /\ Goto(p, how)
  /\ lock' = IF lock = p THEN Nobody ELSE lock
  /\ forced' = [forced EXCEPT ![p] = "none"]
  /\ failures' = [failures EXCEPT ![p] = {}]
  /\ Select(p, Cpu({}))
  /\ cache_key' = [cache_key EXCEPT ![p] = "none"]
  /\ mutation' = [mutation EXCEPT ![p] = "none"]
  /\ snapshot' = [snapshot EXCEPT ![p] = Empty]
  /\ misread' = misread \ {p}
  /\ assumed' = assumed \ {p}
  /\ incomplete' = incomplete \ {p}
  /\ UNCHANGED <<machine, store, key, measured>>

(* A driver, a GPU or the package is replaced; after the last discovery    *)
(* nobody would see it.                                                    *)
ChangeMachine ==
  /\ \E p \in Procs : pc[p] \in {"new", "modules"}
  /\ machine' \in Identities \ {machine}
  /\ UNCHANGED <<store, lock, pc, forced, key, failures, selection,
                 cache_key, mutation, snapshot, history>>

(***************************************************************************)
(* load_with_policy, load_guarded                                          *)
(***************************************************************************)
(* The model file is there and has its digest ... *)
Start(p, model, force) ==
  /\ pc[p] = "new"
  /\ forced' = [forced EXCEPT ![p] = force]
  /\ key' = [key EXCEPT ![p] = <<model, machine>>]
  /\ Goto(p, "modules")
  /\ UNCHANGED <<shared, failures, selection, cache_key, mutation, snapshot,
                 history>>

(* ... or the load ends. *)
Unprepared(p) ==
  /\ pc[p] = "new"
  /\ Goto(p, "unprepared")
  /\ UNCHANGED <<shared, forced, key, failures, selection, cache_key,
                 mutation, snapshot, history>>

(* The forced CPU: its modules and nothing else, no discovery, no probe. *)
ForcedCpu(p) ==
  /\ pc[p] = "modules"
  /\ forced[p] = "cpu"
  /\ Select(p, Cpu({}))
  /\ Goto(p, "final")
  /\ UNCHANGED <<shared, forced, key, failures, cache_key, mutation,
                 snapshot, history>>

(* The packaged modules, then the devices they show; an accelerator module *)
(* that does not load is reported.                                         *)
Discover(p, lost) ==
  /\ pc[p] = "modules"
  /\ forced[p] # "cpu"
  /\ key' = [key EXCEPT ![p] = <<key[p][1], machine>>]
  /\ failures' = [failures EXCEPT ![p] = lost]
  /\ Goto(p, "select")
  /\ UNCHANGED <<shared, forced, selection, cache_key, mutation, snapshot,
                 history>>

(* An error of the executable's path, the CPU modules, llama.cpp's         *)
(* initialisation, the CPU's probe or the CPU's load ends the process.     *)
CpuFails(p) ==
  /\ \/ pc[p] \in {"modules", "probe", "fallback"}
     \/ pc[p] = "final" /\ selection[p].resolved = "cpu"
  /\ End(p, "failed")
  /\ floorless' = floorless \cup {p}

(***************************************************************************)
(* select_runtime_with                                                     *)
(***************************************************************************)
(* discover_candidates: the devices of the modules that loaded. *)
Device(p, i) == DevicesOf[key[p][2]][i]
Devices(p) == {i \in DOMAIN DevicesOf[key[p][2]] : Device(p, i) \notin failures[p]}
Capabilities(p) == {Device(p, i) : i \in Devices(p)}

(* The first candidate of a set, in candidate order. *)
First(devices) == CHOOSE i \in devices : \A j \in devices : i <= j

(* Mutant: a machine without a verified driver uses the cache. *)
CacheableAnyway(p) == forced[p] = "none" /\ failures[p] = {}

(* May this run read the store, and write it if every probe succeeds? *)
Cacheable(p) ==
  /\ forced[p] = "none"
  /\ key[p][2] \notin Uncacheable
  /\ failures[p] = {}

(* A forced backend the build does not know or the machine does not show. *)
ForcedUnavailable(p) ==
  /\ pc[p] = "select"
  /\ forced[p] \notin Capabilities(p) \cup {"none"}
  /\ Select(p, DegradedToCpu(forced[p],
                  IF forced[p] = "unknown" THEN "unknown"
                  ELSE IF failures[p] = {} THEN "unavailable" ELSE "failed",
                  {}))
  /\ Goto(p, "final")
  /\ UNCHANGED <<shared, forced, key, failures, cache_key, mutation,
                 snapshot, history>>

Unindexed(choice) == choice.device = 0 /\ choice.resolved # "cpu"

(* The first candidate of the backend stands in for a missing index. *)
Indexed(p, choice) ==
  IF Unindexed(choice)
    THEN [choice EXCEPT !.device =
            First({i \in Devices(p) : Device(p, i) = choice.resolved})]
    ELSE choice

(* read_runtime_cache takes no lock: the file is only ever replaced. *)
CacheHit(p) ==
  /\ pc[p] = "select"
  /\ Cacheable(p)
  /\ store[key[p]] # NoChoice
  /\ Select(p, Indexed(p, store[key[p]]))
  /\ cache_key' = [cache_key EXCEPT ![p] = "set"]
  /\ assumed' = IF Unindexed(store[key[p]]) THEN assumed \cup {p} ELSE assumed
  /\ Goto(p, "final")
  /\ UNCHANGED <<shared, forced, key, failures, mutation, snapshot, measured,
                 misread, incomplete, floorless>>

(* No entry, a store that could not be read, or a run without cache. *)
CacheMiss(p) ==
  /\ pc[p] = "select"
  /\ forced[p] \in Capabilities(p) \cup {"none"}
  /\ Goto(p, "probe")
  /\ UNCHANGED <<shared, forced, key, failures, selection, cache_key,
                 mutation, snapshot, history>>

(* The candidates to time: those of the forced backend, or all. *)
Candidates(p) == {i \in Devices(p) : forced[p] \in {"none", Device(p, i)}}

Requested(p) ==
  IF forced[p] # "none" THEN forced[p]
  ELSE IF Candidates(p) # {} THEN Device(p, First(Candidates(p)))
  ELSE IF Declared # <<>> THEN Declared[1]
  ELSE "cpu"

(* Mutant: an accelerator as fast as the CPU wins. *)
NotSlower(time) == time <= CpuSpeed

Faster(time) == time < CpuSpeed

(* Mutant: the reason is forgotten. *)
VerdictUnexplained(p, times, usable) ==
  IF \E i \in usable : Faster(times[i])
    THEN LET i == CHOOSE i \in usable : Faster(times[i])
         IN  Selection(Device(p, i), Device(p, i), i, "none", Capabilities(p))
    ELSE DegradedToCpu(Requested(p), "none", Capabilities(p))

(* The fastest usable device, the first one of several, if it beats the    *)
(* CPU.  A backend none of whose devices is usable is no capability.       *)
Verdict(p, times, usable) ==
  LET backends(devices) == {Device(p, i) : i \in devices}
      capabilities ==
        Capabilities(p) \ (backends(Candidates(p) \ usable) \ backends(usable))
      fastest == First({i \in usable : \A j \in usable : times[i] <= times[j]})
      reason == IF usable # {} THEN "slower"
                ELSE IF Candidates(p) # {} \/ failures[p] # {} THEN "failed"
                ELSE "unavailable"
  IN  IF usable # {} /\ Faster(times[fastest])
        THEN Selection(Device(p, fastest), Device(p, fastest), fastest, "none",
                       capabilities)
      ELSE IF Requested(p) # "cpu"
        THEN DegradedToCpu(Requested(p), reason, capabilities)
      ELSE Cpu(capabilities)

(* Mutant: a verdict without all the times is stored. *)
CompleteAnyway(p, usable) == TRUE

Complete(p, usable) == usable = Candidates(p)

(* Every candidate is probed, and shows a time or fails.  The verdict is   *)
(* stored only if nothing failed.                                          *)
Probe(p, times, usable) ==
  /\ Select(p, Verdict(p, times, usable))
  /\ measured' = measured \cup
       ({key[p]} \X {i \in usable : times[i] < CpuSpeed})
  /\ incomplete' = IF usable = Candidates(p) THEN incomplete
                   ELSE incomplete \cup {p}
  /\ IF Cacheable(p) /\ Complete(p, usable)
       THEN /\ cache_key' = [cache_key EXCEPT ![p] = "set"]
            /\ mutation' = [mutation EXCEPT ![p] = "insert"]
            /\ Goto(p, "lock")
       ELSE Goto(p, "final") /\ UNCHANGED <<cache_key, mutation>>
  /\ UNCHANGED <<shared, forced, key, failures, snapshot, misread, assumed,
                 floorless>>

ProbeAll(p) ==
  /\ pc[p] = "probe"
  /\ \E usable \in SUBSET Candidates(p) :
       \E times \in [usable -> Speeds] : Probe(p, times, usable)

(***************************************************************************)
(* mutate_runtime_cache                                                    *)
(***************************************************************************)
(* Where its caller goes on: write_runtime_cache, or load_final after      *)
(* invalidate_cached_selection.                                            *)
Return(p) == Goto(p, IF mutation[p] = "insert" THEN "final" ELSE "fallback")

(* Mutant: the lock is not taken. *)
TakeNoLock(p) ==
  /\ pc[p] = "lock"
  /\ Goto(p, "read")
  /\ UNCHANGED <<shared, forced, key, failures, selection, cache_key,
                 mutation, snapshot, history>>

(* The directory, the lock file and the lock, which blocks until it is     *)
(* free ...                                                                *)
TakeLock(p) ==
  /\ pc[p] = "lock"
  /\ lock = Nobody
  /\ lock' = p
  /\ Goto(p, "read")
  /\ UNCHANGED <<machine, store, forced, key, failures, selection,
                 cache_key, mutation, snapshot, history>>

(* ... or an error of one of the three. *)
LockFails(p) ==
  /\ pc[p] = "lock"
  /\ Return(p)
  /\ UNCHANGED <<shared, forced, key, failures, selection, cache_key,
                 mutation, snapshot, history>>

(* read_runtime_store; every error is an empty store. *)
ReadStore(p) ==
  /\ pc[p] = "read"
  /\ \/ /\ snapshot' = [snapshot EXCEPT ![p] = store]
        /\ misread' = misread \ {p}
     \/ /\ snapshot' = [snapshot EXCEPT ![p] = Empty]
        /\ misread' = misread \cup {p}
  /\ Goto(p, "rename")
  /\ UNCHANGED <<shared, forced, key, failures, selection, cache_key,
                 mutation, measured, assumed, incomplete, floorless>>

(* What the caller's closure makes of the store. *)
Mutated(p) ==
  [snapshot[p] EXCEPT ![key[p]] =
     IF mutation[p] = "insert" THEN selection[p] ELSE NoChoice]

(* The temporary file is written, synced and renamed, or one of them fails *)
(* and the old file stays.                                                 *)
Rename(p) ==
  /\ pc[p] = "rename"
  /\ store' = Mutated(p) \/ UNCHANGED store
  /\ Goto(p, "unlock")
  /\ UNCHANGED <<machine, lock, forced, key, failures, selection,
                 cache_key, mutation, snapshot, history>>

Unlock(p) ==
  /\ pc[p] = "unlock"
  /\ lock' = Nobody
  /\ snapshot' = [snapshot EXCEPT ![p] = Empty]
  /\ misread' = misread \ {p}
  /\ Return(p)
  /\ UNCHANGED <<machine, store, forced, key, failures, selection,
                 cache_key, mutation, measured, assumed, incomplete, floorless>>

(***************************************************************************)
(* load_final                                                              *)
(***************************************************************************)
LoadFinal(p) ==
  /\ pc[p] = "final"
  /\ Goto(p, "loaded")
  /\ UNCHANGED <<shared, forced, key, failures, selection, cache_key,
                 mutation, snapshot, history>>

(* Mutant: a device that does not load ends the process. *)
FinalLoadFatal(p) ==
  /\ pc[p] = "final"
  /\ selection[p].resolved # "cpu"
  /\ Goto(p, "failed")
  /\ UNCHANGED <<shared, forced, key, failures, selection, cache_key,
                 mutation, snapshot, history>>

(* An accelerator that does not load has its stored decision withdrawn. *)
FinalLoadFails(p) ==
  /\ pc[p] = "final"
  /\ selection[p].resolved # "cpu"
  /\ mutation' = [mutation EXCEPT ![p] = "remove"]
  /\ Goto(p, IF cache_key[p] = "set" THEN "lock" ELSE "fallback")
  /\ UNCHANGED <<shared, forced, key, failures, selection, cache_key,
                 snapshot, history>>

(* ... and the CPU is loaded instead. *)
Fallback(p) ==
  /\ pc[p] = "fallback"
  /\ LET backend == selection[p].resolved
     IN  Select(p, DegradedToCpu(backend, "failed",
                     selection[p].capabilities \ {backend}))
  /\ Goto(p, "loaded")
  /\ UNCHANGED <<shared, forced, key, failures, cache_key, mutation,
                 snapshot, history>>

Ended == {"new", "loaded", "failed", "unprepared", "killed"}

Kill(p) ==
  /\ pc[p] \notin Ended
  /\ End(p, "killed")
  /\ UNCHANGED floorless

(* What health says of a loaded engine: engine_facts, build and            *)
(* resolve_degraded_reason, with the reason of last resort.                *)
Health(p) ==
  LET s == selection[p]
  IN  [requested |-> s.requested, resolved |-> s.resolved,
       capabilities |-> s.capabilities \cup {"cpu"},
       degraded_reason |->
         IF s.degraded_reason # "none" THEN s.degraded_reason
         ELSE IF s.requested # s.resolved THEN "fallback" ELSE "none"]

-----------------------------------------------------------------------------
MutateRuntimeCache(p) ==
  TakeLock(p) \/ ReadStore(p) \/ Rename(p) \/ Unlock(p)

(* A load; its calls return, with success or with an error. *)
Load(p) ==
  \/ ForcedCpu(p)
  \/ \E lost \in SUBSET Accelerators : Discover(p, lost)
  \/ CpuFails(p)
  \/ ForcedUnavailable(p)
  \/ CacheHit(p)
  \/ CacheMiss(p)
  \/ ProbeAll(p)
  \/ MutateRuntimeCache(p)
  \/ LoadFinal(p)
  \/ FinalLoadFails(p)
  \/ Fallback(p)

Next ==
  \/ ChangeMachine
  \/ \E p \in Procs :
       \/ \E model \in Models, force \in Backends \cup {"none", "unknown"} :
            Start(p, model, force)
       \/ Unprepared(p)
       \/ Load(p)
       \/ LockFails(p)
       \/ Kill(p)

Spec == Init /\ [][Next]_vars

(* A load that began goes on.  The lock of the store may fail, and need    *)
(* not: who waits for it waits until it is free.                           *)
FairSpec == Spec /\ \A p \in Procs : WF_vars(Load(p))

-----------------------------------------------------------------------------
(* The state has its type. *)
TypeOK ==
  /\ machine \in Identities
  /\ store \in [Keys -> Choices]
  /\ lock \in Procs \cup {Nobody}
  /\ pc \in [Procs -> Ended \cup {"modules", "select", "probe", "lock", "read",
                                 "rename", "unlock", "final", "fallback"}]
  /\ forced \in [Procs -> Backends \cup {"none", "unknown"}]
  /\ key \in [Procs -> Keys]
  /\ failures \in [Procs -> SUBSET Accelerators]
  /\ selection \in [Procs -> Choices]
  /\ cache_key \in [Procs -> {"none", "set"}]
  /\ mutation \in [Procs -> {"none", "insert", "remove"}]
  /\ snapshot \in [Procs -> [Keys -> Choices]]
  /\ measured \subseteq Keys \X Nat
  /\ misread \subseteq Procs
  /\ assumed \subseteq Procs
  /\ incomplete \subseteq Procs
  /\ floorless \subseteq Procs

(* "only a faster accelerator wins.  Verdicts are cached per complete      *)
(* build, package, model, GPU, and driver identity"                        *)
(* (backend_select.rs:5-7): whoever loads on a device, from the store or   *)
(* by its own probes, does so because that device was measured faster than *)
(* the CPU under the very key this process has.  An old entry names no     *)
(* device: then only another one of its backend need have been measured    *)
(* (backend_select.rs:331-338).                                            *)
OnlyMeasuredDevices ==
  \A p \in Procs :
    pc[p] \in {"final", "loaded"} /\ selection[p].resolved # "cpu"
      => LET device == selection[p].device
             backend == selection[p].resolved
         IN  /\ Device(p, device) = backend
             /\ \E i \in DOMAIN DevicesOf[key[p][2]] :
                  Device(p, i) = backend /\ <<key[p], i>> \in measured
             /\ p \notin assumed => <<key[p], device>> \in measured

(* No update of the store is lost, and no withdrawn decision comes back:   *)
(* each rename changes the entry of its own process, and others only if    *)
(* the file could not be read (backend_select.rs:620-649).                 *)
NoLostDecision ==
  [][\A k \in Keys :
       store'[k] # store[k] =>
         \E p \in Procs :
           /\ pc[p] = "rename" /\ pc'[p] = "unlock"
           /\ key[p] = k \/ p \in misread]_vars

(* The store is for full identities only: a forced backend, an accelerator *)
(* module that failed to load, a driver that cannot be identified or a     *)
(* probe that failed keeps a process from using or from writing it         *)
(* (backend_select.rs:328, 442).                                           *)
CacheNeedsIdentity ==
  /\ \A p \in Procs :
       cache_key[p] = "set" => /\ forced[p] = "none"
                               /\ failures[p] = {}
                               /\ key[p][2] \notin Uncacheable
                               /\ p \notin incomplete
  /\ \A k \in Keys : k[2] \in Uncacheable => store[k] = NoChoice

(* "CPU is the floor in every build" (backend_select.rs:3): whatever fails *)
(* of the accelerators, their modules, probes and loads and of the store,  *)
(* and whoever else works on the store or is killed at it, a load that     *)
(* began ends with a model that serves; only a CPU that fails prevents it. *)
CpuIsTheFloor ==
  \A p \in Procs :
    pc[p] = "modules" ~> pc[p] \in {"loaded", "killed"} \/ p \in floorless

(* Health tells the truth about the engine that serves: it carries a       *)
(* reason exactly if another backend than the requested one serves, a      *)
(* specific one and never the last resort, the backend in use is           *)
(* advertised, and one that failed to load is not (health.rs:150-155, 235, *)
(* engine.rs:327-337).                                                     *)
SelectionExplained ==
  \A p \in Procs :
    pc[p] = "loaded" =>
      LET health == Health(p)
      IN  /\ health.requested # health.resolved
               <=> health.degraded_reason \in Reasons \ {"none"}
          /\ health.resolved \in health.capabilities
          /\ mutation[p] = "remove" => health.requested \notin health.capabilities

(* Who holds the lock of the store is about to release it: a process that  *)
(* waits for it is never kept waiting by one that ended, failed half way   *)
(* or was killed (backend_select.rs:624-648).                              *)
LockInUse ==
  lock # Nobody => pc[lock] \in {"read", "rename", "unlock"}
=============================================================================
