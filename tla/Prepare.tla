------------------------------ MODULE Prepare ------------------------------
(***************************************************************************)
(* The shared model cache, src/prepare.rs: prepare processes that download *)
(* models into one directory (acquire) and serve or broker processes that  *)
(* clean partial downloads out of it when they start                       *)
(* (clean_stale_partials).  Each file-system call is a step; a process may *)
(* be killed at every step, which frees its locks and keeps its files.     *)
(*                                                                         *)
(* A partial file has a random name, so it is named by the process that    *)
(* created it.  Data is abstracted to whether it has the pinned digest.    *)
(***************************************************************************)
EXTENDS Naturals, FiniteSets

CONSTANTS
  Models,     (* the pinned models                                         *)
  Preparers,  (* prepare processes, each run once for one model            *)
  Cleaners,   (* starting serve and broker processes                       *)
  Legacy,     (* a partial file whose name carries no model                *)
  Nobody,     (* no holder of a lock                                       *)
  LockFiles   (* the lock files earlier prepares left in the directory     *)

ASSUME PrepareAssumption ==
  /\ LockFiles \subseteq Models
  /\ Legacy \notin Preparers
  /\ Nobody \notin Preparers \cup Cleaners
  /\ Preparers \cap Cleaners = {}
  /\ Models \cap (Preparers \cup {Legacy}) = {}

VARIABLES
  (* the directory *)
  lock_files,  (* the models whose lock file exists                        *)
  lock,        (* the process that holds a model's lock, or Nobody         *)
  final,       (* what is stored under a model's final name                *)
  partials,    (* the partial files that exist                             *)
  (* the prepare processes *)
  pc,          (* the step a process takes next                            *)
  model,       (* the model it prepares                                    *)
  received,    (* the data it received and hashed                          *)
  (* the cleaners *)
  cleaner,     (* the local variables of clean_stale_partials              *)
  stale        (* history: the abandoned partials when a cleaner started   *)

directory == <<lock_files, lock, final, partials>>
preparers == <<pc, model, received>>
vars == <<directory, preparers, cleaner, stale>>

PrepareStep == {"new", "open", "lock", "check", "stale", "fetch", "copy",
                "verify", "persist", "unlock", "prepared", "fail", "failed",
                "killed"}
CleanStep == {"new", "list", "probe", "remove", "done", "failed"}

(* Every name a directory listing can show. *)
Names == Models \cup Preparers \cup {Legacy}

CleanerState ==
  [step : CleanStep,
   unread : SUBSET Names,          (* names read_dir has not come to yet   *)
   lock_paths : SUBSET Models,     (* lock files seen and not yet probed   *)
   seen : SUBSET (Preparers \cup {Legacy}),  (* partials seen, not handled *)
   held_models : SUBSET Models]    (* models whose lock another one holds  *)

-----------------------------------------------------------------------------
Init ==
  /\ lock_files = LockFiles
  /\ lock = [m \in Models |-> Nobody]
  /\ final \in [Models -> {"absent", "good", "bad"}]
  /\ partials \in {{}, {Legacy}}
  /\ pc = [p \in Preparers |-> "new"]
  /\ model \in [Preparers -> Models]
  /\ received = [p \in Preparers |-> "nothing"]
  /\ cleaner = [k \in Cleaners |->
                  [step |-> "new", unread |-> {}, lock_paths |-> {},
                   seen |-> {}, held_models |-> {}]]
  /\ stale = [k \in Cleaners |-> {}]

Goto(p, step) == pc' = [pc EXCEPT ![p] = step]

(***************************************************************************)
(* acquire                                                                 *)
(***************************************************************************)
(* The process starts and creates the cache directory, or cannot. *)
Start(p) ==
  /\ pc[p] = "new"
  /\ Goto(p, "open") \/ Goto(p, "failed")
  /\ UNCHANGED <<directory, model, received, cleaner, stale>>

(* hold_cache_lock: the lock file is opened, and created if it is missing. *)
OpenLock(p) ==
  /\ pc[p] = "open"
  /\ \/ lock_files' = lock_files \cup {model[p]} /\ Goto(p, "lock")
     \/ UNCHANGED lock_files /\ Goto(p, "failed")
  /\ UNCHANGED <<lock, final, partials, model, received, cleaner, stale>>

(* Mutant: the error of try_lock is ignored. *)
TakeLockAnyway(p) ==
  /\ pc[p] = "lock"
  /\ lock' = [lock EXCEPT ![model[p]] = p]
  /\ Goto(p, "check")
  /\ UNCHANGED <<lock_files, final, partials, model, received, cleaner, stale>>

(* try_lock, or lock after the "waiting" event, which blocks until the     *)
(* lock is free ...                                                        *)
TakeLock(p) ==
  /\ pc[p] = "lock"
  /\ lock[model[p]] = Nobody
  /\ lock' = [lock EXCEPT ![model[p]] = p]
  /\ Goto(p, "check")
  /\ UNCHANGED <<lock_files, final, partials, model, received, cleaner, stale>>

(* ... or returns an error, on which no waiting prepare can rely. *)
LockFails(p) ==
  /\ pc[p] = "lock"
  /\ Goto(p, "failed")
  /\ UNCHANGED <<directory, model, received, cleaner, stale>>

(* acquire_locked: what is cached already?  Reading it may fail. *)
CheckFinal(p) ==
  /\ pc[p] = "check"
  /\ \/ final[model[p]] = "good" /\ Goto(p, "unlock")
     \/ final[model[p]] = "bad" /\ Goto(p, "stale")
     \/ final[model[p]] = "absent" /\ Goto(p, "fetch")
     \/ final[model[p]] # "absent" /\ Goto(p, "fail")
  /\ UNCHANGED <<directory, model, received, cleaner, stale>>

RemoveStaleFinal(p) ==
  /\ pc[p] = "stale"
  /\ \/ final' = [final EXCEPT ![model[p]] = "absent"] /\ Goto(p, "fetch")
     \/ UNCHANGED final /\ Goto(p, "fail")
  /\ UNCHANGED <<lock_files, lock, partials, model, received, cleaner, stale>>

(* preflight_disk, the request and the partial file, or one of their errors. *)
Fetch(p) ==
  /\ pc[p] = "fetch"
  /\ \/ partials' = partials \cup {p} /\ Goto(p, "copy")
     \/ UNCHANGED partials /\ Goto(p, "fail")
  /\ UNCHANGED <<lock_files, lock, final, model, received, cleaner, stale>>

(* The body arrives, or the download fails, times out or is oversized; the *)
(* temp file is dropped with its file then.                                *)
Copy(p) ==
  /\ pc[p] = "copy"
  /\ \/ /\ \E data \in {"good", "bad"} :
             received' = [received EXCEPT ![p] = data]
        /\ Goto(p, "verify")
        /\ UNCHANGED partials
     \/ partials' = partials \ {p} /\ Goto(p, "fail") /\ UNCHANGED received
  /\ UNCHANGED <<lock_files, lock, final, model, cleaner, stale>>

(* Mutant: the digest is computed and not compared. *)
VerifyNothing(p) ==
  /\ pc[p] = "verify"
  /\ Goto(p, "persist")
  /\ UNCHANGED <<directory, model, received, cleaner, stale>>

(* The digest of what was received, not of what is on disk. *)
Verify(p) ==
  /\ pc[p] = "verify"
  /\ \/ received[p] = "good" /\ Goto(p, "persist") /\ UNCHANGED partials
     \/ received[p] # "good" /\ partials' = partials \ {p} /\ Goto(p, "fail")
  /\ UNCHANGED <<lock_files, lock, final, model, received, cleaner, stale>>

(* persist renames the partial file; it fails if somebody removed it. *)
Persist(p) ==
  /\ pc[p] = "persist"
  /\ \/ /\ p \in partials
        /\ final' = [final EXCEPT ![model[p]] = received[p]]
        /\ Goto(p, "unlock")
     \/ UNCHANGED final /\ Goto(p, "fail")
  /\ partials' = partials \ {p}
  /\ UNCHANGED <<lock_files, lock, model, received, cleaner, stale>>

Unlock(p) ==
  /\ pc[p] \in {"unlock", "fail"}
  /\ lock' = [lock EXCEPT ![model[p]] = Nobody]
  /\ Goto(p, IF pc[p] = "unlock" THEN "prepared" ELSE "failed")
  /\ UNCHANGED <<lock_files, final, partials, model, received, cleaner, stale>>

Running(p) == pc[p] \notin {"new", "prepared", "failed", "killed"}

(* A partial file nobody is writing. *)
Abandoned(name) == name = Legacy \/ ~Running(name)

(* The locks after process x ended. *)
Released(x) == [m \in Models |-> IF lock[m] = x THEN Nobody ELSE lock[m]]

Kill(p) ==
  /\ Running(p)
  /\ Goto(p, "killed")
  /\ lock' = Released(p)
  /\ UNCHANGED <<lock_files, final, partials, model, received, cleaner, stale>>

Acquire(p) ==
  \/ OpenLock(p)
  \/ TakeLock(p)
  \/ CheckFinal(p)
  \/ RemoveStaleFinal(p)
  \/ Fetch(p)
  \/ Copy(p)
  \/ Verify(p)
  \/ Persist(p)
  \/ Unlock(p)

(***************************************************************************)
(* clean_stale_partials                                                    *)
(***************************************************************************)
ReadDir(k) ==
  /\ cleaner[k].step = "new"
  /\ stale' = [stale EXCEPT ![k] = {name \in partials : Abandoned(name)}]
  /\ cleaner' = [cleaner EXCEPT ![k].step = "list", ![k].unread = Names]
  /\ UNCHANGED <<directory, preparers>>

(* read_dir is no snapshot: each name is met at a moment of its own. *)
ReadEntry(k, name) ==
  /\ cleaner[k].step = "list"
  /\ name \in cleaner[k].unread
  /\ LET unread == cleaner[k].unread \ {name}
         shown == {name} \cap (lock_files \cup partials)
     IN  cleaner' = [cleaner EXCEPT
                       ![k].unread = unread,
                       ![k].lock_paths = @ \cup (shown \cap Models),
                       ![k].seen = @ \cup (shown \ Models),
                       ![k].step = IF unread = {} THEN "probe" ELSE "list"]
  /\ UNCHANGED <<directory, preparers, stale>>

(* try_hold on one lock file; one that cannot be opened counts as held. *)
TryHold(k, m) ==
  /\ cleaner[k].step = "probe"
  /\ m \in cleaner[k].lock_paths
  /\ \/ /\ lock[m] = Nobody
        /\ lock' = [lock EXCEPT ![m] = k]
        /\ cleaner' = [cleaner EXCEPT ![k].lock_paths = @ \ {m}]
     \/ /\ UNCHANGED lock
        /\ cleaner' = [cleaner EXCEPT ![k].lock_paths = @ \ {m},
                                      ![k].held_models = @ \cup {m}]
  /\ UNCHANGED <<lock_files, final, partials, preparers, stale>>

ProbedAll(k) ==
  /\ cleaner[k].step = "probe"
  /\ cleaner[k].lock_paths = {}
  /\ cleaner' = [cleaner EXCEPT ![k].step = "remove"]
  /\ UNCHANGED <<directory, preparers, stale>>

(* Mutant: held models are not skipped. *)
RemoveAll(k, name) == TRUE

(* Is the partial file to be removed? *)
Unowned(k, name) ==
  IF name = Legacy THEN cleaner[k].held_models = {}
                   ELSE model[name] \notin cleaner[k].held_models

(* Mutant: a file that is to be removed is skipped. *)
SkipPartial(k, name) ==
  /\ cleaner[k].step = "remove"
  /\ name \in cleaner[k].seen
  /\ cleaner' = [cleaner EXCEPT ![k].seen = @ \ {name}]
  /\ UNCHANGED <<directory, preparers, stale>>

(* One partial file; it may be gone already.  Attributed ones come first. *)
RemovePartial(k, name) ==
  /\ cleaner[k].step = "remove"
  /\ name \in cleaner[k].seen
  /\ name = Legacy => cleaner[k].seen = {Legacy}
  /\ partials' = IF Unowned(k, name) THEN partials \ {name} ELSE partials
  /\ cleaner' = [cleaner EXCEPT ![k].seen = @ \ {name}]
  /\ UNCHANGED <<lock_files, lock, final, preparers, stale>>

(* Mutant: the probed locks are kept. *)
KeepLocks(k) ==
  /\ cleaner[k].step = "remove"
  /\ cleaner[k].seen = {}
  /\ cleaner' = [cleaner EXCEPT ![k].step = "done"]
  /\ UNCHANGED <<directory, preparers, stale>>

(* The locals of a cleaner that ended without result. *)
Gone == [step |-> "failed", unread |-> {}, lock_paths |-> {}, seen |-> {},
         held_models |-> {}]

(* Done, or remove_file failed: the locks are released either way. *)
Release(k) ==
  /\ cleaner[k].step = "remove"
  /\ \/ /\ cleaner[k].seen = {}
        /\ cleaner' = [cleaner EXCEPT ![k].step = "done"]
     \/ /\ \E name \in cleaner[k].seen : Unowned(k, name)
        /\ cleaner' = [cleaner EXCEPT ![k] = Gone]
  /\ lock' = Released(k)
  /\ UNCHANGED <<lock_files, final, partials, preparers, stale>>

Clean(k) ==
  \/ \E name \in Names : ReadEntry(k, name)
  \/ \E m \in Models : TryHold(k, m)
  \/ ProbedAll(k)
  \/ \E name \in Preparers \cup {Legacy} : RemovePartial(k, name)
  \/ Release(k)

(* A kill, or an error of read_dir. *)
KillCleaner(k) ==
  /\ cleaner[k].step \in {"list", "probe", "remove"}
  /\ cleaner' = [cleaner EXCEPT ![k] = Gone]
  /\ lock' = Released(k)
  /\ UNCHANGED <<lock_files, final, partials, preparers, stale>>

-----------------------------------------------------------------------------
Next ==
  \/ \E p \in Preparers : Start(p) \/ Acquire(p) \/ LockFails(p) \/ Kill(p)
  \/ \E k \in Cleaners : ReadDir(k) \/ Clean(k) \/ KillCleaner(k)

(* A process that started goes on: every network wait has a timeout        *)
(* (DownloadTimeouts), and only TakeLock waits for another process.        *)
Spec ==
  /\ Init
  /\ [][Next]_vars
  /\ \A p \in Preparers : WF_vars(Acquire(p))
  /\ \A k \in Cleaners : WF_vars(Clean(k))

-----------------------------------------------------------------------------
(* The state has its type. *)
TypeOK ==
  /\ lock_files \subseteq Models
  /\ lock \in [Models -> Preparers \cup Cleaners \cup {Nobody}]
  /\ final \in [Models -> {"absent", "good", "bad"}]
  /\ partials \subseteq Preparers \cup {Legacy}
  /\ pc \in [Preparers -> PrepareStep]
  /\ model \in [Preparers -> Models]
  /\ received \in [Preparers -> {"nothing", "good", "bad"}]
  /\ cleaner \in [Cleaners -> CleanerState]
  /\ stale \in [Cleaners -> SUBSET (Preparers \cup {Legacy})]

InLockedSection(p) ==
  pc[p] \in {"check", "stale", "fetch", "copy", "verify", "persist", "unlock",
            "fail"}

(* "a concurrent invocation either downloads or waits - never both"        *)
(* (prepare.rs:308): no two processes work on one model's file at once,    *)
(* whoever is killed and whatever cleaners do meanwhile.                   *)
OneWriterPerModel ==
  \A p, q \in Preparers :
    InLockedSection(p) /\ InLockedSection(q) /\ model[p] = model[q] => p = q

(* "no path exists on which an unverified file appears under its final     *)
(* name" (prepare.rs:309): a final file never turns bad.                   *)
NoUnverifiedFinal ==
  [][\A m \in Models : final'[m] = "bad" => final[m] = "bad"]_vars

(* A prepare that reports success leaves a verified file, which no         *)
(* other prepare takes away again (prepare.rs:382-416).                    *)
SuccessMeansCached ==
  \A p \in Preparers :
    pc[p] \in {"unlock", "prepared"} => final[model[p]] = "good"

(* A cleaner never takes the file of a running download away               *)
(* (prepare.rs:207-212), if every lock file exists already.                *)
ActiveDownloadsUndisturbed ==
  \A p \in Preparers :
    pc[p] \in {"copy", "verify", "persist"} => p \in partials

(* A cleaner that finishes has removed every partial file that was         *)
(* abandoned when it started, unless it found the lock held                *)
(* (prepare.rs:258-276).                                                   *)
AbandonedPartialsRemoved ==
  \A k \in Cleaners :
    cleaner[k].step = "done" =>
      \A name \in stale[k] \cap partials : ~Unowned(k, name)

(* Every prepare ends: nobody waits for a lock for ever                    *)
(* (prepare.rs:564-570).                                                   *)
EveryPrepareEnds == \A p \in Preparers : Running(p) ~> ~Running(p)

(* prepare.rs:210-212: "A model's partials are deleted only when this call *)
(* can take `<model_id>.lock` itself".                                     *)
PartialsRemovedUnderLock ==
  [][\A k \in Cleaners, p \in Preparers :
       RemovePartial(k, p) /\ p \in partials /\ p \notin partials'
         => lock[model[p]] = k]_vars
=============================================================================
