--------------------------- MODULE PrepareProofs ---------------------------
(***************************************************************************)
(* What the shared model cache guarantees for every set of models, prepare *)
(* processes and cleaners.  The inductive invariant says what a process in *)
(* the locked section knows about its model's final file: nobody else can  *)
(* have changed it since it looked.                                        *)
(***************************************************************************)
EXTENDS Prepare, TLAPS

(* The part of TypeOK the argument needs. *)
Types ==
  /\ lock \in [Models -> Preparers \cup Cleaners \cup {Nobody}]
  /\ final \in [Models -> {"absent", "good", "bad"}]
  /\ pc \in [Preparers -> PrepareStep]
  /\ model \in [Preparers -> Models]
  /\ received \in [Preparers -> {"nothing", "good", "bad"}]

(* What p knows at each step. *)
Knows(p) ==
  /\ InLockedSection(p) => lock[model[p]] = p
  /\ pc[p] = "stale" => final[model[p]] = "bad"
  /\ pc[p] \in {"fetch", "copy", "verify", "persist"}
       => final[model[p]] = "absent"
  /\ pc[p] = "persist" => received[p] = "good"
  /\ pc[p] \in {"unlock", "prepared"} => final[model[p]] = "good"

WriterInv == Types /\ \A p \in Preparers : Knows(p)

(* Every behaviour keeps the writer invariant. *)
THEOREM WriterInvariant == Spec => []WriterInv
<1> USE PrepareAssumption
        DEF WriterInv, Types, Knows, InLockedSection, PrepareStep, Goto
<1>1. Init => WriterInv
  BY DEF Init
<1>2. WriterInv /\ [Next]_vars => WriterInv'
  <2> SUFFICES ASSUME WriterInv, [Next]_vars PROVE WriterInv'
    OBVIOUS
  <2>1. ASSUME NEW p \in Preparers, Acquire(p) PROVE WriterInv'
    <3>1. CASE OpenLock(p)
      BY <3>1 DEF OpenLock
    <3>2. CASE TakeLock(p)
      BY <3>2 DEF TakeLock
    <3>3. CASE CheckFinal(p)
      BY <3>3 DEF CheckFinal, directory
    <3>4. CASE RemoveStaleFinal(p)
      BY <3>4 DEF RemoveStaleFinal
    <3>5. CASE Fetch(p)
      BY <3>5 DEF Fetch
    <3>6. CASE Copy(p)
      BY <3>6 DEF Copy
    <3>7. CASE Verify(p)
      BY <3>7 DEF Verify
    <3>8. CASE Persist(p)
      BY <3>8 DEF Persist
    <3>9. CASE Unlock(p)
      BY <3>9 DEF Unlock
    <3>. QED
      BY <2>1, <3>1, <3>2, <3>3, <3>4, <3>5, <3>6, <3>7, <3>8, <3>9 DEF Acquire
  <2>2. ASSUME NEW p \in Preparers, Start(p) \/ LockFails(p) \/ Kill(p)
        PROVE  WriterInv'
    BY <2>2 DEF Start, LockFails, Kill, Released, directory
  <2>3. ASSUME NEW k \in Cleaners, Clean(k) PROVE WriterInv'
    <3>1. ASSUME NEW name \in Names, ReadEntry(k, name) PROVE WriterInv'
      BY <3>1 DEF ReadEntry, directory, preparers
    <3>2. ASSUME NEW m \in Models, TryHold(k, m) PROVE WriterInv'
      BY <3>2 DEF TryHold, preparers
    <3>3. CASE ProbedAll(k)
      BY <3>3 DEF ProbedAll, directory, preparers
    <3>4. ASSUME NEW name \in Preparers \cup {Legacy}, RemovePartial(k, name)
          PROVE  WriterInv'
      BY <3>4 DEF RemovePartial, preparers
    <3>5. CASE Release(k)
      BY <3>5 DEF Release, Released, preparers
    <3>. QED
      BY <2>3, <3>1, <3>2, <3>3, <3>4, <3>5 DEF Clean
  <2>4. ASSUME NEW k \in Cleaners, ReadDir(k) \/ KillCleaner(k) PROVE WriterInv'
    BY <2>4 DEF ReadDir, KillCleaner, Released, directory, preparers
  <2>5. CASE UNCHANGED vars
    BY <2>5 DEF vars, directory, preparers
  <2>. QED
    BY <2>1, <2>2, <2>3, <2>4, <2>5 DEF Next
<1>. QED
  BY <1>1, <1>2, PTL DEF Spec

(* No two prepares work on one model's file at once (prepare.rs:308). *)
THEOREM CacheHasOneWriter == Spec => []OneWriterPerModel
<1>1. WriterInv => OneWriterPerModel
  BY DEF WriterInv, Knows, OneWriterPerModel
<1>. QED
  BY <1>1, WriterInvariant, PTL

(* A prepare that succeeds leaves a verified file, for good                *)
(* (prepare.rs:382-416).                                                   *)
THEOREM SuccessIsLasting == Spec => []SuccessMeansCached
<1>1. WriterInv => SuccessMeansCached
  BY DEF WriterInv, Knows, SuccessMeansCached
<1>. QED
  BY <1>1, WriterInvariant, PTL

(* No unverified file appears under a final name (prepare.rs:309). *)
THEOREM FinalFilesAreVerified == Spec => NoUnverifiedFinal
<1>1. WriterInv /\ [Next]_vars =>
        [\A m \in Models : final'[m] = "bad" => final[m] = "bad"]_vars
  <2> SUFFICES ASSUME WriterInv, Next, NEW m \in Models, final'[m] = "bad"
               PROVE  final[m] = "bad"
    OBVIOUS
  <2>1. ASSUME NEW p \in Preparers, Persist(p) PROVE final[m] = "bad"
    BY <2>1 DEF Persist, WriterInv, Types, Knows
  <2>2. ASSUME NEW p \in Preparers, RemoveStaleFinal(p) PROVE final[m] = "bad"
    BY <2>2 DEF RemoveStaleFinal, WriterInv, Types, Knows
  <2>3. ASSUME NEW p \in Preparers, Acquire(p), ~Persist(p),
               ~RemoveStaleFinal(p)
        PROVE  UNCHANGED final
    BY <2>3 DEF Acquire, OpenLock, TakeLock, CheckFinal, Fetch, Copy, Verify,
                Unlock, directory
  <2>4. ASSUME NEW p \in Preparers, Start(p) \/ LockFails(p) \/ Kill(p)
        PROVE  UNCHANGED final
    BY <2>4 DEF Start, LockFails, Kill, directory
  <2>5. ASSUME NEW k \in Cleaners, ReadDir(k) \/ Clean(k) \/ KillCleaner(k)
        PROVE  UNCHANGED final
    BY <2>5 DEF ReadDir, Clean, KillCleaner, ReadEntry, TryHold, ProbedAll,
                RemovePartial, Release, directory
  <2>. QED
    BY <2>1, <2>2, <2>3, <2>4, <2>5 DEF Next
<1>. QED
  BY <1>1, WriterInvariant, PTL DEF Spec, NoUnverifiedFinal

-----------------------------------------------------------------------------
(* The cleaners.  A partial file belongs to a prepare that is downloading  *)
(* or was killed, and stays where a cleaner will find it.                  *)
CleanerTypes ==
  /\ lock_files \subseteq Models
  /\ partials \subseteq Preparers \cup {Legacy}
  /\ cleaner \in [Cleaners -> CleanerState]
  /\ stale \in [Cleaners -> SUBSET (Preparers \cup {Legacy})]

Owned ==
  /\ \A p \in Preparers \cap partials :
       pc[p] \in {"copy", "verify", "persist", "killed"}
  /\ \A k \in Cleaners : \A p \in Preparers \cap stale[k] : pc[p] = "killed"

(* How far cleaner k has come with the files that were stale. *)
Sought(k) ==
  /\ \A name \in stale[k] \cap partials :
       /\ cleaner[k].step = "list"
            => name \in cleaner[k].unread \/ name \in cleaner[k].seen
       /\ cleaner[k].step = "probe" => name \in cleaner[k].seen
       /\ cleaner[k].step \in {"remove", "done"}
            => name \in cleaner[k].seen \/ ~Unowned(k, name)
  /\ cleaner[k].step = "done" => cleaner[k].seen = {}

CleanerInv == CleanerTypes /\ Owned /\ \A k \in Cleaners : Sought(k)

(* A cleaner that read one more entry has locals of their types ... *)
LEMMA ReadEntryTyped ==
  ASSUME NEW k \in Cleaners, NEW name \in Names, ReadEntry(k, name),
         cleaner \in [Cleaners -> CleanerState]
  PROVE  cleaner' \in [Cleaners -> CleanerState]
<1> DEFINE unread == cleaner[k].unread \ {name}
           lock_paths == cleaner[k].lock_paths
                           \cup ({name} \cap (lock_files \cup partials) \cap Models)
           seen == cleaner[k].seen
                     \cup (({name} \cap (lock_files \cup partials)) \ Models)
           step == IF unread = {} THEN "probe" ELSE "list"
<1>1. /\ cleaner'[k] = [cleaner[k] EXCEPT !.unread = unread,
                                         !.lock_paths = lock_paths,
                                         !.seen = seen, !.step = step]
      /\ cleaner' = [cleaner EXCEPT ![k] = cleaner'[k]]
  BY DEF ReadEntry
<1>2. /\ unread \in SUBSET Names
      /\ lock_paths \in SUBSET Models
      /\ seen \in SUBSET (Preparers \cup {Legacy})
      /\ cleaner[k].held_models \in SUBSET Models
      /\ step \in CleanStep
  BY DEF CleanerState, CleanStep, Names
<1> HIDE DEF unread, lock_paths, seen, step
<1>3. [cleaner[k] EXCEPT !.unread = unread, !.lock_paths = lock_paths,
                         !.seen = seen, !.step = step] \in CleanerState
  <2>1. PICK c : c = cleaner[k]
    OBVIOUS
  <2>2. c \in CleanerState
    BY <2>1
  <2>3. [c EXCEPT !.unread = unread, !.lock_paths = lock_paths,
                  !.seen = seen, !.step = step] \in CleanerState
    BY <1>2, <2>2 DEF CleanerState
  <2>. QED
    BY <2>1, <2>3, Zenon
<1>4. cleaner'[k] \in CleanerState
  BY <1>1, <1>3, Zenon
<1>. QED
  BY <1>1, <1>4

(* ... and so has one that tried one more lock. *)
LEMMA TryHoldTyped ==
  ASSUME NEW k \in Cleaners, NEW m \in Models, TryHold(k, m),
         cleaner \in [Cleaners -> CleanerState]
  PROVE  /\ cleaner' \in [Cleaners -> CleanerState]
         /\ cleaner'[k].step = "probe"
         /\ cleaner'[k].seen = cleaner[k].seen
         /\ \A c \in Cleaners \ {k} : cleaner'[c] = cleaner[c]
BY DEF TryHold, CleanerState

(* A step of a prepare that leaves the cleaners alone. *)
LEMMA PrepareKeepsCleaners ==
  ASSUME WriterInv, CleanerInv, UNCHANGED <<cleaner, stale, model>>,
         lock_files' \subseteq Models,
         NEW p \in Preparers, pc[p] # "killed",
         partials' \subseteq partials \cup {p},
         p \in partials' => pc'[p] \in {"copy", "verify", "persist", "killed"},
         \A q \in Preparers \ {p} : pc'[q] = pc[q]
  PROVE  CleanerInv'
<1>1. CleanerTypes'
  BY DEF CleanerInv, CleanerTypes
<1>2. Owned'
  BY DEF CleanerInv, Owned
<1>3. \A k \in Cleaners : p \notin stale[k]
  BY DEF CleanerInv, Owned
<1>4. ASSUME NEW k \in Cleaners PROVE Sought(k)'
  BY <1>3 DEF CleanerInv, Sought, Unowned
<1>. QED
  BY <1>1, <1>2, <1>4 DEF CleanerInv

(* Every behaviour keeps the cleaner invariant. *)
THEOREM CleanerInvariant == Spec => []CleanerInv
<1> USE PrepareAssumption
<1>1. Init => CleanerInv
  BY DEF Init, CleanerInv, CleanerTypes, CleanerState, CleanStep, Owned, Sought
<1>2. WriterInv /\ CleanerInv /\ [Next]_vars => CleanerInv'
  <2> SUFFICES ASSUME WriterInv, CleanerInv, [Next]_vars PROVE CleanerInv'
    OBVIOUS
  <2> USE DEF Goto, directory, preparers
  <2>1. ASSUME NEW p \in Preparers, Start(p) \/ LockFails(p) \/ Kill(p)
        PROVE  CleanerInv'
    <3>1. /\ pc[p] # "killed"
          /\ p \in partials' => pc'[p] = "killed"
          /\ UNCHANGED <<cleaner, stale, model, lock_files, partials>>
          /\ \A q \in Preparers \ {p} : pc'[q] = pc[q]
      BY <2>1 DEF Start, LockFails, Kill, Running, WriterInv, Types, CleanerInv,
                  Owned
    <3>. QED
      BY <3>1, PrepareKeepsCleaners DEF CleanerInv, CleanerTypes
  <2>2. ASSUME NEW p \in Preparers, Acquire(p) PROVE CleanerInv'
    <3>1. /\ pc[p] # "killed" /\ lock_files' \subseteq Models
          /\ partials' \subseteq partials \cup {p}
          /\ p \in partials' => pc'[p] \in {"copy", "verify", "persist"}
          /\ UNCHANGED <<cleaner, stale, model>>
          /\ \A q \in Preparers \ {p} : pc'[q] = pc[q]
      <4> USE DEF WriterInv, Types, CleanerInv, CleanerTypes, Owned
      <4>1. CASE OpenLock(p) \/ TakeLock(p) \/ CheckFinal(p)
        BY <4>1 DEF OpenLock, TakeLock, CheckFinal
      <4>2. CASE RemoveStaleFinal(p) \/ Fetch(p) \/ Copy(p)
        BY <4>2 DEF RemoveStaleFinal, Fetch, Copy
      <4>3. CASE Verify(p) \/ Persist(p) \/ Unlock(p)
        BY <4>3 DEF Verify, Persist, Unlock
      <4>. QED
        BY <2>2, <4>1, <4>2, <4>3 DEF Acquire
    <3>. QED
      BY <3>1, PrepareKeepsCleaners
  <2> USE DEF CleanerInv, CleanerTypes, CleanerState, CleanStep, Owned, Sought,
              Unowned
  <2>3. ASSUME NEW k \in Cleaners, ReadDir(k) PROVE CleanerInv'
    <3>1. /\ cleaner'[k] = [cleaner[k] EXCEPT !.step = "list", !.unread = Names]
          /\ cleaner' = [cleaner EXCEPT ![k] = cleaner'[k]]
          /\ stale' = [stale EXCEPT ![k] = {name \in partials : Abandoned(name)}]
          /\ UNCHANGED <<lock_files, partials, pc, model>>
      BY <2>3 DEF ReadDir
    <3>2. cleaner'[k] \in CleanerState
      BY <3>1
    <3>3. CleanerTypes'
      <4> HIDE DEF CleanerState
      <4>. QED
        BY <3>1, <3>2
    <3>4. Owned'
      BY <3>1 DEF Abandoned, Running
    <3>5. Sought(k)'
      <4>1. cleaner'[k].step = "list" /\ cleaner'[k].unread = Names
        BY <3>1
      <4>. QED
        BY <3>1, <4>1 DEF Names
    <3>6. ASSUME NEW c \in Cleaners \ {k} PROVE Sought(c)'
      BY <3>1
    <3>. QED
      BY <3>3, <3>4, <3>5, <3>6
  <2>4. ASSUME NEW k \in Cleaners, NEW name \in Names, ReadEntry(k, name)
        PROVE  CleanerInv'
    <3> DEFINE unread == cleaner[k].unread \ {name}
               shown == {name} \cap (lock_files \cup partials)
    <3>1. /\ cleaner[k].step = "list"
          /\ cleaner'[k] = [cleaner[k] EXCEPT
                              !.unread = unread,
                              !.lock_paths = @ \cup (shown \cap Models),
                              !.seen = @ \cup (shown \ Models),
                              !.step = IF unread = {} THEN "probe" ELSE "list"]
          /\ cleaner' = [cleaner EXCEPT ![k] = cleaner'[k]]
          /\ UNCHANGED <<lock_files, partials, pc, model, stale>>
      BY <2>4 DEF ReadEntry
    <3>2. CleanerTypes'
      <4> HIDE DEF CleanerState
      <4>. QED
        BY <2>4, <3>1, ReadEntryTyped
    <3>3. Owned'
      BY <3>1
    <3>4. Sought(k)'
      <4>1. \A n \in stale[k] \cap partials :
              /\ n \in unread \/ n \in cleaner[k].seen \/ n \in shown \ Models
              /\ unread = {} => n \in cleaner[k].seen \/ n \in shown \ Models
        BY <3>1
      <4>. QED
        BY <3>1, <4>1
    <3>5. ASSUME NEW c \in Cleaners \ {k} PROVE Sought(c)'
      BY <3>1
    <3>. QED
      BY <3>2, <3>3, <3>4, <3>5
  <2>5. ASSUME NEW k \in Cleaners, NEW m \in Models, TryHold(k, m)
        PROVE  CleanerInv'
    <3>1. UNCHANGED <<lock_files, partials, pc, model, stale>>
      BY <2>5 DEF TryHold
    <3>2. /\ cleaner' \in [Cleaners -> CleanerState]
          /\ cleaner[k].step = "probe" /\ cleaner'[k].step = "probe"
          /\ cleaner'[k].seen = cleaner[k].seen
          /\ \A c \in Cleaners \ {k} : cleaner'[c] = cleaner[c]
      BY <2>5, TryHoldTyped DEF TryHold
    <3>3. CleanerTypes' /\ Owned'
      <4> HIDE DEF CleanerState
      <4>. QED
        BY <3>1, <3>2
    <3>4. ASSUME NEW c \in Cleaners PROVE Sought(c)'
      BY <3>1, <3>2
    <3>. QED
      BY <3>3, <3>4
  <2>6. ASSUME NEW k \in Cleaners, ProbedAll(k) PROVE CleanerInv'
    BY <2>6 DEF ProbedAll
  <2>7. ASSUME NEW k \in Cleaners, NEW name \in Preparers \cup {Legacy},
               RemovePartial(k, name)
        PROVE  CleanerInv'
    BY <2>7 DEF RemovePartial
  <2>8. ASSUME NEW k \in Cleaners, Release(k) \/ KillCleaner(k)
        PROVE  CleanerInv'
    BY <2>8 DEF Release, KillCleaner, Gone
  <2>9. CASE UNCHANGED vars
    BY <2>9 DEF vars
  <2>. QED
    BY <2>1, <2>2, <2>3, <2>4, <2>5, <2>6, <2>7, <2>8, <2>9 DEF Next, Clean
<1>. QED
  BY <1>1, <1>2, WriterInvariant, PTL DEF Spec

(* A cleaner that ends has removed what was abandoned when it started,     *)
(* unless it found the lock held (prepare.rs:258-276).                     *)
THEOREM CleanersFinishTheirWork == Spec => []AbandonedPartialsRemoved
<1>1. CleanerInv => AbandonedPartialsRemoved
  BY DEF CleanerInv, Sought, AbandonedPartialsRemoved
<1>. QED
  BY <1>1, CleanerInvariant, PTL

(* The state of the cache has its type. *)
THEOREM PrepareTypeCorrect == Spec => []TypeOK
<1>1. WriterInv /\ CleanerInv => TypeOK
  BY DEF WriterInv, Types, CleanerInv, CleanerTypes, TypeOK
<1>. QED
  BY <1>1, WriterInvariant, CleanerInvariant, PTL

-----------------------------------------------------------------------------
(* The probe.  If every model's lock file exists, what cleaner k does not  *)
(* hold when it comes to the files it has found held by somebody else.     *)
Probed(k) ==
  /\ cleaner[k].step = "list"
       => Models \subseteq cleaner[k].unread \cup cleaner[k].lock_paths
  /\ cleaner[k].step = "probe"
       => \A m \in Models : \/ m \in cleaner[k].lock_paths
                            \/ m \in cleaner[k].held_models
                            \/ lock[m] = k
  /\ cleaner[k].step = "remove"
       => \A m \in Models : m \in cleaner[k].held_models \/ lock[m] = k

ProbeInv ==
  /\ lock_files = Models
  /\ \A k \in Cleaners : Probed(k)
  /\ ActiveDownloadsUndisturbed

(* Where every lock file exists, every behaviour keeps the probe invariant. *)
THEOREM ProbeInvariant ==
  ASSUME LockFiles = Models PROVE Spec => []ProbeInv
<1> USE PrepareAssumption
<1>1. Init => ProbeInv
  BY LockFiles = Models DEF Init, ProbeInv, Probed, ActiveDownloadsUndisturbed
<1>2. WriterInv /\ CleanerInv /\ ProbeInv /\ [Next]_vars => ProbeInv'
  <2> SUFFICES ASSUME WriterInv, CleanerInv, ProbeInv, [Next]_vars
               PROVE  ProbeInv'
    OBVIOUS
  <2>0. /\ lock \in [Models -> Preparers \cup Cleaners \cup {Nobody}]
        /\ pc \in [Preparers -> PrepareStep]
        /\ model \in [Preparers -> Models]
        /\ cleaner \in [Cleaners -> CleanerState]
        /\ lock_files = Models
        /\ \A p \in Preparers : InLockedSection(p) => lock[model[p]] = p
    BY DEF WriterInv, Types, Knows, CleanerInv, CleanerTypes, ProbeInv
  <2> USE <2>0 DEF Goto, directory, preparers
  <2>1. ASSUME NEW p \in Preparers, Start(p) \/ Acquire(p) \/ LockFails(p) \/ Kill(p)
        PROVE  ProbeInv'
    <3>1. /\ lock_files' = Models
          /\ UNCHANGED cleaner
          /\ \A k \in Cleaners, m \in Models : lock[m] = k => lock'[m] = k
          /\ partials \ {p} \subseteq partials'
          /\ pc'[p] \in {"copy", "verify", "persist"} => p \in partials'
          /\ \A q \in Preparers \ {p} : pc'[q] = pc[q]
      <4> USE DEF ProbeInv, ActiveDownloadsUndisturbed
      <4>1. CASE Start(p) \/ LockFails(p) \/ Kill(p)
        BY <4>1 DEF Start, LockFails, Kill, Released
      <4>2. CASE OpenLock(p) \/ TakeLock(p) \/ CheckFinal(p)
        BY <4>2 DEF OpenLock, TakeLock, CheckFinal
      <4>3. CASE RemoveStaleFinal(p) \/ Fetch(p) \/ Copy(p)
        BY <4>3 DEF RemoveStaleFinal, Fetch, Copy
      <4>4. CASE Verify(p) \/ Persist(p)
        BY <4>4 DEF Verify, Persist
      <4>5. CASE Unlock(p)
        BY <4>5 DEF Unlock, InLockedSection
      <4>. QED
        BY <2>1, <4>1, <4>2, <4>3, <4>4, <4>5 DEF Acquire
    <3>2. ASSUME NEW k \in Cleaners PROVE Probed(k)'
      BY <3>1 DEF ProbeInv, Probed
    <3>3. ActiveDownloadsUndisturbed'
      BY <3>1 DEF ProbeInv, ActiveDownloadsUndisturbed
    <3>. QED
      BY <3>1, <3>2, <3>3 DEF ProbeInv
  <2>2. ASSUME NEW k \in Cleaners, ReadDir(k) PROVE ProbeInv'
    <3>1. ASSUME NEW c \in Cleaners PROVE Probed(c)'
      BY <2>2 DEF ReadDir, ProbeInv, Probed, Names, CleanerState
    <3>. QED
      BY <2>2, <3>1 DEF ReadDir, ProbeInv, ActiveDownloadsUndisturbed
  <2>3. ASSUME NEW k \in Cleaners, NEW name \in Names, ReadEntry(k, name)
        PROVE  ProbeInv'
    <3> DEFINE unread == cleaner[k].unread \ {name}
               shown == {name} \cap (lock_files \cup partials)
    <3>1. /\ cleaner[k].step = "list"
          /\ cleaner'[k].unread = unread
          /\ cleaner'[k].lock_paths = cleaner[k].lock_paths \cup (shown \cap Models)
          /\ cleaner'[k].step = IF unread = {} THEN "probe" ELSE "list"
          /\ \A c \in Cleaners \ {k} : cleaner'[c] = cleaner[c]
          /\ UNCHANGED <<lock_files, lock, partials, pc>>
      BY <2>3 DEF ReadEntry, CleanerState
    <3>2. Models \subseteq unread \cup cleaner'[k].lock_paths
      BY <3>1 DEF ProbeInv, Probed
    <3>3. Probed(k)'
      <4> HIDE DEF unread
      <4>. QED
        BY <3>1, <3>2 DEF Probed
    <3>4. ASSUME NEW c \in Cleaners \ {k} PROVE Probed(c)'
      BY <3>1 DEF ProbeInv, Probed
    <3>. QED
      BY <3>1, <3>3, <3>4 DEF ProbeInv, ActiveDownloadsUndisturbed
  <2>4. ASSUME NEW k \in Cleaners, NEW m \in Models, TryHold(k, m)
        PROVE  ProbeInv'
    <3>1. ASSUME NEW c \in Cleaners PROVE Probed(c)'
      BY <2>4 DEF TryHold, ProbeInv, Probed, CleanerState
    <3>. QED
      BY <2>4, <3>1 DEF TryHold, ProbeInv, ActiveDownloadsUndisturbed
  <2>5. ASSUME NEW k \in Cleaners, ProbedAll(k) PROVE ProbeInv'
    <3>1. ASSUME NEW c \in Cleaners PROVE Probed(c)'
      BY <2>5 DEF ProbedAll, ProbeInv, Probed, CleanerState
    <3>. QED
      BY <2>5, <3>1 DEF ProbedAll, ProbeInv, ActiveDownloadsUndisturbed
  <2>6. ASSUME NEW k \in Cleaners, NEW name \in Preparers \cup {Legacy},
               RemovePartial(k, name)
        PROVE  ProbeInv'
    <3>1. ASSUME NEW c \in Cleaners PROVE Probed(c)'
      BY <2>6 DEF RemovePartial, ProbeInv, Probed, CleanerState
    <3>2. ASSUME NEW p \in Preparers, pc[p] \in {"copy", "verify", "persist"}
          PROVE  p \in partials'
      <4>1. lock[model[p]] = p /\ p # k /\ p # Legacy
        BY <3>2 DEF InLockedSection
      <4>2. model[p] \in cleaner[k].held_models
        BY <2>6, <4>1 DEF RemovePartial, ProbeInv, Probed
      <4>. QED
        BY <2>6, <3>2, <4>1, <4>2
           DEF RemovePartial, Unowned, ProbeInv, ActiveDownloadsUndisturbed
    <3>. QED
      BY <2>6, <3>1, <3>2
         DEF RemovePartial, ProbeInv, ActiveDownloadsUndisturbed
  <2>7. ASSUME NEW k \in Cleaners, Release(k) \/ KillCleaner(k)
        PROVE  ProbeInv'
    <3>1. /\ cleaner'[k].step \in {"done", "failed"}
          /\ \A c \in Cleaners \ {k} :
               /\ cleaner'[c] = cleaner[c]
               /\ \A m \in Models : lock[m] = c => lock'[m] = c
          /\ UNCHANGED <<lock_files, partials, pc>>
      BY <2>7 DEF Release, KillCleaner, Gone, Released, CleanerState
    <3>2. ASSUME NEW c \in Cleaners PROVE Probed(c)'
      BY <3>1 DEF ProbeInv, Probed
    <3>. QED
      BY <3>1, <3>2 DEF ProbeInv, ActiveDownloadsUndisturbed
  <2>8. CASE UNCHANGED vars
    BY <2>8 DEF vars, ProbeInv, Probed, ActiveDownloadsUndisturbed
  <2>. QED
    BY <2>1, <2>2, <2>3, <2>4, <2>5, <2>6, <2>7, <2>8 DEF Next, Clean
<1>. QED
  BY <1>1, <1>2, WriterInvariant, CleanerInvariant, PTL DEF Spec

(* Where every lock file exists, no cleaner takes the file of a running    *)
(* download away (prepare.rs:207-212).                                     *)
THEOREM CleanersSpareDownloads ==
  ASSUME LockFiles = Models PROVE Spec => []ActiveDownloadsUndisturbed
<1>1. ProbeInv => ActiveDownloadsUndisturbed
  BY DEF ProbeInv
<1>. QED
  BY LockFiles = Models, <1>1, ProbeInvariant, PTL
=============================================================================
