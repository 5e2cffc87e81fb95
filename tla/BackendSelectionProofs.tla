----------------------- MODULE BackendSelectionProofs -----------------------
(***************************************************************************)
(* What BackendSelection guarantees for every number of processes, models, *)
(* identities and devices.  The inductive invariant follows a decision     *)
(* from the probe through the store to the process that uses it.           *)
(***************************************************************************)
EXTENDS BackendSelection, WellFoundedInduction, TLAPS

(* The first candidate of a set is in it. *)
LEMMA FirstIsLeast ==
  ASSUME NEW S \in SUBSET Nat, S # {}
  PROVE  First(S) \in S /\ \A j \in S : First(S) <= j
<1> DEFINE R == {ss \in Nat \X Nat : ss[1] < ss[2]}
<1>1. IsWellFoundedOn(R, Nat)
  BY NatLessThanWellFounded, Zenon DEF OpToRel
<1>2. PICK i \in S : \A j \in S : ~ (<<j, i>> \in R)
  <2> HIDE DEF R
  <2>. QED
    BY <1>1, WFMin
<1>3. ASSUME NEW j \in S PROVE i <= j
  <2>1. <<j, i>> \notin R /\ <<j, i>> \in Nat \X Nat
    BY <1>2
  <2>2. ~ (j < i)
    BY <2>1, Zenon
  <2>. QED
    BY <2>2
<1>. QED
  BY <1>3 DEF First

(* One of the candidates that were timed is the fastest. *)
LEMMA FastestExists ==
  ASSUME NEW S \in SUBSET Nat, S # {}, NEW times \in [S -> Nat]
  PROVE  First({i \in S : \A j \in S : times[i] <= times[j]}) \in S
<1> DEFINE T == {times[i] : i \in S}
           F == {i \in S : \A j \in S : times[i] <= times[j]}
<1>1. T \in SUBSET Nat /\ T # {}
  OBVIOUS
<1>2. First(T) \in T /\ \A t \in T : First(T) <= t
  BY <1>1, FirstIsLeast
<1>3. PICK i \in S : times[i] = First(T)
  BY <1>2
<1>4. \A j \in S : times[i] <= times[j]
  BY <1>2, <1>3
<1>5. F # {} /\ F \in SUBSET Nat /\ F \subseteq S
  BY <1>4
<1>. QED
  BY <1>5, FirstIsLeast

(* A device of the decision's backend was measured to be faster than the  *)
(* CPU under the decision's key, and a device it names is of that backend. *)
Backed(k, choice) ==
  choice.resolved # "cpu" =>
    LET devices == DevicesOf[k[2]]
    IN  /\ \E i \in DOMAIN devices :
             devices[i] = choice.resolved /\ <<k, i>> \in measured
        /\ choice.device # 0 => /\ choice.device \in DOMAIN devices
                                /\ devices[choice.device] = choice.resolved

(* The device it names is the one that was measured. *)
Timed(k, choice) ==
  choice.resolved # "cpu" /\ choice.device # 0
    => <<k, choice.device>> \in measured

(* A decision tells why it is not what was requested. *)
Explained(choice) ==
  /\ choice.requested # choice.resolved <=> choice.degraded_reason # "none"
  /\ choice.resolved \in choice.capabilities \cup {"cpu"}

StoreSound ==
  \A k \in Keys :
    store[k] # NoChoice =>
      /\ k[2] \notin Uncacheable
      /\ Backed(k, store[k]) /\ Timed(k, store[k]) /\ Explained(store[k])

Locked == {"read", "rename", "unlock"}

(* Inside mutate_runtime_cache: who holds the lock has read the store as   *)
(* it is, or nothing.                                                      *)
Locking(p) ==
  /\ lock = p <=> pc[p] \in Locked
  /\ pc[p] = "rename" => snapshot[p] = IF p \in misread THEN Empty ELSE store
  /\ pc[p] \in {"lock"} \cup Locked => cache_key[p] = "set" /\ mutation[p] # "none"
  /\ cache_key[p] = "set" => /\ forced[p] = "none"
                             /\ failures[p] = {}
                             /\ key[p][2] \notin Uncacheable
                             /\ p \notin incomplete

(* What a process has decided at each of its steps. *)
Decided(p) ==
  /\ pc[p] \in {"new", "modules", "select", "probe"} =>
       /\ selection[p] = Cpu({}) /\ cache_key[p] = "none" /\ mutation[p] = "none"
       /\ p \notin assumed /\ p \notin incomplete
  /\ pc[p] \in {"select", "probe"} => forced[p] # "cpu"
  /\ pc[p] = "final" => mutation[p] # "remove"
  /\ pc[p] = "fallback" => mutation[p] = "remove"
  /\ mutation[p] = "insert" => p \notin assumed
  /\ mutation[p] = "remove" =>
       IF pc[p] = "loaded"
         THEN selection[p].requested \notin selection[p].capabilities \cup {"cpu"}
         ELSE selection[p].resolved # "cpu"
  /\ selection[p].resolved # "cpu" => selection[p].device # 0
  /\ Backed(key[p], selection[p])
  /\ p \notin assumed => Timed(key[p], selection[p])
  /\ Explained(selection[p])

SelectionInv ==
  /\ TypeOK
  /\ StoreSound
  /\ \A p \in Procs : Locking(p) /\ Decided(p)

(* A process's key names an identity with its devices. *)
LEMMA KeysDevices ==
  ASSUME TypeOK, NEW p \in Procs
  PROVE  /\ key[p] \in Keys /\ key[p][2] \in Identities
         /\ DevicesOf[key[p][2]] \in Seq(Accelerators)
         /\ Devices(p) \in SUBSET (Nat \ {0})
         /\ \A i \in Devices(p) :
              i \in DOMAIN DevicesOf[key[p][2]] /\ Device(p, i) \in Accelerators
<1>1. key[p] \in Keys /\ key[p][2] \in Identities
  BY DEF TypeOK, Keys
<1>2. DevicesOf[key[p][2]] \in Seq(Accelerators)
  BY <1>1, SelectionAssumption
<1>. QED
  BY <1>1, <1>2 DEF Devices, Device

(* The verdict of the probes is a decision, a device wins only if it was   *)
(* measured to be faster than the CPU, and the reason is there if none is. *)
LEMMA VerdictSound ==
  ASSUME TypeOK, NEW p \in Procs, forced[p] # "cpu",
         NEW usable \in SUBSET Candidates(p), NEW times \in [usable -> Speeds]
  PROVE  LET verdict == Verdict(p, times, usable)
         IN  /\ verdict \in Choices
             /\ Explained(verdict)
             /\ verdict.resolved # "cpu" =>
                  /\ verdict.device \in usable
                  /\ times[verdict.device] < CpuSpeed
                  /\ Device(p, verdict.device) = verdict.resolved
<1> DEFINE verdict == Verdict(p, times, usable)
           fastest == First({i \in usable : \A j \in usable : times[i] <= times[j]})
           backends(devices) == {Device(p, i) : i \in devices}
           capabilities ==
             Capabilities(p) \ (backends(Candidates(p) \ usable) \ backends(usable))
<1>1. /\ Candidates(p) \subseteq Devices(p) /\ usable \in SUBSET Nat
      /\ usable \subseteq Devices(p)
      /\ times \in [usable -> Nat]
  BY KeysDevices, SelectionAssumption DEF Candidates
<1>2. usable # {} => fastest \in usable
  BY <1>1, FastestExists
<1>3. /\ capabilities \in SUBSET Accelerators
      /\ \A i \in usable : Device(p, i) \in capabilities /\ i # 0
  BY <1>1, KeysDevices DEF Capabilities
<1>4. Requested(p) \in Backends \cup {"unknown"}
  <2>1. CASE forced[p] # "none"
    BY <2>1 DEF Requested, TypeOK, Backends
  <2>2. CASE forced[p] = "none" /\ Candidates(p) # {}
    <3>1. First(Candidates(p)) \in Candidates(p)
      BY <1>1, <2>2, FirstIsLeast, KeysDevices
    <3>. QED
      BY <2>2, <3>1, <1>1, KeysDevices DEF Requested, Backends
  <2>3. CASE forced[p] = "none" /\ Candidates(p) = {}
    BY <2>3, SelectionAssumption DEF Requested, Backends, Accelerators
  <2>. QED
    BY <2>1, <2>2, <2>3
<1>5. CASE usable # {} /\ Faster(times[fastest])
  <2>1. verdict = Selection(Device(p, fastest), Device(p, fastest), fastest,
                            "none", capabilities)
    BY <1>5 DEF Verdict
  <2>2. Device(p, fastest) \in Accelerators /\ fastest \in Nat
    BY <1>1, <1>2, <1>5, KeysDevices
  <2>. QED
    BY <1>2, <1>3, <1>5, <2>1, <2>2
       DEF Selection, Choices, Explained, Backends, Reasons, Faster
<1>6. CASE ~(usable # {} /\ Faster(times[fastest])) /\ Requested(p) # "cpu"
  <2>1. PICK reason \in {"slower", "failed", "unavailable"} :
          verdict = DegradedToCpu(Requested(p), reason, capabilities)
    BY <1>6, Zenon DEF Verdict
  <2>. QED
    BY <1>3, <1>4, <1>6, <2>1
       DEF DegradedToCpu, Selection, Choices, Explained, Backends, Reasons
<1>7. CASE ~(usable # {} /\ Faster(times[fastest])) /\ Requested(p) = "cpu"
  <2>1. verdict = Cpu(capabilities)
    BY <1>7 DEF Verdict
  <2>. QED
    BY <1>3, <2>1 DEF Cpu, Selection, Choices, Explained, Backends, Reasons
<1>. QED
  BY <1>5, <1>6, <1>7

(* A decision from the store, with the index an old one lacks, is backed   *)
(* by the measurement it was stored for.                                   *)
LEMMA IndexedSound ==
  ASSUME TypeOK, StoreSound, NEW p \in Procs,
         Cacheable(p), store[key[p]] # NoChoice
  PROVE  LET choice == Indexed(p, store[key[p]])
         IN  /\ choice \in Choices
             /\ Explained(choice)
             /\ choice.resolved # "cpu" => choice.device # 0
             /\ Backed(key[p], choice)
             /\ ~Unindexed(store[key[p]]) => Timed(key[p], choice)
<1> DEFINE old == store[key[p]]
           same == {i \in Devices(p) : Device(p, i) = old.resolved}
<1>1. /\ key[p] \in Keys /\ old \in Choices
      /\ Backed(key[p], old) /\ Timed(key[p], old) /\ Explained(old)
  BY KeysDevices DEF TypeOK, StoreSound
<1>2. CASE Unindexed(old)
  <2>1. PICK i \in DOMAIN DevicesOf[key[p][2]] :
          DevicesOf[key[p][2]][i] = old.resolved /\ <<key[p], i>> \in measured
    BY <1>1, <1>2 DEF Backed, Unindexed
  <2>2. i \in same /\ same \in SUBSET (Nat \ {0})
    BY <2>1, KeysDevices DEF Devices, Device, Cacheable
  <2>3. First(same) \in same
    BY <2>2, FirstIsLeast
  <2>4. /\ First(same) \in DOMAIN DevicesOf[key[p][2]] /\ First(same) \in Nat \ {0}
        /\ DevicesOf[key[p][2]][First(same)] = old.resolved
    BY <2>2, <2>3, KeysDevices DEF Device
  <2>5. Indexed(p, old) = [old EXCEPT !.device = First(same)]
    BY <1>2 DEF Indexed
  <2> HIDE DEF same
  <2>. QED
    BY <1>1, <1>2, <2>1, <2>4, <2>5 DEF Choices, Explained, Backed, Unindexed
<1>3. CASE ~Unindexed(old)
  <2>1. Indexed(p, old) = old
    BY <1>3 DEF Indexed
  <2>. QED
    BY <1>1, <1>3, <2>1 DEF Unindexed
<1>. QED
  BY <1>2, <1>3

(* Decisions for the CPU. *)
LEMMA CpuDecisions ==
  /\ NoChoice \in Choices
  /\ Empty \in [Keys -> Choices] /\ \A k \in Keys : Empty[k] = NoChoice
  /\ Cpu({}) \in Choices /\ Cpu({}).resolved = "cpu" /\ Explained(Cpu({}))
<1>1. NoChoice \in Choices
  BY DEF NoChoice, DegradedToCpu, Selection, Choices, Backends, Reasons
<1>. QED
  BY <1>1 DEF Empty, Cpu, Selection, Choices, Backends, Reasons, Explained

LEMMA DegradedDecision ==
  ASSUME NEW requested \in (Backends \cup {"unknown"}) \ {"cpu"},
         NEW reason \in Reasons \ {"none"},
         NEW capabilities \in SUBSET Accelerators
  PROVE  LET choice == DegradedToCpu(requested, reason, capabilities)
         IN  /\ choice \in Choices /\ Explained(choice)
             /\ choice.resolved = "cpu" /\ choice.requested = requested
             /\ choice.capabilities = capabilities
BY DEF DegradedToCpu, Selection, Choices, Backends, Reasons, Explained

(* A step that another process takes. *)
Untouched(q) ==
  /\ pc'[q] = pc[q] /\ forced'[q] = forced[q] /\ key'[q] = key[q]
  /\ failures'[q] = failures[q] /\ selection'[q] = selection[q]
  /\ cache_key'[q] = cache_key[q] /\ mutation'[q] = mutation[q]
  /\ q \in assumed' <=> q \in assumed
  /\ q \in incomplete' <=> q \in incomplete
  /\ lock' = q <=> lock = q
  /\ measured \subseteq measured'
  /\ pc[q] = "rename" => /\ snapshot'[q] = snapshot[q] /\ store' = store
                         /\ q \in misread' <=> q \in misread

(* It disturbs nothing the invariant says of q. *)
LEMMA UntouchedKept ==
  ASSUME NEW q \in Procs, Locking(q), Decided(q), Untouched(q)
  PROVE  Locking(q)' /\ Decided(q)'
<1>1. Locking(q)'
  BY DEF Untouched, Locking, Locked
<1>2. Backed(key[q], selection[q])' /\ (q \notin assumed => Timed(key[q], selection[q]))'
  BY DEF Untouched, Decided, Backed, Timed
<1>. QED
  BY <1>1, <1>2 DEF Untouched, Decided

(* Every behaviour of the processes keeps the inductive invariant. *)
THEOREM SelectionInvariant == Spec => []SelectionInv
<1> USE SelectionAssumption
<1>1. Init => SelectionInv
  <2> SUFFICES ASSUME Init PROVE SelectionInv
    OBVIOUS
  <2>1. NoChoice \in Choices /\ Cpu({}) \in Choices /\ Explained(Cpu({}))
    BY DEF NoChoice, Cpu, DegradedToCpu, Selection, Choices, Backends, Reasons,
           Explained
  <2>2. PICK won \in [Keys -> UNION {Winners(k) : k \in Keys}] :
          /\ \A k \in Keys : won[k] \in Winners(k)
          /\ store = [k \in Keys |-> LegacyChoice(k, won[k])]
          /\ measured = {<<k, won[k]>> : k \in {j \in Keys : won[j] # 0}}
    BY DEF Init
  <2>3. ASSUME NEW k \in Keys
        PROVE  /\ store[k] \in Choices /\ won[k] \in Nat
               /\ store[k] # NoChoice =>
                    /\ k[2] \notin Uncacheable
                    /\ Backed(k, store[k]) /\ Timed(k, store[k])
                    /\ Explained(store[k])
    <3>1. k[2] \in Identities /\ DevicesOf[k[2]] \in Seq(Accelerators)
      BY DEF Keys
    <3>2. won[k] \in Winners(k) /\ store[k] = LegacyChoice(k, won[k])
      BY <2>2
    <3>3. CASE won[k] = 0
      BY <2>1, <3>2, <3>3 DEF LegacyChoice
    <3>4. CASE won[k] # 0
      <4>1. /\ won[k] \in DOMAIN DevicesOf[k[2]] /\ k[2] \notin Uncacheable
            /\ <<k, won[k]>> \in measured
        BY <2>2, <3>2, <3>4 DEF Winners
      <4>2. /\ DevicesOf[k[2]][won[k]] \in Accelerators /\ won[k] \in Nat
            /\ {DevicesOf[k[2]][i] : i \in DOMAIN DevicesOf[k[2]]}
                 \in SUBSET Accelerators
            /\ DevicesOf[k[2]][won[k]]
                 \in {DevicesOf[k[2]][i] : i \in DOMAIN DevicesOf[k[2]]}
        BY <3>1, <4>1
      <4>3. store[k] = Selection(DevicesOf[k[2]][won[k]], DevicesOf[k[2]][won[k]],
                         0, "none",
                         {DevicesOf[k[2]][i] : i \in DOMAIN DevicesOf[k[2]]})
        BY <3>2, <3>4 DEF LegacyChoice
      <4>. QED
        BY <4>1, <4>2, <4>3
           DEF Selection, Choices, Backends, Reasons, Explained, Backed, Timed
    <3>. QED
      BY <3>3, <3>4
  <2>4. TypeOK /\ StoreSound
    <3>1. store \in [Keys -> Choices] /\ measured \subseteq Keys \X Nat
      BY <2>2, <2>3
    <3>2. TypeOK
      <4>1. key \in [Procs -> Keys]
        BY DEF Init, Keys
      <4>2. snapshot \in [Procs -> [Keys -> Choices]]
        BY <2>1 DEF Init, Empty
      <4>. QED
        BY <2>1, <3>1, <4>1, <4>2 DEF Init, TypeOK, Ended, Backends
    <3>. QED
      BY <2>3, <3>2 DEF StoreSound
  <2>5. ASSUME NEW p \in Procs PROVE Locking(p) /\ Decided(p)
    BY <2>1 DEF Init, Locking, Locked, Decided, Backed, Timed, Cpu, Selection
  <2>. QED
    BY <2>4, <2>5 DEF SelectionInv
<1>2. SelectionInv /\ [Next]_vars => SelectionInv'
  <2> SUFFICES ASSUME TypeOK, StoreSound, [Next]_vars,
                      \A p \in Procs : Locking(p) /\ Decided(p)
               PROVE  SelectionInv'
    BY DEF SelectionInv
  <2> USE DEF shared, history, Goto, Select
  <2>1. CASE ChangeMachine
    <3>1. TypeOK' /\ StoreSound'
      BY <2>1 DEF ChangeMachine, TypeOK, StoreSound, Backed, Timed
    <3>2. ASSUME NEW q \in Procs PROVE Untouched(q)
      BY <2>1 DEF ChangeMachine, Untouched
    <3>. QED
      BY <3>1, <3>2, UntouchedKept DEF SelectionInv
  <2>2. ASSUME NEW p \in Procs, NEW model \in Models, NEW force \in Backends \cup {"none", "unknown"},
               Start(p, model, force)
        PROVE  SelectionInv'
    <3>1. TypeOK'
      BY <2>2 DEF Start, Keys, TypeOK, Ended
    <3>2. StoreSound'
      BY <2>2 DEF Start, Keys, StoreSound, Backed, Timed
    <3>3. Locking(p)'
      BY <2>2 DEF Start, Keys, TypeOK, Locking, Locked, Decided
    <3>4. Decided(p)'
      <4>1. /\ pc[p] = "new" /\ pc'[p] = "modules"
            /\ selection[p] = Cpu({}) /\ cache_key[p] = "none"
            /\ mutation[p] = "none" /\ p \notin assumed /\ p \notin incomplete
            /\ UNCHANGED <<selection, cache_key, mutation, assumed, incomplete>>
        BY <2>2 DEF Start, TypeOK, Decided
      <4>. QED
        BY <4>1, CpuDecisions DEF Decided, Backed, Timed
    <3>5. ASSUME NEW q \in Procs \ {p} PROVE Untouched(q)
      BY <2>2 DEF Start, Keys, Untouched, TypeOK, Locking, Locked
    <3>. QED
      BY <3>1, <3>2, <3>3, <3>4, <3>5, UntouchedKept DEF SelectionInv
  <2>3. ASSUME NEW p \in Procs, ForcedCpu(p) PROVE SelectionInv'
    <3>1. TypeOK'
      BY <2>3, CpuDecisions DEF ForcedCpu, TypeOK, Ended
    <3>2. StoreSound'
      BY <2>3 DEF ForcedCpu, StoreSound, Backed, Timed
    <3>3. Locking(p)'
      BY <2>3 DEF ForcedCpu, TypeOK, Locking, Locked
    <3>4. Decided(p)'
      <4>1. /\ selection'[p] = Cpu({}) /\ pc'[p] = "final"
            /\ UNCHANGED <<mutation, assumed>>
        BY <2>3 DEF ForcedCpu, TypeOK
      <4>2. mutation[p] = "none" /\ p \notin assumed
        BY <2>3 DEF ForcedCpu, Decided
      <4>. QED
        BY <4>1, <4>2, CpuDecisions DEF Decided, Backed, Timed
    <3>5. ASSUME NEW q \in Procs \ {p} PROVE Untouched(q)
      BY <2>3 DEF ForcedCpu, Untouched, TypeOK, Locking, Locked
    <3>. QED
      BY <3>1, <3>2, <3>3, <3>4, <3>5, UntouchedKept DEF SelectionInv
  <2>4. ASSUME NEW p \in Procs, NEW lost \in SUBSET Accelerators,
               Discover(p, lost)
        PROVE  SelectionInv'
    <3>1. TypeOK'
      BY <2>4 DEF Discover, Keys, TypeOK, Ended
    <3>2. StoreSound'
      BY <2>4 DEF Discover, Keys, StoreSound, Backed, Timed
    <3>3. Locking(p)'
      BY <2>4 DEF Discover, Keys, TypeOK, Locking, Locked, Decided
    <3>4. Decided(p)'
      BY <2>4, CpuDecisions DEF Discover, TypeOK, Decided, Backed, Timed
    <3>5. ASSUME NEW q \in Procs \ {p} PROVE Untouched(q)
      BY <2>4 DEF Discover, Keys, Untouched, TypeOK, Locking, Locked
    <3>. QED
      BY <3>1, <3>2, <3>3, <3>4, <3>5, UntouchedKept DEF SelectionInv
  <2>5. ASSUME NEW p \in Procs, CpuFails(p) PROVE SelectionInv'
    <3>1. TypeOK'
      BY <2>5, CpuDecisions DEF CpuFails, End, TypeOK, Ended
    <3>2. StoreSound'
      BY <2>5 DEF CpuFails, End, StoreSound, Backed, Timed
    <3>3. Locking(p)'
      BY <2>5, CpuDecisions DEF CpuFails, End, TypeOK, Locking, Locked
    <3>4. Decided(p)'
      BY <2>5, CpuDecisions DEF CpuFails, End, TypeOK, Decided, Backed, Timed
    <3>5. ASSUME NEW q \in Procs \ {p} PROVE Untouched(q)
      BY <2>5 DEF CpuFails, End, Untouched, TypeOK, Locking, Locked
    <3>. QED
      BY <3>1, <3>2, <3>3, <3>4, <3>5, UntouchedKept DEF SelectionInv
  <2>6. ASSUME NEW p \in Procs, ForcedUnavailable(p) PROVE SelectionInv'
    <3>0. /\ selection'[p].resolved = "cpu" /\ Explained(selection'[p])
          /\ \E choice \in Choices :
               selection' = [selection EXCEPT ![p] = choice]
      <4>1. forced[p] \in (Backends \cup {"unknown"}) \ {"cpu"}
        BY <2>6 DEF ForcedUnavailable, TypeOK, Decided
      <4> DEFINE reason == IF forced[p] = "unknown" THEN "unknown"
                           ELSE IF failures[p] = {} THEN "unavailable" ELSE "failed"
                 choice == DegradedToCpu(forced[p], reason, {})
      <4>2. reason \in Reasons \ {"none"}
        BY DEF Reasons
      <4>3. choice \in Choices /\ Explained(choice) /\ choice.resolved = "cpu"
        <5> HIDE DEF reason
        <5>. QED
          BY <4>1, <4>2, DegradedDecision
      <4>4. selection' = [selection EXCEPT ![p] = choice]
        BY <2>6 DEF ForcedUnavailable
      <4> HIDE DEF choice
      <4>. QED
        BY <4>3, <4>4 DEF TypeOK
    <3>1. TypeOK'
      BY <2>6, <3>0 DEF ForcedUnavailable, TypeOK, Ended
    <3>2. StoreSound'
      BY <2>6 DEF ForcedUnavailable, StoreSound, Backed, Timed
    <3>3. Locking(p)'
      BY <2>6 DEF ForcedUnavailable, TypeOK, Locking, Locked
    <3>4. Decided(p)'
      <4>1. pc'[p] = "final" /\ mutation'[p] = "none"
        BY <2>6 DEF ForcedUnavailable, TypeOK, Decided
      <4>. QED
        BY <3>0, <4>1 DEF Decided, Backed, Timed
    <3>5. ASSUME NEW q \in Procs \ {p} PROVE Untouched(q)
      BY <2>6 DEF ForcedUnavailable, Untouched, TypeOK, Locking, Locked
    <3>. QED
      BY <3>1, <3>2, <3>3, <3>4, <3>5, UntouchedKept DEF SelectionInv
  <2>7. ASSUME NEW p \in Procs, CacheHit(p) PROVE SelectionInv'
    <3>1. TypeOK'
      BY <2>7, IndexedSound DEF CacheHit, Cacheable, TypeOK, Ended
    <3>2. StoreSound'
      BY <2>7 DEF CacheHit, Cacheable, StoreSound, Backed, Timed
    <3>3. Locking(p)'
      BY <2>7 DEF CacheHit, Cacheable, TypeOK, Locking, Locked, Decided
    <3>4. Decided(p)'
      <4> DEFINE choice == Indexed(p, store[key[p]])
      <4>1. /\ choice \in Choices /\ Explained(choice)
            /\ choice.resolved # "cpu" => choice.device # 0
            /\ Backed(key[p], choice)
            /\ ~Unindexed(store[key[p]]) => Timed(key[p], choice)
        BY <2>7, IndexedSound DEF CacheHit
      <4>2. /\ selection'[p] = choice /\ pc'[p] = "final"
            /\ mutation'[p] = "none"
            /\ UNCHANGED <<key, measured>>
            /\ p \notin assumed' => ~Unindexed(store[key[p]])
        BY <2>7 DEF CacheHit, TypeOK, Decided
      <4> HIDE DEF choice
      <4>3. /\ Backed(key[p], selection[p])'
            /\ p \notin assumed' => Timed(key[p], selection[p])'
        BY <4>1, <4>2 DEF Backed, Timed
      <4>. QED
        BY <4>1, <4>2, <4>3 DEF Decided
    <3>5. ASSUME NEW q \in Procs \ {p} PROVE Untouched(q)
      BY <2>7 DEF CacheHit, Cacheable, Untouched, TypeOK, Locking, Locked
    <3>. QED
      BY <3>1, <3>2, <3>3, <3>4, <3>5, UntouchedKept DEF SelectionInv
  <2>8. ASSUME NEW p \in Procs, CacheMiss(p) PROVE SelectionInv'
    <3>1. TypeOK'
      BY <2>8 DEF CacheMiss, TypeOK, Ended
    <3>2. StoreSound'
      BY <2>8 DEF CacheMiss, StoreSound, Backed, Timed
    <3>3. Locking(p)'
      BY <2>8 DEF CacheMiss, TypeOK, Locking, Locked
    <3>4. Decided(p)'
      BY <2>8 DEF CacheMiss, TypeOK, Decided, Backed, Timed
    <3>5. ASSUME NEW q \in Procs \ {p} PROVE Untouched(q)
      BY <2>8 DEF CacheMiss, Untouched, TypeOK, Locking, Locked
    <3>. QED
      BY <3>1, <3>2, <3>3, <3>4, <3>5, UntouchedKept DEF SelectionInv
  <2>9. ASSUME NEW p \in Procs, NEW usable \in SUBSET Candidates(p), NEW times \in [usable -> Speeds],
               pc[p] = "probe", Probe(p, times, usable)
        PROVE  SelectionInv'
    <3> DEFINE verdict == Verdict(p, times, usable)
    <3>0. /\ verdict \in Choices /\ Explained(verdict)
          /\ verdict.resolved # "cpu" =>
               /\ verdict.device \in usable
               /\ times[verdict.device] < CpuSpeed
               /\ Device(p, verdict.device) = verdict.resolved
          /\ selection' = [selection EXCEPT ![p] = verdict]
          /\ selection'[p] = verdict
      <4>1. forced[p] # "cpu"
        BY <2>9 DEF Probe, Decided
      <4>2. selection' = [selection EXCEPT ![p] = verdict]
        BY <2>9 DEF Probe
      <4>. QED
        BY <4>1, <4>2, VerdictSound DEF TypeOK
    <3> HIDE DEF verdict
    <3>1. TypeOK'
      <4>1. /\ selection' \in [Procs -> Choices]
            /\ measured' \subseteq Keys \X Nat
        BY <2>9, <3>0, KeysDevices DEF Probe, TypeOK, Candidates
      <4>. QED
        BY <2>9, <4>1 DEF Probe, TypeOK, Ended
    <3>2. StoreSound'
      BY <2>9 DEF Probe, Cacheable, Complete, StoreSound, Backed, Timed
    <3>3. Locking(p)'
      BY <2>9 DEF Probe, Cacheable, Complete, TypeOK, Locking, Locked, Decided
    <3>4. Decided(p)'
      <4>1. \/ /\ Backed(key[p], selection[p])' /\ Timed(key[p], selection[p])'
               /\ selection'[p].device # 0
            \/ selection'[p].resolved = "cpu"
        <5> SUFFICES ASSUME verdict.resolved # "cpu"
                     PROVE  /\ Backed(key[p], selection[p])'
                            /\ Timed(key[p], selection[p])'
                            /\ verdict.device # 0
          BY <3>0
        <5>1. verdict.device \in Devices(p) /\ verdict.device # 0
          BY <3>0, KeysDevices DEF Candidates
        <5>2. <<key[p], verdict.device>> \in measured'
          BY <2>9, <3>0, KeysDevices DEF Probe
        <5>. QED
          BY <2>9, <3>0, <5>1, <5>2, KeysDevices DEF Probe, Backed, Timed, Device, Devices
      <4>2. /\ pc'[p] \in {"lock", "final"} /\ mutation'[p] \in {"insert", "none"}
            /\ p \notin assumed'
        BY <2>9 DEF Probe, TypeOK, Decided
      <4>. QED
        BY <3>0, <4>1, <4>2 DEF Decided, Backed, Timed
    <3>5. ASSUME NEW q \in Procs \ {p} PROVE Untouched(q)
      BY <2>9 DEF Probe, Cacheable, Complete, Untouched, TypeOK, Locking, Locked
    <3>. QED
      BY <3>1, <3>2, <3>3, <3>4, <3>5, UntouchedKept DEF SelectionInv
  <2>10. ASSUME NEW p \in Procs, TakeLock(p) PROVE SelectionInv'
    <3>1. TypeOK'
      BY <2>10 DEF TakeLock, TypeOK, Ended
    <3>2. StoreSound'
      BY <2>10 DEF TakeLock, StoreSound, Backed, Timed
    <3>3. Locking(p)'
      BY <2>10 DEF TakeLock, TypeOK, Locking, Locked
    <3>4. Decided(p)'
      BY <2>10 DEF TakeLock, TypeOK, Decided, Backed, Timed
    <3>5. ASSUME NEW q \in Procs \ {p} PROVE Untouched(q)
      BY <2>10 DEF TakeLock, Untouched, TypeOK, Locking, Locked
    <3>. QED
      BY <3>1, <3>2, <3>3, <3>4, <3>5, UntouchedKept DEF SelectionInv
  <2>11. ASSUME NEW p \in Procs, LockFails(p) PROVE SelectionInv'
    <3>1. TypeOK'
      BY <2>11 DEF LockFails, Return, TypeOK, Ended
    <3>2. StoreSound'
      BY <2>11 DEF LockFails, Return, StoreSound, Backed, Timed
    <3>3. Locking(p)'
      BY <2>11 DEF LockFails, Return, TypeOK, Locking, Locked
    <3>4. Decided(p)'
      BY <2>11 DEF LockFails, Return, TypeOK, Decided, Backed, Timed, Locking, Locked
    <3>5. ASSUME NEW q \in Procs \ {p} PROVE Untouched(q)
      BY <2>11 DEF LockFails, Return, Untouched, TypeOK, Locking, Locked
    <3>. QED
      BY <3>1, <3>2, <3>3, <3>4, <3>5, UntouchedKept DEF SelectionInv
  <2>12. ASSUME NEW p \in Procs, ReadStore(p) PROVE SelectionInv'
    <3>1. TypeOK'
      <4>1. /\ snapshot' = [snapshot EXCEPT ![p] = store]
               \/ snapshot' = [snapshot EXCEPT ![p] = Empty]
            /\ misread' = misread \ {p} \/ misread' = misread \cup {p}
            /\ pc' = [pc EXCEPT ![p] = "rename"]
            /\ UNCHANGED <<shared, forced, key, failures, selection, cache_key,
                           mutation, measured, assumed, incomplete, floorless>>
        BY <2>12 DEF ReadStore
      <4>2. snapshot' \in [Procs -> [Keys -> Choices]]
        BY <4>1, CpuDecisions DEF TypeOK
      <4>. QED
        BY <4>1, <4>2 DEF TypeOK, Ended
    <3>2. StoreSound'
      BY <2>12 DEF ReadStore, StoreSound, Backed, Timed
    <3>3. Locking(p)'
      BY <2>12 DEF ReadStore, TypeOK, Locking, Locked
    <3>4. Decided(p)'
      BY <2>12, CpuDecisions DEF ReadStore, TypeOK, Decided, Backed, Timed
    <3>5. ASSUME NEW q \in Procs \ {p} PROVE Untouched(q)
      BY <2>12 DEF ReadStore, Untouched, TypeOK, Locking, Locked
    <3>. QED
      BY <3>1, <3>2, <3>3, <3>4, <3>5, UntouchedKept DEF SelectionInv
  <2>13. ASSUME NEW p \in Procs, Rename(p) PROVE SelectionInv'
    <3>1. TypeOK'
      <4>1. Mutated(p) \in [Keys -> Choices]
        BY CpuDecisions DEF Mutated, TypeOK
      <4>. QED
        BY <2>13, <4>1 DEF Rename, TypeOK, Ended
    <3>2. StoreSound'
      <4>1. CASE UNCHANGED store
        BY <2>13, <4>1 DEF Rename, StoreSound, Backed, Timed
      <4>2. CASE store' = Mutated(p)
        <5>1. /\ snapshot[p] \in [Keys -> Choices] /\ key[p] \in Keys
              /\ key[p][2] \notin Uncacheable
              /\ snapshot[p] = IF p \in misread THEN Empty ELSE store
              /\ Backed(key[p], selection[p]) /\ Explained(selection[p])
              /\ mutation[p] = "insert" => Timed(key[p], selection[p])
              /\ UNCHANGED measured
          BY <2>13 DEF Rename, TypeOK, Locking, Locked, Decided
        <5>2. ASSUME NEW k \in Keys, store'[k] # NoChoice
              PROVE  \/ /\ k = key[p] /\ store'[k] = selection[p]
                        /\ mutation[p] = "insert"
                     \/ store'[k] = store[k]
          BY <4>2, <5>1, <5>2, CpuDecisions DEF Mutated
        <5>. QED
          BY <5>1, <5>2 DEF StoreSound, Backed, Timed
      <4>. QED
        BY <2>13, <4>1, <4>2 DEF Rename
    <3>3. Locking(p)'
      BY <2>13 DEF Rename, Mutated, TypeOK, Locking, Locked
    <3>4. Decided(p)'
      BY <2>13 DEF Rename, Mutated, TypeOK, Decided, Backed, Timed
    <3>5. ASSUME NEW q \in Procs \ {p} PROVE Untouched(q)
      BY <2>13 DEF Rename, Mutated, Untouched, TypeOK, Locking, Locked
    <3>. QED
      BY <3>1, <3>2, <3>3, <3>4, <3>5, UntouchedKept DEF SelectionInv
  <2>14. ASSUME NEW p \in Procs, Unlock(p) PROVE SelectionInv'
    <3>1. TypeOK'
      BY <2>14, CpuDecisions DEF Unlock, Return, TypeOK, Ended
    <3>2. StoreSound'
      BY <2>14 DEF Unlock, Return, StoreSound, Backed, Timed
    <3>3. Locking(p)'
      BY <2>14 DEF Unlock, Return, TypeOK, Locking, Locked
    <3>4. Decided(p)'
      BY <2>14 DEF Unlock, Return, TypeOK, Decided, Backed, Timed, Locking, Locked
    <3>5. ASSUME NEW q \in Procs \ {p} PROVE Untouched(q)
      BY <2>14 DEF Unlock, Return, Untouched, TypeOK, Locking, Locked
    <3>. QED
      BY <3>1, <3>2, <3>3, <3>4, <3>5, UntouchedKept DEF SelectionInv
  <2>15. ASSUME NEW p \in Procs, LoadFinal(p) PROVE SelectionInv'
    <3>1. TypeOK'
      BY <2>15 DEF LoadFinal, TypeOK, Ended
    <3>2. StoreSound'
      BY <2>15 DEF LoadFinal, StoreSound, Backed, Timed
    <3>3. Locking(p)'
      BY <2>15 DEF LoadFinal, TypeOK, Locking, Locked
    <3>4. Decided(p)'
      BY <2>15 DEF LoadFinal, TypeOK, Decided, Backed, Timed
    <3>5. ASSUME NEW q \in Procs \ {p} PROVE Untouched(q)
      BY <2>15 DEF LoadFinal, Untouched, TypeOK, Locking, Locked
    <3>. QED
      BY <3>1, <3>2, <3>3, <3>4, <3>5, UntouchedKept DEF SelectionInv
  <2>16. ASSUME NEW p \in Procs, FinalLoadFails(p) PROVE SelectionInv'
    <3>1. TypeOK'
      BY <2>16 DEF FinalLoadFails, TypeOK, Ended
    <3>2. StoreSound'
      BY <2>16 DEF FinalLoadFails, StoreSound, Backed, Timed
    <3>3. Locking(p)'
      BY <2>16 DEF FinalLoadFails, TypeOK, Locking, Locked
    <3>4. Decided(p)'
      BY <2>16 DEF FinalLoadFails, TypeOK, Decided, Backed, Timed
    <3>5. ASSUME NEW q \in Procs \ {p} PROVE Untouched(q)
      BY <2>16 DEF FinalLoadFails, Untouched, TypeOK, Locking, Locked
    <3>. QED
      BY <3>1, <3>2, <3>3, <3>4, <3>5, UntouchedKept DEF SelectionInv
  <2>17. ASSUME NEW p \in Procs, Fallback(p) PROVE SelectionInv'
    <3>0. /\ selection'[p].resolved = "cpu" /\ Explained(selection'[p])
          /\ selection'[p].requested
               \notin selection'[p].capabilities \cup {"cpu"}
          /\ \E choice \in Choices :
               selection' = [selection EXCEPT ![p] = choice]
      <4> DEFINE backend == selection[p].resolved
                 capabilities == selection[p].capabilities \ {backend}
                 choice == DegradedToCpu(backend, "failed", capabilities)
      <4>1. backend \in (Backends \cup {"unknown"}) \ {"cpu"}
        BY <2>17 DEF Fallback, TypeOK, Decided, Choices
      <4>2. capabilities \in SUBSET Accelerators
        BY DEF TypeOK, Choices
      <4>3. /\ choice \in Choices /\ Explained(choice)
            /\ choice.resolved = "cpu" /\ choice.requested = backend
            /\ choice.capabilities = capabilities
        <5> HIDE DEF backend, capabilities
        <5>. QED
          BY <4>1, <4>2, DegradedDecision DEF Reasons
      <4>4. selection' = [selection EXCEPT ![p] = choice]
        BY <2>17 DEF Fallback
      <4> HIDE DEF choice
      <4>. QED
        BY <4>1, <4>3, <4>4 DEF TypeOK
    <3>1. TypeOK'
      BY <2>17, <3>0 DEF Fallback, TypeOK, Ended
    <3>2. StoreSound'
      BY <2>17 DEF Fallback, StoreSound, Backed, Timed
    <3>3. Locking(p)'
      BY <2>17 DEF Fallback, TypeOK, Locking, Locked
    <3>4. Decided(p)'
      <4>1. pc'[p] = "loaded" /\ mutation'[p] = "remove"
        BY <2>17 DEF Fallback, TypeOK, Decided
      <4>. QED
        BY <3>0, <4>1 DEF Decided, Backed, Timed
    <3>5. ASSUME NEW q \in Procs \ {p} PROVE Untouched(q)
      BY <2>17 DEF Fallback, Untouched, TypeOK, Locking, Locked
    <3>. QED
      BY <3>1, <3>2, <3>3, <3>4, <3>5, UntouchedKept DEF SelectionInv
  <2>18. ASSUME NEW p \in Procs, Kill(p) PROVE SelectionInv'
    <3>1. TypeOK'
      BY <2>18, CpuDecisions DEF Kill, End, TypeOK, Ended
    <3>2. StoreSound'
      BY <2>18 DEF Kill, End, StoreSound, Backed, Timed
    <3>3. Locking(p)'
      BY <2>18 DEF Kill, End, TypeOK, Locking, Locked
    <3>4. Decided(p)'
      BY <2>18, CpuDecisions DEF Kill, End, TypeOK, Decided, Backed, Timed
    <3>5. ASSUME NEW q \in Procs \ {p} PROVE Untouched(q)
      BY <2>18 DEF Kill, End, Untouched, TypeOK, Locking, Locked
    <3>. QED
      BY <3>1, <3>2, <3>3, <3>4, <3>5, UntouchedKept DEF SelectionInv
  <2>19. CASE UNCHANGED vars
    <3>1. TypeOK' /\ StoreSound'
      BY <2>19 DEF vars, TypeOK, StoreSound, Backed, Timed
    <3>2. ASSUME NEW q \in Procs PROVE Untouched(q)
      BY <2>19 DEF vars, Untouched
    <3>. QED
      BY <3>1, <3>2, UntouchedKept DEF SelectionInv
  <2>20. ASSUME NEW p \in Procs, Unprepared(p) PROVE SelectionInv'
    <3>1. TypeOK' /\ StoreSound'
      BY <2>20 DEF Unprepared, TypeOK, Ended, StoreSound, Backed, Timed
    <3>2. Locking(p)' /\ Decided(p)'
      BY <2>20, CpuDecisions
         DEF Unprepared, TypeOK, Locking, Locked, Decided, Backed, Timed
    <3>3. ASSUME NEW q \in Procs \ {p} PROVE Untouched(q)
      BY <2>20 DEF Unprepared, Untouched, TypeOK, Locking, Locked
    <3>. QED
      BY <3>1, <3>2, <3>3, UntouchedKept DEF SelectionInv
  <2>. QED
    BY <2>1, <2>2, <2>3, <2>4, <2>5, <2>6, <2>7, <2>8, <2>9, <2>10, <2>11,
       <2>12, <2>13, <2>14, <2>15, <2>16, <2>17, <2>18, <2>19, <2>20
       DEF Next, Load, ProbeAll, MutateRuntimeCache
<1>. QED
  BY <1>1, <1>2, PTL DEF Spec

(* Whoever loads on a device, from the store or by its own probes, does so *)
(* because the device was measured faster under this very key, or stands   *)
(* in for one of its backend that was and that an old entry does not name  *)
(* (backend_select.rs:328-447), whatever fails and whoever is killed.      *)
THEOREM DevicesAreMeasured == Spec => []OnlyMeasuredDevices
<1>1. SelectionInv => OnlyMeasuredDevices
  BY DEF SelectionInv, Decided, Backed, Timed, Device, OnlyMeasuredDevices
<1>. QED
  BY <1>1, SelectionInvariant, PTL

(* Nothing is stored for, or read by, a process without a full identity or *)
(* with a probe that failed (backend_select.rs:329, 442).                  *)
THEOREM StoreNeedsIdentity == Spec => []CacheNeedsIdentity
<1>1. SelectionInv => CacheNeedsIdentity
  BY DEF SelectionInv, StoreSound, Locking, CacheNeedsIdentity
<1>. QED
  BY <1>1, SelectionInvariant, PTL

(* The lock of the store is held only by a process inside                  *)
(* mutate_runtime_cache (backend_select.rs:624-648).                       *)
THEOREM StoreLockIsReleased == Spec => []LockInUse
<1>1. SelectionInv => LockInUse
  BY DEF SelectionInv, TypeOK, Locking, Locked, LockInUse
<1>. QED
  BY <1>1, SelectionInvariant, PTL

(* Health carries a specific reason exactly if another backend than the    *)
(* requested one serves (health.rs:150-246).                               *)
THEOREM HealthExplains == Spec => []SelectionExplained
<1>1. SelectionInv => SelectionExplained
  BY DEF SelectionInv, TypeOK, Decided, Explained, Choices, Health, Reasons,
         SelectionExplained
<1>. QED
  BY <1>1, SelectionInvariant, PTL

(* A rename changes the entry of its own process, others only if the file  *)
(* could not be read (backend_select.rs:620-649).                          *)
THEOREM DecisionsAreKept == Spec => NoLostDecision
<1> DEFINE Kept ==
      \A k \in Keys :
        store'[k] # store[k] =>
          \E p \in Procs : /\ pc[p] = "rename" /\ pc'[p] = "unlock"
                           /\ key[p] = k \/ p \in misread
<1>1. SelectionInv /\ [Next]_vars => [Kept]_vars
  <2> SUFFICES ASSUME SelectionInv, Next, NEW k \in Keys, store'[k] # store[k]
               PROVE  \E p \in Procs : /\ pc[p] = "rename" /\ pc'[p] = "unlock"
                                       /\ key[p] = k \/ p \in misread
    OBVIOUS
  <2>1. PICK p \in Procs : Rename(p)
    <3>1. ~ChangeMachine
      BY DEF ChangeMachine
    <3>2. ASSUME NEW p \in Procs, NEW model \in Models,
                 NEW force \in Backends \cup {"none", "unknown"}
          PROVE  ~Start(p, model, force)
      BY DEF Start, shared
    <3>3. ASSUME NEW p \in Procs, NEW lost \in SUBSET Accelerators
          PROVE  ~Discover(p, lost)
      BY DEF Discover, shared
    <3>4. ASSUME NEW p \in Procs, NEW usable, NEW times
          PROVE  ~Probe(p, times, usable) /\ ~Unprepared(p)
      BY DEF Probe, Unprepared, shared
    <3>5. ASSUME NEW p \in Procs
          PROVE  /\ ~ForcedCpu(p) /\ ~CpuFails(p) /\ ~ForcedUnavailable(p)
                 /\ ~CacheHit(p) /\ ~CacheMiss(p)
      BY DEF ForcedCpu, CpuFails, End, ForcedUnavailable, CacheHit, CacheMiss, shared
    <3>6. ASSUME NEW p \in Procs
          PROVE  /\ ~TakeLock(p) /\ ~LockFails(p) /\ ~ReadStore(p) /\ ~Unlock(p)
                 /\ ~LoadFinal(p) /\ ~FinalLoadFails(p) /\ ~Fallback(p) /\ ~Kill(p)
      BY DEF TakeLock, LockFails, ReadStore, Unlock, LoadFinal, FinalLoadFails,
             Fallback, Kill, End, shared
    <3>. QED
      BY <3>1, <3>2, <3>3, <3>4, <3>5, <3>6 DEF Next, Load, ProbeAll, MutateRuntimeCache
  <2>2. /\ pc[p] = "rename" /\ pc'[p] = "unlock"
        /\ store' = Mutated(p)
    BY <2>1 DEF Rename, Goto, SelectionInv, TypeOK
  <2>3. /\ snapshot[p] \in [Keys -> Choices]
        /\ snapshot[p] = IF p \in misread THEN Empty ELSE store
    BY <2>2 DEF SelectionInv, TypeOK, Locking
  <2>4. key[p] = k \/ p \in misread
    BY <2>2, <2>3 DEF Mutated
  <2>. QED
    BY <2>2, <2>4
<1>. QED
  BY <1>1, SelectionInvariant, PTL DEF Spec, NoLostDecision
=============================================================================
