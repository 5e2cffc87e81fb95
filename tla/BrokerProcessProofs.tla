------------------------ MODULE BrokerProcessProofs ------------------------
(***************************************************************************)
(* What broker processes guarantee, however many there are: about the      *)
(* service lock and the socket of one model (BrokerLifecycle), and about   *)
(* the accelerator that the brokers of all models share (BrokerEngine).    *)
(*                                                                         *)
(* Whatever fails: one broker at a time runs between taking and dropping   *)
(* the service lock, and it never finds its address in use.  As long as no *)
(* broker failed after its bind: nobody without the lock touches the       *)
(* socket, and a serving broker's socket is its own.                       *)
(***************************************************************************)
EXTENDS BrokerLifecycle, BrokerEngine, TLAPS

(* The inductive invariant, whatever fails. *)
WatchdogRuns ==
  \A p \in Procs :
    wd[p] # "off" => pc[p] \notin {"new", "lease", "watch", "exited", "killed"}

LockInv == TypeOK /\ OnlyHolderRuns /\ NoAddressInUse /\ WatchdogRuns

(* Every behaviour keeps the lock invariant. *)
THEOREM LockInvariant == Spec => []LockInv
<1> USE LifecycleAssumption
        DEF LockInv, TypeOK, OnlyHolderRuns, NoAddressInUse, WatchdogRuns,
            MainStep, WatchdogStep, Goto, history
<1>1. Init => LockInv
  BY DEF Init
<1>2. LockInv /\ [Next]_vars => LockInv'
  <2> SUFFICES ASSUME LockInv, [Next]_vars PROVE LockInv'
    OBVIOUS
  <2>1. ASSUME NEW p \in Procs, NEW how \in {"exited", "killed"},
               End(p, how) PROVE LockInv'
    BY <2>1 DEF End
  <2>2. ASSUME NEW p \in Procs, Main(p) PROVE LockInv'
    <3>1. CASE AcquireService(p)
      <4>1. CASE End(p, "exited")
        BY <2>1, <4>1
      <4>. QED
        BY <3>1, <4>1 DEF AcquireService
    <3>2. CASE StartOwnerWatchdog(p)
      BY <3>2 DEF StartOwnerWatchdog
    <3>3. CASE LoadEngine(p)
      BY <3>3 DEF LoadEngine
    <3>4. CASE ClearStaleSocket(p)
      BY <3>4 DEF ClearStaleSocket
    <3>5. CASE Listen(p)
      BY <3>5 DEF Listen
    <3>6. CASE MarkBound(p)
      BY <3>6 DEF MarkBound
    <3>7. CASE RestrictSocket(p)
      BY <3>7 DEF RestrictSocket
    <3>8. CASE UnmarkBound(p)
      BY <3>8 DEF UnmarkBound
    <3>9. CASE UnlinkFailed(p)
      BY <3>9 DEF UnlinkFailed
    <3>10. CASE SpawnThreads(p)
      BY <3>10 DEF SpawnThreads
    <3>11. CASE DropServiceLease(p)
      BY <3>11 DEF DropServiceLease
    <3>12. CASE LeaveMain(p)
      BY <2>1, <3>12 DEF LeaveMain
    <3>. QED
      BY <2>2, <3>1, <3>2, <3>3, <3>4, <3>5, <3>6, <3>7, <3>8, <3>9, <3>10,
         <3>11, <3>12 DEF Main
  <2>3. ASSUME NEW p \in Procs, OwnerWatchdog(p) PROVE LockInv'
    <3>1. CASE SeeOwnerEof(p)
      BY <3>1 DEF SeeOwnerEof
    <3>2. CASE CheckBound(p)
      BY <3>2 DEF CheckBound
    <3>3. CASE UnlinkEndpoint(p)
      BY <3>3 DEF UnlinkEndpoint
    <3>4. CASE ExitProcess(p)
      BY <2>1, <3>4 DEF ExitProcess
    <3>. QED
      BY <2>3, <3>1, <3>2, <3>3, <3>4 DEF OwnerWatchdog
  <2>4. ASSUME NEW p \in Procs, Launch(p) \/ OwnerCloses(p) PROVE LockInv'
    <3>1. CASE Launch(p)
      BY <3>1 DEF Launch
    <3>2. CASE OwnerCloses(p)
      BY <3>2 DEF OwnerCloses
    <3>. QED
      BY <2>4, <3>1, <3>2
  <2>5. ASSUME NEW p \in Procs, Crash(p) PROVE LockInv'
    BY <2>1, <2>5 DEF Crash
  <2>6. CASE UNCHANGED vars
    BY <2>6 DEF vars
  <2>. QED
    BY <2>2, <2>3, <2>4, <2>5, <2>6 DEF Next
<1>. QED
  BY <1>1, <1>2, PTL DEF Spec

(* At most one broker of a model runs behind the service lock              *)
(* (mod.rs:57-75), whatever fails.                                         *)
THEOREM HolderRunsAlone == Spec => []OnlyHolderRuns
BY LockInvariant, PTL DEF LockInv

(* The address is never in use after the stale socket was removed          *)
(* (unix.rs:45-50), whatever fails.                                        *)
THEOREM AddressIsFree == Spec => []NoAddressInUse
BY LockInvariant, PTL DEF LockInv

-----------------------------------------------------------------------------
(* A watchdog that removes the socket, or still may, belongs to a broker   *)
(* that holds the lock, unless that broker failed late.                    *)
Watch(p) ==
  p \notin failed_late =>
    /\ endpoint_bound[p] = TRUE =>
         pc[p] \in {"chmod", "unmark", "spawn", "serving"}
    /\ wd[p] = "unlink" => pc[p] \in {"chmod", "spawn", "serving"}
    /\ pc[p] \in {"unmark", "unlink"} => wd[p] = "exit"

(* From its bind until its watchdog removes it, the socket is p's. *)
Bound(p) ==
  failed_late = {} =>
    (pc[p] \in {"mark", "chmod", "spawn", "serving"} /\ wd[p] # "exit"
       => socket = p)

SocketInv == \A p \in Procs : Watch(p) /\ Bound(p)

(* Every behaviour keeps the socket invariant. *)
THEOREM SocketInvariant == Spec => []SocketInv
<1> USE LifecycleAssumption
        DEF LockInv, TypeOK, OnlyHolderRuns, SocketInv, Watch, Bound,
            MainStep, WatchdogStep, Goto, history
<1>1. Init => SocketInv
  BY DEF Init
<1>2. LockInv /\ SocketInv /\ [Next]_vars => SocketInv'
  <2> SUFFICES ASSUME LockInv, SocketInv, [Next]_vars PROVE SocketInv'
    OBVIOUS
  <2>1. ASSUME NEW p \in Procs, NEW how \in {"exited", "killed"},
               End(p, how) PROVE SocketInv'
    BY <2>1 DEF End
  <2>2. ASSUME NEW p \in Procs, Main(p) PROVE SocketInv'
    <3>1. CASE AcquireService(p)
      <4>1. CASE End(p, "exited")
        BY <2>1, <4>1
      <4>2. CASE ~End(p, "exited")
        <5>1. /\ pc' = [pc EXCEPT ![p] = "watch"] /\ pc[p] = "lease"
              /\ UNCHANGED <<wd, endpoint_bound, socket, failed_late>>
          BY <3>1, <4>2 DEF AcquireService
        <5>. QED
          BY <5>1
      <4>. QED
        BY <4>1, <4>2
    <3>2. CASE StartOwnerWatchdog(p)
      BY <3>2 DEF StartOwnerWatchdog
    <3>3. CASE LoadEngine(p)
      BY <3>3 DEF LoadEngine
    <3>4. CASE ClearStaleSocket(p)
      BY <3>4 DEF ClearStaleSocket
    <3>5. CASE Listen(p)
      BY <3>5 DEF Listen
    <3>6. CASE MarkBound(p)
      BY <3>6 DEF MarkBound
    <3>7. CASE RestrictSocket(p)
      <4>1. CASE wd[p] = "exit"
        BY <3>7, <4>1 DEF RestrictSocket
      <4>2. CASE wd[p] # "exit"
        BY <3>7, <4>2 DEF RestrictSocket
      <4>. QED
        BY <4>1, <4>2
    <3>8. CASE UnmarkBound(p)
      BY <3>8 DEF UnmarkBound
    <3>9. CASE UnlinkFailed(p)
      BY <3>9 DEF UnlinkFailed
    <3>10. CASE SpawnThreads(p)
      BY <3>10 DEF SpawnThreads
    <3>11. CASE DropServiceLease(p)
      BY <3>11 DEF DropServiceLease
    <3>12. CASE LeaveMain(p)
      BY <2>1, <3>12 DEF LeaveMain
    <3>. QED
      BY <2>2, <3>1, <3>2, <3>3, <3>4, <3>5, <3>6, <3>7, <3>8, <3>9, <3>10,
         <3>11, <3>12 DEF Main
  <2>3. ASSUME NEW p \in Procs, OwnerWatchdog(p) PROVE SocketInv'
    <3>1. CASE SeeOwnerEof(p)
      BY <3>1 DEF SeeOwnerEof
    <3>2. CASE CheckBound(p)
      BY <3>2 DEF CheckBound
    <3>3. CASE UnlinkEndpoint(p)
      BY <3>3 DEF UnlinkEndpoint
    <3>4. CASE ExitProcess(p)
      BY <2>1, <3>4 DEF ExitProcess
    <3>. QED
      BY <2>3, <3>1, <3>2, <3>3, <3>4 DEF OwnerWatchdog
  <2>4. ASSUME NEW p \in Procs, Launch(p) \/ OwnerCloses(p) PROVE SocketInv'
    BY <2>4 DEF Launch, OwnerCloses
  <2>5. ASSUME NEW p \in Procs, Crash(p) PROVE SocketInv'
    BY <2>1, <2>5 DEF Crash
  <2>6. CASE UNCHANGED vars
    BY <2>6 DEF vars
  <2>. QED
    BY <2>2, <2>3, <2>4, <2>5, <2>6 DEF Next
<1>. QED
  BY <1>1, <1>2, LockInvariant, PTL DEF Spec

(* A serving broker is reachable at its own socket (mod.rs:57-75,          *)
(* unix.rs:45-51), for any number of competing brokers, as long as none of *)
(* them failed after its bind.                                             *)
THEOREM ServerOwnsEndpoint == Spec => []EndpointBelongsToServer
<1>1. LockInv /\ SocketInv => EndpointBelongsToServer
  BY DEF LockInv, TypeOK, SocketInv, Watch, Bound, EndpointBelongsToServer
<1>. QED
  BY <1>1, LockInvariant, SocketInvariant, PTL

(* README.md:27, "The lock holder alone removes a stale Unix socket": true *)
(* but for a broker that is leaving because it failed after its bind.      *)
THEOREM StrangersLeaveSocketAlone == Spec => OthersLeaveSocketAlone
<1>1. LockInv /\ SocketInv =>
        [\A p \in Procs :
           ChangesSocket(p) => service_lease = p
                                 \/ (pc[p] = "leaving" /\ p \in failed_late)]_vars
  <2> SUFFICES ASSUME LockInv, SocketInv, NEW p \in Procs, ChangesSocket(p)
               PROVE  service_lease = p \/ (pc[p] = "leaving" /\ p \in failed_late)
    OBVIOUS
  <2>1. CASE UnlinkEndpoint(p)
    <3>1. p \notin failed_late => pc[p] # "leaving"
      BY <2>1 DEF SocketInv, Watch, Bound, UnlinkEndpoint
    <3>2. pc[p] # "leaving" => service_lease = p
      BY <2>1 DEF LockInv, WatchdogRuns, OnlyHolderRuns, UnlinkEndpoint
    <3>. QED
      BY <3>1, <3>2 DEF LockInv, TypeOK
  <2>. QED
    BY <2>1 DEF ChangesSocket, LockInv, OnlyHolderRuns, ClearStaleSocket,
                Listen, UnlinkFailed
<1>. QED
  BY <1>1, LockInvariant, SocketInvariant, PTL DEF OthersLeaveSocketAlone

-----------------------------------------------------------------------------
(***************************************************************************)
(* The accelerator.  The inductive invariant says, phase by phase, what a  *)
(* broker owns: the properties follow because a lock has one holder.       *)
(***************************************************************************)
(* What broker b owns in each phase. *)
Owns(b) ==
  /\ phase[b] = "down" =>
       /\ inner[b] = "none" /\ ~Holds(b)
       /\ degraded_reason[b] = FALSE /\ terminal_failure[b] = FALSE
  /\ phase[b] = "loading" =>
       /\ inner[b] = "none"
       /\ degraded_reason[b] = FALSE /\ terminal_failure[b] = FALSE
  /\ phase[b] = "serving" =>
       /\ Holds(b) <=> inner[b] = "accelerated"
       /\ inner[b] = "none" <=> terminal_failure[b] = TRUE
       /\ degraded_reason[b] = TRUE => inner[b] # "accelerated"
  /\ phase[b] = "exhausted" =>
       /\ inner[b] = "accelerated" /\ Holds(b)
       /\ degraded_reason[b] = FALSE /\ terminal_failure[b] = FALSE
  /\ phase[b] = "dropped" =>
       /\ inner[b] = "none" /\ Holds(b)
       /\ degraded_reason[b] = FALSE /\ terminal_failure[b] = FALSE
  /\ phase[b] = "reloading" =>
       /\ inner[b] = "none" /\ ~Holds(b) /\ terminal_failure[b] = FALSE
  /\ phase[b] = "retrying" =>
       /\ inner[b] \in {"cpu", "unready"} /\ ~Holds(b)
       /\ terminal_failure[b] = FALSE

EngineInv == EngineTypeOK /\ \A b \in Brokers : Owns(b)

(* Every behaviour of the brokers keeps the inductive invariant. *)
THEOREM EngineInvariant == EngineSpec => []EngineInv
<1> USE BrokersAssumption
<1>1. EngineInit => EngineInv
  BY DEF EngineInit, EngineInv, EngineTypeOK, Owns, Holds, Phase, Inner, Answer
<1>2. EngineInv /\ [EngineNext]_engine_vars => EngineInv'
  <2> SUFFICES ASSUME EngineInv, [EngineNext]_engine_vars PROVE EngineInv'
    OBVIOUS
  <2> USE DEF EngineInv, EngineTypeOK, Owns, Holds, Phase, Inner, Answer
  <2>1. ASSUME NEW b \in Brokers, Die(b) PROVE EngineInv'
    BY <2>1 DEF Die
  <2>2. ASSUME NEW b \in Brokers, TryAcquire(b) PROVE EngineInv'
    BY <2>2 DEF TryAcquire
  <2>3. ASSUME NEW b \in Brokers, NEW loaded \in Loaded, LoadReturns(b, loaded)
        PROVE  EngineInv'
    <3>1. CASE loaded # "error" /\ Allowed(Policy(b), loaded)
      BY <2>3, <3>1 DEF LoadReturns, Allowed, Policy, LeaseAfterLoad, Loaded
    <3>. QED
      BY <2>1, <2>3, <3>1 DEF LoadReturns
  <2>4. ASSUME NEW b \in Brokers, EmbedRefused(b) PROVE EngineInv'
    BY <2>4 DEF EmbedRefused
  <2>5. ASSUME NEW b \in Brokers, NEW result \in Answer, EmbedReturns(b, result)
        PROVE  EngineInv'
    <3>1. CASE Recoverable(b, result)
      BY <2>5, <3>1 DEF EmbedReturns, Recoverable
    <3>2. CASE ~Recoverable(b, result)
      BY <2>5, <3>2 DEF EmbedReturns
    <3>. QED
      BY <3>1, <3>2
  <2>6. ASSUME NEW b \in Brokers, DropInner(b) PROVE EngineInv'
    BY <2>6 DEF DropInner
  <2>7. ASSUME NEW b \in Brokers, DropLease(b) PROVE EngineInv'
    BY <2>7 DEF DropLease
  <2>8. ASSUME NEW b \in Brokers, NEW loaded \in Loaded, ReloadReturns(b, loaded)
        PROVE  EngineInv'
    <3>1. CASE loaded # "error" /\ Allowed("CpuOnly", loaded)
      BY <2>8, <3>1 DEF ReloadReturns, Allowed, Loaded
    <3>2. CASE loaded = "error" \/ ~Allowed("CpuOnly", loaded)
      <4>1. /\ phase[b] = "reloading"
            /\ phase' = [phase EXCEPT ![b] = "serving"]
            /\ terminal_failure' = [terminal_failure EXCEPT ![b] = TRUE]
            /\ answer' = [answer EXCEPT ![b] = "application"]
            /\ UNCHANGED <<inner, accelerator_lease, degraded_reason>>
        BY <2>8, <3>2 DEF ReloadReturns
      <4>2. EngineTypeOK'
        BY <4>1
      <4>3. ASSUME NEW c \in Brokers PROVE Owns(c)'
        BY <4>1
      <4>. QED
        BY <4>2, <4>3
    <3>. QED
      BY <3>1, <3>2
  <2>9. ASSUME NEW b \in Brokers, NEW result \in Answer, RetryReturns(b, result)
        PROVE  EngineInv'
    BY <2>9 DEF RetryReturns, InnerResults
  <2>10. CASE UNCHANGED engine_vars
    BY <2>10 DEF engine_vars
  <2> QED
    BY <2>1, <2>2, <2>3, <2>4, <2>5, <2>6, <2>7, <2>8, <2>9, <2>10
       DEF EngineNext, Recovery, EngineCrash
<1>. QED
  BY <1>1, <1>2, PTL DEF EngineSpec

(* No two brokers ever use the accelerator together (engine.rs:56-70,      *)
(* 130-131), however many brokers there are.                               *)
THEOREM AcceleratorExclusion == EngineSpec => []AtMostOneAccelerator
<1>1. EngineInv => AtMostOneAccelerator
  BY DEF EngineInv, EngineTypeOK, Owns, Holds, Phase, AtMostOneAccelerator,
         UsesAccelerator, Policy
<1>. QED
  BY <1>1, EngineInvariant, PTL

(* A broker whose engine runs on the CPU never holds the lock              *)
(* (engine.rs:68-70, 131), however many brokers there are.                 *)
THEOREM LeaseIsUsed == EngineSpec => []NoIdleLease
<1>1. EngineInv => NoIdleLease
  BY DEF EngineInv, EngineTypeOK, Owns, Holds, Phase, NoIdleLease
<1>. QED
  BY <1>1, EngineInvariant, PTL

(* A request always finds an engine or a recorded failure (engine.rs:92,   *)
(* 118): the expect calls of health_facts and embed never panic.           *)
THEOREM EngineAlwaysAnswers == EngineSpec => []LiveEngineOrTerminalFailure
<1>1. EngineInv => LiveEngineOrTerminalFailure
  BY DEF EngineInv, EngineTypeOK, Owns, LiveEngineOrTerminalFailure
<1>. QED
  BY <1>1, EngineInvariant, PTL

(* A demoted broker stays on the CPU (engine.rs:130-154). *)
THEOREM EngineStaysDemoted == EngineSpec => []DemotionIsPermanent
<1>1. EngineInv => DemotionIsPermanent
  BY DEF EngineInv, EngineTypeOK, Owns, Phase, DemotionIsPermanent
<1>. QED
  BY <1>1, EngineInvariant, PTL

(* Embed never returns the accelerator's exhaustion (engine.rs:120-128). *)
THEOREM ExhaustionNeverReturned == EngineSpec => ExhaustionIsRecovered
<1>1. EngineInv /\ [EngineNext]_engine_vars =>
        [\A b \in Brokers :
           answer'[b] # answer[b] /\ answer'[b] = "resource_exhausted"
             => inner[b] = "cpu"]_engine_vars
  <2> SUFFICES ASSUME EngineInv, EngineNext, NEW c \in Brokers,
                      answer'[c] # answer[c],
                      answer'[c] = "resource_exhausted"
               PROVE  inner[c] = "cpu"
    OBVIOUS
  <2> USE DEF EngineInv, EngineTypeOK, Owns
  <2>1. ASSUME NEW b \in Brokers, Die(b) PROVE FALSE
    BY <2>1 DEF Die
  <2>2. ASSUME NEW b \in Brokers,
               \/ TryAcquire(b) \/ EmbedRefused(b) \/ DropInner(b)
               \/ DropLease(b)
        PROVE  FALSE
    BY <2>2 DEF TryAcquire, EmbedRefused, DropInner, DropLease
  <2>3. ASSUME NEW b \in Brokers, NEW loaded \in Loaded,
               LoadReturns(b, loaded) \/ ReloadReturns(b, loaded)
        PROVE  FALSE
    BY <2>1, <2>3 DEF LoadReturns, ReloadReturns
  <2>4. ASSUME NEW b \in Brokers, NEW result \in Answer,
               EmbedReturns(b, result) \/ RetryReturns(b, result)
        PROVE  inner[c] = "cpu"
    BY <2>4 DEF EmbedReturns, RetryReturns, Recoverable, InnerResults, Holds,
                Inner
  <2>. QED
    BY <2>1, <2>2, <2>3, <2>4 DEF EngineNext, Recovery, EngineCrash
<1>. QED
  BY <1>1, EngineInvariant, PTL DEF EngineSpec, ExhaustionIsRecovered
=============================================================================
