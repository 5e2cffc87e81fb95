------------------------- MODULE WindowsPipeProofs -------------------------
(***************************************************************************)
(* What WindowsPipe guarantees for every set of handle values.  The        *)
(* inductive invariant ties each piece of kernel state to the step of the  *)
(* one thread that is responsible for it.                                  *)
(***************************************************************************)
EXTENDS WindowsPipe, TLAPS

(* An OVERLAPPED is allocated between the start of an operation and the    *)
(* wait for it, and no operation is pending without one.                   *)
OverlappedInUse ==
  \A h \in Handles :
    /\ h \in overlapped <=> \/ h = pipe /\ pc \in {"swap", "wait"}
                            \/ io[h] \in {"swap", "wait"}
    /\ op[h] = "pending" => h \in overlapped

(* The accept in progress is registered, and nothing else; cancel_pending  *)
(* goes through registered handles.                                        *)
Registered ==
  /\ pc = "take" <=> pipe = NoPipe
  /\ pending = IF pc \in {"connect", "swap", "wait", "unregister"}
                 THEN {pipe} ELSE {}
  /\ handles \subseteq pending
  /\ canceller # "cancel" => handles = {}

(* Who is cancelling a connection's I/O holds a clone of it. *)
CancellerHoldsClone == \A h \in flagged : <<h, "other">> \in clones

(* A cancel that has had no effect and was not used up is still flagged,   *)
(* and on its way to an operation that waits.                              *)
CancelOnItsWay ==
  /\ Listener \in owed \ spent =>
       /\ Listener \in cancel_requested
       /\ pc = "wait" /\ op[pipe] = "pending"
            => canceller = "lock" \/ (canceller = "cancel" /\ pipe \in handles)
  /\ \A h \in Handles \cap (owed \ spent) :
       /\ h \in cancel_requested
       /\ io[h] = "wait" /\ op[h] = "pending" => h \in flagged

PipeInv ==
  /\ TypeOK
  /\ OneOwner
  /\ OverlappedInUse
  /\ Registered
  /\ CancellerHoldsClone
  /\ CancelOnItsWay

(* Every behaviour of the transport keeps the inductive invariant. *)
THEOREM PipeInvariant == Spec => []PipeInv
<1> USE PipeAssumption
<1>1. Init => PipeInv
  BY DEF Init, PipeInv, TypeOK, OneOwner, OverlappedInUse, Registered,
         CancellerHoldsClone, CancelOnItsWay
<1>2. PipeInv /\ [Next]_vars => PipeInv'
  <2> SUFFICES ASSUME PipeInv, [Next]_vars PROVE PipeInv'
    OBVIOUS
  <2> USE DEF PipeInv, TypeOK, OneOwner, OverlappedInUse, Registered,
              CancellerHoldsClone, CancelOnItsWay, kernel, listener, accepter,
              connections, cancels, history
  <2>1. CASE TakePipe
    BY <2>1 DEF TakePipe
  <2>2. CASE Register
    BY <2>2 DEF Register, MutexFree
  <2>3. CASE Connect
    <3>1. TypeOK'
      BY <2>3 DEF Connect, Begin
    <3>2. OneOwner'
      BY <2>3 DEF Connect, Begin
    <3>3. OverlappedInUse'
      BY <2>3 DEF Connect, Begin
    <3>4. Registered'
      BY <2>3 DEF Connect, Begin
    <3>5. CancellerHoldsClone'
      BY <2>3 DEF Connect, Begin
    <3>6. CancelOnItsWay'
      <4>1. /\ pc = "connect" /\ pc' \in {"swap", "unregister"}
            /\ pipe \in Handles /\ io[pipe] = "none"
        BY <2>3 DEF Connect
      <4>2. op' = op \/ \E started : op' = [op EXCEPT ![pipe] = started]
        BY <2>3 DEF Connect, Begin
      <4>3. UNCHANGED <<pipe, io, canceller, handles, flagged, owed, spent,
                        cancel_requested>>
        BY <2>3 DEF Connect
      <4> HIDE DEF OneOwner, OverlappedInUse, Registered, CancellerHoldsClone
      <4>. QED
        BY <4>1, <4>2, <4>3
    <3>. QED
      BY <3>1, <3>2, <3>3, <3>4, <3>5, <3>6
  <2>4. CASE AcceptSwap
    BY <2>4 DEF AcceptSwap, SwapCancel, CancelFor, Cancelled
  <2>5. CASE AcceptCompletes
    BY <2>5 DEF AcceptCompletes, Completed
  <2>6. CASE Unregister
    BY <2>6 DEF Unregister, MutexFree
  <2>7. CASE AcceptReturns
    <3>1. TypeOK'
      BY <2>7 DEF AcceptReturns
    <3>2. OneOwner'
      <4>1. CASE op[pipe] = "done"
        <5>1. /\ clones' = clones \cup {<<pipe, "thread">>}
              /\ io' = [io EXCEPT ![pipe] = "idle"]
              /\ pipe' = NoPipe /\ UNCHANGED <<open, first>>
          BY <2>7, <4>1 DEF AcceptReturns
        <5>2. /\ pipe \in Handles /\ pipe \in open /\ pipe # first
              /\ <<pipe, "other">> \notin clones
          BY <2>7 DEF AcceptReturns
        <5>3. ASSUME NEW h \in Handles
              PROVE  /\ <<h, "thread">> \in clones'
                         <=> h = pipe \/ <<h, "thread">> \in clones
                     /\ <<h, "other">> \in clones' <=> <<h, "other">> \in clones
          BY <5>1, <5>2
        <5>. QED
          BY <5>1, <5>2, <5>3
      <4>2. CASE op[pipe] # "done"
        BY <2>7, <4>2 DEF AcceptReturns
      <4>. QED
        BY <4>1, <4>2
    <3>3. OverlappedInUse'
      BY <2>7 DEF AcceptReturns
    <3>4. Registered'
      BY <2>7 DEF AcceptReturns
    <3>5. CancellerHoldsClone'
      BY <2>7 DEF AcceptReturns
    <3>6. CancelOnItsWay'
      <4>1. /\ pipe \in Handles /\ io[pipe] = "none"
            /\ pc' = "take"
            /\ op' = [op EXCEPT ![pipe] = "none"]
            /\ io' = [io EXCEPT ![pipe] = "idle"] \/ io' = io
            /\ UNCHANGED <<flagged, cancel_requested, owed, spent>>
        BY <2>7 DEF AcceptReturns
      <4> HIDE DEF OneOwner, OverlappedInUse, Registered, CancellerHoldsClone
      <4>. QED
        BY <4>1
    <3>. QED
      BY <3>1, <3>2, <3>3, <3>4, <3>5, <3>6
  <2>8. CASE RequestCancel
    BY <2>8 DEF RequestCancel
  <2>9. CASE LockPending
    BY <2>9 DEF LockPending
  <2>10. CASE CancelReturns
    BY <2>10 DEF CancelReturns
  <2>11. ASSUME NEW h \in Handles, CancelHandle(h) PROVE PipeInv'
    BY <2>11 DEF CancelHandle, CancelFor, Cancelled
  <2>12. ASSUME NEW h \in Handles, KernelFinishes(h) PROVE PipeInv'
    BY <2>12 DEF KernelFinishes
  <2>13. ASSUME NEW h \in Handles, BeginIo(h) PROVE PipeInv'
    <3>1. TypeOK'
      BY <2>13 DEF BeginIo, Begin
    <3>2. OneOwner'
      <4> HIDE DEF OverlappedInUse, Registered, CancellerHoldsClone,
                   CancelOnItsWay
      <4>. QED
        BY <2>13 DEF BeginIo
    <3>3. OverlappedInUse'
      BY <2>13 DEF BeginIo, Begin
    <3>4. Registered'
      BY <2>13 DEF BeginIo, Begin
    <3>5. CancellerHoldsClone'
      BY <2>13 DEF BeginIo, Begin
    <3>6. CancelOnItsWay'
      <4>1. h # pipe /\ io[h] = "idle"
        BY <2>13 DEF BeginIo
      <4>2. op' = op \/ \E started : op' = [op EXCEPT ![h] = started]
        BY <2>13 DEF BeginIo, Begin
      <4>3. /\ io' = [io EXCEPT ![h] = "swap"] \/ io' = [io EXCEPT ![h] = "drop"]
            /\ UNCHANGED <<pc, pipe, canceller, handles, flagged, owed, spent,
                           cancel_requested>>
        BY <2>13 DEF BeginIo
      <4>. QED
        BY <4>1, <4>2, <4>3
    <3>. QED
      BY <3>1, <3>2, <3>3, <3>4, <3>5, <3>6
  <2>14. ASSUME NEW h \in Handles, IoSwap(h) PROVE PipeInv'
    BY <2>14 DEF IoSwap, SwapCancel, CancelFor, Cancelled
  <2>15. ASSUME NEW h \in Handles, IoReturns(h) PROVE PipeInv'
    <3>1. /\ io[h] = "wait" /\ op[h] # "pending" /\ h # pipe
          /\ overlapped' = overlapped \ {h}
          /\ op' = [op EXCEPT ![h] = "none"]
          /\ UNCHANGED <<owed, spent>>
      BY <2>15 DEF IoReturns, Completed
    <3>2. io' = [io EXCEPT ![h] = "idle"] \/ io' = [io EXCEPT ![h] = "drop"]
      BY <2>15 DEF IoReturns
    <3>3. UNCHANGED <<open, listener, cancel_requested, accepter, clones, cancels>>
      BY <2>15 DEF IoReturns
    <3>4. TypeOK' /\ OneOwner'
      <4> HIDE DEF OverlappedInUse, Registered, CancellerHoldsClone,
                   CancelOnItsWay
      <4>. QED
        BY <3>1, <3>2, <3>3
    <3>5. OverlappedInUse'
      <4> HIDE DEF OneOwner, Registered, CancellerHoldsClone, CancelOnItsWay
      <4>. QED
        BY <3>1, <3>2, <3>3
    <3>6. Registered' /\ CancellerHoldsClone'
      BY <3>3
    <3>7. CancelOnItsWay'
      <4> HIDE DEF OneOwner, OverlappedInUse, Registered, CancellerHoldsClone
      <4>. QED
        BY <3>1, <3>2, <3>3
    <3>. QED
      BY <3>4, <3>5, <3>6, <3>7
  <2>16. ASSUME NEW h \in Handles, DropConnection(h) PROVE PipeInv'
    BY <2>16 DEF DropConnection, DropClone
  <2>17. ASSUME NEW h \in Handles, Clone(h) PROVE PipeInv'
    BY <2>17 DEF Clone
  <2>18. ASSUME NEW h \in Handles, RequestCancelIo(h) PROVE PipeInv'
    BY <2>18 DEF RequestCancelIo
  <2>19. ASSUME NEW h \in Handles, CancelIo(h) PROVE PipeInv'
    BY <2>19 DEF CancelIo, CancelFor, Cancelled
  <2>20. ASSUME NEW h \in Handles, DropOther(h) PROVE PipeInv'
    BY <2>20 DEF DropOther, DropClone
  <2>21. CASE UNCHANGED vars
    BY <2>21 DEF vars
  <2>. QED
    BY <2>1, <2>2, <2>3, <2>4, <2>5, <2>6, <2>7, <2>8, <2>9, <2>10, <2>11,
       <2>12, <2>13, <2>14, <2>15, <2>16, <2>17, <2>18, <2>19, <2>20, <2>21
       DEF Next, Accept, CancelPending, Use
<1>. QED
  BY <1>1, <1>2, PTL DEF Spec

(* The kernel never writes to an OVERLAPPED that was freed or a pipe that  *)
(* was closed (windows.rs:406-467): a pending operation has the one thread *)
(* that will wait for it.                                                  *)
THEOREM KernelWritesLiveMemory == Spec => []KernelMemoryLive
<1>1. PipeInv => KernelMemoryLive
  BY DEF PipeInv, TypeOK, OneOwner, OverlappedInUse, KernelMemoryLive
<1>. QED
  BY <1>1, PipeInvariant, PTL

(* cancel_pending cancels the accept in progress and never the I/O of a    *)
(* connection (windows.rs:98-104, 381-404).                                *)
THEOREM CancelPendingHitsAccepts == Spec => []OnlyAcceptsCancelled
<1>1. PipeInv => OnlyAcceptsCancelled
  BY PipeAssumption DEF PipeInv, TypeOK, OneOwner, Registered, OnlyAcceptsCancelled
<1>. QED
  BY <1>1, PipeInvariant, PTL

(* A cancel that returned has aborted the operation that waits, unless one *)
(* that was already over used it up (windows.rs:72, 99, 115, 138, 163).    *)
THEOREM CancelsTakeEffect == Spec => []CancelNotLost
<1>1. PipeInv => CancelNotLost
  BY DEF PipeInv, TypeOK, Registered, CancelOnItsWay, CancelNotLost
<1>. QED
  BY <1>1, PipeInvariant, PTL

(* No pipe leaks and none is closed under another thread                   *)
(* (windows.rs:59-96, 351-379).                                            *)
THEOREM PipesHaveOneOwner == Spec => []OneOwner
<1>1. PipeInv => OneOwner
  BY DEF PipeInv
<1>. QED
  BY <1>1, PipeInvariant, PTL
=============================================================================
