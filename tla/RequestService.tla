--------------------------- MODULE RequestService ---------------------------
(***************************************************************************)
(* What the broker promises its clients, without queue, scheduler or       *)
(* watchdog: a request line that was accepted is settled exactly once,     *)
(* with an outcome fit for that line, unless the whole service goes down.  *)
(* A line is never dropped, and no client can make another one wait for    *)
(* ever.                                                                   *)
(***************************************************************************)
CONSTANTS
  Clients,     (* the connections                                          *)
  Lines,       (* the request lines                                        *)
  NoLine,      (* nothing pending                                          *)
  Fits(_, _),  (* Fits(l, o): the outcome o may settle the line l          *)
  Refusals,    (* the outcomes of a line that is refused at once           *)
  Outcomes,    (* all outcomes                                             *)
  NoOutcome    (* nothing to deliver                                       *)

VARIABLES
  up,       (* the service runs                                            *)
  pending,  (* the line each client waits for                              *)
  outcome   (* the outcome each client has still to be given               *)

vars == <<up, pending, outcome>>

Init ==
  /\ up = TRUE
  /\ pending = [c \in Clients |-> NoLine]
  /\ outcome = [c \in Clients |-> NoOutcome]

Idle(c) == up /\ pending[c] = NoLine /\ outcome[c] = NoOutcome

Ask(c, l) ==
  /\ Idle(c)
  /\ pending' = [pending EXCEPT ![c] = l]
  /\ UNCHANGED <<up, outcome>>

Refuse(c) ==
  /\ Idle(c)
  /\ outcome' \in {[outcome EXCEPT ![c] = o] : o \in Refusals}
  /\ UNCHANGED <<up, pending>>

Settle(c) ==
  /\ up
  /\ pending[c] # NoLine
  /\ \E o \in Outcomes : /\ Fits(pending[c], o)
                         /\ outcome' = [outcome EXCEPT ![c] = o]
  /\ pending' = [pending EXCEPT ![c] = NoLine]
  /\ UNCHANGED up

Deliver(c) ==
  /\ up
  /\ outcome[c] # NoOutcome
  /\ outcome' = [outcome EXCEPT ![c] = NoOutcome]
  /\ UNCHANGED <<up, pending>>

GoDown == up /\ up' = FALSE /\ UNCHANGED <<pending, outcome>>

Next ==
  \/ \E c \in Clients : \/ \E l \in Lines : Ask(c, l)
                        \/ Refuse(c)
                        \/ Settle(c)
                        \/ Deliver(c)
  \/ GoDown

(* Every pending line is settled, or the service goes down. *)
Spec ==
  /\ Init
  /\ [][Next]_vars
  /\ \A c \in Clients : WF_vars(Settle(c) \/ (pending[c] # NoLine /\ GoDown))
=============================================================================
