--------------------------- MODULE PhaseContract ---------------------------
(***************************************************************************)
(* What a Transaction promises a connector (types/transaction.go), leaving *)
(* out rules, bodies and buffers: the phases go forward, each body phase   *)
(* directly after its headers phase, no phase before logging starts once   *)
(* there is an interruption, and an interruption lasts until the           *)
(* transaction is given back.                                              *)
(***************************************************************************)
EXTENDS Integers

VARIABLES inUse,        \* the transaction has not been closed
          phase,        \* the last phase started, 0 for none
          interrupted   \* the transaction has been interrupted

vars == <<inUse, phase, interrupted>>

Init == inUse = TRUE /\ phase = 0 /\ interrupted = FALSE

StartHeaders(p) ==
  /\ inUse /\ ~interrupted
  /\ p \in {1, 3} /\ phase < p
  /\ phase' = p
  /\ UNCHANGED <<inUse, interrupted>>

StartBody(p) ==
  /\ inUse /\ ~interrupted
  /\ p \in {2, 4} /\ phase = p - 1
  /\ phase' = p
  /\ UNCHANGED <<inUse, interrupted>>

StartLogging ==
  /\ inUse
  /\ phase' = 5
  /\ UNCHANGED <<inUse, interrupted>>

Interrupt ==
  /\ inUse
  /\ interrupted' = TRUE
  /\ UNCHANGED <<inUse, phase>>

GiveBack ==
  /\ inUse
  /\ inUse' = FALSE
  /\ UNCHANGED <<phase, interrupted>>

Renew ==
  /\ ~inUse
  /\ inUse' = TRUE /\ phase' = 0 /\ interrupted' = FALSE

Next == \/ \E p \in 1..4 : StartHeaders(p) \/ StartBody(p)
        \/ StartLogging
        \/ Interrupt
        \/ GiveBack
        \/ Renew

Spec == Init /\ [][Next]_vars
=============================================================================
