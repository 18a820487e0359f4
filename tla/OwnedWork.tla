----------------------------- MODULE OwnedWork -----------------------------
(***************************************************************************)
(* What the IP context service promises its process: work it started is    *)
(* counted until it has really ended, none starts once it drains, and      *)
(* Close reports success only when none is left.  IPContextService         *)
(* implements this specification and ServiceShutdown builds on it.         *)
(***************************************************************************)
EXTENDS Integers

CONSTANT Limit      \* flights at once

ASSUME LimitAssumption == Limit \in Nat \ {0}

VARIABLES
    work,           \* flights with outstanding work
    accepting,      \* the service has not begun to drain
    close           \* how far BeginDrain and Close are

ownedVars == <<work, accepting, close>>

OwnedInit == work = 0 /\ accepting = TRUE /\ close = "none"

StartWork ==
    /\ accepting /\ work < Limit
    /\ work' = work + 1
    /\ UNCHANGED <<accepting, close>>

EndWork ==
    /\ work > 0
    /\ work' = work - 1
    /\ UNCHANGED <<accepting, close>>

DrainWork ==
    /\ close = "none"
    /\ accepting' = FALSE
    /\ close' = "drained"
    /\ UNCHANGED work

CloseClean ==
    /\ close = "drained" /\ work = 0
    /\ close' = "closed"
    /\ UNCHANGED <<work, accepting>>

(* The deadline may win although the last work has just ended. *)
CloseGaveUp ==
    /\ close = "drained"
    /\ close' = "failed"
    /\ UNCHANGED <<work, accepting>>

OwnedNext == StartWork \/ EndWork \/ DrainWork \/ CloseClean \/ CloseGaveUp

OwnedSpec == OwnedInit /\ [][OwnedNext]_ownedVars

=============================================================================
