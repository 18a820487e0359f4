---------------------------- MODULE RequestLane ----------------------------
(***************************************************************************)
(* The request lane of the web client (frontend/state.js): one record per  *)
(* purpose, and transitionRequest as one operator per event.  An event     *)
(* that the lane's owner did not send leaves the lane as it is.            *)
(*                                                                         *)
(* A signature is the canonical input with its auth revision, or NoSig for *)
(* the empty string of an invalid input.  Timestamps, messages and retry   *)
(* times are left out.                                                     *)
(***************************************************************************)
EXTENDS Integers

CONSTANTS
    Purposes,       \* diagnostics and topology
    NoSig, NoOwner, NoResult

NoActive == [owner |-> NoOwner, sig |-> NoSig]

CreateRequestLane ==
    [phase |-> "idle", sig |-> NoSig, active |-> NoActive, result |-> NoResult,
     error |-> "none", cancellation |-> "none"]

OwnsRequest(state, owner, sig) ==
    /\ state.phase = "loading"
    /\ state.active = [owner |-> owner, sig |-> sig]
    /\ state.sig = sig

InputChanged(state, sig) ==
    [CreateRequestLane EXCEPT !.sig = sig]

RequestStarted(state, owner, sig) ==
    [CreateRequestLane EXCEPT !.phase = "loading", !.sig = sig,
                              !.active = [owner |-> owner, sig |-> sig]]

RequestFinalized(state, owner, sig) ==
    IF state.active = [owner |-> owner, sig |-> sig]
    THEN [state EXCEPT !.active = NoActive]
    ELSE state

RequestSucceeded(state, owner, sig, report) ==
    IF OwnsRequest(state, owner, sig)
    THEN [state EXCEPT !.phase = "ready", !.error = "none", !.cancellation = "none",
                       !.result = [owner |-> owner, sig |-> sig, report |-> report]]
    ELSE state

RequestFailed(state, owner, sig, error) ==
    IF OwnsRequest(state, owner, sig)
    THEN [state EXCEPT !.phase = "error", !.result = NoResult, !.error = error,
                       !.cancellation = "none"]
    ELSE state

RequestCancelled(state, owner, sig, reason) ==
    IF OwnsRequest(state, owner, sig)
    THEN [state EXCEPT !.phase = "cancelled", !.result = NoResult, !.error = "none",
                       !.cancellation = reason]
    ELSE state

(***************************************************************************)
(* normalizeRequestError: what a lane shows of a failure.  Aborting a      *)
(* fetch rejects it with an AbortError, and an expired deadline takes      *)
(* precedence over whatever error came first.                              *)
(***************************************************************************)
NormalizeRequestError(thrown, reason) ==
    CASE reason = "timeout"      -> "timeout"
      [] thrown = "AbortError"   -> "cancelled"
      [] thrown = "TypeError"    -> "network"
      [] thrown \in {"http", "invalid-response"} -> thrown
      [] OTHER                   -> "network"
=============================================================================
