----------------------------- MODULE MCTandemQueue -----------------------------
(***************************************************************************)
(* An instance of TandemQueue for TLC: bradley's spoke is the gateway's,   *)
(* jill's polls; either delegates a todo to the other.                     *)
(***************************************************************************)
EXTENDS TandemQueue

CONSTANTS bradley, jill

MCTenantOf == [m \in Member |-> "davis"]
MCHandleOf == [m \in Member |-> m]
MCTodo == Key
MCAssignee == [k \in Key |-> IF k.from = bradley THEN jill ELSE bradley]
MCTitle == [k \in Key |-> "milk"]

\* One copy, one more for each loss, and one to spare.
MCCopies == 1 .. Losses + 2
=============================================================================
