----------------------------- MODULE MCTandemLive -----------------------------
(***************************************************************************)
(* Instances of TandemLive for TLC: bradley delegates a todo to jill, each *)
(* with a spoke that runs one loop.                                        *)
(***************************************************************************)
EXTENDS TandemLive

CONSTANTS bradley, jill

MCTenantOf == [m \in Member |-> "davis"]
MCHandleOf == [m \in Member |-> m]
MCTodo == {k \in Key : k.from = bradley}
MCAssignee == [k \in Key |-> jill]
MCTitle == [k \in Key |-> "milk"]
MCCopies == 1 .. 2
=============================================================================
