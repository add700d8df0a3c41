------------------------------- MODULE MCTandem -------------------------------
(***************************************************************************)
(* Instances of Tandem for TLC: bradley delegates todos to jill.           *)
(***************************************************************************)
EXTENDS Tandem

CONSTANTS bradley, jill, s1, s2

MCTenantOf == [m \in Member |-> "davis"]
MCHandleOf == [m \in Member |-> m]

\* Every todo of bradley's is tagged for jill, and all have the same title.
MCTodo == {k \in Key : k.from = bradley}
MCAssignee == [k \in Key |-> jill]
MCTitle == [k \in Key |-> "milk"]

\* No more copies than this are ever made: one per todo and one to spare.
MCCopies == 1 .. Cardinality(SrcUuid) + 1
=============================================================================
