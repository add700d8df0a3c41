---------------------------- MODULE MCTandemLedger ----------------------------
(***************************************************************************)
(* Instances of TandemLedger for TLC.                                      *)
(***************************************************************************)
EXTENDS TandemLedger

CONSTANTS bradley, jill   \* the two members of the first deployment

\* One tenant; the handle of a member is the member.
MCTenantOf == [m \in Member |-> "davis"]
MCHandleOf == [m \in Member |-> m]
=============================================================================
