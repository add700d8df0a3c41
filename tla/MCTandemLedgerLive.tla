-------------------------- MODULE MCTandemLedgerLive --------------------------
(***************************************************************************)
(* Instances of TandemLedgerLive for TLC: bradley delegates to jill.       *)
(***************************************************************************)
EXTENDS TandemLedgerLive

CONSTANTS bradley, jill, s1, s2

MCTenantOf == [m \in Member |-> "davis"]
MCHandleOf == [m \in Member |-> m]

\* The transfer of s1 is the one that may never be applied.
MCPoison == {[from |-> bradley, src |-> s1]}
=============================================================================
