---------------------------- MODULE MCDeliveryPush ----------------------------
(***************************************************************************)
(* Instances of DeliveryPush for TLC: bradley's spoke runs inside the hub, *)
(* jill's polls over HTTP.                                                 *)
(***************************************************************************)
EXTENDS DeliveryPush

CONSTANTS bradley, jill

MCTenantOf == [m \in Member |-> "davis"]
MCHandleOf == [m \in Member |-> m]
=============================================================================
