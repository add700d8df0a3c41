----------------------------- MODULE MCProvisioning -----------------------------
(***************************************************************************)
(* An instance of Provisioning for TLC: a tenant whose device is renamed,  *)
(* and another tenant.                                                     *)
(***************************************************************************)
EXTENDS Provisioning

MCNorm == [h \in Handle |-> IF h = "Jill" THEN "jill" ELSE h]

\* At home: jill's device, whatever the case of her handle.
MCHome == [tenant  |-> "davis",
           members |-> <<[handle |-> "jill", admin |-> TRUE]>>,
           devices |-> <<[member |-> "Jill", name |-> "air", cred |-> "a"]>>]

\* The device is renamed and keeps its token file; the gateway's member comes.
MCRenamed == [tenant  |-> "davis",
              members |-> <<[handle |-> "Jill", admin |-> FALSE], [handle |-> "bradley", admin |-> FALSE]>>,
              devices |-> <<[member |-> "jill", name |-> "mini", cred |-> "a"],
                            [member |-> "bradley", name |-> "mini", cred |-> "b"]>>]

MCOther == [tenant  |-> "demo",
            members |-> <<[handle |-> "jill", admin |-> TRUE]>>,
            devices |-> <<[member |-> "jill", name |-> "air", cred |-> "b"]>>]

MCSpecs == {MCHome, MCRenamed, MCOther}
=============================================================================
