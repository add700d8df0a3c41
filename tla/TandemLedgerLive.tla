--------------------------- MODULE TandemLedgerLive ---------------------------
(***************************************************************************)
(* The ledger with clients that keep going.  A spoke polls on a timer      *)
(* (LeaseDeliveries is fair) and in the end succeeds with every delivery   *)
(* it was handed, except that a transfer in Poison may fail forever: its   *)
(* create is nacked again and again, as core.py does for a todo that it    *)
(* cannot find again.  People, nacks and lease expiry have no fairness.    *)
(***************************************************************************)
EXTENDS TandemLedger

CONSTANT Poison   \* transfers whose deliveries are never acknowledged

ASSUME PoisonAssumption == Poison \subseteq Key

Ack(d) == \/ \E u \in DstUuid : AckCreate(d.to, d, u)
          \/ AckTerminal(d.to, d)

NextLive == \/ \E p \in Member : \/ LeaseDeliveries(p)
                                 \/ Watch(p)
                                 \/ \E h \in {HandleOf[m] : m \in Member}, s \in SrcUuid :
                                      PushTransfer(p, h, s)
                                 \/ \E k \in Key : \/ \E t \in Terminal : SetTerminal(p, k, t)
                                                   \/ UpgradeTerminal(p, k)
            \/ \E d \in Delivery : \/ LeaseExpires(d)
                                   \/ NackDelivery(d.to, d)
                                   \/ d.key \notin Poison /\ Ack(d)

Fairness == /\ \A p \in Member : WF_vars(LeaseDeliveries(p))
            /\ \A d \in Delivery : d.key \notin Poison => WF_vars(Ack(d))

LiveSpec == Init /\ [][NextLive]_vars /\ Fairness

\* Every delegation comes to an end for its recipient: its create is applied
\* or skipped, whatever else is in the queue (lease_deliveries).
CreateSettled ==
  \A k \in Key \ Poison :
    Exists(k) ~> (Exists(k) /\ deliveries[Create(k)].state = "done")

\* A terminal state seen on one side reaches the other: every transfer with a
\* terminal state is resolved in the end (observe, ack_delivery).
TerminalResolved ==
  \A k \in Key \ Poison : transfers[k].terminal # None ~> transfers[k].resolved
=============================================================================
