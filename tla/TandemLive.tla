------------------------------ MODULE TandemLive ------------------------------
(***************************************************************************)
(* The whole system with spokes that keep running.  Both drivers call      *)
(* their phases forever on a timer and catch every exception               *)
(* (spoke/main.py, hub/server.py), so a phase always goes on (weak         *)
(* fairness), and a call or a write that is tried again and again succeeds *)
(* some time (strong fairness of its success).  Things makes the copy that *)
(* it was told to make, however late.  People owe nothing.                 *)
(***************************************************************************)
EXTENDS Tandem

Received(m) == Lease(m) /\ inbound'[m].batch # <<>>
Applied(m) == ApplyTerminal(m) /\ ~NackDelivery(m, Current(m))

\* The successes that each happen a bounded number of times: an ack, a push,
\* a report and their replies, a correlation, a verified retag.  Fairness of
\* their union is therefore fairness of each.
Acked(m) ==
  \/ (AckCopy(m) \/ Reack(m)) /\ AckCreate(m, Current(m), journal[Current(m).key].dst)
  \/ AckEcho(m) /\ AckTerminal(m, Current(m))
Success(m) ==
  \/ Acked(m)
  \/ Correlate(m)
  \/ \E k \in Todo : Outbound(m, k) /\ sent' # sent
  \/ \E e \in Entry : Report(m, e) /\ observed' # observed
  \/ \E e \in Entry : Retag(m, e) /\ retagged' # retagged

TandemFairness ==
  /\ \A m \in Member : /\ WF_allVars(Apply(m))
                       /\ WF_allVars(\E e \in Entry : Walk(m, e))
                       /\ SF_allVars(Received(m))
                       /\ SF_allVars(GetWatch(m))
                       /\ SF_allVars(Applied(m))
  /\ SF_allVars(\E m \in Member : Success(m))
  /\ \A d \in Delivery : WF_allVars(Expire(d))
  /\ \A u \in DstUuid : WF_allVars(ThingsMakes(u))

TandemLiveSpec == TandemSpec /\ TandemFairness

\* NO-LOSS: every delegation reaches its recipient or is resolved by its
\* sender's own end of the todo, through any number of lost calls, nacks,
\* expired leases, failed correlations and late copies (_inbound, _apply_create).
Delivered ==
  \A k \in Key : Exists(k) ~> (transfers[k].dst # None \/ transfers[k].resolved)

\* Completion round trip: whatever a party of a transfer does to its own todo,
\* the transfer is resolved in the end: the other party was told, or the
\* create was skipped.  The one exception is a sender's end that the mirror did
\* not show before the retag: the todo is completed and observed no more
\* (_observe_and_retag, observe, _apply_terminal).
EveryEndEchoes ==
  \A k \in Key : \A m \in Member :
    (Exists(k) /\ <<k, m>> \in acted)
      ~> (transfers[k].resolved \/ (m = k.from /\ k \in retagged))
=============================================================================
