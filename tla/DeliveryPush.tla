----------------------------- MODULE DeliveryPush -----------------------------
(***************************************************************************)
(* The push primitive of the hub: the condition variable of class Ledger   *)
(* and the readers that park on it, composed with the ledger itself.       *)
(*                                                                         *)
(* A handler that inserts a delivery commits first and signals after that, *)
(* in a second step.  The transaction is an action of TandemLedger, which  *)
(* counts the inserted rows in clock; gen counts the signals sent so far   *)
(* (_delivery_gen), so clock - gen handlers are between the two steps.     *)
(*                                                                         *)
(* A member of Gateway is served by the in-process loop of hub/server.py,  *)
(* which parks and then leases; any other member by the held long poll of  *)
(* hub/api.py, which leases and then parks.                                *)
(***************************************************************************)
EXTENDS TandemLedger

CONSTANT Gateway   \* members whose spoke runs inside the hub

ASSUME GatewayAssumption == Gateway \subseteq Member

VARIABLES gen,      \* Ledger._delivery_gen
          reader,   \* where the inbound thread of each member is
          seen      \* the generation a parked reader waits to see changed

pushVars == <<transfers, deliveries, watched, clock, gen, reader, seen>>

Place == {"busy",     \* applying deliveries, or between two requests
          "lease",    \* about to call lease_deliveries
          "last",     \* the same, with the deadline of the request passed
          "empty",    \* about to call wait_for_delivery
          "parked"}   \* inside wait_for

PushInit == /\ Init
            /\ gen = 0
            /\ reader = [m \in Member |-> "busy"]
            /\ seen = [m \in Member |-> 0]

\* Everything that other threads of the hub commit.  The readers lease below.
Commit ==
  /\ \E p \in Member :
       \/ \E h \in {HandleOf[m] : m \in Member}, s \in SrcUuid : PushTransfer(p, h, s)
       \/ \E d \in Delivery : \/ LeaseExpires(d)
                              \/ \E u \in DstUuid : AckCreate(p, d, u)
                              \/ AckTerminal(p, d)
                              \/ NackDelivery(p, d)
       \/ Watch(p)
       \/ \E k \in Key : \/ \E t \in Terminal : SetTerminal(p, k, t)
                         \/ UpgradeTerminal(p, k)
  /\ UNCHANGED <<gen, reader, seen>>

\* _signal_delivery of a handler whose transaction is committed.
SignalDelivery ==
  /\ gen < clock
  /\ gen' = gen + 1
  /\ UNCHANGED <<transfers, deliveries, watched, clock, reader, seen>>

Goto(p, place) == /\ reader' = [reader EXCEPT ![p] = place]
                  /\ UNCHANGED <<gen, seen>>

\* The next request of a long poll leases at once; the loop of the gateway
\* parks first.
NextRequest(p) ==
  /\ reader[p] = "busy"
  /\ Goto(p, IF p \in Gateway THEN "empty" ELSE "lease")
  /\ UNCHANGED vars

LeaseFinds(p) ==
  /\ reader[p] \in {"lease", "last"}
  /\ LeaseDeliveries(p)
  /\ Goto(p, "busy")

\* A long poll goes on until its deadline; tick_inbound of the gateway ends.
LeaseEmpty(p) ==
  /\ reader[p] \in {"lease", "last"}
  /\ Batch(p) = {}
  /\ Goto(p, IF reader[p] = "last" \/ p \in Gateway THEN "busy" ELSE "empty")
  /\ UNCHANGED vars

\* Slips: the reader waits for one signal too many; it parks again without
\* looking, when woken or when timed out.
ParkAhead(p) ==
  /\ reader[p] = "empty"
  /\ reader' = [reader EXCEPT ![p] = "parked"]
  /\ seen' = [seen EXCEPT ![p] = gen + 1]
  /\ UNCHANGED <<vars, gen>>
WakeParks(p) == reader[p] = "parked" /\ gen # seen[p] /\ Goto(p, "empty") /\ UNCHANGED vars
TimeOutParks(p) == reader[p] \in {"lease", "parked"} /\ Goto(p, "empty") /\ UNCHANGED vars

\* wait_for_delivery: takes the generation and parks.
Park(p) ==
  /\ reader[p] = "empty"
  /\ reader' = [reader EXCEPT ![p] = "parked"]
  /\ seen' = [seen EXCEPT ![p] = gen]
  /\ UNCHANGED <<vars, gen>>

Wake(p) ==
  /\ reader[p] = "parked"
  /\ gen # seen[p]
  /\ Goto(p, "lease")
  /\ UNCHANGED vars

\* The timeout of wait_for, INBOUND_CV_CAP or what is left of the request's
\* min(wait, 30) seconds; a request with wait = 0 is at its end at once.
TimeOut(p) ==
  /\ reader[p] \in {"lease", "parked"}
  /\ Goto(p, "last")
  /\ UNCHANGED vars

Read(p) == NextRequest(p) \/ LeaseFinds(p) \/ LeaseEmpty(p) \/ Park(p) \/ Wake(p)

PushNext == Commit \/ SignalDelivery \/ \E p \in Member : Read(p) \/ TimeOut(p)

\* Threads keep running; the rest of the world need not, the timeouts neither.
Fairness == /\ WF_pushVars(SignalDelivery)
            /\ \A p \in CanReceive : WF_pushVars(Read(p))

PushSpec == PushInit /\ [][PushNext]_pushVars /\ Fairness

TimeOutsFire == \A p \in CanReceive : WF_pushVars(TimeOut(p))

-----------------------------------------------------------------------------
\* Every variable holds a value of the code's; a reader waits for a
\* generation that has been reached.
PushTypeOK == /\ TypeOK
              /\ gen \in 0 .. clock
              /\ reader \in [Member -> Place]
              /\ seen \in [Member -> 0 .. gen]

\* A row that no reader has fetched yet and that lease_deliveries would return.
Fresh(d) == Leasable(d.to, d) /\ ~deliveries[d].handed

\* As long as timeouts fire, every delivery that can be leased is leased in the
\* end, also if its signal came while no reader was parked: the timeout of
\* wait_for_delivery makes up for the wake-ups that the signal loses
\* (hub/api.py, hub/server.py).
FreshIsLeased == TimeOutsFire => \A d \in Delivery : Fresh(d) ~> ~Fresh(d)

\* Signals alone, should no timeout ever fire, are enough for a delivery that
\* was committed while its reader was parked: it is leased, because the signal
\* comes after the commit (_signal_delivery, wait_for_delivery).
ParkedReaderIsWoken ==
  \A d \in Delivery :
    (Fresh(d) /\ reader[d.to] = "parked" /\ deliveries[d].at >= seen[d.to]) ~> ~Fresh(d)
=============================================================================
