--------------------------- MODULE DeliveryPushProofs ---------------------------
(***************************************************************************)
(* Theorems about DeliveryPush: the readers are clients of the ledger, and *)
(* the generation counter never runs ahead of the commits.                 *)
(***************************************************************************)
EXTENDS DeliveryPush, TandemLedgerProofs

\* A commit counts the rows that it inserts, never down.
LEMMA ClockGrows ==
  ASSUME TypeOK, [Next]_vars
  PROVE  clock' \in Nat /\ clock <= clock'
<1>1. clock \in Nat
  BY DEF TypeOK
<1>2. clock' \in {clock, clock + 1}
  <2>1. CASE UNCHANGED vars
    BY <2>1 DEF vars
  <2>2. ASSUME NEW p \in Member, NEW D, NEW k, NEW t, QueueEcho(D, p, k, t)
        PROVE  clock' \in {clock, clock + 1}
    BY <2>2 DEF QueueEcho
  <2>3. CASE Next
    BY <2>2, <2>3 DEF Next, PushTransfer, LeaseDeliveries, LeaseExpires, AckCreate, AckTerminal,
      NackDelivery, Watch, SetTerminal, UpgradeTerminal
  <2> QED
    BY <2>1, <2>3
<1> QED
  BY <1>1, <1>2

LEMMA PushStepIsLedger == [PushNext]_pushVars => [Next]_vars
<1> SUFFICES ASSUME [PushNext]_pushVars PROVE [Next]_vars
  OBVIOUS
<1>1. CASE Commit
  BY <1>1 DEF Commit, Next
<1>2. ASSUME NEW p \in Member, Read(p) \/ TimeOut(p)
      PROVE  [Next]_vars
  BY <1>2 DEF Read, NextRequest, LeaseFinds, LeaseEmpty, Park, Wake, TimeOut, Next
<1>3. CASE SignalDelivery \/ UNCHANGED pushVars
  BY <1>3 DEF SignalDelivery, pushVars, vars
<1> QED
  BY <1>1, <1>2, <1>3 DEF PushNext

\* The readers, the signals and the timeouts are clients of the ledger: what is
\* proved of it, its life cycle included, holds however its threads park and
\* wake (hub/ledger.py as used by hub/api.py and hub/server.py).
THEOREM PushIsClient == PushSpec => Spec
<1>1. PushInit => Init
  BY DEF PushInit
<1> QED
  BY <1>1, PushStepIsLedger, PTL DEF PushSpec, Spec

LEMMA PushTypeNext ==
  ASSUME TypeOK', PushTypeOK, [PushNext]_pushVars
  PROVE  PushTypeOK'
<1>1. /\ gen \in 0 .. clock /\ clock \in Nat
      /\ reader \in [Member -> Place] /\ seen \in [Member -> 0 .. gen]
  BY DEF PushTypeOK, TypeOK
<1>2. clock' \in Nat /\ clock <= clock'
  BY PushStepIsLedger, ClockGrows DEF PushTypeOK
<1>3. ASSUME gen' = gen, reader' \in [Member -> Place], seen' \in [Member -> 0 .. gen]
      PROVE  PushTypeOK'
  BY <1>1, <1>2, <1>3 DEF PushTypeOK
<1>4. CASE Commit \/ UNCHANGED pushVars
  BY <1>1, <1>3, <1>4 DEF Commit, pushVars
<1>5. CASE SignalDelivery
  <2>1. gen' \in 0 .. clock' /\ gen' = gen + 1 /\ UNCHANGED <<reader, seen>>
    BY <1>1, <1>5 DEF SignalDelivery
  <2>2. \A m \in Member : seen[m] \in 0 .. gen'
    BY <1>1, <2>1
  <2>3. seen' \in [Member -> 0 .. gen']
    BY <1>1, <2>1, <2>2
  <2> QED
    BY <1>1, <2>1, <2>3 DEF PushTypeOK
<1>6. ASSUME NEW p \in Member, NEW place \in Place, Goto(p, place)
      PROVE  PushTypeOK'
  BY <1>1, <1>3, <1>6 DEF Goto
<1>7. ASSUME NEW p \in Member, Park(p)
      PROVE  PushTypeOK'
  BY <1>1, <1>3, <1>7 DEF Park, Place
<1>8. ASSUME NEW p \in Member, Read(p) \/ TimeOut(p)
      PROVE  PushTypeOK'
  <2>1. Park(p) \/ \E place \in Place : Goto(p, place)
    BY <1>8 DEF Read, NextRequest, LeaseFinds, LeaseEmpty, Wake, TimeOut, Place
  <2> QED
    BY <1>6, <1>7, <2>1
<1> QED
  BY <1>4, <1>5, <1>8 DEF PushNext

\* No signal precedes its commit, and no reader waits for a generation later
\* than the present one, which a wake-up would then never reach
\* (_signal_delivery after the commit; wait_for_delivery reads the generation
\* under the condition).
THEOREM PushTypes == PushSpec => []PushTypeOK
<1>1. Init => TypeOK
  BY TypeInit
<1>2. PushInit => PushTypeOK
  BY <1>1 DEF PushInit, PushTypeOK, Init, Place
<1>3. TypeOK' /\ PushTypeOK /\ [PushNext]_pushVars => PushTypeOK'
  BY PushTypeNext
<1> QED
  BY <1>2, <1>3, PushIsClient, TypeCorrect, PTL DEF PushSpec
=============================================================================
