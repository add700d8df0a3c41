---------------------------- MODULE LifecycleProofs ----------------------------
(***************************************************************************)
(* TandemLedger implements TransferLifecycle, for any members, tenants,    *)
(* todos and uuids: every operation of the ledger is a step of one         *)
(* delegation or leaves the life cycle of every delegation alone.          *)
(***************************************************************************)
EXTENDS TandemLedgerProofs

\* What the abstract specification sees of one transfer.
Same(k) == /\ StageOf(k)' = StageOf(k)
           /\ transfers'[k].terminal = transfers[k].terminal
           /\ EchoDone(k)' = EchoDone(k)

-----------------------------------------------------------------------------
(***************************************************************************)
(* Steps of the ledger in the terms of the life cycle.                     *)
(***************************************************************************)
\* Whether an echo is done is a Boolean, which the provers need as a value.
LEMMA EchoDoneValue ==
  ASSUME NEW k \in Key
  PROVE  /\ EchoDone(k) = TRUE \/ EchoDone(k) = FALSE
         /\ EchoDone(k)' = TRUE \/ EchoDone(k)' = FALSE
         /\ (EchoDone(k)' <=> EchoDone(k)) => EchoDone(k)' = EchoDone(k)
BY Zenon DEF EchoDone

LEMMA LifecycleInit == Init => Lifecycle!Init
<1> SUFFICES ASSUME Init PROVE Lifecycle!Init
  OBVIOUS
<1>1. \A k \in Key : StageOf(k) = "absent" /\ transfers[k].terminal = None
  BY DEF Init, StageOf, Exists, NoTransfer
<1>2. \A k \in Key : EchoDone(k) = FALSE
  <2>1. \A k \in Key : ~EchoDone(k)
    BY DEF Init, EchoDone, NoRow
  <2> QED
    BY <2>1, EchoDoneValue
<1> QED
  BY <1>1, <1>2 DEF Lifecycle!Init

\* A transfer whose rows keep their meaning keeps its place.
LEMMA KeepsPlace ==
  ASSUME IInv, NEW k \in Key, transfers'[k] = transfers[k],
         \A d \in Delivery : d.key = k =>
           /\ Pending(d)' <=> Pending(d)
           /\ (deliveries'[d].state = "done") <=> (deliveries[d].state = "done")
  PROVE  Same(k)
<1>1. Create(k)' = Create(k) /\ (Exists(k)' <=> Exists(k))
  BY DEF Create, Exists
<1>2. Exists(k) => Create(k) \in Delivery /\ Create(k).key = k
  BY DeliveryNames DEF IInv, Create
<1>3. EchoDone(k)' = EchoDone(k)
  <2>1. EchoDone(k)' <=> EchoDone(k)
    BY DEF EchoDone
  <2> QED
    BY <2>1, EchoDoneValue
<1>4. StageOf(k)' = StageOf(k)
  <2>1. CASE Exists(k)
    <3>1. Pending(Create(k))' <=> Pending(Create(k))
      BY <1>1, <1>2, <2>1
    <3> QED
      BY <1>1, <3>1 DEF StageOf
  <2>2. CASE ~Exists(k)
    BY <1>1, <2>2 DEF StageOf
  <2> QED
    BY <2>1, <2>2
<1> QED
  BY <1>3, <1>4 DEF Same

\* If nothing happens to any transfer the life cycle stutters.
LEMMA Stutter ==
  ASSUME \A k \in Key : Same(k)
  PROVE  UNCHANGED Lifecycle!vars
<1>1. /\ [k \in Key |-> StageOf(k)]' = [k \in Key |-> StageOf(k)]
      /\ [k \in Key |-> transfers[k].terminal]' = [k \in Key |-> transfers[k].terminal]
  BY DEF Same
<1>2. [k \in Key |-> EchoDone(k)]' = [k \in Key |-> EchoDone(k)]
  BY DEF Same
<1> QED
  BY <1>1, <1>2 DEF Lifecycle!vars

\* What happens to the stage, the terminal state and the echo of one transfer.
Creates(k) == /\ StageOf(k) = "absent" /\ StageOf(k)' = "created"
              /\ transfers'[k].terminal = transfers[k].terminal
              /\ EchoDone(k)' = EchoDone(k)
Applies(k) == /\ StageOf(k) = "created" /\ StageOf(k)' = "applied"
              /\ transfers'[k].terminal = transfers[k].terminal
              /\ EchoDone(k)' = EchoDone(k)
Observes(k, t) == /\ StageOf(k) \in {"created", "applied"} /\ StageOf(k)' = StageOf(k)
                  /\ transfers[k].terminal = None /\ transfers'[k].terminal = t
                  /\ EchoDone(k)' = EchoDone(k)
Skips(k, t) == /\ StageOf(k) = "created" /\ StageOf(k)' = "skipped"
               /\ \/ transfers[k].terminal = None
                  \/ transfers[k].terminal = "canceled" /\ t = "completed"
               /\ transfers'[k].terminal = t
               /\ EchoDone(k)' = EchoDone(k)
Upgrades(k) == /\ StageOf(k)' = StageOf(k)
               /\ transfers[k].terminal = "canceled" /\ transfers'[k].terminal = "completed"
               /\ ~EchoDone(k) /\ EchoDone(k)' = EchoDone(k)
Echoes(k) == /\ StageOf(k) = "applied" /\ StageOf(k)' = "applied"
             /\ transfers[k].terminal # None /\ transfers'[k].terminal = transfers[k].terminal
             /\ ~EchoDone(k) /\ EchoDone(k)'

OneOf(k) == \/ Same(k) \/ Creates(k) \/ Applies(k) \/ Upgrades(k) \/ Echoes(k)
            \/ \E t \in Terminal : Observes(k, t) \/ Skips(k, t)

\* If each of the other transfers keeps its place, it is one step of the life cycle.
LEMMA OneStep ==
  ASSUME NEW k \in Key, \A j \in Key : j # k => Same(j), OneOf(k)
  PROVE  [Lifecycle!Next]_(Lifecycle!vars)
<1> DEFINE stage == [j \in Key |-> StageOf(j)]
           terminal == [j \in Key |-> transfers[j].terminal]
           echoed == [j \in Key |-> EchoDone(j)]
<1>1. /\ stage' = [stage EXCEPT ![k] = StageOf(k)'] /\ stage[k] = StageOf(k)
      /\ StageOf(k)' = StageOf(k) => stage' = stage
  BY DEF Same
<1>2. /\ terminal' = [terminal EXCEPT ![k] = transfers'[k].terminal]
      /\ terminal[k] = transfers[k].terminal
      /\ transfers'[k].terminal = transfers[k].terminal => terminal' = terminal
  BY DEF Same
<1>3. EchoDone(k)' = EchoDone(k) => echoed' = echoed
  BY DEF Same
<1>4. EchoDone(k)' => echoed' = [echoed EXCEPT ![k] = TRUE]
  <2> SUFFICES ASSUME EchoDone(k)' PROVE echoed' = [echoed EXCEPT ![k] = TRUE]
    OBVIOUS
  <2>1. EchoDone(k)' = TRUE
    BY EchoDoneValue
  <2> QED
    BY <2>1 DEF Same
<1>5. ~EchoDone(k) => ~echoed[k]
  OBVIOUS
<1>6. CASE Same(k)
  BY <1>6, Stutter
<1>7. CASE Creates(k)
  <2>1. Lifecycle!Create(k)
    BY <1>1, <1>2, <1>3, <1>7 DEF Creates, Lifecycle!Create
  <2> QED
    BY <2>1 DEF Lifecycle!Next
<1>8. CASE Applies(k)
  <2>1. Lifecycle!Apply(k)
    BY <1>1, <1>2, <1>3, <1>8 DEF Applies, Lifecycle!Apply
  <2> QED
    BY <2>1 DEF Lifecycle!Next
<1>9. CASE Upgrades(k)
  <2>1. Lifecycle!Upgrade(k)
    BY <1>1, <1>2, <1>3, <1>5, <1>9 DEF Upgrades, Lifecycle!Upgrade
  <2> QED
    BY <2>1 DEF Lifecycle!Next
<1>10. CASE Echoes(k)
  <2>1. Lifecycle!Echo(k)
    BY <1>1, <1>2, <1>4, <1>5, <1>10 DEF Echoes, Lifecycle!Echo
  <2> QED
    BY <2>1 DEF Lifecycle!Next
<1>11. ASSUME NEW t \in Terminal, Observes(k, t)
       PROVE  [Lifecycle!Next]_(Lifecycle!vars)
  <2>1. Lifecycle!Observe(k, t)
    BY <1>1, <1>2, <1>3, <1>11 DEF Observes, Lifecycle!Observe
  <2> QED
    BY <2>1 DEF Lifecycle!Next, Lifecycle!Terminal, Terminal
<1>12. ASSUME NEW t \in Terminal, Skips(k, t)
       PROVE  [Lifecycle!Next]_(Lifecycle!vars)
  <2>1. Lifecycle!Skip(k, t)
    BY <1>1, <1>2, <1>3, <1>12, NullAssumption DEF Skips, Lifecycle!Skip
  <2> QED
    BY <2>1 DEF Lifecycle!Next, Lifecycle!Terminal, Terminal
<1> QED
  BY <1>6, <1>7, <1>8, <1>9, <1>10, <1>11, <1>12 DEF OneOf

-----------------------------------------------------------------------------
(***************************************************************************)
(* One lemma per operation of the ledger.                                  *)
(***************************************************************************)
\* What the row of an echo says of the transfer it belongs to.
LEMMA DoneEchoIsTheEcho ==
  ASSUME IInv, NEW k \in Key, EchoDone(k)
  PROVE  /\ transfers[k].resolved /\ transfers[k].terminal # None
         /\ EchoOf(k) \in Delivery /\ EchoOf(k).key = k
         /\ EchoOf(k).kind = Echo[transfers[k].terminal]
         /\ deliveries[EchoOf(k)].state = "done"
<1>1. PICK d \in Delivery : d.key = k /\ d.kind # "create" /\ deliveries[d].state = "done"
  BY DEF EchoDone
<1>2. transfers[k].terminal # None /\ d = EchoOf(k)
  BY <1>1 DEF IInv, EchoFollowsTerminal
<1>3. transfers[k].resolved
  BY <1>1 DEF IInv, EchoInv
<1> QED
  BY <1>1, <1>2, <1>3 DEF EchoOf, EchoTo

LEMMA PushSteps ==
  ASSUME IInv, NEW p \in Member, NEW h, NEW s \in SrcUuid, PushTransfer(p, h, s)
  PROVE  [Lifecycle!Next]_(Lifecycle!vars)
<1> DEFINE k == [from |-> p, src |-> s]
<1>1. PICK to \in Member :
        /\ ~Exists(k)
        /\ transfers' = [transfers EXCEPT ![k] = [NoTransfer EXCEPT !.to = to]]
        /\ deliveries' = Insert(deliveries, [key |-> k, kind |-> "create", to |-> to])
  BY DEF PushTransfer
<1> DEFINE c == [key |-> k, kind |-> "create", to |-> to]
<1>2. k \in Key /\ c \in Delivery /\ c.key = k /\ c.kind = "create"
  BY DEF Key, Delivery, Kind
<1>3. /\ transfers'[k].to = to /\ transfers'[k].dst = None /\ transfers'[k].terminal = None
      /\ \A j \in Key : j # k => transfers'[j] = transfers[j]
  BY <1>1, <1>2 DEF IInv, TypeOK, NoTransfer
<1>4. \A d \in Delivery : d.key = k => deliveries[d].state = "absent"
  BY <1>1 DEF IInv, RowInv
<1>5. /\ deliveries'[c].state = "queued"
      /\ \A d \in Delivery : d # c => deliveries'[d] = deliveries[d]
  BY <1>1, <1>2, <1>4 DEF IInv, TypeOK, Insert
<1>6. \A j \in Key : j # k => Same(j)
  BY <1>2, <1>3, <1>5, KeepsPlace DEF Pending
<1>7. Creates(k)
  <2>1. StageOf(k) = "absent" /\ transfers[k].terminal = None
    BY <1>1, <1>2 DEF StageOf, Exists, IInv, TransferInv, NoTransfer
  <2>2. StageOf(k)' = "created"
    BY <1>3, <1>5, MemberAssumption DEF StageOf, Exists, Create, Pending
  <2>3. EchoDone(k)' = EchoDone(k)
    <3>1. EchoDone(k)' <=> EchoDone(k)
      BY <1>2, <1>4, <1>5 DEF EchoDone
    <3> QED
      BY <1>2, <3>1, EchoDoneValue
  <2> QED
    BY <1>3, <2>1, <2>2, <2>3 DEF Creates
<1> QED
  BY <1>2, <1>6, <1>7, OneStep DEF OneOf

\* Leasing, expiry, nacks and watchlists are no step of any life cycle.
LEMMA QuietSteps ==
  ASSUME IInv, transfers' = transfers,
         \A d \in Delivery :
           /\ Pending(d)' <=> Pending(d)
           /\ (deliveries'[d].state = "done") <=> (deliveries[d].state = "done")
  PROVE  [Lifecycle!Next]_(Lifecycle!vars)
<1>1. \A k \in Key : Same(k)
  BY KeepsPlace
<1> QED
  BY <1>1, Stutter

LEMMA LeaseSteps ==
  ASSUME IInv, NEW p \in Member, LeaseDeliveries(p)
  PROVE  [Lifecycle!Next]_(Lifecycle!vars)
<1>1. ASSUME NEW d \in Delivery
      PROVE  /\ Pending(d)' <=> Pending(d)
             /\ (deliveries'[d].state = "done") <=> (deliveries[d].state = "done")
  <2>1. CASE d \in Batch(p)
    <3>1. Pending(d)
      BY <2>1 DEF Batch, Leasable
    <3>2. deliveries'[d].state = "leased"
      BY <2>1 DEF LeaseDeliveries, IInv, TypeOK, Row
    <3> QED
      BY <3>1, <3>2 DEF Pending
  <2>2. CASE d \notin Batch(p)
    BY <2>2 DEF LeaseDeliveries, Pending
  <2> QED
    BY <2>1, <2>2
<1> QED
  BY <1>1, QuietSteps DEF LeaseDeliveries

LEMMA ExpirySteps ==
  ASSUME IInv, NEW d \in Delivery, LeaseExpires(d)
  PROVE  [Lifecycle!Next]_(Lifecycle!vars)
<1>1. \A e \in Delivery : deliveries'[e].state = deliveries[e].state
  BY DEF IInv, TypeOK, Row, LeaseExpires
<1> QED
  BY <1>1, QuietSteps DEF LeaseExpires, Pending

LEMMA NackSteps ==
  ASSUME IInv, NEW p \in Member, NEW d \in Delivery, NackDelivery(p, d)
  PROVE  [Lifecycle!Next]_(Lifecycle!vars)
<1>1. /\ \A e \in Delivery : e # d => deliveries'[e].state = deliveries[e].state
      /\ deliveries'[d].state = "queued" /\ Pending(d)
  BY DEF IInv, TypeOK, Row, NackDelivery, Answerable
<1> QED
  BY <1>1, QuietSteps DEF NackDelivery, Pending

\* The ack of a create is the application of a created transfer.
LEMMA AckCreateSteps ==
  ASSUME IInv, NEW p \in Member, NEW d \in Delivery, NEW u \in DstUuid, AckCreate(p, d, u)
  PROVE  [Lifecycle!Next]_(Lifecycle!vars)
<1> DEFINE k == d.key
           t == transfers[k].terminal
<1>1. k \in Key /\ d.to \in Member
  BY DEF Delivery
<1>2. d.kind = "create" /\ Pending(d)
  BY DEF AckCreate, Answerable
<1>3. Exists(k) /\ d = Create(k)
  BY <1>1, <1>2 DEF IInv, RowInv, Pending, Create, Delivery
<1>4. transfers[k].dst = None /\ ~transfers[k].resolved
  BY <1>1, <1>2, <1>3 DEF IInv, CreateInv
<1>5. /\ transfers'[k].to = transfers[k].to /\ transfers'[k].dst = u
      /\ transfers'[k].terminal = transfers[k].terminal
      /\ \A j \in Key : j # k => transfers'[j] = transfers[j]
  BY <1>1 DEF AckCreate, IInv, TypeOK, Transfer
<1>6. \A e \in Delivery : e # d /\ (t = None \/ e # EchoTo(k, t, d.to)) => deliveries'[e] = deliveries[e]
  BY DEF AckCreate, Insert, Finish, IInv, TypeOK
<1>7. t # None =>
        LET e == EchoTo(k, t, d.to)
        IN  /\ e \in Delivery /\ e # d /\ e.key = k
            /\ (deliveries'[e].state = "done") <=> (deliveries[e].state = "done")
  <2> SUFFICES ASSUME t # None
               PROVE  LET e == EchoTo(k, t, d.to)
                      IN  /\ e \in Delivery /\ e # d /\ e.key = k
                          /\ (deliveries'[e].state = "done") <=> (deliveries[e].state = "done")
    OBVIOUS
  <2> DEFINE e == EchoTo(k, t, d.to)
  <2>1. e \in Delivery /\ e.kind # "create" /\ e.key = k
    BY <1>1, DeliveryNames DEF IInv, TypeOK, Transfer, EchoTo
  <2>2. deliveries' = Insert(Finish(deliveries, d), e)
    BY DEF AckCreate
  <2>3. deliveries \in [Delivery -> Row] /\ Finish(deliveries, d) \in [Delivery -> Row]
    BY RowTypes DEF IInv, TypeOK
  <2>4. Finish(deliveries, d)[e] = deliveries[e]
    BY <1>2, <2>1, <2>3 DEF Finish
  <2> QED
    BY <1>2, <2>1, <2>2, <2>3, <2>4 DEF Insert
<1>8. \A j \in Key : j # k => Same(j)
  BY <1>1, <1>5, <1>6, <1>7, KeepsPlace DEF Pending
<1>9. Applies(k)
  <2>1. StageOf(k) = "created"
    BY <1>2, <1>3, <1>4 DEF StageOf
  <2>2. StageOf(k)' = "applied"
    BY <1>3, <1>5, UuidAssumption DEF StageOf, Exists
  <2>3. EchoDone(k)' = EchoDone(k)
    <3>1. EchoDone(k)' <=> EchoDone(k)
      BY <1>2, <1>6, <1>7 DEF EchoDone
    <3> QED
      BY <1>1, <3>1, EchoDoneValue
  <2> QED
    BY <1>5, <2>1, <2>2, <2>3 DEF Applies
<1> QED
  BY <1>1, <1>8, <1>9, OneStep DEF OneOf

\* The ack of an echo tells the other party, for the first time.
LEMMA AckTerminalSteps ==
  ASSUME IInv, NEW p \in Member, NEW d \in Delivery, AckTerminal(p, d)
  PROVE  [Lifecycle!Next]_(Lifecycle!vars)
<1> DEFINE k == d.key
<1>1. k \in Key /\ d.kind # "create" /\ deliveries[d].handed /\ Pending(d)
  BY DEF Delivery, AckTerminal, Answerable
<1>2. Exists(k) /\ transfers[k].terminal # None /\ d = EchoOf(k)
  BY <1>1 DEF IInv, RowInv, EchoFollowsTerminal, Pending
<1>3. transfers[k].dst # None
  <2>1. CASE d.to # k.from
    BY <1>1, <2>1 DEF IInv, EchoAfterCopy
  <2>2. CASE d.to = k.from
    BY <1>1, <1>2, <2>2 DEF IInv, TransferInv, EchoOf, EchoTo, OtherParty
  <2> QED
    BY <2>1, <2>2
<1>4. /\ transfers'[k].to = transfers[k].to /\ transfers'[k].dst = transfers[k].dst
      /\ transfers'[k].terminal = transfers[k].terminal
      /\ \A j \in Key : j # k => transfers'[j] = transfers[j]
  BY <1>1 DEF AckTerminal, IInv, TypeOK, Transfer
<1>5. /\ deliveries'[d].state = "done"
      /\ \A e \in Delivery : e # d => deliveries'[e] = deliveries[e]
  BY DEF IInv, TypeOK, Row, AckTerminal, Finish
<1>6. \A j \in Key : j # k => Same(j)
  BY <1>1, <1>4, <1>5, KeepsPlace DEF Pending
<1>7. ~EchoDone(k)
  BY <1>1, <1>2, DoneEchoIsTheEcho DEF Pending
<1>8. EchoDone(k)'
  BY <1>1, <1>5 DEF EchoDone
<1>9. StageOf(k) = "applied" /\ StageOf(k)' = "applied"
  BY <1>2, <1>3, <1>4 DEF StageOf, Exists
<1> QED
  BY <1>1, <1>2, <1>4, <1>6, <1>7, <1>8, <1>9, OneStep DEF OneOf, Echoes

\* A report that is accepted observes, upgrades or skips.
LEMMA QueueEchoSteps ==
  ASSUME IInv, NEW p \in Member, NEW k \in Key, NEW t \in Terminal, NEW D \in [Delivery -> Row],
         Party(p, k), QueueEcho(D, p, k, t),
         \A d \in Delivery : /\ d.key # k \/ d.kind = "create" => D[d] = deliveries[d]
                             /\ (D[d].state = "done") <=> (deliveries[d].state = "done"),
         \/ transfers[k].terminal = None
         \/ transfers[k].terminal = "canceled" /\ t = "completed" /\ ~EchoDone(k)
  PROVE  [Lifecycle!Next]_(Lifecycle!vars)
<1> DEFINE toRecipient == OtherParty(p, k) = transfers[k].to /\ transfers[k].dst = None
           create == D[Create(k)].state
           echo == EchoTo(k, t, OtherParty(p, k))
<1>1. Exists(k) /\ Create(k) \in Delivery /\ Create(k).key = k /\ Create(k).kind = "create"
  BY DeliveryNames DEF IInv, Party, Create
<1>2. OtherParty(p, k) \in Member
  BY DEF IInv, TypeOK, OtherParty, Party, Exists, Transfer, Key
<1>3. echo \in Delivery /\ echo.key = k /\ echo.kind # "create"
  BY <1>2, DeliveryNames DEF IInv, EchoTo
<1>4. /\ transfers'[k].to = transfers[k].to /\ transfers'[k].dst = transfers[k].dst
      /\ transfers'[k].terminal = t
      /\ \A j \in Key : j # k => transfers'[j] = transfers[j]
  <2> DEFINE new == [transfers[k] EXCEPT !.terminal = t, !.by = p]
  <2>1. transfers'[k] = new \/ transfers'[k] = [new EXCEPT !.resolved = TRUE]
    BY DEF QueueEcho, IInv, TypeOK
  <2>2. \A j \in Key : j # k => transfers'[j] = transfers[j]
    BY DEF QueueEcho, IInv, TypeOK
  <2>3. transfers[k] \in Transfer
    BY DEF IInv, TypeOK
  <2> QED
    BY <2>1, <2>2, <2>3 DEF Transfer
<1>5. Create(k)' = Create(k) /\ Exists(k)'
  BY <1>1, <1>4 DEF Create, Exists
<1>6. CASE toRecipient /\ create = "queued"
  <2>1. deliveries' = Finish(D, Create(k))
    BY <1>6 DEF QueueEcho
  <2>2. /\ deliveries'[Create(k)].state = "done"
        /\ \A d \in Delivery : d # Create(k) => deliveries'[d] = D[d]
    BY <1>1, <2>1 DEF Finish, Row
  <2>3. \A j \in Key : j # k => Same(j)
    BY <1>1, <1>4, <2>2, KeepsPlace DEF Pending
  <2>4. StageOf(k) = "created"
    BY <1>1, <1>6 DEF StageOf, Pending
  <2>5. StageOf(k)' = "skipped"
    BY <1>4, <1>5, <1>6, <2>2 DEF StageOf, Pending
  <2>6. EchoDone(k)' = EchoDone(k)
    <3>1. EchoDone(k)' <=> EchoDone(k)
      BY <1>1, <2>2 DEF EchoDone
    <3> QED
      BY <3>1, EchoDoneValue
  <2>7. Skips(k, t)
    BY <1>4, <2>4, <2>5, <2>6 DEF Skips
  <2> QED
    BY <2>3, <2>7, OneStep DEF OneOf
<1>7. CASE ~(toRecipient /\ create = "queued")
  <2>1. deliveries' = D \/ deliveries' = Insert(D, echo)
    BY <1>7 DEF QueueEcho
  <2>2. \A d \in Delivery : /\ d.key # k \/ d.kind = "create" => deliveries'[d] = deliveries[d]
                            /\ (deliveries'[d].state = "done") <=> (deliveries[d].state = "done")
    <3>1. \A d \in Delivery : d # echo => Insert(D, echo)[d] = D[d]
      BY DEF Insert
    <3>2. (Insert(D, echo)[echo].state = "done") <=> (D[echo].state = "done")
      BY <1>3 DEF Insert, Row
    <3> QED
      BY <1>3, <2>1, <3>1, <3>2
  <2>3. \A j \in Key : j # k => Same(j)
    BY <1>4, <2>2, KeepsPlace DEF Pending
  <2>4. StageOf(k)' = StageOf(k)
    BY <1>1, <1>4, <1>5, <2>2 DEF StageOf, Pending
  <2>5. EchoDone(k)' = EchoDone(k)
    <3>1. EchoDone(k)' <=> EchoDone(k)
      BY <2>2 DEF EchoDone
    <3> QED
      BY <3>1, EchoDoneValue
  <2>6. CASE transfers[k].terminal = None
    <3>1. StageOf(k) \in {"created", "applied"}
      <4>1. ~transfers[k].resolved
        BY <2>6 DEF IInv, TransferInv
      <4>2. deliveries[Create(k)] \in Row
        BY <1>1 DEF IInv, TypeOK
      <4> QED
        BY <1>1, <4>1, <4>2 DEF StageOf, Pending, IInv, CreateInv, Row
    <3>2. Observes(k, t)
      BY <1>4, <2>4, <2>5, <2>6, <3>1 DEF Observes
    <3> QED
      BY <2>3, <3>2, OneStep DEF OneOf
  <2>7. CASE transfers[k].terminal = "canceled" /\ t = "completed" /\ ~EchoDone(k)
    <3>1. Upgrades(k)
      BY <1>4, <2>4, <2>5, <2>7 DEF Upgrades
    <3> QED
      BY <2>3, <3>1, OneStep DEF OneOf
  <2> QED
    BY <2>6, <2>7
<1> QED
  BY <1>6, <1>7

LEMMA SetTerminalSteps ==
  ASSUME IInv, NEW p \in Member, NEW k \in Key, NEW t \in Terminal, SetTerminal(p, k, t)
  PROVE  [Lifecycle!Next]_(Lifecycle!vars)
<1>1. deliveries \in [Delivery -> Row]
  BY DEF IInv, TypeOK
<1> QED
  BY <1>1, QueueEchoSteps DEF SetTerminal

\* The upgrade is refused once the cancel was told, so nobody was told before.
LEMMA UpgradeSteps ==
  ASSUME IInv, NEW p \in Member, NEW k \in Key, UpgradeTerminal(p, k)
  PROVE  [Lifecycle!Next]_(Lifecycle!vars)
<1>1. /\ transfers[k].terminal = "canceled" /\ ~CancelDelivered(k) /\ Party(p, k)
      /\ QueueEcho(WithoutCancel(k), p, k, "completed")
  BY DEF UpgradeTerminal
<1>2. ~EchoDone(k)
  <2> SUFFICES ASSUME EchoDone(k) PROVE FALSE
    OBVIOUS
  <2>1. Echo["canceled"] = "cancel"
    BY DEF Echo, Terminal
  <2> QED
    BY <1>1, <2>1, DoneEchoIsTheEcho DEF CancelDelivered
<1>3. WithoutCancel(k) \in [Delivery -> Row]
  BY DEF WithoutCancel, NoRow, Row, IInv, TypeOK
<1>4. \A d \in Delivery :
        /\ d.key # k \/ d.kind = "create" => WithoutCancel(k)[d] = deliveries[d]
        /\ (WithoutCancel(k)[d].state = "done") <=> (deliveries[d].state = "done")
  BY DEF WithoutCancel, NoRow, Pending
<1>5. "completed" \in Terminal
  BY DEF Terminal
<1> QED
  BY <1>1, <1>2, <1>3, <1>4, <1>5, QueueEchoSteps

-----------------------------------------------------------------------------
LEMMA StepImplements == IInv /\ [Next]_vars => [Lifecycle!Next]_(Lifecycle!vars)
<1> SUFFICES ASSUME IInv, [Next]_vars PROVE [Lifecycle!Next]_(Lifecycle!vars)
  OBVIOUS
<1>1. ASSUME NEW p \in Member, NEW h, NEW s \in SrcUuid, PushTransfer(p, h, s)
      PROVE  [Lifecycle!Next]_(Lifecycle!vars)
  BY <1>1, PushSteps
<1>2. ASSUME NEW p \in Member, LeaseDeliveries(p)
      PROVE  [Lifecycle!Next]_(Lifecycle!vars)
  BY <1>2, LeaseSteps
<1>3. ASSUME NEW d \in Delivery, LeaseExpires(d)
      PROVE  [Lifecycle!Next]_(Lifecycle!vars)
  BY <1>3, ExpirySteps
<1>4. ASSUME NEW p \in Member, NEW d \in Delivery, NEW u \in DstUuid, AckCreate(p, d, u)
      PROVE  [Lifecycle!Next]_(Lifecycle!vars)
  BY <1>4, AckCreateSteps
<1>5. ASSUME NEW p \in Member, NEW d \in Delivery, AckTerminal(p, d)
      PROVE  [Lifecycle!Next]_(Lifecycle!vars)
  BY <1>5, AckTerminalSteps
<1>6. ASSUME NEW p \in Member, NEW d \in Delivery, NackDelivery(p, d)
      PROVE  [Lifecycle!Next]_(Lifecycle!vars)
  BY <1>6, NackSteps
<1>7. ASSUME NEW p \in Member, Watch(p)
      PROVE  [Lifecycle!Next]_(Lifecycle!vars)
  BY <1>7, QuietSteps DEF Watch, Pending
<1>8. ASSUME NEW p \in Member, NEW k \in Key, NEW t \in Terminal, SetTerminal(p, k, t)
      PROVE  [Lifecycle!Next]_(Lifecycle!vars)
  BY <1>8, SetTerminalSteps
<1>9. ASSUME NEW p \in Member, NEW k \in Key, UpgradeTerminal(p, k)
      PROVE  [Lifecycle!Next]_(Lifecycle!vars)
  BY <1>9, UpgradeSteps
<1>10. CASE UNCHANGED vars
  BY <1>10, QuietSteps DEF vars, Pending
<1> QED
  BY <1>1, <1>2, <1>3, <1>4, <1>5, <1>6, <1>7, <1>8, <1>9, <1>10 DEF Next

\* The ledger implements the life cycle of a delegation: through every
\* interleaving of its clients, late and repeated calls included, a transfer is
\* created once, applied or skipped, ended once with the one upgrade, and told
\* once (hub/ledger.py as a whole).
THEOREM LedgerImplementsLifecycle == Spec => ImplementsLifecycle
<1> QED
  BY LifecycleInit, StepImplements, Invariance, PTL DEF Spec, ImplementsLifecycle, Lifecycle!Spec
=============================================================================
