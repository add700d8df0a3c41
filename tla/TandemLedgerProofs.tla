-------------------------- MODULE TandemLedgerProofs --------------------------
(***************************************************************************)
(* Theorems about TandemLedger, for any members, tenants, todos and uuids. *)
(***************************************************************************)
EXTENDS TandemLedger, TLAPS

-----------------------------------------------------------------------------
(***************************************************************************)
(* What the helpers of the operations return.                              *)
(***************************************************************************)
\* A fresh row is a row, and so are the rows that queueing and finishing leave.
LEMMA RowTypes ==
  ASSUME TypeOK, NEW D \in [Delivery -> Row], NEW d \in Delivery
  PROVE  /\ Insert(D, d) \in [Delivery -> Row]
         /\ Finish(D, d) \in [Delivery -> Row]
         /\ NoRow \in Row
BY DEF TypeOK, Insert, Finish, NoRow, Row

\* The rows that name a transfer's create and its echoes.
LEMMA DeliveryNames ==
  ASSUME TypeOK, NEW k \in Key
  PROVE  /\ Exists(k) => Create(k) \in Delivery
         /\ \A t \in Terminal, m \in Member : EchoTo(k, t, m) \in Delivery
         /\ \A t \in Terminal, m \in Member : EchoTo(k, t, m).kind # "create"
BY DEF TypeOK, Create, EchoTo, Echo, Delivery, Kind, Terminal, Exists, Transfer

LEMMA TypeInit == Init => TypeOK
BY UuidAssumption, NullAssumption, MemberAssumption
   DEF Init, TypeOK, NoTransfer, NoRow, Transfer, Row, Terminal

LEMMA TypePush ==
  ASSUME TypeOK, NEW p \in Member, NEW h, NEW s \in SrcUuid, PushTransfer(p, h, s)
  PROVE  TypeOK'
<1>1. PICK to \in Member :
        /\ transfers' = [transfers EXCEPT ![[from |-> p, src |-> s]] = [NoTransfer EXCEPT !.to = to]]
        /\ deliveries' = Insert(deliveries, [key |-> [from |-> p, src |-> s], kind |-> "create", to |-> to])
  BY DEF PushTransfer
<1>2. [key |-> [from |-> p, src |-> s], kind |-> "create", to |-> to] \in Delivery
  BY DEF Delivery, Key, Kind
<1>3. deliveries' \in [Delivery -> Row]
  BY <1>1, <1>2, RowTypes DEF TypeOK
<1>4. [NoTransfer EXCEPT !.to = to] \in Transfer
  BY DEF NoTransfer, Transfer
<1>5. transfers' \in [Key -> Transfer]
  BY <1>1, <1>4 DEF TypeOK, Key
<1> QED
  BY <1>3, <1>5 DEF TypeOK, PushTransfer

LEMMA TypeLease ==
  ASSUME TypeOK, NEW p \in Member, LeaseDeliveries(p)
  PROVE  TypeOK'
BY DEF TypeOK, LeaseDeliveries, Row

LEMMA TypeExpires ==
  ASSUME TypeOK, NEW d \in Delivery, LeaseExpires(d)
  PROVE  TypeOK'
BY DEF TypeOK, LeaseExpires, Row

LEMMA TypeNack ==
  ASSUME TypeOK, NEW p \in Member, NEW d \in Delivery, NackDelivery(p, d)
  PROVE  TypeOK'
BY DEF TypeOK, NackDelivery, Row

LEMMA TypeAckTerminal ==
  ASSUME TypeOK, NEW p \in Member, NEW d \in Delivery, AckTerminal(p, d)
  PROVE  TypeOK'
<1>1. Finish(deliveries, d) \in [Delivery -> Row]
  BY RowTypes DEF TypeOK
<1>2. d.key \in Key
  BY DEF Delivery
<1>3. transfers' \in [Key -> Transfer]
  BY <1>2 DEF TypeOK, AckTerminal, Transfer
<1> QED
  BY <1>1, <1>3 DEF TypeOK, AckTerminal

LEMMA TypeAckCreate ==
  ASSUME TypeOK, NEW p \in Member, NEW d \in Delivery, NEW u \in DstUuid, AckCreate(p, d, u)
  PROVE  TypeOK'
<1> DEFINE t == transfers[d.key].terminal
<1>1. d.key \in Key /\ d.to \in Member /\ t \in Terminal \cup {None}
  BY DEF Delivery, TypeOK, Transfer
<1>2. transfers' \in [Key -> Transfer]
  BY <1>1 DEF TypeOK, AckCreate, Transfer
<1>3. Finish(deliveries, d) \in [Delivery -> Row]
  BY RowTypes DEF TypeOK
<1>4. CASE t = None
  BY <1>2, <1>3, <1>4 DEF TypeOK, AckCreate
<1>5. CASE t # None
  <2>1. EchoTo(d.key, t, d.to) \in Delivery
    BY <1>1, <1>5, DeliveryNames
  <2>2. Insert(Finish(deliveries, d), EchoTo(d.key, t, d.to)) \in [Delivery -> Row]
    BY <1>3, <2>1, RowTypes
  <2> QED
    BY <1>2, <2>2, <1>5 DEF TypeOK, AckCreate
<1> QED
  BY <1>4, <1>5

LEMMA TypeWatch ==
  ASSUME TypeOK, NEW p \in Member, Watch(p)
  PROVE  TypeOK'
BY DEF TypeOK, Watch, Watchlist

LEMMA TypeQueueEcho ==
  ASSUME TypeOK, NEW p \in Member, NEW k \in Key, NEW t \in Terminal,
         NEW D \in [Delivery -> Row], Party(p, k), QueueEcho(D, p, k, t), UNCHANGED watched
  PROVE  TypeOK'
<1> DEFINE new == [transfers[k] EXCEPT !.terminal = t, !.by = p]
<1>1. new \in Transfer /\ [new EXCEPT !.resolved = TRUE] \in Transfer
  BY DEF TypeOK, Transfer
<1>2. transfers' \in [Key -> Transfer]
  BY <1>1 DEF TypeOK, QueueEcho
<1>3. OtherParty(p, k) \in Member
  BY DEF TypeOK, OtherParty, Party, Exists, Transfer, Key
<1>4. Create(k) \in Delivery /\ EchoTo(k, t, OtherParty(p, k)) \in Delivery
  BY <1>3, DeliveryNames DEF Party
<1>5. /\ Finish(D, Create(k)) \in [Delivery -> Row]
      /\ Insert(D, EchoTo(k, t, OtherParty(p, k))) \in [Delivery -> Row]
  BY <1>4, RowTypes
<1>6. deliveries' \in [Delivery -> Row] /\ clock' \in Nat
  BY <1>5 DEF TypeOK, QueueEcho
<1> QED
  BY <1>2, <1>6 DEF TypeOK

-----------------------------------------------------------------------------
(***************************************************************************)
(* The inductive invariant, one lemma per kind of step.                    *)
(***************************************************************************)
LEMMA InvInit == Init => IInv
<1> SUFFICES ASSUME Init PROVE IInv
  OBVIOUS
<1>1. TypeOK
  BY TypeInit
<1>2. \A k \in Key : transfers[k] = NoTransfer
  BY DEF Init
<1>3. \A d \in Delivery : deliveries[d] = NoRow
  BY DEF Init
<1>4. \A d \in Delivery : d.key \in Key
  BY DEF Delivery
<1>5. \A k \in Key : k.from \in Member
  BY DEF Key
<1>6. TransferInv
  <2> SUFFICES ASSUME NEW k \in Key
               PROVE  /\ None # k.from
                      /\ NoTransfer.to = None /\ NoTransfer.by = None
                      /\ NoTransfer.terminal = None /\ ~NoTransfer.resolved
    BY <1>2 DEF TransferInv
  <2> QED
    BY <1>5, MemberAssumption DEF NoTransfer
<1>7. RowInv /\ EchoInv /\ EchoFollowsTerminal /\ EchoAfterCopy
  BY <1>2, <1>3, <1>4 DEF RowInv, EchoInv, EchoFollowsTerminal, EchoAfterCopy, NoTransfer, NoRow
<1>8. CreateInv /\ TerminalNotLost
  BY <1>2 DEF CreateInv, TerminalNotLost, NoTransfer, Exists
<1>9. WatchInv
  BY DEF WatchInv, Init
<1> QED
  BY <1>1, <1>6, <1>7, <1>8, <1>9 DEF IInv

\* Steps that leave the transfers alone and finish, insert and delete nothing:
\* leasing, expiry, nacks, watchlists.
LEMMA InvQuiet ==
  ASSUME IInv, TypeOK', transfers' = transfers, WatchInv',
         \A d \in Delivery :
           /\ Pending(d)' <=> Pending(d)
           /\ (deliveries'[d].state = "absent") <=> (deliveries[d].state = "absent")
           /\ (deliveries'[d].state = "done") <=> (deliveries[d].state = "done")
           /\ deliveries'[d].handed =>
                \/ deliveries[d].handed
                \/ /\ Pending(d)
                   /\ d.kind # "create" /\ d.to # d.key.from => transfers[d.key].dst # None
  PROVE  IInv'
<1>1. \A k \in Key : Exists(k) => Create(k) \in Delivery
  BY DeliveryNames DEF IInv
<1>2. \A k \in Key : Create(k)' = Create(k) /\ (Exists(k)' <=> Exists(k))
  BY DEF Create, Exists
<1>3. \A k \in Key : transfers[k].to \in Member \cup {None} /\ k.from \in Member
  BY DEF IInv, TypeOK, Transfer, Key
<1>4. TransferInv'
  BY DEF IInv, TransferInv
<1>5. RowInv'
  BY <1>2 DEF IInv, RowInv, Exists, Pending
<1>6. CreateInv'
  BY <1>1, <1>2 DEF IInv, CreateInv
<1>7. EchoInv'
  BY DEF IInv, EchoInv, EchoOf, EchoTo, OtherParty
<1>8. EchoFollowsTerminal'
  BY DEF IInv, EchoFollowsTerminal, EchoOf, EchoTo, OtherParty
<1>9. EchoAfterCopy'
  BY DEF IInv, EchoAfterCopy
<1>10. TerminalNotLost'
  <2> SUFFICES ASSUME NEW k \in Key, transfers[k].terminal # None, ~transfers[k].resolved
               PROVE  \/ Pending(Create(k))'
                      \/ \E m \in {k.from, transfers[k].to} :
                           /\ Pending(EchoTo(k, transfers[k].terminal, m))'
                           /\ (m = k.from \/ transfers[k].dst # None)
    BY <1>2 DEF TerminalNotLost
  <2>1. Exists(k) /\ transfers[k].terminal \in Terminal
    BY DEF IInv, TransferInv, NoTransfer, Exists, TypeOK, Transfer
  <2>2. CASE Pending(Create(k))
    BY <1>1, <1>2, <2>1, <2>2
  <2>3. CASE \E m \in {k.from, transfers[k].to} :
               /\ Pending(EchoTo(k, transfers[k].terminal, m))
               /\ (m = k.from \/ transfers[k].dst # None)
    <3>1. PICK m \in {k.from, transfers[k].to} :
               /\ Pending(EchoTo(k, transfers[k].terminal, m))
               /\ (m = k.from \/ transfers[k].dst # None)
      BY <2>3
    <3>2. m \in Member
      BY <1>3, <2>1 DEF Exists
    <3>3. EchoTo(k, transfers[k].terminal, m) \in Delivery
      BY <2>1, <3>2, DeliveryNames DEF IInv
    <3> QED
      BY <3>1, <3>3 DEF EchoTo
  <2> QED
    BY <2>2, <2>3 DEF IInv, TerminalNotLost
<1> QED
  BY <1>4, <1>5, <1>6, <1>7, <1>8, <1>9, <1>10 DEF IInv

LEMMA InvLease ==
  ASSUME IInv, NEW p \in Member, LeaseDeliveries(p)
  PROVE  IInv'
<1>1. TypeOK'
  BY TypeLease DEF IInv
<1>2. WatchInv'
  BY DEF IInv, WatchInv, LeaseDeliveries, Exists
<1>3. \A d \in Batch(p) : Leasable(p, d)
  BY DEF Batch
<1>4. ASSUME NEW d \in Delivery
      PROVE  /\ Pending(d)' <=> Pending(d)
             /\ (deliveries'[d].state = "absent") <=> (deliveries[d].state = "absent")
             /\ (deliveries'[d].state = "done") <=> (deliveries[d].state = "done")
             /\ deliveries'[d].handed =>
                  \/ deliveries[d].handed
                  \/ /\ Pending(d)
                     /\ d.kind # "create" /\ d.to # d.key.from => transfers[d.key].dst # None
  <2>1. deliveries[d] \in Row
    BY DEF IInv, TypeOK
  <2>2. CASE d \in Batch(p)
    <3>1. deliveries'[d] = [deliveries[d] EXCEPT !.state = "leased", !.live = TRUE, !.handed = TRUE]
      BY <2>2 DEF LeaseDeliveries
    <3>2. deliveries'[d].state = "leased"
      BY <2>1, <3>1 DEF Row
    <3>3. Leasable(p, d)
      BY <1>3, <2>2
    <3> QED
      BY <3>2, <3>3 DEF Leasable, Pending
  <2>3. CASE d \notin Batch(p)
    <3>1. deliveries'[d] = deliveries[d]
      BY <2>3 DEF LeaseDeliveries
    <3> QED
      BY <3>1 DEF Pending
  <2> QED
    BY <2>2, <2>3
<1> QED
  BY <1>1, <1>2, <1>4, InvQuiet DEF LeaseDeliveries

LEMMA InvExpires ==
  ASSUME IInv, NEW d \in Delivery, LeaseExpires(d)
  PROVE  IInv'
<1>1. TypeOK'
  BY TypeExpires DEF IInv
<1>2. WatchInv'
  BY DEF IInv, WatchInv, LeaseExpires, Exists
<1>3. \A e \in Delivery : /\ deliveries'[e].state = deliveries[e].state
                          /\ deliveries'[e].handed = deliveries[e].handed
  BY DEF IInv, TypeOK, Row, LeaseExpires
<1> QED
  BY <1>1, <1>2, <1>3, InvQuiet DEF LeaseExpires, Pending

LEMMA InvNack ==
  ASSUME IInv, NEW p \in Member, NEW d \in Delivery, NackDelivery(p, d)
  PROVE  IInv'
<1>1. TypeOK'
  BY TypeNack DEF IInv
<1>2. WatchInv'
  BY DEF IInv, WatchInv, NackDelivery, Exists
<1>3. \A e \in Delivery : /\ deliveries'[e].handed = deliveries[e].handed
                          /\ e # d => deliveries'[e].state = deliveries[e].state
  BY DEF IInv, TypeOK, Row, NackDelivery
<1>4. deliveries'[d].state = "queued" /\ Pending(d)
  BY DEF IInv, TypeOK, Row, NackDelivery, Answerable
<1> QED
  BY <1>1, <1>2, <1>3, <1>4, InvQuiet DEF NackDelivery, Pending

LEMMA InvWatch ==
  ASSUME IInv, NEW p \in Member, Watch(p)
  PROVE  IInv'
<1>1. TypeOK'
  BY TypeWatch DEF IInv
<1>2. \A k \in Watchlist(p) : /\ Exists(k)
                              /\ p \in {k.from, transfers[k].to}
                              /\ p # k.from => transfers[k].dst # None
  BY DEF Watchlist
<1>3. WatchInv'
  BY <1>2 DEF IInv, TypeOK, WatchInv, Watch, Exists
<1> QED
  BY <1>1, <1>3, InvQuiet DEF Watch, Pending

LEMMA InvPush ==
  ASSUME IInv, NEW p \in Member, NEW h, NEW s \in SrcUuid, PushTransfer(p, h, s)
  PROVE  IInv'
<1> DEFINE k == [from |-> p, src |-> s]
<1>1. PICK to \in Member :
        /\ to # p
        /\ ~Exists(k)
        /\ transfers' = [transfers EXCEPT ![k] = [NoTransfer EXCEPT !.to = to]]
        /\ deliveries' = Insert(deliveries, [key |-> k, kind |-> "create", to |-> to])
  BY DEF PushTransfer
<1> DEFINE c == [key |-> k, kind |-> "create", to |-> to]
<1>2. k \in Key /\ k.from = p /\ c \in Delivery /\ c.key = k /\ c.kind = "create" /\ c.to = to
  BY DEF Key, Delivery, Kind
<1>3. TypeOK'
  BY TypePush DEF IInv
<1>4. /\ transfers'[k].to = to /\ transfers'[k].dst = None /\ transfers'[k].terminal = None
      /\ transfers'[k].by = None /\ ~transfers'[k].resolved
  BY <1>1, <1>2 DEF IInv, TypeOK, NoTransfer
<1>5. \A j \in Key : j # k => transfers'[j] = transfers[j]
  BY <1>1 DEF IInv, TypeOK
<1>6. \A d \in Delivery : d.key \in Key /\ d.to \in Member
  BY DEF Delivery
<1>7. \A d \in Delivery : d.key = k => deliveries[d].state = "absent" /\ ~deliveries[d].handed
  BY <1>1, <1>2 DEF IInv, RowInv
<1>8. deliveries'[c].state = "queued" /\ ~deliveries'[c].handed
  BY <1>1, <1>2, <1>7 DEF IInv, TypeOK, Insert
<1>9. \A d \in Delivery : d # c => deliveries'[d] = deliveries[d]
  BY <1>1, <1>2, <1>7 DEF IInv, TypeOK, Insert
<1>10. to # None /\ p # None
  BY MemberAssumption
<1>11. Create(k)' = c /\ \A j \in Key : j # k => Create(j)' = Create(j) /\ (Exists(j)' <=> Exists(j))
  BY <1>2, <1>4, <1>5 DEF Create, Exists
<1>12. \A j \in Key : j # k => Create(j) # c
  BY <1>2 DEF Create
<1>13. TransferInv'
  <2> SUFFICES ASSUME NEW j \in Key
               PROVE  LET t == transfers'[j]
                      IN  /\ t.to = None => t = NoTransfer
                          /\ t.to # j.from
                          /\ t.terminal = None <=> t.by = None
                          /\ t.by # None => t.by \in {j.from, t.to}
                          /\ t.by # None /\ t.by # j.from => t.dst # None
                          /\ t.resolved => t.terminal # None
    BY DEF TransferInv
  <2>1. CASE j = k
    BY <1>1, <1>2, <1>4, <1>10, <2>1
  <2>2. CASE j # k
    BY <1>5, <2>2 DEF IInv, TransferInv
  <2> QED
    BY <2>1, <2>2
<1>14. RowInv'
  <2> SUFFICES ASSUME NEW d \in Delivery
               PROVE  /\ deliveries'[d].state # "absent" =>
                           Exists(d.key)' /\ (d.kind = "create" => d.to = transfers'[d.key].to)
                      /\ deliveries'[d].handed => deliveries'[d].state # "absent"
    BY DEF RowInv
  <2>1. CASE d = c
    BY <1>2, <1>4, <1>8, <1>10, <2>1 DEF Exists
  <2>2. CASE d # c
    BY <1>5, <1>6, <1>7, <1>9, <2>2 DEF IInv, RowInv, Exists
  <2> QED
    BY <2>1, <2>2
<1>15. CreateInv'
  <2> SUFFICES ASSUME NEW j \in Key, Exists(j)'
               PROVE  /\ deliveries'[Create(j)'].state # "absent"
                      /\ Pending(Create(j))' => transfers'[j].dst = None /\ ~transfers'[j].resolved
                      /\ deliveries'[Create(j)'].state = "done" =>
                           transfers'[j].dst # None \/ transfers'[j].resolved
    BY DEF CreateInv
  <2>1. CASE j = k
    BY <1>4, <1>8, <1>11, <2>1
  <2>2. CASE j # k
    <3>1. Exists(j) /\ Create(j) \in Delivery /\ Create(j) # c
      BY <1>11, <1>12, <2>2, DeliveryNames DEF IInv
    <3> QED
      BY <1>5, <1>9, <1>11, <2>2, <3>1 DEF IInv, CreateInv, Pending
  <2> QED
    BY <2>1, <2>2
<1>16. EchoInv'
  BY <1>2, <1>4, <1>5, <1>6, <1>7, <1>9 DEF IInv, EchoInv, EchoOf, EchoTo, OtherParty
<1>17. EchoFollowsTerminal'
  BY <1>2, <1>4, <1>5, <1>6, <1>7, <1>9 DEF IInv, EchoFollowsTerminal, EchoOf, EchoTo, OtherParty
<1>18. EchoAfterCopy'
  BY <1>2, <1>4, <1>5, <1>6, <1>7, <1>8, <1>9 DEF IInv, EchoAfterCopy
<1>19. WatchInv'
  BY <1>1, <1>5 DEF IInv, TypeOK, WatchInv, PushTransfer, Exists
<1>20. TerminalNotLost'
  <2> SUFFICES ASSUME NEW j \in Key, transfers'[j].terminal # None, ~transfers'[j].resolved
               PROVE  \/ Pending(Create(j))'
                      \/ \E m \in {j.from, transfers'[j].to} :
                           /\ Pending(EchoTo(j, transfers[j].terminal, m))'
                           /\ (m = j.from \/ transfers'[j].dst # None)
    BY <1>4, <1>5 DEF TerminalNotLost
  <2>1. j # k /\ transfers'[j] = transfers[j]
    BY <1>4, <1>5
  <2>2. Exists(j) /\ transfers[j].terminal \in Terminal /\ j.from \in Member /\ transfers[j].to \in Member
    <3>1. transfers[j] \in Transfer /\ transfers[j].terminal # None
      BY <2>1 DEF IInv, TypeOK
    <3>2. Exists(j)
      BY <3>1 DEF IInv, TransferInv, NoTransfer, Exists
    <3> QED
      BY <3>1, <3>2 DEF Exists, Transfer, Key
  <2>3. Create(j) \in Delivery
    BY <2>2, DeliveryNames DEF IInv
  <2>4. \A m \in {j.from, transfers[j].to} :
          /\ EchoTo(j, transfers[j].terminal, m) \in Delivery
          /\ EchoTo(j, transfers[j].terminal, m) # c
    BY <1>2, <2>1, <2>2, DeliveryNames DEF IInv, EchoTo
  <2>5. \A m : EchoTo(j, transfers[j].terminal, m)' = EchoTo(j, transfers[j].terminal, m)
    BY <2>1 DEF EchoTo
  <2> QED
    BY <1>9, <1>11, <1>12, <2>1, <2>2, <2>3, <2>4, <2>5 DEF IInv, TerminalNotLost, Pending
<1> QED
  BY <1>3, <1>13, <1>14, <1>15, <1>16, <1>17, <1>18, <1>19, <1>20 DEF IInv

\* The acknowledged echo is the transfer's only one, and its create is done.
LEMMA InvAckTerminal ==
  ASSUME IInv, NEW p \in Member, NEW d \in Delivery, AckTerminal(p, d)
  PROVE  IInv'
<1> DEFINE k == d.key
<1>1. TypeOK'
  BY TypeAckTerminal DEF IInv
<1>2. k \in Key /\ d.to \in Member
  BY DEF Delivery
<1>3. /\ transfers'[k].to = transfers[k].to /\ transfers'[k].dst = transfers[k].dst
      /\ transfers'[k].terminal = transfers[k].terminal /\ transfers'[k].by = transfers[k].by
      /\ transfers'[k].resolved
  BY <1>2 DEF IInv, TypeOK, Transfer, AckTerminal
<1>4. \A j \in Key : j # k => transfers'[j] = transfers[j]
  BY <1>2 DEF IInv, TypeOK, AckTerminal
<1>5. /\ deliveries'[d].state = "done" /\ deliveries'[d].handed = deliveries[d].handed
      /\ \A e \in Delivery : e # d => deliveries'[e] = deliveries[e]
  BY DEF IInv, TypeOK, Row, AckTerminal, Finish
<1>6. d.kind # "create" /\ deliveries[d].handed /\ Pending(d)
  BY DEF AckTerminal, Answerable
<1>7. Exists(k) /\ deliveries[d].state # "absent"
  BY <1>6 DEF IInv, RowInv, Pending
<1>8. /\ transfers[k].terminal # None
      /\ d = EchoOf(k)
  BY <1>6, <1>7 DEF IInv, EchoFollowsTerminal
<1>9. transfers[k].dst # None
  <2>1. CASE d.to # k.from
    BY <1>6, <2>1 DEF IInv, EchoAfterCopy
  <2>2. CASE d.to = k.from
    <3>1. transfers[k].by # k.from
      BY <1>2, <1>8, <2>2 DEF IInv, TransferInv, EchoOf, EchoTo, OtherParty
    <3> QED
      BY <1>2, <1>8, <3>1 DEF IInv, TransferInv
  <2> QED
    BY <2>1, <2>2
<1>10. \A j \in Key : Create(j)' = Create(j) /\ (Exists(j)' <=> Exists(j))
  BY <1>3, <1>4 DEF Create, Exists
<1>11. \A j \in Key : Create(j) # d
  BY <1>6 DEF Create
<1>12. \A j \in Key : Exists(j) => Create(j) \in Delivery
  BY DeliveryNames DEF IInv
<1>13. TransferInv'
  BY <1>2, <1>3, <1>4, <1>7, <1>8 DEF IInv, TransferInv, Exists
<1>14. RowInv'
  <2> SUFFICES ASSUME NEW e \in Delivery
               PROVE  /\ deliveries'[e].state # "absent" =>
                           Exists(e.key)' /\ (e.kind = "create" => e.to = transfers'[e.key].to)
                      /\ deliveries'[e].handed => deliveries'[e].state # "absent"
    BY DEF RowInv
  <2>1. e.key \in Key
    BY DEF Delivery
  <2>2. transfers'[e.key].to = transfers[e.key].to
    BY <1>3, <1>4, <2>1
  <2> QED
    BY <1>5, <1>6, <1>7, <2>1, <2>2 DEF IInv, RowInv, Exists
<1>15. CreateInv'
  <2> SUFFICES ASSUME NEW j \in Key, Exists(j)
               PROVE  /\ deliveries'[Create(j)].state # "absent"
                      /\ Pending(Create(j))' => transfers'[j].dst = None /\ ~transfers'[j].resolved
                      /\ deliveries'[Create(j)].state = "done" =>
                           transfers'[j].dst # None \/ transfers'[j].resolved
    BY <1>10 DEF CreateInv
  <2>1. deliveries'[Create(j)] = deliveries[Create(j)]
    BY <1>5, <1>11, <1>12
  <2>2. CASE j = k
    BY <1>3, <1>9, <1>10, <2>1, <2>2 DEF IInv, CreateInv, Pending
  <2>3. CASE j # k
    BY <1>4, <1>10, <2>1, <2>3 DEF IInv, CreateInv, Pending
  <2> QED
    BY <2>2, <2>3
<1>16. \A j \in Key : EchoOf(j)' = EchoOf(j)
  BY <1>3, <1>4 DEF EchoOf, EchoTo, OtherParty
<1>17. EchoInv' /\ EchoFollowsTerminal'
  <2> SUFFICES ASSUME NEW e \in Delivery
               PROVE  /\ e.kind # "create" /\ deliveries'[e].state = "done" => transfers'[e.key].resolved
                      /\ /\ transfers'[e.key].resolved
                         /\ transfers'[e.key].dst # None
                         /\ e = EchoOf(e.key)'
                         => deliveries'[e].state = "done"
                      /\ e.kind # "create" /\ deliveries'[e].state # "absent" =>
                           transfers'[e.key].terminal # None /\ e = EchoOf(e.key)'
    BY DEF EchoInv, EchoFollowsTerminal
  <2>1. e.key \in Key
    BY DEF Delivery
  <2>2. CASE e.key = k
    BY <1>2, <1>3, <1>5, <1>7, <1>8, <1>16, <2>2 DEF IInv, EchoFollowsTerminal
  <2>3. CASE e.key # k
    BY <1>4, <1>5, <1>16, <2>1, <2>3 DEF IInv, EchoInv, EchoFollowsTerminal
  <2> QED
    BY <2>2, <2>3
<1>18. EchoAfterCopy'
  <2> SUFFICES ASSUME NEW e \in Delivery, e.kind # "create", e.to # e.key.from, deliveries'[e].handed
               PROVE  transfers'[e.key].dst # None
    BY DEF EchoAfterCopy
  <2>1. transfers'[e.key].dst = transfers[e.key].dst /\ deliveries[e].handed
    BY <1>3, <1>4, <1>5 DEF Delivery
  <2> QED
    BY <2>1 DEF IInv, EchoAfterCopy
<1>19. WatchInv'
  <2>1. watched' = watched /\ watched \in [Member -> SUBSET Key]
    BY DEF AckTerminal, IInv, TypeOK
  <2> QED
    BY <1>3, <1>4, <1>10, <2>1 DEF IInv, WatchInv
<1>20. TerminalNotLost'
  <2> SUFFICES ASSUME NEW j \in Key, j # k, transfers[j].terminal # None, ~transfers[j].resolved
               PROVE  \/ Pending(Create(j))'
                      \/ \E m \in {j.from, transfers[j].to} :
                           /\ Pending(EchoTo(j, transfers[j].terminal, m))'
                           /\ (m = j.from \/ transfers[j].dst # None)
    BY <1>3, <1>4 DEF TerminalNotLost
  <2>1. transfers[j] \in Transfer
    BY DEF IInv, TypeOK
  <2>2. Exists(j)
    BY <2>1 DEF IInv, TransferInv, NoTransfer, Exists
  <2>3. transfers[j].terminal \in Terminal /\ j.from \in Member /\ transfers[j].to \in Member
    BY <2>1, <2>2 DEF Exists, Transfer, Key
  <2>4. \A m \in {j.from, transfers[j].to} :
          /\ EchoTo(j, transfers[j].terminal, m) \in Delivery
          /\ EchoTo(j, transfers[j].terminal, m) # d
    BY <2>3, DeliveryNames DEF IInv, EchoTo
  <2>5. \A m : EchoTo(j, transfers[j].terminal, m)' = EchoTo(j, transfers[j].terminal, m)
    BY <1>4 DEF EchoTo
  <2> QED
    BY <1>5, <1>10, <1>11, <1>12, <2>2, <2>4, <2>5 DEF IInv, TerminalNotLost, Pending
<1> QED
  BY <1>1, <1>13, <1>14, <1>15, <1>17, <1>18, <1>19, <1>20 DEF IInv

\* The acknowledged create is pending, so no copy is known and nothing is
\* resolved: a terminal state can only be the sender's, and the echo to the
\* recipient is on its way from now on.
LEMMA InvAckCreate ==
  ASSUME IInv, NEW p \in Member, NEW d \in Delivery, NEW u \in DstUuid, AckCreate(p, d, u)
  PROVE  IInv'
<1> DEFINE k == d.key
           t == transfers[k].terminal
<1>1. TypeOK'
  BY TypeAckCreate DEF IInv
<1>2. k \in Key /\ d.to \in Member /\ d.kind = "create" /\ u # None
  BY UuidAssumption DEF Delivery, AckCreate
<1>3. deliveries[d].handed /\ Pending(d)
  BY DEF AckCreate, Answerable
<1>4. Exists(k) /\ d.to = transfers[k].to
  BY <1>2, <1>3 DEF IInv, RowInv, Pending
<1>5. d = Create(k)
  BY <1>2, <1>4 DEF Create, Delivery
<1>6. transfers[k].dst = None /\ ~transfers[k].resolved
  BY <1>2, <1>3, <1>4, <1>5 DEF IInv, CreateInv
<1>7. t # None => transfers[k].by = k.from
  BY <1>2, <1>6 DEF IInv, TransferInv
<1>8. t # None => EchoOf(k) = EchoTo(k, t, d.to)
  BY <1>4, <1>7 DEF EchoOf, OtherParty
<1>9. t # None => t \in Terminal /\ EchoOf(k) \in Delivery /\ EchoOf(k).kind # "create"
                   /\ EchoOf(k).key = k /\ EchoOf(k).to = d.to
  <2>1. t \in Terminal \cup {None}
    BY <1>2 DEF IInv, TypeOK, Transfer
  <2> QED
    BY <1>2, <1>8, <2>1, DeliveryNames DEF IInv, EchoTo
<1>10. /\ transfers'[k].to = transfers[k].to /\ transfers'[k].dst = u
       /\ transfers'[k].terminal = t /\ transfers'[k].by = transfers[k].by
       /\ ~transfers'[k].resolved
  BY <1>2, <1>6 DEF IInv, TypeOK, Transfer, AckCreate
<1>11. \A j \in Key : j # k => transfers'[j] = transfers[j]
  BY <1>2 DEF IInv, TypeOK, AckCreate
<1>12. Finish(deliveries, d) \in [Delivery -> Row]
  BY RowTypes DEF IInv, TypeOK
<1>13. /\ Finish(deliveries, d)[d].state = "done"
       /\ Finish(deliveries, d)[d].handed = deliveries[d].handed
       /\ \A e \in Delivery : e # d => Finish(deliveries, d)[e] = deliveries[e]
  BY DEF IInv, TypeOK, Row, Finish
<1>14. deliveries' = IF t = None THEN Finish(deliveries, d)
                                 ELSE Insert(Finish(deliveries, d), EchoOf(k))
  BY <1>8 DEF AckCreate
<1>15. deliveries'[d].state = "done" /\ deliveries'[d].handed = deliveries[d].handed
  BY <1>2, <1>9, <1>12, <1>13, <1>14 DEF Insert
<1>16. ASSUME NEW e \in Delivery, e # d
       PROVE  \/ deliveries'[e] = deliveries[e]
              \/ /\ t # None /\ e = EchoOf(k)
                 /\ deliveries'[e].state = "queued" /\ ~deliveries'[e].handed
  BY <1>9, <1>12, <1>13, <1>14, <1>16 DEF Insert
<1>17. t # None => deliveries'[EchoOf(k)].state \in {"queued", "leased"}
  <2> SUFFICES ASSUME t # None
               PROVE  deliveries'[EchoOf(k)].state \in {"queued", "leased"}
    OBVIOUS
  <2>1. EchoOf(k) \in Delivery /\ EchoOf(k) # d
    BY <1>2, <1>9
  <2>2. deliveries[EchoOf(k)].state \in {"absent", "queued", "leased"}
    <3>1. deliveries[EchoOf(k)].state # "done"
      BY <1>6, <1>9 DEF IInv, EchoInv
    <3>2. deliveries[EchoOf(k)] \in Row
      BY <2>1 DEF IInv, TypeOK
    <3> QED
      BY <3>1, <3>2 DEF Row
  <2> QED
    BY <1>12, <1>13, <1>14, <2>1, <2>2 DEF Insert
<1>18. \A j \in Key : Create(j)' = Create(j) /\ (Exists(j)' <=> Exists(j))
  BY <1>10, <1>11 DEF Create, Exists
<1>19. \A j \in Key : EchoOf(j)' = EchoOf(j)
  BY <1>10, <1>11 DEF EchoOf, EchoTo, OtherParty
<1>20. \A e \in Delivery : e.key # k \/ e.kind = "create" => e = d \/ deliveries'[e] = deliveries[e]
  BY <1>9, <1>16
<1>21. \A j \in Key : Exists(j) => Create(j) \in Delivery /\ Create(j).key = j /\ Create(j).kind = "create"
  BY DeliveryNames DEF IInv, Create
<1>22. TransferInv'
  <2> SUFFICES ASSUME NEW j \in Key
               PROVE  LET x == transfers'[j]
                      IN  /\ x.to = None => x = NoTransfer
                          /\ x.to # j.from
                          /\ x.terminal = None <=> x.by = None
                          /\ x.by # None => x.by \in {j.from, x.to}
                          /\ x.by # None /\ x.by # j.from => x.dst # None
                          /\ x.resolved => x.terminal # None
    BY DEF TransferInv
  <2>1. CASE j = k
    BY <1>2, <1>4, <1>10, <2>1 DEF IInv, TransferInv, Exists
  <2>2. CASE j # k
    BY <1>11, <2>2 DEF IInv, TransferInv
  <2> QED
    BY <2>1, <2>2
<1>23. RowInv'
  <2> SUFFICES ASSUME NEW e \in Delivery
               PROVE  /\ deliveries'[e].state # "absent" =>
                           Exists(e.key)' /\ (e.kind = "create" => e.to = transfers'[e.key].to)
                      /\ deliveries'[e].handed => deliveries'[e].state # "absent"
    BY DEF RowInv
  <2>1. e.key \in Key /\ transfers'[e.key].to = transfers[e.key].to
    BY <1>10, <1>11 DEF Delivery
  <2>2. CASE e = d
    BY <1>4, <1>15, <1>18, <2>1, <2>2
  <2>3. CASE e # d
    BY <1>4, <1>9, <1>16, <1>18, <2>1, <2>3 DEF IInv, RowInv
  <2> QED
    BY <2>2, <2>3
<1>24. CreateInv'
  <2> SUFFICES ASSUME NEW j \in Key, Exists(j)
               PROVE  /\ deliveries'[Create(j)].state # "absent"
                      /\ Pending(Create(j))' => transfers'[j].dst = None /\ ~transfers'[j].resolved
                      /\ deliveries'[Create(j)].state = "done" =>
                           transfers'[j].dst # None \/ transfers'[j].resolved
    BY <1>18 DEF CreateInv
  <2>1. CASE j = k
    BY <1>2, <1>5, <1>10, <1>15, <1>18, <2>1 DEF Pending
  <2>2. CASE j # k
    <3>1. deliveries'[Create(j)] = deliveries[Create(j)]
      BY <1>20, <1>21, <2>2
    <3> QED
      BY <1>11, <1>18, <2>2, <3>1 DEF IInv, CreateInv, Pending
  <2> QED
    BY <2>1, <2>2
<1>25. EchoInv' /\ EchoFollowsTerminal'
  <2> SUFFICES ASSUME NEW e \in Delivery
               PROVE  /\ e.kind # "create" /\ deliveries'[e].state = "done" => transfers'[e.key].resolved
                      /\ /\ transfers'[e.key].resolved
                         /\ transfers'[e.key].dst # None
                         /\ e = EchoOf(e.key)'
                         => deliveries'[e].state = "done"
                      /\ e.kind # "create" /\ deliveries'[e].state # "absent" =>
                           transfers'[e.key].terminal # None /\ e = EchoOf(e.key)'
    BY DEF EchoInv, EchoFollowsTerminal
  <2>1. e.key \in Key
    BY DEF Delivery
  <2>2. CASE e.key = k
    <3>1. e.kind # "create" => deliveries[e].state # "done"
      BY <1>6, <2>2 DEF IInv, EchoInv
    <3>2. e.kind # "create" /\ deliveries[e].state # "absent" => t # None /\ e = EchoOf(k)
      BY <2>2 DEF IInv, EchoFollowsTerminal
    <3> QED
      BY <1>2, <1>10, <1>16, <1>19, <2>2, <3>1, <3>2
  <2>3. CASE e.key # k
    BY <1>11, <1>19, <1>20, <2>1, <2>3 DEF IInv, EchoInv, EchoFollowsTerminal
  <2> QED
    BY <2>2, <2>3
<1>26. EchoAfterCopy'
  <2> SUFFICES ASSUME NEW e \in Delivery, e.kind # "create", e.to # e.key.from, deliveries'[e].handed
               PROVE  transfers'[e.key].dst # None
    BY DEF EchoAfterCopy
  <2>1. CASE e.key = k
    BY <1>2, <1>10, <2>1
  <2>2. CASE e.key # k
    BY <1>11, <1>20, <2>2 DEF IInv, EchoAfterCopy, Delivery
  <2> QED
    BY <2>1, <2>2
<1>27. WatchInv'
  <2>1. watched' = watched /\ watched \in [Member -> SUBSET Key]
    BY DEF AckCreate, IInv, TypeOK
  <2> QED
    BY <1>2, <1>10, <1>11, <1>18, <2>1 DEF IInv, WatchInv
<1>28. TerminalNotLost'
  <2> SUFFICES ASSUME NEW j \in Key, transfers'[j].terminal # None, ~transfers'[j].resolved
               PROVE  \/ Pending(Create(j))'
                      \/ \E m \in {j.from, transfers'[j].to} :
                           /\ Pending(EchoTo(j, transfers[j].terminal, m))'
                           /\ (m = j.from \/ transfers'[j].dst # None)
    BY <1>10, <1>11 DEF TerminalNotLost
  <2>1. CASE j = k
    <3>1. t # None
      BY <1>10, <2>1
    <3>2. EchoTo(k, t, d.to)' = EchoOf(k)
      BY <1>8, <1>10, <3>1 DEF EchoTo
    <3>3. Pending(EchoTo(k, t, d.to))'
      BY <1>17, <3>1, <3>2 DEF Pending
    <3>4. d.to \in {k.from, transfers'[k].to}
      BY <1>4, <1>10
    <3> QED
      BY <1>2, <1>10, <2>1, <3>3, <3>4 DEF EchoTo
  <2>2. CASE j # k
    <3>1. transfers'[j] = transfers[j] /\ transfers[j] \in Transfer
      BY <1>11, <2>2 DEF IInv, TypeOK
    <3>2. Exists(j)
      BY <2>2, <3>1 DEF IInv, TransferInv, NoTransfer, Exists
    <3>3. transfers[j].terminal \in Terminal /\ j.from \in Member /\ transfers[j].to \in Member
      BY <3>1, <3>2 DEF Exists, Transfer, Key
    <3>4. \A m \in {j.from, transfers[j].to} :
            /\ EchoTo(j, transfers[j].terminal, m) \in Delivery
            /\ EchoTo(j, transfers[j].terminal, m).key # k
            /\ EchoTo(j, transfers[j].terminal, m) # d
      BY <2>2, <3>3, DeliveryNames DEF IInv, EchoTo
    <3>5. \A m : EchoTo(j, transfers[j].terminal, m)' = EchoTo(j, transfers[j].terminal, m)
      BY <3>1 DEF EchoTo
    <3> QED
      BY <1>18, <1>20, <1>21, <2>2, <3>1, <3>2, <3>4, <3>5 DEF IInv, TerminalNotLost, Pending
  <2> QED
    BY <2>1, <2>2
<1> QED
  BY <1>1, <1>22, <1>23, <1>24, <1>25, <1>26, <1>27, <1>28 DEF IInv

\* What an accepted report leaves behind: a skipped create, a leased create
\* whose ack will queue the echo, or a fresh echo.  D is the table without any
\* echo of the transfer.
LEMMA InvQueueEcho ==
  ASSUME IInv, NEW p \in Member, NEW k \in watched[p], NEW t \in Terminal,
         NEW D \in [Delivery -> Row],
         \A d \in Delivery : d.key # k \/ d.kind = "create" => D[d] = deliveries[d],
         \A d \in Delivery : d.key = k /\ d.kind # "create" => D[d].state = "absent" /\ ~D[d].handed,
         transfers[k].resolved => transfers[k].dst = None,
         QueueEcho(D, p, k, t), UNCHANGED watched
  PROVE  IInv'
<1> DEFINE o == OtherParty(p, k)
           e == EchoTo(k, t, o)
           c == Create(k)
           skip == /\ o = transfers[k].to /\ transfers[k].dst = None /\ D[c].state = "queued"
                   /\ deliveries' = Finish(D, c) /\ transfers'[k].resolved
           hold == /\ o = transfers[k].to /\ transfers[k].dst = None /\ D[c].state = "leased"
                   /\ deliveries' = D /\ transfers'[k].resolved = transfers[k].resolved
           echo == /\ \/ o # transfers[k].to \/ transfers[k].dst # None
                      \/ D[c].state \notin {"queued", "leased"}
                   /\ deliveries' = Insert(D, e) /\ transfers'[k].resolved = transfers[k].resolved
<1>1. /\ k \in Key /\ Exists(k) /\ p \in {k.from, transfers[k].to}
      /\ p # k.from => transfers[k].dst # None
  BY DEF IInv, TypeOK, WatchInv
<1>2. transfers[k] \in Transfer /\ k.from \in Member /\ transfers[k].to \in Member
  BY <1>1 DEF IInv, TypeOK, Transfer, Key, Exists
<1>3. TypeOK'
  <2>1. Party(p, k)
    BY <1>1 DEF Party
  <2> QED
    BY <1>1, <2>1, TypeQueueEcho DEF IInv
<1>4. o \in Member /\ (o # transfers[k].to => o = k.from)
  BY <1>1, <1>2 DEF OtherParty
<1>5. c \in Delivery /\ c.key = k /\ c.kind = "create" /\ D[c] = deliveries[c]
  BY <1>1, DeliveryNames DEF IInv, Create
<1>6. /\ e \in Delivery /\ e.key = k /\ e.kind # "create" /\ e.to = o
      /\ D[e].state = "absent"
  BY <1>1, <1>4, DeliveryNames DEF IInv, EchoTo
<1>7. /\ transfers'[k].to = transfers[k].to /\ transfers'[k].dst = transfers[k].dst
      /\ transfers'[k].terminal = t /\ transfers'[k].by = p
      /\ transfers[k].resolved => transfers'[k].resolved
  <2> DEFINE new == [transfers[k] EXCEPT !.terminal = t, !.by = p]
  <2>1. transfers'[k] = new \/ transfers'[k] = [new EXCEPT !.resolved = TRUE]
    BY <1>1 DEF IInv, TypeOK, QueueEcho
  <2>2. /\ new.to = transfers[k].to /\ new.dst = transfers[k].dst /\ new.terminal = t
        /\ new.by = p /\ new.resolved = transfers[k].resolved /\ new \in Transfer
    BY <1>2 DEF Transfer
  <2> QED
    BY <2>1, <2>2 DEF Transfer
<1>8. \A j \in Key : j # k => transfers'[j] = transfers[j]
  BY <1>1 DEF IInv, TypeOK, QueueEcho
<1>9. skip \/ hold \/ echo
  <2>1. [transfers[k] EXCEPT !.terminal = t, !.by = p].resolved = transfers[k].resolved
    BY <1>2 DEF Transfer
  <2>2. [[transfers[k] EXCEPT !.terminal = t, !.by = p] EXCEPT !.resolved = TRUE].resolved
    BY <1>2 DEF Transfer
  <2>3. transfers \in [Key -> Transfer]
    BY DEF IInv, TypeOK
  <2> QED
    BY <1>1, <2>1, <2>2, <2>3 DEF QueueEcho
<1>10. t # None
  BY NullAssumption DEF Terminal
<1>11. EchoOf(k)' = e
  BY <1>7 DEF EchoOf, EchoTo, OtherParty
<1>12. \A j \in Key : j # k => EchoOf(j)' = EchoOf(j)
  BY <1>8 DEF EchoOf, EchoTo, OtherParty
<1>13. \A j \in Key : Create(j)' = Create(j) /\ (Exists(j)' <=> Exists(j))
  BY <1>7, <1>8 DEF Create, Exists
<1>14. \A d \in Delivery : d.key # k => deliveries'[d] = deliveries[d]
  BY <1>5, <1>6, <1>9 DEF Insert, Finish
<1>15. \A d \in Delivery : d.key = k /\ d.kind # "create" =>
         /\ ~deliveries'[d].handed
         /\ deliveries'[d].state \in {"absent", "queued"}
         /\ deliveries'[d].state # "absent" => d = e
  BY <1>5, <1>6, <1>9 DEF Insert, Finish
<1>16. \A d \in Delivery : d.kind = "create" =>
         \/ deliveries'[d] = deliveries[d]
         \/ /\ d = c /\ transfers'[k].resolved
            /\ deliveries'[d].state = "done" /\ deliveries'[d].handed = deliveries[d].handed
  BY <1>5, <1>6, <1>9 DEF Insert, Finish, Row
<1>17. echo => deliveries'[e].state = "queued"
  BY <1>6 DEF Insert
<1>18. deliveries[c].state \in {"queued", "leased", "done"}
  <2>1. deliveries[c].state # "absent" /\ deliveries[c] \in Row
    BY <1>1, <1>5 DEF IInv, TypeOK, CreateInv
  <2> QED
    BY <2>1 DEF Row
<1>19. TransferInv'
  <2> SUFFICES ASSUME NEW j \in Key
               PROVE  LET x == transfers'[j]
                      IN  /\ x.to = None => x = NoTransfer
                          /\ x.to # j.from
                          /\ x.terminal = None <=> x.by = None
                          /\ x.by # None => x.by \in {j.from, x.to}
                          /\ x.by # None /\ x.by # j.from => x.dst # None
                          /\ x.resolved => x.terminal # None
    BY DEF TransferInv
  <2>1. CASE j = k
    <3>1. p # None
      BY MemberAssumption
    <3> QED
      BY <1>1, <1>7, <1>10, <2>1, <3>1 DEF IInv, TransferInv, Exists
  <2>2. CASE j # k
    BY <1>8, <2>2 DEF IInv, TransferInv
  <2> QED
    BY <2>1, <2>2
<1>20. RowInv'
  <2> SUFFICES ASSUME NEW d \in Delivery
               PROVE  /\ deliveries'[d].state # "absent" =>
                           Exists(d.key)' /\ (d.kind = "create" => d.to = transfers'[d.key].to)
                      /\ deliveries'[d].handed => deliveries'[d].state # "absent"
    BY DEF RowInv
  <2>1. d.key \in Key /\ transfers'[d.key].to = transfers[d.key].to
    BY <1>7, <1>8 DEF Delivery
  <2>2. CASE d.key # k
    BY <1>13, <1>14, <2>1, <2>2 DEF IInv, RowInv
  <2>3. CASE d.key = k /\ d.kind # "create"
    BY <1>1, <1>13, <1>15, <2>1, <2>3
  <2>4. CASE d.key = k /\ d.kind = "create"
    <3>1. d = c => d.to = transfers[k].to
      BY DEF Create
    <3> QED
      BY <1>1, <1>13, <1>16, <2>1, <2>4, <3>1 DEF IInv, RowInv
  <2> QED
    BY <2>2, <2>3, <2>4
<1>21. CreateInv'
  <2> SUFFICES ASSUME NEW j \in Key, Exists(j)
               PROVE  /\ deliveries'[Create(j)].state # "absent"
                      /\ Pending(Create(j))' => transfers'[j].dst = None /\ ~transfers'[j].resolved
                      /\ deliveries'[Create(j)].state = "done" =>
                           transfers'[j].dst # None \/ transfers'[j].resolved
    BY <1>13 DEF CreateInv
  <2>1. CASE j = k
    <3>1. Pending(c) => transfers[k].dst = None /\ ~transfers[k].resolved
      BY <1>1 DEF IInv, CreateInv
    <3>2. deliveries[c].state = "done" => transfers[k].dst # None \/ transfers[k].resolved
      BY <1>1 DEF IInv, CreateInv
    <3>3. CASE deliveries'[c] = deliveries[c] /\ transfers'[k].resolved = transfers[k].resolved
      BY <1>7, <1>13, <1>18, <2>1, <3>1, <3>2, <3>3 DEF Pending
    <3>4. CASE deliveries'[c].state = "done" /\ transfers'[k].resolved
      BY <1>13, <2>1, <3>4 DEF Pending
    <3>5. skip => deliveries'[c].state = "done" /\ transfers'[k].resolved
      BY <1>5 DEF Finish, Row
    <3>6. hold \/ echo => deliveries'[c] = deliveries[c] /\ transfers'[k].resolved = transfers[k].resolved
      BY <1>5, <1>6 DEF Insert
    <3> QED
      BY <1>9, <3>3, <3>4, <3>5, <3>6
  <2>2. CASE j # k
    <3>1. deliveries'[Create(j)] = deliveries[Create(j)]
      BY <1>14, <2>2, DeliveryNames DEF IInv, Create
    <3> QED
      BY <1>8, <1>13, <2>2, <3>1 DEF IInv, CreateInv, Pending
  <2> QED
    BY <2>1, <2>2
<1>22. EchoInv' /\ EchoFollowsTerminal'
  <2> SUFFICES ASSUME NEW d \in Delivery
               PROVE  /\ d.kind # "create" /\ deliveries'[d].state = "done" => transfers'[d.key].resolved
                      /\ /\ transfers'[d.key].resolved
                         /\ transfers'[d.key].dst # None
                         /\ d = EchoOf(d.key)'
                         => deliveries'[d].state = "done"
                      /\ d.kind # "create" /\ deliveries'[d].state # "absent" =>
                           transfers'[d.key].terminal # None /\ d = EchoOf(d.key)'
    BY DEF EchoInv, EchoFollowsTerminal
  <2>1. d.key \in Key
    BY DEF Delivery
  <2>2. CASE d.key = k
    <3>1. transfers'[k].resolved => transfers[k].dst = None
      BY <1>9
    <3> QED
      BY <1>7, <1>10, <1>11, <1>15, <2>2, <3>1
  <2>3. CASE d.key # k
    BY <1>8, <1>12, <1>14, <2>1, <2>3 DEF IInv, EchoInv, EchoFollowsTerminal
  <2> QED
    BY <2>2, <2>3
<1>23. EchoAfterCopy'
  <2> SUFFICES ASSUME NEW d \in Delivery, d.kind # "create", d.to # d.key.from, deliveries'[d].handed
               PROVE  transfers'[d.key].dst # None
    BY DEF EchoAfterCopy
  <2>1. CASE d.key = k
    BY <1>15, <2>1
  <2>2. CASE d.key # k
    BY <1>8, <1>14, <2>2 DEF IInv, EchoAfterCopy, Delivery
  <2> QED
    BY <2>1, <2>2
<1>24. WatchInv'
  <2>1. watched' = watched /\ watched \in [Member -> SUBSET Key]
    BY DEF IInv, TypeOK
  <2> QED
    BY <1>7, <1>8, <1>13, <2>1 DEF IInv, WatchInv
<1>25. TerminalNotLost'
  <2> SUFFICES ASSUME NEW j \in Key, transfers'[j].terminal # None, ~transfers'[j].resolved
               PROVE  \/ Pending(Create(j))'
                      \/ \E m \in {j.from, transfers'[j].to} :
                           /\ Pending(EchoTo(j, transfers[j].terminal, m))'
                           /\ (m = j.from \/ transfers'[j].dst # None)
    BY DEF TerminalNotLost
  <2>1. CASE j = k
    <3>1. EchoTo(k, transfers[k].terminal, o)' = e
      BY <1>7 DEF EchoTo, OtherParty
    <3>2. ~skip
      BY <2>1
    <3>3. CASE hold
      BY <1>5, <1>13, <2>1, <3>3 DEF Pending
    <3>4. CASE echo
      <4>1. o = k.from \/ transfers[k].dst # None
        <5>1. CASE o # transfers[k].to \/ transfers[k].dst # None
          BY <1>4, <5>1
        <5>2. CASE D[c].state \notin {"queued", "leased"}
          BY <1>1, <1>5, <1>18, <2>1, <3>4, <5>2 DEF IInv, CreateInv
        <5> QED
          BY <3>4, <5>1, <5>2
      <4>2. Pending(EchoTo(k, transfers[k].terminal, o))'
        BY <1>17, <3>1, <3>4 DEF Pending
      <4>3. o \in {k.from, transfers'[k].to} /\ o' = o
        BY <1>4, <1>7 DEF OtherParty
      <4>4. Pending(EchoTo(j, transfers[j].terminal, o))' /\ (o = j.from \/ transfers'[j].dst # None)
        BY <1>7, <2>1, <4>1, <4>2
      <4>5. \A m : m = o => EchoTo(j, transfers[j].terminal, m)' = EchoTo(j, transfers[j].terminal, o)'
        BY <4>3 DEF EchoTo
      <4> QED
        BY <2>1, <4>3, <4>4, <4>5 DEF Pending
    <3> QED
      BY <1>9, <3>2, <3>3, <3>4
  <2>2. CASE j # k
    <3>1. transfers'[j] = transfers[j] /\ transfers[j] \in Transfer
      BY <1>8, <2>2 DEF IInv, TypeOK
    <3>2. Exists(j)
      BY <2>2, <3>1 DEF IInv, TransferInv, NoTransfer, Exists
    <3>3. transfers[j].terminal \in Terminal /\ j.from \in Member /\ transfers[j].to \in Member
      BY <3>1, <3>2 DEF Exists, Transfer, Key
    <3>4. \A m \in {j.from, transfers[j].to} :
            /\ EchoTo(j, transfers[j].terminal, m) \in Delivery
            /\ EchoTo(j, transfers[j].terminal, m).key # k
      BY <2>2, <3>3, DeliveryNames DEF IInv, EchoTo
    <3>5. \A m : EchoTo(j, transfers[j].terminal, m)' = EchoTo(j, transfers[j].terminal, m)
      BY <3>1 DEF EchoTo
    <3>6. Create(j) \in Delivery /\ Create(j).key # k
      BY <2>2, <3>2, DeliveryNames DEF IInv, Create
    <3> QED
      BY <1>13, <1>14, <3>1, <3>2, <3>4, <3>5, <3>6 DEF IInv, TerminalNotLost, Pending
  <2> QED
    BY <2>1, <2>2
<1> QED
  BY <1>3, <1>19, <1>20, <1>21, <1>22, <1>23, <1>24, <1>25 DEF IInv

\* The first report: no echo was queued before it.
LEMMA InvSetTerminal ==
  ASSUME IInv, NEW p \in Member, NEW k \in Key, NEW t \in Terminal, SetTerminal(p, k, t)
  PROVE  IInv'
<1>1. k \in watched[p] /\ transfers[k].terminal = None /\ deliveries \in [Delivery -> Row]
  BY DEF SetTerminal, IInv, TypeOK
<1>2. \A d \in Delivery : d.key = k /\ d.kind # "create" =>
        deliveries[d].state = "absent" /\ ~deliveries[d].handed
  BY <1>1 DEF IInv, EchoFollowsTerminal, RowInv
<1>3. ~transfers[k].resolved
  BY <1>1 DEF IInv, TransferInv
<1> QED
  BY <1>1, <1>2, <1>3, InvQueueEcho DEF SetTerminal

\* The upgrade: the undelivered cancel is deleted, and as it was not delivered
\* the transfer is not resolved, unless its create was skipped.
LEMMA InvUpgrade ==
  ASSUME IInv, NEW p \in Member, NEW k \in Key, UpgradeTerminal(p, k)
  PROVE  IInv'
<1>1. /\ k \in watched[p] /\ Exists(k) /\ transfers[k].terminal = "canceled" /\ ~CancelDelivered(k)
      /\ QueueEcho(WithoutCancel(k), p, k, "completed") /\ "completed" \in Terminal
  BY DEF UpgradeTerminal, Party, Terminal
<1>2. WithoutCancel(k) \in [Delivery -> Row]
  BY RowTypes DEF IInv, TypeOK, WithoutCancel
<1>3. transfers[k].terminal # None /\ transfers[k].by \in Member
  <2>1. transfers[k].terminal # None
    BY <1>1, NullAssumption
  <2>2. transfers[k].by # None
    BY <2>1 DEF IInv, TransferInv
  <2> QED
    BY <2>1, <2>2 DEF IInv, TypeOK, Transfer
<1>4. EchoOf(k) \in Delivery /\ EchoOf(k).key = k /\ EchoOf(k).kind = "cancel"
  <2>1. OtherParty(transfers[k].by, k) \in Member
    BY <1>1 DEF IInv, TypeOK, OtherParty, Exists, Transfer, Key
  <2>2. "canceled" \in Terminal
    BY DEF Terminal
  <2> QED
    BY <1>1, <2>1, <2>2, DeliveryNames DEF IInv, EchoOf, EchoTo, Echo
<1>5. ASSUME NEW d \in Delivery, d.key = k, d.kind # "create"
      PROVE  WithoutCancel(k)[d].state = "absent" /\ ~WithoutCancel(k)[d].handed
  <2>1. CASE deliveries[d].state = "absent"
    BY <1>5, <2>1 DEF IInv, RowInv, WithoutCancel, Pending
  <2>2. CASE deliveries[d].state # "absent"
    <3>1. d.kind = "cancel"
      BY <1>4, <1>5, <2>2 DEF IInv, EchoFollowsTerminal
    <3>2. deliveries[d].state # "done"
      BY <1>1, <1>5, <3>1 DEF CancelDelivered
    <3>3. Pending(d)
      BY <2>2, <3>2 DEF IInv, TypeOK, Row, Pending
    <3> QED
      BY <1>5, <3>1, <3>3 DEF WithoutCancel, NoRow
  <2> QED
    BY <2>1, <2>2
<1>6. \A d \in Delivery : d.key # k \/ d.kind = "create" => WithoutCancel(k)[d] = deliveries[d]
  BY DEF WithoutCancel
<1>7. transfers[k].resolved => transfers[k].dst = None
  BY <1>1, <1>4 DEF IInv, EchoInv, CancelDelivered
<1> QED
  BY <1>1, <1>2, <1>5, <1>6, <1>7, InvQueueEcho DEF UpgradeTerminal

-----------------------------------------------------------------------------
\* Every step of the ledger preserves the inductive invariant.
LEMMA InvNext == IInv /\ [Next]_vars => IInv'
<1> SUFFICES ASSUME IInv, [Next]_vars PROVE IInv'
  OBVIOUS
<1>1. ASSUME NEW p \in Member, NEW h, NEW s \in SrcUuid, PushTransfer(p, h, s)
      PROVE  IInv'
  BY <1>1, InvPush
<1>2. ASSUME NEW p \in Member, LeaseDeliveries(p)
      PROVE  IInv'
  BY <1>2, InvLease
<1>3. ASSUME NEW d \in Delivery, LeaseExpires(d)
      PROVE  IInv'
  BY <1>3, InvExpires
<1>4. ASSUME NEW p \in Member, NEW d \in Delivery, NEW u \in DstUuid, AckCreate(p, d, u)
      PROVE  IInv'
  BY <1>4, InvAckCreate
<1>5. ASSUME NEW p \in Member, NEW d \in Delivery, AckTerminal(p, d)
      PROVE  IInv'
  BY <1>5, InvAckTerminal
<1>6. ASSUME NEW p \in Member, NEW d \in Delivery, NackDelivery(p, d)
      PROVE  IInv'
  BY <1>6, InvNack
<1>7. ASSUME NEW p \in Member, Watch(p)
      PROVE  IInv'
  BY <1>7, InvWatch
<1>8. ASSUME NEW p \in Member, NEW k \in Key, NEW t \in Terminal, SetTerminal(p, k, t)
      PROVE  IInv'
  BY <1>8, InvSetTerminal
<1>9. ASSUME NEW p \in Member, NEW k \in Key, UpgradeTerminal(p, k)
      PROVE  IInv'
  BY <1>9, InvUpgrade
<1>10. CASE UNCHANGED vars
  <2>1. TypeOK' /\ WatchInv'
    BY <1>10 DEF IInv, TypeOK, WatchInv, Exists, vars
  <2> QED
    BY <1>10, <2>1, InvQuiet DEF vars, Pending
<1> QED
  BY <1>1, <1>2, <1>3, <1>4, <1>5, <1>6, <1>7, <1>8, <1>9, <1>10 DEF Next

\* The inductive invariant holds in every reachable state.
THEOREM Invariance == Spec => []IInv
<1> QED
  BY InvInit, InvNext, PTL DEF Spec

\* Every column of both tables holds a value its schema allows, whatever the
\* spokes call in whatever order (hub/ledger.py).
THEOREM TypeCorrect == Spec => []TypeOK
<1>1. IInv => TypeOK
  BY DEF IInv
<1> QED
  BY <1>1, Invariance, PTL

\* NO-LOSS for every set of members, tenants and todos: a create is done only
\* with a copy the ledger knows, or skipped with its transfer resolved
\* (push_transfer, ack_delivery, _queue_echo).
THEOREM NoLossHolds == Spec => []NoLoss
<1>1. IInv => NoLoss
  <2> SUFFICES ASSUME IInv, NEW k \in Key, Exists(k)
               PROVE  \/ Pending(Create(k)) /\ transfers[k].dst = None
                      \/ /\ deliveries[Create(k)].state = "done"
                         /\ \/ transfers[k].dst # None
                            \/ transfers[k].resolved /\ transfers[k].terminal # None
    BY DEF NoLoss
  <2>1. deliveries[Create(k)] \in Row
    BY DeliveryNames DEF IInv, TypeOK
  <2>2. deliveries[Create(k)].state # "absent"
    BY DEF IInv, CreateInv
  <2>3. CASE Pending(Create(k))
    BY <2>3 DEF IInv, CreateInv
  <2>4. CASE deliveries[Create(k)].state = "done"
    BY <2>4 DEF IInv, CreateInv, TransferInv
  <2> QED
    BY <2>1, <2>2, <2>3, <2>4 DEF Row, Pending
<1> QED
  BY <1>1, Invariance, PTL

\* No echo, delivered or not, contradicts the terminal state of its transfer
\* or addresses the party that reported it (observe, _queue_echo, ack_delivery).
THEOREM EchoFollows == Spec => []EchoFollowsTerminal
<1>1. IInv => EchoFollowsTerminal
  BY DEF IInv
<1> QED
  BY <1>1, Invariance, PTL

\* No spoke was ever handed an echo for its member's copy before the ledger
\* knew the copy (the ordering guard of lease_deliveries).
THEOREM EchoNotEarly == Spec => []EchoAfterCopy
<1>1. IInv => EchoAfterCopy
  BY DEF IInv
<1> QED
  BY <1>1, Invariance, PTL

\* A reported terminal state always has a delivery on its way that tells the
\* other party, until it has been told (_queue_echo, ack_delivery).
THEOREM TerminalKept == Spec => []TerminalNotLost
<1>1. IInv => TerminalNotLost
  BY DEF IInv
<1> QED
  BY <1>1, Invariance, PTL

-----------------------------------------------------------------------------
(***************************************************************************)
(* What one step may do to a transfer.                                     *)
(***************************************************************************)
\* The two columns an accepted report leaves alone.
LEMMA QueueEchoKeeps ==
  ASSUME IInv, NEW p, NEW j \in Key, NEW t, NEW D, QueueEcho(D, p, j, t), NEW k \in Key
  PROVE  /\ transfers'[k].dst = transfers[k].dst
         /\ transfers[k].resolved => transfers'[k].resolved
         /\ k # j => transfers'[k] = transfers[k]
<1> DEFINE new == [transfers[j] EXCEPT !.terminal = t, !.by = p]
<1>1. transfers'[j] = new \/ transfers'[j] = [new EXCEPT !.resolved = TRUE]
  BY DEF IInv, TypeOK, QueueEcho
<1>2. k # j => transfers'[k] = transfers[k]
  BY DEF IInv, TypeOK, QueueEcho
<1>3. transfers[j] \in Transfer
  BY DEF IInv, TypeOK
<1> QED
  BY <1>1, <1>2, <1>3 DEF Transfer

LEMMA StepKeeps ==
  ASSUME IInv, [Next]_vars, NEW k \in Key
  PROVE  /\ transfers[k].dst # None => transfers'[k].dst = transfers[k].dst
         /\ transfers[k].resolved =>
              /\ transfers'[k].resolved
              /\ transfers'[k].dst = transfers[k].dst
              /\ transfers[k].dst # None => /\ transfers'[k].terminal = transfers[k].terminal
                                            /\ transfers'[k].by = transfers[k].by
<1> DEFINE Kept == /\ transfers[k].dst # None => transfers'[k].dst = transfers[k].dst
                   /\ transfers[k].resolved =>
                        /\ transfers'[k].resolved
                        /\ transfers'[k].dst = transfers[k].dst
                        /\ transfers[k].dst # None => /\ transfers'[k].terminal = transfers[k].terminal
                                                      /\ transfers'[k].by = transfers[k].by
<1>1. ASSUME NEW p \in Member, NEW h, NEW s \in SrcUuid, PushTransfer(p, h, s)
      PROVE  Kept
  <2> DEFINE j == [from |-> p, src |-> s]
  <2>1. ~Exists(j) /\ \A i \in Key : i # j => transfers'[i] = transfers[i]
    BY <1>1 DEF PushTransfer, IInv, TypeOK
  <2>2. CASE k = j
    BY <2>1, <2>2 DEF IInv, TransferInv, Exists, NoTransfer
  <2>3. CASE k # j
    BY <2>1, <2>3
  <2> QED
    BY <2>2, <2>3
<1>2. ASSUME NEW d \in Delivery, NEW p \in Member, NEW u \in DstUuid, AckCreate(p, d, u)
      PROVE  Kept
  <2>1. d.key \in Key /\ d.kind = "create" /\ deliveries[d].handed /\ Pending(d)
    BY <1>2 DEF AckCreate, Answerable, Delivery
  <2>2. Exists(d.key) /\ d = Create(d.key)
    BY <2>1 DEF IInv, RowInv, Pending, Create, Delivery
  <2>3. transfers[d.key].dst = None /\ ~transfers[d.key].resolved
    BY <2>1, <2>2 DEF IInv, CreateInv
  <2>4. k # d.key => transfers'[k] = transfers[k]
    BY <1>2 DEF AckCreate, IInv, TypeOK
  <2> QED
    BY <2>3, <2>4
<1>3. ASSUME NEW d \in Delivery, NEW p \in Member, AckTerminal(p, d)
      PROVE  Kept
  BY <1>3 DEF AckTerminal, IInv, TypeOK, Transfer, Delivery
<1>4. ASSUME NEW p \in Member, NEW j \in Key, NEW t \in Terminal, SetTerminal(p, j, t)
      PROVE  Kept
  <2>1. transfers[j].terminal = None /\ ~transfers[j].resolved
    BY <1>4 DEF SetTerminal, IInv, TransferInv
  <2> QED
    BY <1>4, <2>1, QueueEchoKeeps DEF SetTerminal
<1>5. ASSUME NEW p \in Member, NEW j \in Key, UpgradeTerminal(p, j)
      PROVE  Kept
  <2>1. transfers[j].resolved => transfers[j].dst = None
    <3>1. SUFFICES ASSUME transfers[j].resolved, transfers[j].dst # None PROVE FALSE
      OBVIOUS
    <3>2. /\ transfers[j].terminal = "canceled" /\ "canceled" # None /\ "canceled" \in Terminal
          /\ Exists(j) /\ ~CancelDelivered(j)
      BY <1>5, NullAssumption DEF UpgradeTerminal, Party, Terminal
    <3>3. OtherParty(transfers[j].by, j) \in Member
      BY <3>2 DEF IInv, TypeOK, OtherParty, Exists, Transfer, Key
    <3>4. EchoOf(j) \in Delivery /\ EchoOf(j).key = j /\ EchoOf(j).kind = "cancel"
      BY <3>2, <3>3, DeliveryNames DEF IInv, EchoOf, EchoTo, Echo
    <3>5. deliveries[EchoOf(j)].state = "done"
      BY <3>1, <3>4 DEF IInv, EchoInv
    <3> QED
      BY <3>2, <3>4, <3>5 DEF CancelDelivered
  <2> QED
    BY <1>5, <2>1, QueueEchoKeeps DEF UpgradeTerminal
<1>6. CASE UNCHANGED transfers
  BY <1>6
<1> QED
  BY <1>1, <1>2, <1>3, <1>4, <1>5, <1>6
     DEF Next, vars, LeaseDeliveries, LeaseExpires, NackDelivery, Watch

\* The uuid of a copy is written once, also when two holders of the same
\* create ack it (ack_delivery).
THEOREM CopySetOnce == Spec => DstSetOnce
<1>1. IInv /\ [Next]_vars =>
        [\A k \in Key : transfers[k].dst # None => transfers'[k].dst = transfers[k].dst]_vars
  BY StepKeeps
<1> QED
  BY <1>1, Invariance, PTL DEF Spec, DstSetOnce

\* What was told stays told: a resolved transfer keeps its copy and, if it has
\* one, its terminal state and who reported it (observe, ack_delivery).
THEOREM Settled == Spec => SettledIsFinal
<1>1. IInv /\ [Next]_vars =>
        [\A k \in Key : transfers[k].resolved =>
            /\ transfers'[k].resolved
            /\ transfers'[k].dst = transfers[k].dst
            /\ transfers[k].dst # None => /\ transfers'[k].terminal = transfers[k].terminal
                                          /\ transfers'[k].by = transfers[k].by]_vars
  BY StepKeeps
<1> QED
  BY <1>1, Invariance, PTL DEF Spec, SettledIsFinal
=============================================================================
