------------------------------ MODULE TandemProofs ------------------------------
(***************************************************************************)
(* Theorems about Tandem, for any members, todos, faults and acts: the     *)
(* whole system is a client of the ledger, so it inherits every theorem    *)
(* about it, and what the spokes do on top keeps the trigger tag as the    *)
(* retry queue, closes both sides and leaves nothing over.                 *)
(***************************************************************************)
EXTENDS Tandem, LifecycleProofs

(***************************************************************************)
(* The inductive invariant of the spokes.                                  *)
(***************************************************************************)
\* Delivery d is in the batch that the inbound phase of m works on.
Held(m, d) == \E i \in 1 .. Len(inbound[m].batch) : inbound[m].batch[i] = d

\* What a spoke holds is addressed to its member and was handed out for a
\* transfer that exists; an echo was handed out only for a known copy.
InboundInv ==
  \A m \in Member : \A d \in Delivery : Held(m, d) =>
    /\ d.to = m
    /\ Exists(d.key)
    /\ d.kind = "create" => transfers[d.key].to = m
    /\ d.kind # "create" => transfers[d.key].dst # None

\* The member's own side of a transfer has ended.
OwnClosed(m, k) == IF k.from = m THEN todo[k].status # "open"
                                 ELSE copies[transfers[k].dst].status # "open"

\* A create is fired, awaited and looked for under an open journal row and
\* acked with a journaled uuid; an echo is acked when the own side has ended.
PlaceOf(m) ==
  /\ At(m, "fire") \/ At(m, "find") => Current(m).kind = "create"
  /\ At(m, "fire") \/ At(m, "wait") \/ At(m, "find") =>
       (Current(m).kind = "create" => journal[Current(m).key].open)
  /\ At(m, "ack") => IF Current(m).kind = "create"
                       THEN journal[Current(m).key].dst # None
                       ELSE OwnClosed(m, Current(m).key)
  /\ inbound[m].batch = <<>> => inbound[m].at = "next"

PlaceInv == \A m \in Member : PlaceOf(m)

\* An open journal row has no uuid.
JournalInv == \A k \in Key : journal[k].open => journal[k].dst = None

\* A local phase walks over what the hub sent it.
ViewInv == \A m \in Member : \A e \in view[m] :
             /\ e.key \in watched[m]
             /\ e.applied => transfers[e.key].dst # None

\* Whoever is on record with a terminal state has ended their own side.
ReporterInv == \A k \in Key : transfers[k].terminal # None => OwnClosed(transfers[k].by, k)

\* A sender's cancel that no copy answers is still what the sender's todo says.
CancelInv == \A k \in Key : transfers[k].terminal = "canceled" /\ transfers[k].dst = None =>
                              todo[k].status \in {"canceled", "trashed"}

\* A copy was made for a transfer.
CopyInv == \A u \in DstUuid : copies[u].of # None => Exists(copies[u].of)

SpokeInv == /\ TandemTypeOK /\ InboundInv /\ PlaceInv /\ JournalInv /\ ViewInv
            /\ CopyInv /\ ReporterInv /\ CancelInv
            /\ TagIsRetryQueue /\ BothSidesClosed /\ NothingLeftOver

-----------------------------------------------------------------------------
(***************************************************************************)
(* What a step of the ledger keeps, and what only some of them change.     *)
(***************************************************************************)
LedgerKeeps ==
  /\ \A k \in Key : /\ Exists(k) => Exists(k)' /\ transfers'[k].to = transfers[k].to
                    /\ transfers[k].dst # None => transfers'[k].dst = transfers[k].dst
  /\ \A m \in Member : watched[m] \subseteq watched'[m]

\* No terminal state is reported.
NoNews == \A k \in Key : /\ transfers'[k].terminal = transfers[k].terminal
                         /\ transfers'[k].by = transfers[k].by

\* No party is told.
NoSettling == \A k \in Key : transfers'[k].resolved /\ transfers'[k].dst # None =>
                               transfers[k].resolved /\ transfers[k].dst # None

LEMMA ResolvedHasNothing ==
  ASSUME IInv, NEW d \in Delivery, transfers[d.key].resolved, transfers[d.key].dst # None
  PROVE  ~Pending(d)
<1> SUFFICES ASSUME Pending(d) PROVE FALSE
  OBVIOUS
<1>1. d.key \in Key /\ d.to \in Member
  BY DEF Delivery
<1>2. CASE d.kind = "create"
  <2>1. Exists(d.key) /\ d = Create(d.key)
    BY <1>1, <1>2 DEF IInv, RowInv, Pending, Create, Delivery
  <2> QED
    BY <1>1, <2>1 DEF IInv, CreateInv
<1>3. CASE d.kind # "create"
  BY <1>1, <1>3 DEF IInv, EchoFollowsTerminal, EchoInv, Pending
<1> QED
  BY <1>2, <1>3

\* The transfers as a report leaves them.
LEMMA ReportChanges ==
  ASSUME IInv, NEW p \in Member, NEW k \in Key, NEW t \in Terminal, NEW D, QueueEcho(D, p, k, t)
  PROVE  /\ transfers'[k].to = transfers[k].to /\ transfers'[k].dst = transfers[k].dst
         /\ transfers'[k].terminal = t /\ transfers'[k].by = p
         /\ transfers'[k].resolved => transfers[k].resolved \/ transfers[k].dst = None
         /\ transfers[k].resolved => transfers'[k].resolved
         /\ \A j \in Key : j # k => transfers'[j] = transfers[j]
<1> DEFINE new == [transfers[k] EXCEPT !.terminal = t, !.by = p]
<1>1. \/ transfers'[k] = new
      \/ transfers'[k] = [new EXCEPT !.resolved = TRUE] /\ transfers[k].dst = None
  BY DEF QueueEcho, IInv, TypeOK
<1>2. \A j \in Key : j # k => transfers'[j] = transfers[j]
  BY DEF QueueEcho, IInv, TypeOK
<1>3. transfers[k] \in Transfer
  BY DEF IInv, TypeOK
<1> QED
  BY <1>1, <1>2, <1>3 DEF Transfer

LEMMA AckCreateChanges ==
  ASSUME IInv, NEW p \in Member, NEW d \in Delivery, NEW u \in DstUuid, AckCreate(p, d, u)
  PROVE  /\ d.key \in Key /\ d = Create(d.key) /\ Exists(d.key)
         /\ transfers[d.key].dst = None /\ ~transfers[d.key].resolved
         /\ transfers'[d.key].dst = u /\ ~transfers'[d.key].resolved
         /\ transfers'[d.key].to = transfers[d.key].to
         /\ transfers'[d.key].terminal = transfers[d.key].terminal
         /\ transfers'[d.key].by = transfers[d.key].by
         /\ \A j \in Key : j # d.key => transfers'[j] = transfers[j]
<1>1. d.key \in Key /\ d.kind = "create" /\ Pending(d) /\ d.to \in Member
  BY DEF AckCreate, Answerable, Delivery
<1>2. Exists(d.key) /\ d = Create(d.key)
  BY <1>1 DEF IInv, RowInv, Pending, Create, Delivery
<1>3. transfers[d.key].dst = None /\ ~transfers[d.key].resolved
  BY <1>1, <1>2 DEF IInv, CreateInv
<1>4. transfers' = [transfers EXCEPT ![d.key].dst = u] /\ transfers[d.key] \in Transfer
  BY <1>1 DEF AckCreate, IInv, TypeOK
<1> QED
  BY <1>1, <1>2, <1>3, <1>4 DEF IInv, TypeOK, Transfer

\* The acknowledged echo is the transfer's, and its copy is known.
LEMMA AckTerminalChanges ==
  ASSUME IInv, NEW p \in Member, NEW d \in Delivery, AckTerminal(p, d)
  PROVE  /\ d.key \in Key /\ d = EchoOf(d.key) /\ Exists(d.key) /\ d.to = p
         /\ transfers[d.key].dst # None /\ transfers[d.key].terminal # None
         /\ transfers' = [transfers EXCEPT ![d.key].resolved = TRUE]
<1>1. d.key \in Key /\ d.kind # "create" /\ deliveries[d].handed /\ Pending(d) /\ d.to = p
  BY DEF Delivery, AckTerminal, Answerable
<1>2. Exists(d.key) /\ transfers[d.key].terminal # None /\ d = EchoOf(d.key)
  BY <1>1 DEF IInv, RowInv, EchoFollowsTerminal, Pending
<1>3. transfers[d.key].dst # None
  <2>1. CASE d.to # d.key.from
    BY <1>1, <2>1 DEF IInv, EchoAfterCopy
  <2>2. CASE d.to = d.key.from
    BY <1>1, <1>2, <2>2 DEF IInv, TransferInv, EchoOf, EchoTo, OtherParty
  <2> QED
    BY <2>1, <2>2
<1> QED
  BY <1>1, <1>2, <1>3 DEF AckTerminal

LEMMA PushChanges ==
  ASSUME IInv, NEW p \in Member, NEW h, NEW s \in SrcUuid, PushTransfer(p, h, s)
  PROVE  LET k == [from |-> p, src |-> s]
         IN  /\ k \in Key /\ ~Exists(k) /\ Exists(k)' /\ transfers[k] = NoTransfer
             /\ transfers'[k].dst = None /\ transfers'[k].terminal = None
             /\ transfers'[k].by = None /\ ~transfers'[k].resolved
             /\ \A j \in Key : j # k => transfers'[j] = transfers[j]
             /\ \A d \in Delivery : d.key # k => deliveries'[d] = deliveries[d]
             /\ watched' = watched
<1> DEFINE k == [from |-> p, src |-> s]
<1>1. PICK to \in Member :
        /\ ~Exists(k)
        /\ transfers' = [transfers EXCEPT ![k] = [NoTransfer EXCEPT !.to = to]]
        /\ deliveries' = Insert(deliveries, [key |-> k, kind |-> "create", to |-> to])
  BY DEF PushTransfer
<1>2. k \in Key
  BY DEF Key
<1>3. /\ transfers'[k].to = to /\ transfers'[k].dst = None /\ transfers'[k].terminal = None
      /\ transfers'[k].by = None /\ ~transfers'[k].resolved
      /\ \A j \in Key : j # k => transfers'[j] = transfers[j]
  BY <1>1, <1>2 DEF IInv, TypeOK, NoTransfer
<1>4. \A d \in Delivery : d.key # k => deliveries'[d] = deliveries[d]
  BY <1>1 DEF IInv, TypeOK, Insert
<1>5. transfers[k] = NoTransfer
  BY <1>1, <1>2 DEF IInv, TransferInv, Exists
<1>6. Exists(k)'
  BY <1>3, MemberAssumption DEF Exists
<1> QED
  BY <1>1, <1>2, <1>3, <1>4, <1>5, <1>6 DEF PushTransfer

\* Steps that leave the transfers alone and make no row pending.
LEMMA QuietKeeps ==
  ASSUME IInv, transfers' = transfers, \A m \in Member : watched[m] \subseteq watched'[m]
  PROVE  /\ LedgerKeeps /\ NoNews /\ NoSettling
         /\ (NothingLeftOver /\ \A d \in Delivery : Pending(d)' => Pending(d)) => NothingLeftOver'
BY DEF LedgerKeeps, NoNews, NoSettling, NothingLeftOver, Exists

LEMMA PushKeeps ==
  ASSUME IInv, NEW p \in Member, NEW h, NEW s \in SrcUuid, PushTransfer(p, h, s)
  PROVE  LedgerKeeps /\ NoNews /\ NoSettling /\ (NothingLeftOver => NothingLeftOver')
<1> DEFINE k == [from |-> p, src |-> s]
<1>1. /\ k \in Key /\ ~Exists(k) /\ Exists(k)' /\ transfers[k] = NoTransfer
      /\ transfers'[k].dst = None /\ transfers'[k].terminal = None
      /\ transfers'[k].by = None /\ ~transfers'[k].resolved
      /\ \A j \in Key : j # k => transfers'[j] = transfers[j]
      /\ \A d \in Delivery : d.key # k => deliveries'[d] = deliveries[d]
      /\ watched' = watched
  BY PushChanges
<1>2. LedgerKeeps
  BY <1>1 DEF LedgerKeeps, Exists, NoTransfer
<1>3. NoNews /\ NoSettling
  BY <1>1 DEF NoNews, NoSettling, NoTransfer
<1>4. NothingLeftOver => NothingLeftOver'
  BY <1>1 DEF NothingLeftOver, Pending, Delivery
<1> QED
  BY <1>2, <1>3, <1>4

LEMMA LeaseKeeps ==
  ASSUME IInv, NEW p \in Member, LeaseDeliveries(p)
  PROVE  LedgerKeeps /\ NoNews /\ NoSettling /\ (NothingLeftOver => NothingLeftOver')
<1>1. ASSUME NEW d \in Delivery, Pending(d)'
      PROVE  Pending(d)
  <2>1. CASE d \in Batch(p)
    BY <2>1 DEF Batch, Leasable
  <2>2. CASE d \notin Batch(p)
    BY <1>1, <2>2 DEF LeaseDeliveries, Pending
  <2> QED
    BY <2>1, <2>2
<1> QED
  BY <1>1, QuietKeeps DEF LeaseDeliveries

LEMMA ExpiryKeeps ==
  ASSUME IInv, NEW d \in Delivery, LeaseExpires(d)
  PROVE  LedgerKeeps /\ NoNews /\ NoSettling /\ (NothingLeftOver => NothingLeftOver')
<1>1. \A e \in Delivery : deliveries'[e].state = deliveries[e].state
  BY DEF IInv, TypeOK, Row, LeaseExpires
<1> QED
  BY <1>1, QuietKeeps DEF LeaseExpires, Pending

LEMMA NackKeeps ==
  ASSUME IInv, NEW p \in Member, NEW d \in Delivery, NackDelivery(p, d)
  PROVE  LedgerKeeps /\ NoNews /\ NoSettling /\ (NothingLeftOver => NothingLeftOver')
<1>1. \A e \in Delivery : e # d => deliveries'[e].state = deliveries[e].state
  BY DEF IInv, TypeOK, Row, NackDelivery
<1>2. Pending(d)
  BY DEF NackDelivery, Answerable
<1> QED
  BY <1>1, <1>2, QuietKeeps DEF NackDelivery, Pending

LEMMA WatchKeeps ==
  ASSUME IInv, NEW p \in Member, Watch(p)
  PROVE  /\ LedgerKeeps /\ NoNews /\ NoSettling /\ (NothingLeftOver => NothingLeftOver')
         /\ Watchlist(p) \subseteq watched'[p]
<1>1. watched \in [Member -> SUBSET Key]
  BY DEF IInv, TypeOK
<1>2. \A m \in Member : watched[m] \subseteq watched'[m]
  BY <1>1 DEF Watch
<1>3. Watchlist(p) \subseteq watched'[p]
  BY <1>1 DEF Watch
<1> QED
  BY <1>2, <1>3, QuietKeeps DEF Watch, Pending

LEMMA AckCreateKeeps ==
  ASSUME IInv, NEW p \in Member, NEW d \in Delivery, NEW u \in DstUuid, AckCreate(p, d, u)
  PROVE  LedgerKeeps /\ NoNews /\ NoSettling /\ (NothingLeftOver => NothingLeftOver')
<1> DEFINE k == d.key
           t == transfers[k].terminal
<1>1. /\ k \in Key /\ d = Create(k) /\ Exists(k)
      /\ transfers[k].dst = None /\ ~transfers[k].resolved
      /\ transfers'[k].dst = u /\ ~transfers'[k].resolved
      /\ transfers'[k].to = transfers[k].to
      /\ transfers'[k].terminal = transfers[k].terminal /\ transfers'[k].by = transfers[k].by
      /\ \A j \in Key : j # k => transfers'[j] = transfers[j]
  BY AckCreateChanges
<1>2. LedgerKeeps /\ NoNews /\ NoSettling
  BY <1>1 DEF LedgerKeeps, NoNews, NoSettling, AckCreate, Exists
<1>3. \A e \in Delivery : e.key # k => deliveries'[e] = deliveries[e]
  BY DEF AckCreate, Insert, Finish, EchoTo, IInv, TypeOK
<1>4. NothingLeftOver => NothingLeftOver'
  BY <1>1, <1>3 DEF NothingLeftOver, Pending, Delivery
<1> QED
  BY <1>2, <1>4

LEMMA AckTerminalKeeps ==
  ASSUME IInv, NEW p \in Member, NEW d \in Delivery, AckTerminal(p, d)
  PROVE  LedgerKeeps /\ NoNews /\ (NothingLeftOver => NothingLeftOver')
<1> DEFINE k == d.key
<1>1. k \in Key /\ d = EchoOf(k) /\ Exists(k) /\ transfers[k].dst # None
  BY AckTerminalChanges
<1>2. \A j \in Key : /\ transfers'[j].to = transfers[j].to
                     /\ transfers'[j].dst = transfers[j].dst
                     /\ transfers'[j].terminal = transfers[j].terminal
                     /\ transfers'[j].by = transfers[j].by
                     /\ j # k => transfers'[j] = transfers[j]
  <2>1. transfers' = [transfers EXCEPT ![k].resolved = TRUE] /\ transfers \in [Key -> Transfer]
    BY DEF AckTerminal, IInv, TypeOK
  <2> QED
    BY <2>1 DEF Transfer
<1>3. LedgerKeeps /\ NoNews
  BY <1>1, <1>2 DEF LedgerKeeps, NoNews, AckTerminal, Exists
<1>4. /\ deliveries'[d].state = "done"
      /\ \A e \in Delivery : e # d => deliveries'[e] = deliveries[e]
  BY DEF IInv, TypeOK, Row, AckTerminal, Finish
<1>5. ASSUME NothingLeftOver, NEW e \in Delivery, transfers'[e.key].resolved, Pending(e)'
      PROVE  FALSE
  <2>1. e.key \in Key /\ e.to \in Member /\ e # d /\ Pending(e)
    BY <1>4, <1>5 DEF Delivery, Pending
  <2>2. CASE e.key = k /\ e.kind = "create"
    <3>1. Exists(k) /\ e = Create(k)
      BY <2>1, <2>2 DEF IInv, RowInv, Pending, Create, Delivery
    <3> QED
      BY <1>1, <2>1, <3>1 DEF IInv, CreateInv
  <2>3. CASE e.key = k /\ e.kind # "create"
    BY <1>1, <2>1, <2>3 DEF IInv, EchoFollowsTerminal, Pending
  <2>4. CASE e.key # k
    BY <1>2, <1>5, <2>1, <2>4 DEF NothingLeftOver
  <2> QED
    BY <2>2, <2>3, <2>4
<1>6. NothingLeftOver => NothingLeftOver'
  BY <1>5 DEF NothingLeftOver
<1> QED
  BY <1>3, <1>6

\* A report keeps what is known and tells nobody yet.
LEMMA ReportKeeps ==
  ASSUME IInv, NEW p \in Member, NEW k \in Key, NEW t \in Terminal, NEW D, QueueEcho(D, p, k, t),
         UNCHANGED watched
  PROVE  LedgerKeeps /\ NoSettling
<1>1. /\ transfers'[k].to = transfers[k].to /\ transfers'[k].dst = transfers[k].dst
      /\ transfers'[k].resolved => transfers[k].resolved \/ transfers[k].dst = None
      /\ \A j \in Key : j # k => transfers'[j] = transfers[j]
  BY ReportChanges
<1> QED
  BY <1>1 DEF LedgerKeeps, NoSettling, Exists

\* A first report leaves nothing over: there was no echo before, and if it
\* skips the create there is none after.
LEMMA SetTerminalKeeps ==
  ASSUME IInv, NEW p \in Member, NEW k \in Key, NEW t \in Terminal, SetTerminal(p, k, t)
  PROVE  LedgerKeeps /\ NoSettling /\ (NothingLeftOver => NothingLeftOver')
<1>1. /\ transfers[k].terminal = None /\ Party(p, k) /\ QueueEcho(deliveries, p, k, t)
      /\ UNCHANGED watched
  BY DEF SetTerminal
<1>2. ~transfers[k].resolved
  BY <1>1 DEF IInv, TransferInv
<1>3. \A j \in Key : j # k => transfers'[j] = transfers[j]
  BY <1>1, ReportChanges
<1>4. \A e \in Delivery : e.key = k /\ e.kind # "create" => deliveries[e].state = "absent"
  BY <1>1 DEF IInv, EchoFollowsTerminal
<1>5. \A e \in Delivery : e.key # k => deliveries'[e] = deliveries[e]
  BY <1>1 DEF QueueEcho, Insert, Finish, Create, EchoTo, IInv, TypeOK
<1>6. ASSUME NEW e \in Delivery, e.key = k, transfers'[k].resolved
      PROVE  ~Pending(e)'
  <2>1. Exists(k) /\ Create(k) \in Delivery
    BY <1>1, DeliveryNames DEF IInv, Party
  <2>2. deliveries' = Finish(deliveries, Create(k))
    <3> DEFINE new == [transfers[k] EXCEPT !.terminal = t, !.by = p]
    <3>1. new.resolved = FALSE /\ transfers \in [Key -> Transfer]
      BY <1>2 DEF IInv, TypeOK, Transfer
    <3> QED
      BY <1>1, <1>6, <3>1 DEF QueueEcho
  <2>3. CASE e.kind = "create"
    <3>1. e = Create(k) \/ deliveries[e].state = "absent"
      BY <1>6, <2>3 DEF IInv, RowInv, Create, Delivery
    <3>2. e # Create(k) => deliveries'[e] = deliveries[e]
      BY <2>2 DEF Finish, IInv, TypeOK
    <3>3. deliveries'[Create(k)].state = "done"
      BY <2>1, <2>2 DEF Finish, IInv, TypeOK, Row
    <3> QED
      BY <3>1, <3>2, <3>3 DEF Pending
  <2>4. CASE e.kind # "create"
    <3>1. deliveries'[e] = deliveries[e]
      BY <2>2, <2>4 DEF Finish, Create, IInv, TypeOK
    <3> QED
      BY <1>4, <1>6, <2>4, <3>1 DEF Pending
  <2> QED
    BY <2>3, <2>4
<1>7. NothingLeftOver => NothingLeftOver'
  BY <1>3, <1>5, <1>6 DEF NothingLeftOver, Pending, Delivery
<1> QED
  BY <1>1, <1>7, ReportKeeps

\* An upgrade of a transfer with a copy is of one that is not settled.
LEMMA UpgradeKeeps ==
  ASSUME IInv, NEW p \in Member, NEW k \in Key, UpgradeTerminal(p, k)
  PROVE  /\ LedgerKeeps /\ NoSettling
         /\ (NothingLeftOver /\ transfers[k].dst # None) => NothingLeftOver'
<1>1. /\ transfers[k].terminal = "canceled" /\ Party(p, k) /\ ~CancelDelivered(k)
      /\ QueueEcho(WithoutCancel(k), p, k, "completed") /\ UNCHANGED watched
      /\ "completed" \in Terminal
  BY DEF UpgradeTerminal, Terminal
<1>2. /\ transfers'[k].resolved => transfers[k].resolved \/ transfers[k].dst = None
      /\ \A j \in Key : j # k => transfers'[j] = transfers[j]
  BY <1>1, ReportChanges
<1>3. transfers[k].dst # None => ~transfers[k].resolved
  <2> SUFFICES ASSUME transfers[k].dst # None, transfers[k].resolved PROVE FALSE
    OBVIOUS
  <2>1. "canceled" \in Terminal /\ transfers[k].terminal # None
    BY <1>1, NullAssumption DEF Terminal
  <2>2. OtherParty(transfers[k].by, k) \in Member
    BY <1>1 DEF IInv, TypeOK, OtherParty, Party, Exists, Transfer, Key
  <2>3. EchoOf(k) \in Delivery /\ EchoOf(k).key = k /\ EchoOf(k).kind = "cancel"
    BY <1>1, <2>1, <2>2, DeliveryNames DEF IInv, EchoOf, EchoTo, Echo
  <2>4. deliveries[EchoOf(k)].state = "done"
    BY <2>3 DEF IInv, EchoInv
  <2> QED
    BY <1>1, <2>3, <2>4 DEF CancelDelivered
<1>4. \A e \in Delivery : e.key # k => deliveries'[e] = deliveries[e]
  <2>1. \A e \in Delivery : e.key # k => WithoutCancel(k)[e] = deliveries[e]
    BY DEF WithoutCancel
  <2>2. WithoutCancel(k) \in [Delivery -> Row]
    BY DEF WithoutCancel, NoRow, Row, IInv, TypeOK
  <2> QED
    BY <1>1, <2>1, <2>2 DEF QueueEcho, Insert, Finish, Create, EchoTo
<1>5. (NothingLeftOver /\ transfers[k].dst # None) => NothingLeftOver'
  BY <1>2, <1>3, <1>4 DEF NothingLeftOver, Pending, Delivery
<1> QED
  BY <1>1, <1>5, ReportKeeps

-----------------------------------------------------------------------------
(***************************************************************************)
(* What a step keeps of the accounts, the batches and the places.          *)
(***************************************************************************)
\* What has ended stays ended, a todo without a copy stays as it ended, the
\* trigger tag comes off only when the copy is known, and a new copy is one of
\* a transfer.
AccountsKeep ==
  /\ \A k \in Key :
       /\ todo[k].status # "open" => todo'[k].status # "open"
       /\ transfers[k].dst = None /\ todo[k].status # "open" => todo'[k].status = todo[k].status
       /\ todo'[k].tag = "delegated" => todo[k].tag = "delegated" \/ transfers[k].dst # None
  /\ \A u \in DstUuid :
       /\ copies[u].status # "open" => copies'[u].status # "open"
       /\ copies'[u].of # None => copies'[u].of = copies[u].of \/ Exists(copies'[u].of)

\* The transfers, as far as the spokes rely on their types.
LEMMA TransferTypes ==
  ASSUME IInv, NEW k \in Key
  PROVE  /\ k.from \in Member
         /\ transfers[k].to \in Member \cup {None} /\ transfers[k].dst \in DstUuid \cup {None}
         /\ transfers[k].terminal \in Terminal \cup {None} /\ transfers[k].by \in Member \cup {None}
         /\ Exists(k) => transfers[k].to \in Member /\ transfers[k].to # k.from
BY DEF IInv, TypeOK, Transfer, TransferInv, Key, Exists

LEMMA OwnClosedKeeps ==
  ASSUME IInv, LedgerKeeps, AccountsKeep, NEW m, NEW k \in Key,
         k.from = m \/ transfers[k].dst # None, OwnClosed(m, k)
  PROVE  OwnClosed(m, k)'
BY TransferTypes DEF LedgerKeeps, AccountsKeep, OwnClosed

\* A step that reports nothing and tells nobody, up to what it has to show.
LEMMA SidesKeep ==
  ASSUME IInv, SpokeInv, LedgerKeeps, AccountsKeep,
         NoNews \/ (ReporterInv /\ CancelInv)',
         NoSettling \/ BothSidesClosed',
         \A k \in sent' : k \in sent \/ Exists(k)', sent' \subseteq Key,
         \A u \in DstUuid : copies'[u].of \in Key \cup {None}
  PROVE  CopyInv' /\ ReporterInv' /\ CancelInv' /\ BothSidesClosed' /\ TagIsRetryQueue'
<1>1. ReporterInv'
  <2> SUFFICES ASSUME NoNews, NEW k \in Key, transfers'[k].terminal # None
               PROVE  OwnClosed(transfers[k].by, k)'
    BY DEF ReporterInv, NoNews, OwnClosed
  <2>1. transfers[k].terminal # None /\ OwnClosed(transfers[k].by, k)
    BY DEF NoNews, SpokeInv, ReporterInv
  <2>2. k.from = transfers[k].by \/ transfers[k].dst # None
    BY <2>1 DEF IInv, TransferInv
  <2> QED
    BY <2>1, <2>2, TransferTypes DEF LedgerKeeps, AccountsKeep, OwnClosed, NoNews
<1>2. CancelInv'
  BY DEF CancelInv, SpokeInv, NoNews, LedgerKeeps, AccountsKeep
<1>3. BothSidesClosed'
  BY TransferTypes DEF BothSidesClosed, SpokeInv, NoSettling, LedgerKeeps, AccountsKeep
<1>4. TagIsRetryQueue'
  BY DEF TagIsRetryQueue, SpokeInv, LedgerKeeps, AccountsKeep, TandemTypeOK
<1>5. CopyInv'
  <2> SUFFICES ASSUME NEW u \in DstUuid, copies'[u].of # None
               PROVE  transfers'[copies'[u].of].to # None
    BY DEF CopyInv, Exists
  <2>1. copies'[u].of \in Key
    OBVIOUS
  <2>2. Exists(copies'[u].of)
    BY DEF AccountsKeep, SpokeInv, CopyInv
  <2> QED
    BY <2>1, <2>2 DEF LedgerKeeps, Exists
<1> QED
  BY <1>1, <1>2, <1>3, <1>4, <1>5

LEMMA CurrentHeld ==
  ASSUME TandemTypeOK, NEW m \in Member, inbound[m].batch # <<>>
  PROVE  Current(m) \in Delivery /\ Held(m, Current(m)) /\ Current(m).key \in Key
<1>1. inbound[m].batch \in Seq(Delivery)
  BY DEF TandemTypeOK
<1>2. 1 \in 1 .. Len(inbound[m].batch) /\ Current(m) = inbound[m].batch[1]
  BY <1>1 DEF Current
<1>3. Current(m) \in Delivery
  BY <1>1, <1>2
<1> QED
  BY <1>2, <1>3 DEF Held, Delivery

\* What is known of the current delivery.
LEMMA CurrentKnown ==
  ASSUME SpokeInv, NEW m \in Member, inbound[m].batch # <<>>
  PROVE  /\ Current(m) \in Delivery /\ Current(m).key \in Key
         /\ Current(m).to = m
         /\ Exists(Current(m).key)
         /\ Current(m).kind = "create" => transfers[Current(m).key].to = m
         /\ Current(m).kind # "create" => transfers[Current(m).key].dst # None
BY CurrentHeld DEF SpokeInv, InboundInv

LEMMA StepMoves ==
  ASSUME TandemTypeOK, NEW m \in Member, NEW place \in Place, Step(m, place)
  PROVE  /\ inbound' \in [Member -> [batch : Seq(Delivery), at : Place, late : SUBSET DstUuid]]
         /\ inbound'[m].at = place /\ inbound'[m].batch = inbound[m].batch
         /\ inbound'[m].late = inbound[m].late
         /\ Current(m)' = Current(m)
         /\ \A n \in Member : n # m => inbound'[n] = inbound[n]
         /\ \A n \in Member, d \in Delivery : Held(n, d)' => Held(n, d)
<1>1. inbound \in [Member -> [batch : Seq(Delivery), at : Place, late : SUBSET DstUuid]]
  BY DEF TandemTypeOK
<1>2. /\ inbound' \in [Member -> [batch : Seq(Delivery), at : Place, late : SUBSET DstUuid]]
      /\ inbound'[m].at = place /\ inbound'[m].batch = inbound[m].batch
      /\ inbound'[m].late = inbound[m].late
      /\ \A n \in Member : n # m => inbound'[n] = inbound[n]
  BY <1>1 DEF Step
<1> QED
  BY <1>2 DEF Current, Held

LEMMA DropMoves ==
  ASSUME TandemTypeOK, NEW m \in Member, inbound[m].batch # <<>>, Drop(m)
  PROVE  /\ inbound' \in [Member -> [batch : Seq(Delivery), at : Place, late : SUBSET DstUuid]]
         /\ inbound'[m].at = "next" /\ inbound'[m].late = {}
         /\ \A n \in Member : n # m => inbound'[n] = inbound[n]
         /\ \A n \in Member, d \in Delivery : Held(n, d)' => Held(n, d)
<1>1. inbound \in [Member -> [batch : Seq(Delivery), at : Place, late : SUBSET DstUuid]]
  BY DEF TandemTypeOK
<1> DEFINE tail == Tail(inbound[m].batch)
<1>2. /\ tail \in Seq(Delivery) /\ Len(tail) = Len(inbound[m].batch) - 1
      /\ \A i \in 1 .. Len(tail) : tail[i] = inbound[m].batch[i + 1]
  BY <1>1
<1>3. inbound'[m] = [batch |-> tail, at |-> "next", late |-> {}]
  BY <1>1 DEF Drop
<1>4. inbound' \in [Member -> [batch : Seq(Delivery), at : Place, late : SUBSET DstUuid]]
  BY <1>1, <1>2 DEF Drop, Place
<1>5. \A n \in Member : n # m => inbound'[n] = inbound[n]
  BY <1>1 DEF Drop
<1>6. ASSUME NEW d \in Delivery, Held(m, d)'
      PROVE  Held(m, d)
  <2>1. PICK i \in 1 .. Len(tail) : tail[i] = d
    BY <1>3, <1>6 DEF Held
  <2>2. inbound[m].batch \in Seq(Delivery)
    BY <1>1
  <2>3. i + 1 \in 1 .. Len(inbound[m].batch) /\ inbound[m].batch[i + 1] = d
    BY <1>2, <2>1, <2>2
  <2> QED
    BY <2>3 DEF Held
<1>7. \A n \in Member, d \in Delivery : n # m /\ Held(n, d)' => Held(n, d)
  BY <1>5 DEF Held
<1>8. inbound'[m].at = "next" /\ inbound'[m].late = {}
  BY <1>3
<1> QED
  BY <1>4, <1>5, <1>6, <1>7, <1>8

\* A batch stays known when it only shrinks or is leased anew.
LEMMA InboundKeeps ==
  ASSUME IInv, InboundInv, LedgerKeeps,
         \A n \in Member, d \in Delivery : Held(n, d)' => Held(n, d) \/ Leasable(n, d)
  PROVE  InboundInv'
<1> SUFFICES ASSUME NEW m \in Member, NEW d \in Delivery, Held(m, d)'
             PROVE  /\ d.to = m
                    /\ Exists(d.key)'
                    /\ d.kind = "create" => transfers'[d.key].to = m
                    /\ d.kind # "create" => transfers'[d.key].dst # None
  BY DEF InboundInv
<1>1. d.key \in Key /\ d.to \in Member
  BY DEF Delivery
<1>2. /\ d.to = m /\ Exists(d.key)
      /\ d.kind = "create" => transfers[d.key].to = m
      /\ d.kind # "create" => transfers[d.key].dst # None
  <2>1. CASE Held(m, d)
    BY <2>1 DEF InboundInv
  <2>2. CASE Leasable(m, d)
    <3>1. /\ d.to = m /\ Exists(d.key) /\ deliveries[d].state # "absent"
          /\ d.kind = "create" => d.to = transfers[d.key].to
      BY <2>2 DEF Leasable, Pending, IInv, RowInv
    <3>2. CASE d.kind # "create" /\ d.to = d.key.from
      <4>1. transfers[d.key].terminal # None /\ d = EchoOf(d.key)
        BY <3>1, <3>2 DEF IInv, EchoFollowsTerminal
      <4>2. transfers[d.key].by # d.key.from
        BY <1>1, <3>1, <3>2, <4>1, TransferTypes DEF EchoOf, EchoTo, OtherParty
      <4> QED
        BY <1>1, <3>1, <3>2, <4>1, <4>2 DEF IInv, TransferInv
    <3>3. CASE d.kind # "create" /\ d.to # d.key.from
      BY <2>2, <3>1, <3>3 DEF Leasable
    <3>4. CASE d.kind = "create"
      BY <3>1, <3>4
    <3> QED
      BY <3>2, <3>3, <3>4
  <2> QED
    BY <2>1, <2>2
<1> QED
  BY <1>1, <1>2 DEF LedgerKeeps

\* The place of a spoke that does not move stays right.
LEMMA PlaceStays ==
  ASSUME IInv, SpokeInv, LedgerKeeps, AccountsKeep, NEW n \in Member,
         inbound'[n].batch = inbound[n].batch, inbound'[n].at = inbound[n].at,
         inbound[n].batch # <<>> /\ Current(n).kind = "create" =>
           journal'[Current(n).key] = journal[Current(n).key]
  PROVE  PlaceOf(n)'
<1>1. PlaceOf(n)
  BY DEF SpokeInv, PlaceInv
<1>2. Current(n)' = Current(n) /\ \A place : At(n, place)' <=> At(n, place)
  BY DEF Current, At
<1>3. At(n, "ack") /\ Current(n).kind # "create" => OwnClosed(n, Current(n).key)'
  <2> SUFFICES ASSUME At(n, "ack"), Current(n).kind # "create"
               PROVE  OwnClosed(n, Current(n).key)'
    OBVIOUS
  <2>1. OwnClosed(n, Current(n).key)
    BY <1>1 DEF PlaceOf
  <2>2. Current(n).key \in Key /\ transfers[Current(n).key].dst # None
    BY CurrentKnown DEF At
  <2> QED
    BY <1>2, <2>1, <2>2, OwnClosedKeeps
<1> QED
  BY <1>1, <1>2, <1>3 DEF PlaceOf, At

-----------------------------------------------------------------------------
(***************************************************************************)
(* The steps of the inbound phase.                                         *)
(***************************************************************************)
\* What a step of the inbound phase of m has to show.
LEMMA MoveKeeps ==
  ASSUME IInv, SpokeInv, TandemTypeOK', NEW m \in Member,
         LedgerKeeps, AccountsKeep, NoNews, NoSettling \/ BothSidesClosed', NothingLeftOver',
         \A n \in Member : n # m => inbound'[n] = inbound[n],
         \A n \in Member, d \in Delivery : Held(n, d)' => Held(n, d) \/ Leasable(n, d),
         \A k \in Key : ~(Exists(k) /\ transfers[k].to = m) => journal'[k] = journal[k],
         PlaceOf(m)', JournalInv', UNCHANGED <<sent, view>>
  PROVE  SpokeInv'
<1>1. CopyInv' /\ ReporterInv' /\ CancelInv' /\ BothSidesClosed' /\ TagIsRetryQueue'
  BY SidesKeep DEF SpokeInv, TandemTypeOK
<1>2. InboundInv'
  BY InboundKeeps DEF SpokeInv
<1>3. ASSUME NEW n \in Member, n # m
      PROVE  PlaceOf(n)'
  <2>1. inbound[n].batch # <<>> /\ Current(n).kind = "create" =>
          journal'[Current(n).key] = journal[Current(n).key]
    BY <1>3, CurrentKnown
  <2> QED
    BY <1>3, <2>1, PlaceStays
<1>4. PlaceInv'
  BY <1>3 DEF PlaceInv
<1>5. ViewInv'
  BY TransferTypes DEF ViewInv, SpokeInv, LedgerKeeps, IInv, TypeOK
<1> QED
  BY <1>1, <1>2, <1>4, <1>5 DEF SpokeInv

LEMMA NextPlace ==
  ASSUME NEW m, inbound'[m].at = "next"
  PROVE  PlaceOf(m)'
BY DEF PlaceOf, At

\* The ledger's part of a call that changes nothing, and of a nack.
LEMMA NoCall ==
  ASSUME IInv, SpokeInv, UNCHANGED vars
  PROVE  LedgerKeeps /\ NoNews /\ NoSettling /\ NothingLeftOver'
BY QuietKeeps DEF vars, Pending, SpokeInv

LEMMA NackCall ==
  ASSUME IInv, SpokeInv, NEW m \in Member, inbound[m].batch # <<>>, Nack(m)
  PROVE  LedgerKeeps /\ NoNews /\ NoSettling /\ NothingLeftOver' /\ Drop(m)
<1>1. Current(m) \in Delivery
  BY CurrentKnown
<1>2. NackDelivery(m, Current(m)) \/ UNCHANGED vars
  BY DEF Nack
<1> QED
  BY <1>1, <1>2, NoCall, NackKeeps DEF Nack, SpokeInv

LEMMA AckCreateCall ==
  ASSUME IInv, SpokeInv, NEW m \in Member, inbound[m].batch # <<>>, NEW u \in DstUuid,
         HubAck(m, AckCreate(m, Current(m), u))
  PROVE  LedgerKeeps /\ NoNews /\ NoSettling /\ NothingLeftOver' /\ Drop(m)
<1>1. Current(m) \in Delivery
  BY CurrentKnown
<1>2. \/ AckCreate(m, Current(m), u) /\ Drop(m)
      \/ UNCHANGED vars /\ Drop(m)
      \/ Nack(m)
  BY DEF HubAck
<1> QED
  BY <1>1, <1>2, NoCall, NackCall, AckCreateKeeps DEF SpokeInv

\* An echo is acked when the side it is for has ended; the other ended before.
LEMMA AckEchoCall ==
  ASSUME IInv, SpokeInv, NEW m \in Member, At(m, "ack"), Current(m).kind # "create",
         HubAck(m, AckTerminal(m, Current(m))), UNCHANGED things
  PROVE  LedgerKeeps /\ NoNews /\ (NoSettling \/ BothSidesClosed') /\ NothingLeftOver' /\ Drop(m)
<1> DEFINE d == Current(m)
           k == d.key
<1>1. inbound[m].batch # <<>> /\ d \in Delivery /\ k \in Key
  BY CurrentKnown DEF At
<1>2. CASE AckTerminal(m, d) /\ Drop(m)
  <2>1. LedgerKeeps /\ NoNews /\ NothingLeftOver'
    BY <1>1, <1>2, AckTerminalKeeps DEF SpokeInv
  <2>2. /\ d = EchoOf(k) /\ Exists(k) /\ d.to = m
        /\ transfers[k].dst # None /\ transfers[k].terminal # None
        /\ transfers' = [transfers EXCEPT ![k].resolved = TRUE]
    BY <1>1, <1>2, AckTerminalChanges
  <2>3. OwnClosed(m, k) /\ OwnClosed(transfers[k].by, k)
    BY <1>1, <2>2 DEF SpokeInv, PlaceInv, PlaceOf, ReporterInv
  <2>4. m = OtherParty(transfers[k].by, k)
    BY <2>2 DEF EchoOf, EchoTo
  <2>5. transfers[k].by \in {k.from, transfers[k].to} /\ transfers[k].to # k.from
    BY <1>1, <2>2, TransferTypes DEF IInv, TransferInv
  <2>6. todo[k].status # "open" /\ copies[transfers[k].dst].status # "open"
    BY <2>3, <2>4, <2>5 DEF OwnClosed, OtherParty
  <2>7. \A j \in Key : /\ transfers'[j].dst = transfers[j].dst
                       /\ j # k => transfers'[j].resolved = transfers[j].resolved
    BY <2>2 DEF IInv, TypeOK, Transfer
  <2>8. BothSidesClosed'
    BY <2>6, <2>7 DEF BothSidesClosed, SpokeInv, things
  <2> QED
    BY <1>2, <2>1, <2>8
<1>3. CASE UNCHANGED vars /\ Drop(m)
  BY <1>3, NoCall
<1>4. CASE Nack(m)
  BY <1>1, <1>4, NackCall
<1> QED
  BY <1>2, <1>3, <1>4 DEF HubAck

\* The types of the accounts.
ThingsOK ==
  /\ todo \in [Key -> [status : Status, tag : {"none", "trigger", "delegated"}]]
  /\ copies \in [DstUuid -> [of : Key \cup {None}, status : Status, aged : BOOLEAN, coming : BOOLEAN]]
  /\ acted \subseteq Key \X Member

LEMMA ThingsStay ==
  ASSUME SpokeInv, UNCHANGED things
  PROVE  ThingsOK' /\ AccountsKeep
BY DEF SpokeInv, TandemTypeOK, ThingsOK, AccountsKeep, things

\* The inbound phase is done with the first delivery of its batch.
LEMMA DropKeeps ==
  ASSUME IInv, SpokeInv, NEW m \in Member, inbound[m].batch # <<>>, Drop(m), ThingsOK',
         LedgerKeeps, AccountsKeep, NoNews, NoSettling \/ BothSidesClosed', NothingLeftOver',
         UNCHANGED <<journal, local>>
  PROVE  SpokeInv'
<1>1. /\ inbound' \in [Member -> [batch : Seq(Delivery), at : Place, late : SUBSET DstUuid]]
      /\ inbound'[m].at = "next"
      /\ \A n \in Member : n # m => inbound'[n] = inbound[n]
      /\ \A n \in Member, d \in Delivery : Held(n, d)' => Held(n, d)
  BY DropMoves DEF SpokeInv
<1>2. TandemTypeOK'
  BY <1>1 DEF SpokeInv, TandemTypeOK, ThingsOK, local
<1>3. PlaceOf(m)' /\ JournalInv'
  BY <1>1, NextPlace DEF SpokeInv, JournalInv
<1>4. UNCHANGED <<sent, view>>
  BY DEF local
<1>5. \A n \in Member, d \in Delivery : Held(n, d)' => Held(n, d) \/ Leasable(n, d)
  BY <1>1
<1>6. \A n \in Member : n # m => inbound'[n] = inbound[n]
  BY <1>1
<1> QED
  BY <1>2, <1>3, <1>4, <1>5, <1>6, MoveKeeps

\* The inbound phase goes on to another place with the same delivery.
LEMMA AdvanceKeeps ==
  ASSUME IInv, SpokeInv, NEW m \in Member, NEW place \in Place, Step(m, place), ThingsOK',
         AccountsKeep, UNCHANGED <<vars, local>>,
         journal' \in [Key -> [open : BOOLEAN, dst : DstUuid \cup {None}, early : SUBSET DstUuid]],
         \A k \in Key : ~(Exists(k) /\ transfers[k].to = m) => journal'[k] = journal[k],
         PlaceOf(m)', JournalInv'
  PROVE  SpokeInv'
<1>1. /\ inbound' \in [Member -> [batch : Seq(Delivery), at : Place, late : SUBSET DstUuid]]
      /\ \A n \in Member : n # m => inbound'[n] = inbound[n]
      /\ \A n \in Member, d \in Delivery : Held(n, d)' => Held(n, d)
  BY StepMoves DEF SpokeInv
<1>2. TandemTypeOK'
  BY <1>1 DEF SpokeInv, TandemTypeOK, ThingsOK, local
<1>3. LedgerKeeps /\ NoNews /\ NoSettling /\ NothingLeftOver'
  BY NoCall
<1>4. UNCHANGED <<sent, view>>
  BY DEF local
<1>5. \A n \in Member, d \in Delivery : Held(n, d)' => Held(n, d) \/ Leasable(n, d)
  BY <1>1
<1>6. \A n \in Member : n # m => inbound'[n] = inbound[n]
  BY <1>1
<1> QED
  BY <1>2, <1>3, <1>4, <1>5, <1>6, MoveKeeps

LEMMA LeaseSpoke ==
  ASSUME IInv, SpokeInv, NEW m \in Member, Lease(m)
  PROVE  SpokeInv'
<1>1. LeaseDeliveries(m) /\ inbound[m].batch = <<>> /\ UNCHANGED <<things, local, journal>>
  BY DEF Lease
<1>2. LedgerKeeps /\ NoNews /\ NoSettling /\ NothingLeftOver'
  BY <1>1, LeaseKeeps DEF SpokeInv
<1>3. CASE UNCHANGED inbound
  <2>1. TandemTypeOK' /\ JournalInv'
    BY <1>1, <1>3 DEF SpokeInv, TandemTypeOK, JournalInv, things, local
  <2>2. AccountsKeep
    BY <1>1, ThingsStay
  <2>3. PlaceOf(m)'
    BY <1>1, <1>2, <1>3, <2>2, PlaceStays
  <2>4. \A n \in Member, d \in Delivery : Held(n, d)' => Held(n, d) \/ Leasable(n, d)
    BY <1>3 DEF Held
  <2>5. UNCHANGED <<sent, view>>
    BY <1>1 DEF local
  <2> QED
    BY <1>1, <1>2, <1>3, <2>1, <2>2, <2>3, <2>4, <2>5, MoveKeeps
<1>4. ASSUME NEW s \in InOrder(Batch(m)), inbound' = [inbound EXCEPT ![m].batch = s]
      PROVE  SpokeInv'
  <2>1. inbound \in [Member -> [batch : Seq(Delivery), at : Place, late : SUBSET DstUuid]]
    BY DEF SpokeInv, TandemTypeOK
  <2>2. Batch(m) \subseteq Delivery /\ \A d \in Batch(m) : Leasable(m, d)
    BY DEF Batch
  <2>3. s \in Seq(Delivery) /\ \A i \in 1 .. Len(s) : s[i] \in Batch(m)
    <3>1. PICK n \in 0 .. Limit : s \in [1 .. n -> Batch(m)]
      BY DEF InOrder
    <3>2. n \in Nat /\ s \in [1 .. n -> Delivery]
      BY <2>2, <3>1, LimitAssumption
    <3>3. s \in Seq(Delivery) /\ Len(s) = n
      BY <3>2
    <3> QED
      BY <3>1, <3>3
  <2>4. /\ inbound' \in [Member -> [batch : Seq(Delivery), at : Place, late : SUBSET DstUuid]]
        /\ inbound'[m].batch = s /\ inbound'[m].at = inbound[m].at
        /\ \A n \in Member : n # m => inbound'[n] = inbound[n]
    BY <1>4, <2>1, <2>3
  <2>5. TandemTypeOK' /\ JournalInv'
    BY <1>1, <2>4 DEF SpokeInv, TandemTypeOK, JournalInv, things, local
  <2>6. AccountsKeep
    BY <1>1, ThingsStay
  <2>7. \A n \in Member, d \in Delivery : Held(n, d)' => Held(n, d) \/ Leasable(n, d)
    BY <2>2, <2>3, <2>4 DEF Held
  <2>8. UNCHANGED <<sent, view>>
    BY <1>1 DEF local
  <2>9. inbound[m].at = "next"
    BY <1>1 DEF SpokeInv, PlaceInv, PlaceOf
  <2>10. PlaceOf(m)'
    BY <2>4, <2>9, NextPlace
  <2> QED
    BY <1>1, <1>2, <2>4, <2>5, <2>6, <2>7, <2>8, <2>10, MoveKeeps
<1> QED
  BY <1>3, <1>4 DEF Lease

JournalType == [open : BOOLEAN, dst : DstUuid \cup {None}, early : SUBSET DstUuid]

LEMMA IntendSpoke ==
  ASSUME IInv, SpokeInv, NEW m \in Member, Intend(m)
  PROVE  SpokeInv'
<1> DEFINE k == Current(m).key
           row == [journal[k] EXCEPT !.open = TRUE, !.early = {u \in DstUuid : copies[u].aged}]
<1>1. /\ inbound[m].batch # <<>> /\ Current(m).kind = "create" /\ journal[k] = NoJournal
      /\ Step(m, "fire") /\ "fire" \in Place
  BY DEF Intend, At, Place
<1>2. k \in Key /\ Exists(k) /\ transfers[k].to = m
  BY <1>1, CurrentKnown
<1>3. journal \in [Key -> JournalType]
  BY DEF SpokeInv, TandemTypeOK, JournalType
<1>4. journal' = [journal EXCEPT ![k] = row]
  BY DEF Intend
<1>5. row.open /\ row.dst = None /\ row \in JournalType
  <2> DEFINE early == {u \in DstUuid : copies[u].aged}
  <2>1. early \in SUBSET DstUuid /\ journal[k] \in JournalType /\ journal[k].dst = None
    BY <1>1, <1>2, <1>3 DEF NoJournal
  <2> HIDE DEF early
  <2> QED
    BY <2>1 DEF JournalType
<1>6. /\ journal' \in [Key -> JournalType] /\ journal'[k] = row
      /\ \A j \in Key : j # k => journal'[j] = journal[j]
  BY <1>2, <1>3, <1>4, <1>5
<1>7. JournalInv'
  BY <1>5, <1>6 DEF JournalInv, SpokeInv
<1>8. ThingsOK' /\ AccountsKeep /\ UNCHANGED <<vars, local>>
  BY ThingsStay DEF Intend
<1>9. /\ inbound'[m].at = "fire" /\ Current(m)' = Current(m)
      /\ inbound'[m].batch = inbound[m].batch
  BY <1>1, StepMoves DEF SpokeInv
<1>10. PlaceOf(m)'
  BY <1>1, <1>5, <1>6, <1>9 DEF PlaceOf, At
<1>11. \A j \in Key : ~(Exists(j) /\ transfers[j].to = m) => journal'[j] = journal[j]
  BY <1>2, <1>6
<1>12. journal' \in [Key -> [open : BOOLEAN, dst : DstUuid \cup {None}, early : SUBSET DstUuid]]
  BY <1>6 DEF JournalType
<1> QED
  BY <1>1, <1>7, <1>8, <1>10, <1>11, <1>12, AdvanceKeeps

\* A new copy is open, like the unused number it takes.
LEMMA MakeCopyKeeps ==
  ASSUME SpokeInv, NEW k \in Key, Exists(k), TellThings(k), UNCHANGED <<todo, acted>>
  PROVE  ThingsOK' /\ AccountsKeep
<1>1. PICK u \in DstUuid, coming \in BOOLEAN :
        copies' = [copies EXCEPT ![u].of = k, ![u].coming = coming]
  BY DEF TellThings, MakeCopy, NextCopy
<1>2. copies \in [DstUuid -> [of : Key \cup {None}, status : Status, aged : BOOLEAN, coming : BOOLEAN]]
  BY DEF SpokeInv, TandemTypeOK
<1>3. /\ copies' \in [DstUuid -> [of : Key \cup {None}, status : Status, aged : BOOLEAN, coming : BOOLEAN]]
      /\ \A v \in DstUuid : /\ copies'[v].status = copies[v].status
                            /\ copies'[v].of \in {copies[v].of, k}
  BY <1>1, <1>2
<1> QED
  BY <1>3 DEF ThingsOK, AccountsKeep, SpokeInv, TandemTypeOK

LEMMA FireSpoke ==
  ASSUME IInv, SpokeInv, NEW m \in Member, Fire(m)
  PROVE  SpokeInv'
<1> DEFINE k == Current(m).key
<1>1. inbound[m].batch # <<>> /\ inbound[m].at = "fire" /\ UNCHANGED <<todo, acted, journal, local>>
  BY DEF Fire, At
<1>2. k \in Key /\ Exists(k) /\ Current(m).kind = "create" /\ journal[k].open
  BY <1>1, CurrentKnown DEF At, SpokeInv, PlaceInv, PlaceOf
<1>3. CASE TellThings(k) /\ Step(m, "find") /\ UNCHANGED vars
  <2>1. ThingsOK' /\ AccountsKeep
    BY <1>1, <1>2, <1>3, MakeCopyKeeps
  <2>2. "find" \in Place
    BY DEF Place
  <2>3. /\ inbound'[m].at = "find" /\ Current(m)' = Current(m)
        /\ inbound'[m].batch = inbound[m].batch
    BY <1>3, <2>2, StepMoves DEF SpokeInv
  <2>4. PlaceOf(m)' /\ JournalInv'
    BY <1>1, <1>2, <2>3 DEF PlaceOf, At, SpokeInv, JournalInv
  <2>5. journal' \in [Key -> [open : BOOLEAN, dst : DstUuid \cup {None}, early : SUBSET DstUuid]]
    BY <1>1 DEF SpokeInv, TandemTypeOK
  <2> QED
    BY <1>1, <1>3, <2>1, <2>2, <2>4, <2>5, AdvanceKeeps
<1>4. CASE TellThings(k) /\ Nack(m)
  <2>1. ThingsOK' /\ AccountsKeep
    BY <1>1, <1>2, <1>4, MakeCopyKeeps
  <2> QED
    BY <1>1, <1>4, <2>1, NackCall, DropKeeps
<1>5. CASE Nack(m) /\ UNCHANGED copies
  <2>1. ThingsOK' /\ AccountsKeep
    BY <1>1, <1>5, ThingsStay DEF things
  <2> QED
    BY <1>1, <1>5, <2>1, NackCall, DropKeeps
<1> QED
  BY <1>3, <1>4, <1>5 DEF Fire

LEMMA ReackSpoke ==
  ASSUME IInv, SpokeInv, NEW m \in Member, Reack(m) \/ AckCopy(m)
  PROVE  SpokeInv'
<1> DEFINE u == journal[Current(m).key].dst
<1>1. /\ inbound[m].batch # <<>> /\ HubAck(m, AckCreate(m, Current(m), u))
      /\ UNCHANGED <<things, journal, local>>
  BY DEF Reack, AckCopy, At
<1>2. Current(m).key \in Key /\ u # None
  BY <1>1, CurrentKnown DEF Reack, AckCopy, SpokeInv, PlaceInv, PlaceOf
<1>3. u \in DstUuid
  BY <1>2 DEF SpokeInv, TandemTypeOK
<1>4. ThingsOK' /\ AccountsKeep
  BY <1>1, ThingsStay
<1>5. LedgerKeeps /\ NoNews /\ NoSettling /\ NothingLeftOver' /\ Drop(m)
  BY <1>1, <1>3, AckCreateCall
<1> QED
  BY <1>1, <1>4, <1>5, DropKeeps

LEMMA RecorrelateSpoke ==
  ASSUME IInv, SpokeInv, NEW m \in Member, Recorrelate(m)
  PROVE  SpokeInv'
<1>1. /\ inbound[m].batch # <<>> /\ Current(m).kind = "create" /\ journal[Current(m).key].open
      /\ Step(m, "find") /\ "find" \in Place /\ UNCHANGED <<vars, things, journal, local>>
  BY DEF Recorrelate, At, Place
<1>2. ThingsOK' /\ AccountsKeep
  BY <1>1, ThingsStay
<1>3. /\ inbound'[m].at = "find" /\ Current(m)' = Current(m)
      /\ inbound'[m].batch = inbound[m].batch
  BY <1>1, StepMoves DEF SpokeInv
<1>4. PlaceOf(m)' /\ JournalInv'
  BY <1>1, <1>3 DEF PlaceOf, At, SpokeInv, JournalInv
<1>5. journal' \in [Key -> [open : BOOLEAN, dst : DstUuid \cup {None}, early : SUBSET DstUuid]]
  BY <1>1 DEF SpokeInv, TandemTypeOK
<1> QED
  BY <1>1, <1>2, <1>4, <1>5, AdvanceKeeps

LEMMA CorrelateSpoke ==
  ASSUME IInv, SpokeInv, NEW m \in Member, Correlate(m)
  PROVE  SpokeInv'
<1> DEFINE k == Current(m).key
<1>1. /\ inbound[m].batch # <<>> /\ inbound[m].at = "find" /\ Step(m, "ack") /\ "ack" \in Place
      /\ UNCHANGED <<vars, things, local>>
  BY DEF Correlate, At, Place
<1>2. k \in Key /\ Exists(k) /\ Current(m).kind = "create" /\ transfers[k].to = m
  BY <1>1, CurrentKnown DEF At, SpokeInv, PlaceInv, PlaceOf
<1>3. PICK u \in DstUuid : journal' = [journal EXCEPT ![k].open = FALSE, ![k].dst = u]
  BY DEF Correlate, Found, InAccount
<1>4. journal \in [Key -> JournalType]
  BY DEF SpokeInv, TandemTypeOK, JournalType
<1>5. /\ journal' \in [Key -> JournalType] /\ ~journal'[k].open /\ journal'[k].dst = u
      /\ \A j \in Key : j # k => journal'[j] = journal[j]
  BY <1>2, <1>3, <1>4 DEF JournalType
<1>6. JournalInv'
  BY <1>5 DEF JournalInv, SpokeInv
<1>7. ThingsOK' /\ AccountsKeep
  BY <1>1, ThingsStay
<1>8. /\ inbound'[m].at = "ack" /\ Current(m)' = Current(m)
      /\ inbound'[m].batch = inbound[m].batch
  BY <1>1, StepMoves DEF SpokeInv
<1>9. PlaceOf(m)'
  BY <1>1, <1>2, <1>5, <1>8, UuidAssumption DEF PlaceOf, At
<1>10. \A j \in Key : ~(Exists(j) /\ transfers[j].to = m) => journal'[j] = journal[j]
  BY <1>2, <1>5
<1>11. journal' \in [Key -> [open : BOOLEAN, dst : DstUuid \cup {None}, early : SUBSET DstUuid]]
  BY <1>5 DEF JournalType
<1> QED
  BY <1>1, <1>6, <1>7, <1>9, <1>10, <1>11, AdvanceKeeps

LEMMA CorrelateTimesOutSpoke ==
  ASSUME IInv, SpokeInv, NEW m \in Member, CorrelateTimesOut(m)
  PROVE  SpokeInv'
<1>1. inbound[m].batch # <<>> /\ Nack(m) /\ UNCHANGED <<todo, acted, journal, local>>
  BY DEF CorrelateTimesOut, At
<1>2. ThingsOK' /\ AccountsKeep
  <2> DEFINE old(u) == copies[u].aged \/ u \in InAccount(m) \ inbound[m].late
  <2>1. copies \in [DstUuid -> [of : Key \cup {None}, status : Status, aged : BOOLEAN, coming : BOOLEAN]]
    BY DEF SpokeInv, TandemTypeOK
  <2>2. copies' = [u \in DstUuid |-> [copies[u] EXCEPT !.aged = old(u)]]
    BY DEF CorrelateTimesOut, Grow
  <2>3. \A u \in DstUuid : old(u) \in BOOLEAN
    BY <2>1
  <2> HIDE DEF old
  <2>4. /\ copies' \in [DstUuid -> [of : Key \cup {None}, status : Status, aged : BOOLEAN, coming : BOOLEAN]]
        /\ \A u \in DstUuid : /\ copies'[u].status = copies[u].status
                              /\ copies'[u].of = copies[u].of
    BY <2>1, <2>2, <2>3
  <2> QED
    BY <1>1, <2>4 DEF ThingsOK, AccountsKeep, SpokeInv, TandemTypeOK
<1> QED
  BY <1>1, <1>2, NackCall, DropKeeps

\* An echo ends the side it is for, of a transfer whose copy is known.
LEMMA CompleteCopyKeeps ==
  ASSUME IInv, SpokeInv, NEW m \in Member, NEW d, d.key \in Key, CompleteCopy(m, d),
         transfers[d.key].dst # None, UNCHANGED acted
  PROVE  ThingsOK' /\ AccountsKeep
         /\ (IF d.key.from = m THEN todo'[d.key].status # "open"
                               ELSE copies'[transfers[d.key].dst].status # "open")
<1> DEFINE k == d.key
           u == transfers[k].dst
<1>1. k \in Key /\ u \in DstUuid
  BY TransferTypes
<1>2. /\ todo \in [Key -> [status : Status, tag : {"none", "trigger", "delegated"}]]
      /\ copies \in [DstUuid -> [of : Key \cup {None}, status : Status, aged : BOOLEAN, coming : BOOLEAN]]
      /\ acted \subseteq Key \X Member
  BY DEF SpokeInv, TandemTypeOK
<1>3. \A s \in Status : Completed(s) \in Status /\ Completed(s) # "open"
  BY DEF Completed, Status
<1>4. CASE k.from = m
  <2>1. todo' = [todo EXCEPT ![k].status = Completed(@)] /\ UNCHANGED copies
    BY <1>4 DEF CompleteCopy
  <2>2. /\ todo' \in [Key -> [status : Status, tag : {"none", "trigger", "delegated"}]]
        /\ todo'[k].status # "open" /\ todo'[k].tag = todo[k].tag
        /\ \A j \in Key : j # k => todo'[j] = todo[j]
    BY <1>1, <1>2, <1>3, <2>1
  <2> QED
    BY <1>2, <1>4, <2>1, <2>2 DEF ThingsOK, AccountsKeep
<1>5. CASE k.from # m
  <2>1. copies' = [copies EXCEPT ![u].status = Completed(@)] /\ UNCHANGED todo
    BY <1>5 DEF CompleteCopy
  <2>2. /\ copies' \in [DstUuid -> [of : Key \cup {None}, status : Status, aged : BOOLEAN, coming : BOOLEAN]]
        /\ copies'[u].status # "open" /\ copies'[u].of = copies[u].of
        /\ \A v \in DstUuid : v # u => copies'[v] = copies[v]
    BY <1>1, <1>2, <1>3, <2>1
  <2> QED
    BY <1>2, <1>5, <2>1, <2>2 DEF ThingsOK, AccountsKeep
<1> QED
  BY <1>4, <1>5

LEMMA ApplyTerminalSpoke ==
  ASSUME IInv, SpokeInv, NEW m \in Member, ApplyTerminal(m)
  PROVE  SpokeInv'
<1> DEFINE d == Current(m)
<1>1. /\ inbound[m].batch # <<>> /\ d.kind # "create"
      /\ UNCHANGED <<acted, journal, local>>
  BY DEF ApplyTerminal, At
<1>2. d \in Delivery /\ d.key \in Key /\ transfers[d.key].dst # None
  BY <1>1, CurrentKnown
<1>3. CASE CompleteCopy(m, d) /\ Step(m, "ack") /\ UNCHANGED vars
  <2>1. /\ ThingsOK' /\ AccountsKeep
        /\ (IF d.key.from = m THEN todo'[d.key].status # "open"
                              ELSE copies'[transfers[d.key].dst].status # "open")
    BY <1>1, <1>2, <1>3, CompleteCopyKeeps
  <2>2. "ack" \in Place
    BY DEF Place
  <2>3. /\ inbound'[m].at = "ack" /\ Current(m)' = Current(m)
        /\ inbound'[m].batch = inbound[m].batch
    BY <1>3, <2>2, StepMoves DEF SpokeInv
  <2>4. OwnClosed(m, d.key)'
    BY <1>3, <2>1, <2>3 DEF OwnClosed, vars
  <2>5. PlaceOf(m)'
    BY <1>1, <2>3, <2>4 DEF PlaceOf, At
  <2>6. JournalInv'
    BY <1>1 DEF SpokeInv, JournalInv
  <2>7. journal' \in [Key -> [open : BOOLEAN, dst : DstUuid \cup {None}, early : SUBSET DstUuid]]
    BY <1>1 DEF SpokeInv, TandemTypeOK
  <2> QED
    BY <1>1, <1>3, <2>1, <2>2, <2>5, <2>6, <2>7, AdvanceKeeps
<1>4. CASE CompleteCopy(m, d) /\ Nack(m)
  <2>1. ThingsOK' /\ AccountsKeep
    BY <1>1, <1>2, <1>4, CompleteCopyKeeps
  <2> QED
    BY <1>1, <1>4, <2>1, NackCall, DropKeeps
<1>5. CASE UNCHANGED <<todo, copies>> /\ Nack(m)
  <2>1. ThingsOK' /\ AccountsKeep
    BY <1>1, <1>5, ThingsStay DEF things
  <2> QED
    BY <1>1, <1>5, <2>1, NackCall, DropKeeps
<1> QED
  BY <1>3, <1>4, <1>5 DEF ApplyTerminal

LEMMA AckEchoSpoke ==
  ASSUME IInv, SpokeInv, NEW m \in Member, AckEcho(m)
  PROVE  SpokeInv'
<1>1. /\ inbound[m].batch # <<>> /\ UNCHANGED <<things, journal, local>>
  BY DEF AckEcho, At
<1>2. LedgerKeeps /\ NoNews /\ (NoSettling \/ BothSidesClosed') /\ NothingLeftOver' /\ Drop(m)
  BY AckEchoCall DEF AckEcho
<1>3. ThingsOK' /\ AccountsKeep
  BY <1>1, ThingsStay
<1> QED
  BY <1>1, <1>2, <1>3, DropKeeps

LEMMA ApplySpoke ==
  ASSUME IInv, SpokeInv, NEW m \in Member, Apply(m)
  PROVE  SpokeInv'
BY IntendSpoke, FireSpoke, ReackSpoke, RecorrelateSpoke, CorrelateSpoke, CorrelateTimesOutSpoke,
   ApplyTerminalSpoke, AckEchoSpoke DEF Apply

-----------------------------------------------------------------------------
(***************************************************************************)
(* The steps of the local phase, of people, and of time.                   *)
(***************************************************************************)
\* What a step outside the inbound phases has to show.
LEMMA RestKeeps ==
  ASSUME IInv, SpokeInv, LedgerKeeps, AccountsKeep, ThingsOK', NothingLeftOver',
         NoNews \/ (ReporterInv /\ CancelInv)', NoSettling,
         \A k \in sent' : k \in sent \/ Exists(k)', sent' \subseteq Key,
         retagged' \subseteq Key,
         observed' \in [Member -> [Key -> Terminal \cup {None}]],
         view' \in [Member -> SUBSET Entry], ViewInv',
         UNCHANGED apply
  PROVE  SpokeInv'
<1>1. CopyInv' /\ ReporterInv' /\ CancelInv' /\ BothSidesClosed' /\ TagIsRetryQueue'
  BY SidesKeep DEF ThingsOK
<1>2. \A n \in Member, d \in Delivery : Held(n, d)' => Held(n, d) \/ Leasable(n, d)
  BY DEF Held, apply
<1>3. InboundInv'
  BY <1>2, InboundKeeps DEF SpokeInv
<1>4. \A n \in Member : inbound'[n] = inbound[n] /\ journal' = journal
  BY DEF apply
<1>5. PlaceInv'
  BY <1>4, PlaceStays DEF PlaceInv
<1>6. JournalInv' /\ TandemTypeOK'
  BY DEF SpokeInv, JournalInv, TandemTypeOK, ThingsOK, apply
<1> QED
  BY <1>1, <1>3, <1>5, <1>6 DEF SpokeInv

\* A list that only shrinks stays known.
LEMMA ViewShrinks ==
  ASSUME IInv, SpokeInv, LedgerKeeps, view' \in [Member -> SUBSET Entry],
         \A n \in Member : view'[n] \subseteq view[n]
  PROVE  ViewInv'
<1> SUFFICES ASSUME NEW m \in Member, NEW e \in view'[m]
             PROVE  e.key \in watched'[m] /\ (e.applied => transfers'[e.key].dst # None)
  BY DEF ViewInv
<1>1. e \in view[m] /\ e.key \in Key
  BY DEF Entry
<1>2. e.key \in watched[m] /\ (e.applied => transfers[e.key].dst # None)
  BY <1>1 DEF SpokeInv, ViewInv
<1> QED
  BY <1>1, <1>2 DEF LedgerKeeps

LEMMA DoneShrinks ==
  ASSUME SpokeInv, NEW m \in Member,
         (\E e : Done(m, e)) \/ view' = [view EXCEPT ![m] = {}]
  PROVE  view' \in [Member -> SUBSET Entry] /\ \A n \in Member : view'[n] \subseteq view[n]
BY DEF SpokeInv, TandemTypeOK, Done

LEMMA OutboundSpoke ==
  ASSUME IInv, SpokeInv, NEW m \in Member, NEW k \in Todo, Outbound(m, k)
  PROVE  SpokeInv'
<1>1. /\ k \in Key /\ k.from = m /\ k.src \in SrcUuid /\ k = [from |-> m, src |-> k.src]
      /\ UNCHANGED <<things, apply, retagged, observed, view>>
      /\ sent' = sent \cup {k} \/ UNCHANGED sent
  BY TodoAssumption DEF Outbound, Key
<1>2. LedgerKeeps /\ NoNews /\ NoSettling /\ NothingLeftOver' /\ Exists(k)'
  <2>1. CASE PushTransfer(m, Assignee[k], k.src)
    BY <1>1, <2>1, PushKeeps, PushChanges DEF SpokeInv
  <2>2. CASE Exists(k) /\ UNCHANGED vars
    BY <2>2, NoCall DEF Exists, vars
  <2> QED
    BY <2>1, <2>2 DEF Outbound, HubPush
<1>3. ThingsOK' /\ AccountsKeep
  BY <1>1, ThingsStay
<1>4. /\ retagged' \subseteq Key /\ observed' \in [Member -> [Key -> Terminal \cup {None}]]
      /\ view' \in [Member -> SUBSET Entry] /\ sent' \subseteq Key
      /\ \A n \in Member : view'[n] \subseteq view[n]
  BY <1>1 DEF SpokeInv, TandemTypeOK
<1>5. \A j \in sent' : j \in sent \/ Exists(j)'
  BY <1>1, <1>2
<1>6. ViewInv'
  BY <1>2, <1>4, ViewShrinks
<1> QED
  BY <1>1, <1>2, <1>3, <1>4, <1>5, <1>6, RestKeeps

LEMMA GetWatchSpoke ==
  ASSUME IInv, SpokeInv, NEW m \in Member, GetWatch(m)
  PROVE  SpokeInv'
<1> DEFINE list == {[key |-> k, applied |-> transfers[k].dst # None] : k \in Watchlist(m)}
<1>1. /\ Watch(m) /\ view' = [view EXCEPT ![m] = list]
      /\ UNCHANGED <<things, apply, sent, retagged, observed>>
  BY DEF GetWatch
<1>2. /\ LedgerKeeps /\ NoNews /\ NoSettling /\ NothingLeftOver'
      /\ Watchlist(m) \subseteq watched'[m]
  BY <1>1, WatchKeeps DEF SpokeInv
<1>3. ThingsOK' /\ AccountsKeep
  BY <1>1, ThingsStay
<1>4. Watchlist(m) \subseteq Key /\ list \subseteq Entry
  <2>1. Watchlist(m) \subseteq Key
    BY DEF Watchlist
  <2>2. \A k \in Key, b \in BOOLEAN : [key |-> k, applied |-> b] \in Entry
    BY DEF Entry
  <2>3. \A k \in Key : (transfers[k].dst # None) \in BOOLEAN
    BY Zenon
  <2> QED
    BY <2>1, <2>2, <2>3, Zenon
<1>5. view \in [Member -> SUBSET Entry]
  BY DEF SpokeInv, TandemTypeOK
<1> HIDE DEF list
<1>6. /\ view' \in [Member -> SUBSET Entry] /\ view'[m] = list
      /\ \A n \in Member : n # m => view'[n] = view[n]
  BY <1>1, <1>4, <1>5
<1>7. ASSUME NEW n \in Member, NEW e \in view'[n]
      PROVE  e.key \in watched'[n] /\ (e.applied => transfers'[e.key].dst # None)
  <2>1. CASE n = m
    <3>1. PICK k \in Watchlist(m) : e = [key |-> k, applied |-> transfers[k].dst # None]
      BY <1>6, <1>7, <2>1 DEF list
    <3>2. e.key = k /\ (e.applied => transfers[k].dst # None)
      BY <3>1
    <3> QED
      BY <1>2, <1>4, <2>1, <3>1, <3>2 DEF LedgerKeeps
  <2>2. CASE n # m
    <3>1. e \in view[n] /\ e.key \in Key
      BY <1>5, <1>6, <1>7, <2>2 DEF Entry
    <3>2. e.key \in watched[n] /\ (e.applied => transfers[e.key].dst # None)
      BY <3>1 DEF SpokeInv, ViewInv
    <3> QED
      BY <1>2, <3>1, <3>2 DEF LedgerKeeps
  <2> QED
    BY <2>1, <2>2
<1>8. ViewInv'
  BY <1>7 DEF ViewInv
<1>9. /\ retagged' \subseteq Key /\ observed' \in [Member -> [Key -> Terminal \cup {None}]]
      /\ sent' \subseteq Key /\ \A k \in sent' : k \in sent \/ Exists(k)'
  BY <1>1 DEF SpokeInv, TandemTypeOK
<1> QED
  BY <1>1, <1>2, <1>3, <1>6, <1>8, <1>9, RestKeeps

\* What a party reports is that its own side has ended; a canceled todo was
\* canceled or trashed by then.
LEMMA ReportedIsOwn ==
  ASSUME IInv, SpokeInv, NEW m \in Member, NEW k \in Key, k.from = m \/ transfers[k].dst # None,
         Reported(m, k) # "open"
  PROVE  /\ Reported(m, k) \in Terminal /\ OwnClosed(m, k)
         /\ k.from = m /\ Reported(m, k) = "canceled" => todo[k].status \in {"canceled", "trashed"}
<1>1. OwnStatus(m, k) \in Status
  BY TransferTypes DEF OwnStatus, SpokeInv, TandemTypeOK
<1>2. OwnStatus(m, k) # "open" <=> OwnClosed(m, k)
  BY DEF OwnStatus, OwnClosed
<1> QED
  BY <1>1, <1>2 DEF Reported, OwnStatus, Status, Terminal

\* A report by m that the hub takes: m is on record, and its side has ended.
LEMMA ReportCounts ==
  ASSUME IInv, SpokeInv, NEW m \in Member, NEW k \in Key, NEW t \in Terminal, NEW D,
         QueueEcho(D, m, k, t), UNCHANGED <<watched, things>>,
         k.from = m \/ transfers[k].dst # None, OwnClosed(m, k),
         k.from = m /\ t = "canceled" => todo[k].status \in {"canceled", "trashed"}
  PROVE  (ReporterInv /\ CancelInv)'
<1>1. /\ transfers'[k].dst = transfers[k].dst
      /\ transfers'[k].terminal = t /\ transfers'[k].by = m
      /\ \A j \in Key : j # k => transfers'[j] = transfers[j]
  BY ReportChanges
<1>2. UNCHANGED <<todo, copies>>
  BY DEF things
<1>3. ReporterInv'
  BY <1>1, <1>2 DEF ReporterInv, SpokeInv, OwnClosed
<1>4. CancelInv'
  BY <1>1, <1>2 DEF CancelInv, SpokeInv
<1> QED
  BY <1>3, <1>4

LEMMA ReportSpoke ==
  ASSUME IInv, SpokeInv, NEW m \in Member, NEW e \in Entry, Report(m, e)
  PROVE  SpokeInv'
<1> DEFINE k == e.key
           t == Reported(m, k)
<1>1. /\ k \in Key /\ e \in view[m] /\ Reportable(m, k) /\ Done(m, e)
      /\ UNCHANGED <<things, apply, sent, retagged>>
  BY DEF Report, Entry
<1>2. k \in watched[m] /\ (k.from = m \/ transfers[k].dst # None)
  BY <1>1 DEF SpokeInv, ViewInv, IInv, WatchInv
<1>3. /\ t \in Terminal /\ OwnClosed(m, k)
      /\ k.from = m /\ t = "canceled" => todo[k].status \in {"canceled", "trashed"}
  BY <1>1, <1>2, ReportedIsOwn DEF Reportable
<1>4. /\ LedgerKeeps /\ NoSettling /\ NothingLeftOver'
      /\ NoNews \/ (ReporterInv /\ CancelInv)'
  <2>1. CASE SetTerminal(m, k, t)
    <3>1. LedgerKeeps /\ NoSettling /\ NothingLeftOver'
      BY <1>1, <1>3, <2>1, SetTerminalKeeps DEF SpokeInv
    <3>2. QueueEcho(deliveries, m, k, t) /\ UNCHANGED watched
      BY <2>1 DEF SetTerminal
    <3>3. (ReporterInv /\ CancelInv)'
      BY <1>1, <1>2, <1>3, <3>2, ReportCounts
    <3> QED
      BY <3>1, <3>3
  <2>2. CASE t = "completed" /\ UpgradeTerminal(m, k)
    <3>1. /\ QueueEcho(WithoutCancel(k), m, k, "completed") /\ UNCHANGED watched
          /\ transfers[k].terminal = "canceled"
      BY <2>2 DEF UpgradeTerminal
    <3>2. transfers[k].dst # None
      <4>1. CASE k.from = m
        <5>1. todo[k].status \in Status /\ todo[k].status \notin {"canceled", "trashed"}
          BY <1>1, <2>2, <4>1 DEF Reported, OwnStatus, SpokeInv, TandemTypeOK
        <5> QED
          BY <1>1, <3>1, <5>1 DEF SpokeInv, CancelInv
      <4>2. CASE k.from # m
        BY <1>2, <4>2
      <4> QED
        BY <4>1, <4>2
    <3>3. LedgerKeeps /\ NoSettling /\ NothingLeftOver'
      BY <1>1, <2>2, <3>2, UpgradeKeeps DEF SpokeInv
    <3>4. (ReporterInv /\ CancelInv)'
      BY <1>1, <1>2, <1>3, <2>2, <3>1, ReportCounts
    <3> QED
      BY <3>3, <3>4
  <2>3. CASE UNCHANGED vars
    BY <2>3, NoCall
  <2> QED
    BY <2>1, <2>2, <2>3 DEF Report, HubObserve
<1>5. ThingsOK' /\ AccountsKeep
  BY <1>1, ThingsStay
<1>6. /\ retagged' \subseteq Key /\ sent' \subseteq Key
      /\ \A j \in sent' : j \in sent \/ Exists(j)'
  BY <1>1 DEF SpokeInv, TandemTypeOK
<1>7. observed' \in [Member -> [Key -> Terminal \cup {None}]]
  <2>1. observed \in [Member -> [Key -> Terminal \cup {None}]]
    BY DEF SpokeInv, TandemTypeOK
  <2>2. UNCHANGED observed \/ observed' = [observed EXCEPT ![m][k] = t]
    BY DEF Report
  <2> QED
    BY <1>1, <1>3, <2>1, <2>2
<1>8. view' \in [Member -> SUBSET Entry] /\ \A n \in Member : view'[n] \subseteq view[n]
  BY <1>1, DoneShrinks
<1>9. ViewInv'
  BY <1>4, <1>8, ViewShrinks
<1> QED
  BY <1>1, <1>4, <1>5, <1>6, <1>7, <1>8, <1>9, RestKeeps

\* A retag ends the todo, and takes the tag off one whose copy is known.
LEMMA RetagWrites ==
  ASSUME SpokeInv, NEW k \in Key, transfers[k].dst # None, UNCHANGED <<copies, acted>>,
         todo' = [todo EXCEPT ![k] = [status |-> Completed(@.status), tag |-> "delegated"]]
  PROVE  ThingsOK' /\ AccountsKeep
<1>1. todo \in [Key -> [status : Status, tag : {"none", "trigger", "delegated"}]]
  BY DEF SpokeInv, TandemTypeOK
<1>2. \A s \in Status : Completed(s) \in Status /\ Completed(s) # "open"
  BY DEF Completed, Status
<1>3. todo[k].status \in Status
  BY <1>1
<1>4. /\ todo' \in [Key -> [status : Status, tag : {"none", "trigger", "delegated"}]]
      /\ todo'[k].status # "open"
      /\ \A j \in Key : j # k => todo'[j] = todo[j]
  BY <1>1, <1>2, <1>3
<1> QED
  BY <1>4 DEF ThingsOK, AccountsKeep, SpokeInv, TandemTypeOK

\* The trigger tag comes off when the hub has said that the copy is known.
LEMMA RetagSpoke ==
  ASSUME IInv, SpokeInv, NEW m \in Member, NEW e \in Entry, Retag(m, e)
  PROVE  SpokeInv'
<1> DEFINE k == e.key
<1>1. /\ k \in Key /\ e \in view[m] /\ e.applied
      /\ UNCHANGED <<vars, copies, acted, apply, sent, observed>>
  BY DEF Retag, NeedsRetag, Entry
<1>2. transfers[k].dst # None
  BY <1>1 DEF SpokeInv, ViewInv
<1>3. LedgerKeeps /\ NoNews /\ NoSettling /\ NothingLeftOver'
  BY <1>1, NoCall
<1>4. ThingsOK' /\ AccountsKeep
  <2>1. CASE todo' = [todo EXCEPT ![k] = [status |-> Completed(@.status), tag |-> "delegated"]]
    BY <1>1, <1>2, <2>1, RetagWrites
  <2>2. CASE UNCHANGED todo
    BY <1>1, <2>2, ThingsStay DEF things
  <2> QED
    BY <2>1, <2>2 DEF Retag
<1>5. /\ retagged' \subseteq Key /\ sent' \subseteq Key
      /\ observed' \in [Member -> [Key -> Terminal \cup {None}]]
      /\ \A j \in sent' : j \in sent \/ Exists(j)'
  BY <1>1 DEF Retag, SpokeInv, TandemTypeOK
<1>6. view' \in [Member -> SUBSET Entry] /\ \A n \in Member : view'[n] \subseteq view[n]
  BY DoneShrinks DEF Retag
<1>7. ViewInv'
  BY <1>3, <1>6, ViewShrinks
<1> QED
  BY <1>1, <1>3, <1>4, <1>5, <1>6, <1>7, RestKeeps

LEMMA PassOverSpoke ==
  ASSUME IInv, SpokeInv, NEW m \in Member, NEW e \in Entry, PassOver(m, e)
  PROVE  SpokeInv'
<1>1. Done(m, e) /\ UNCHANGED <<vars, things, apply, sent, retagged, observed>>
  BY DEF PassOver
<1>2. LedgerKeeps /\ NoNews /\ NoSettling /\ NothingLeftOver'
  BY <1>1, NoCall
<1>3. ThingsOK' /\ AccountsKeep
  BY <1>1, ThingsStay
<1>4. view' \in [Member -> SUBSET Entry] /\ \A n \in Member : view'[n] \subseteq view[n]
  BY <1>1, DoneShrinks
<1>5. ViewInv'
  BY <1>2, <1>4, ViewShrinks
<1>6. /\ retagged' \subseteq Key /\ sent' \subseteq Key
      /\ observed' \in [Member -> [Key -> Terminal \cup {None}]]
      /\ \A j \in sent' : j \in sent \/ Exists(j)'
  BY <1>1 DEF SpokeInv, TandemTypeOK
<1> QED
  BY <1>1, <1>2, <1>3, <1>4, <1>5, <1>6, RestKeeps

\* A spoke starts again, perhaps without rows of its database.
LEMMA RestartKeeps ==
  ASSUME IInv, SpokeInv, NEW m \in Member,
         inbound' = [inbound EXCEPT ![m] = Idle], view' = [view EXCEPT ![m] = {}],
         UNCHANGED <<vars, things>>, sent' \subseteq sent, retagged' \subseteq retagged,
         observed' \in [Member -> [Key -> Terminal \cup {None}]],
         journal' \in [Key -> JournalType],
         \A k \in Key : \/ journal'[k] = journal[k]
                        \/ transfers[k].to = m /\ journal'[k] = NoJournal
  PROVE  SpokeInv'
<1>1. UNCHANGED <<vars, things>>
  OBVIOUS
<1>2. LedgerKeeps /\ NoNews /\ NoSettling /\ NothingLeftOver'
  BY <1>1, NoCall
<1>3. ThingsOK' /\ AccountsKeep
  BY <1>1, ThingsStay
<1>4. view' \in [Member -> SUBSET Entry] /\ \A n \in Member : view'[n] \subseteq view[n]
  BY <1>1, DoneShrinks
<1>5. inbound \in [Member -> [batch : Seq(Delivery), at : Place, late : SUBSET DstUuid]]
  BY DEF SpokeInv, TandemTypeOK
<1>6. <<>> \in Seq(Delivery) /\ "next" \in Place
  BY DEF Place
<1>7. /\ inbound' \in [Member -> [batch : Seq(Delivery), at : Place, late : SUBSET DstUuid]]
      /\ inbound'[m].batch = <<>> /\ inbound'[m].at = "next"
      /\ \A n \in Member : n # m => inbound'[n] = inbound[n]
  BY <1>1, <1>5, <1>6 DEF Idle
<1>8. TandemTypeOK' /\ JournalInv' /\ ViewInv'
  <2>1. JournalInv'
    BY DEF SpokeInv, JournalInv, NoJournal
  <2>2. TandemTypeOK'
    BY <1>3, <1>4, <1>7 DEF SpokeInv, TandemTypeOK, ThingsOK, JournalType
  <2> QED
    BY <1>2, <1>4, <2>1, <2>2, ViewShrinks
<1>9. \A n \in Member, d \in Delivery : Held(n, d)' => Held(n, d) \/ Leasable(n, d)
  <2>1. \A d : ~Held(m, d)'
    BY <1>7 DEF Held
  <2>2. \A n \in Member, d \in Delivery : n # m => (Held(n, d)' => Held(n, d))
    BY <1>7 DEF Held
  <2> QED
    BY <2>1, <2>2
<1>10. InboundInv'
  BY <1>2, <1>9, InboundKeeps DEF SpokeInv
<1>11. PlaceInv'
  <2>1. PlaceOf(m)'
    BY <1>7, NextPlace
  <2>2. ASSUME NEW n \in Member, n # m
        PROVE  PlaceOf(n)'
    <3>1. inbound[n].batch # <<>> /\ Current(n).kind = "create" =>
            journal'[Current(n).key] = journal[Current(n).key]
      BY <2>2, CurrentKnown
    <3> QED
      BY <1>2, <1>3, <1>7, <2>2, <3>1, PlaceStays
  <2> QED
    BY <2>1, <2>2 DEF PlaceInv
<1>12. CopyInv' /\ ReporterInv' /\ CancelInv' /\ BothSidesClosed' /\ TagIsRetryQueue'
  <2>1. sent' \subseteq Key /\ \A k \in sent' : k \in sent \/ Exists(k)'
    BY DEF SpokeInv, TandemTypeOK
  <2> QED
    BY <1>2, <1>3, <2>1, SidesKeep DEF ThingsOK
<1> QED
  BY <1>2, <1>8, <1>10, <1>11, <1>12 DEF SpokeInv

LEMMA CrashSpoke ==
  ASSUME IInv, SpokeInv, NEW m \in Member, Crash(m)
  PROVE  SpokeInv'
<1>1. /\ inbound' = [inbound EXCEPT ![m] = Idle] /\ view' = [view EXCEPT ![m] = {}]
      /\ UNCHANGED <<vars, things, journal, sent, retagged, observed>>
  BY DEF Crash
<1>2. /\ observed' \in [Member -> [Key -> Terminal \cup {None}]]
      /\ journal' \in [Key -> JournalType]
  BY <1>1 DEF SpokeInv, TandemTypeOK, JournalType
<1> QED
  BY <1>1, <1>2, RestartKeeps

\* A step that leaves the spokes alone.
LEMMA SpokesStay ==
  ASSUME IInv, SpokeInv, LedgerKeeps, NoNews, NoSettling, NothingLeftOver',
         AccountsKeep, ThingsOK', UNCHANGED <<local, apply>>
  PROVE  SpokeInv'
<1>1. /\ retagged' \subseteq Key /\ sent' \subseteq Key
      /\ observed' \in [Member -> [Key -> Terminal \cup {None}]]
      /\ view' \in [Member -> SUBSET Entry]
      /\ \A k \in sent' : k \in sent \/ Exists(k)'
      /\ \A n \in Member : view'[n] \subseteq view[n]
  BY DEF SpokeInv, TandemTypeOK, local
<1>2. ViewInv'
  BY <1>1, ViewShrinks
<1> QED
  BY <1>1, <1>2, RestKeeps

LEMMA ExpireSpoke ==
  ASSUME IInv, SpokeInv, NEW d \in Delivery, Expire(d)
  PROVE  SpokeInv'
<1>1. LedgerKeeps /\ NoNews /\ NoSettling /\ NothingLeftOver'
  BY ExpiryKeeps DEF Expire, SpokeInv
<1>2. ThingsOK' /\ AccountsKeep
  BY ThingsStay DEF Expire
<1> QED
  BY <1>1, <1>2, SpokesStay DEF Expire

LEMMA ActSpoke ==
  ASSUME IInv, SpokeInv, NEW a \in Acts, Act(a)
  PROVE  SpokeInv'
<1>1. UNCHANGED <<vars, local, apply>>
  BY DEF Act, ActOnTodo, ActOnCopy
<1>2. LedgerKeeps /\ NoNews /\ NoSettling /\ NothingLeftOver'
  BY <1>1, NoCall
<1>3. a \in Status /\ a # "open"
  BY ActAssumption DEF Status
<1>4. /\ todo \in [Key -> [status : Status, tag : {"none", "trigger", "delegated"}]]
      /\ copies \in [DstUuid -> [of : Key \cup {None}, status : Status, aged : BOOLEAN, coming : BOOLEAN]]
      /\ acted \subseteq Key \X Member
  BY DEF SpokeInv, TandemTypeOK
<1>5. ASSUME NEW k \in Todo, ActOnTodo(k, a)
      PROVE  ThingsOK' /\ AccountsKeep
  <2>1. /\ todo[k].status = "open" /\ todo' = [todo EXCEPT ![k].status = a]
        /\ acted' = acted \cup {<<k, k.from>>} /\ UNCHANGED copies
    BY <1>5 DEF ActOnTodo
  <2>2. k \in Key /\ k.from \in Member
    BY TodoAssumption DEF Key
  <2>3. /\ todo' \in [Key -> [status : Status, tag : {"none", "trigger", "delegated"}]]
        /\ \A j \in Key : todo'[j].tag = todo[j].tag /\ (j # k => todo'[j] = todo[j])
        /\ todo'[k].status = a
    BY <1>3, <1>4, <2>1, <2>2
  <2> QED
    BY <1>3, <1>4, <2>1, <2>2, <2>3 DEF ThingsOK, AccountsKeep
<1>6. ASSUME NEW u \in DstUuid, ActOnCopy(u, a)
      PROVE  ThingsOK' /\ AccountsKeep
  <2> DEFINE k == copies[u].of
  <2>1. /\ k # None /\ copies[u].status = "open" /\ copies' = [copies EXCEPT ![u].status = a]
        /\ acted' = acted \cup {<<k, transfers[k].to>>} /\ UNCHANGED todo
    BY <1>6 DEF ActOnCopy
  <2>2. k \in Key /\ transfers[k].to \in Member
    BY <1>4, <2>1, TransferTypes DEF SpokeInv, CopyInv
  <2>3. /\ copies' \in [DstUuid -> [of : Key \cup {None}, status : Status, aged : BOOLEAN, coming : BOOLEAN]]
        /\ \A v \in DstUuid : copies'[v].of = copies[v].of /\ (v # u => copies'[v] = copies[v])
        /\ copies'[u].status = a
    BY <1>3, <1>4, <2>1
  <2> QED
    BY <1>3, <1>4, <2>1, <2>2, <2>3 DEF ThingsOK, AccountsKeep
<1> QED
  BY <1>1, <1>2, <1>5, <1>6, SpokesStay DEF Act

\* Things makes a copy: what the spokes have read or work on stays as it is.
LEMMA ThingsMakesWrites ==
  ASSUME SpokeInv, NEW u \in DstUuid, ThingsMakes(u)
  PROVE  /\ ThingsOK' /\ AccountsKeep
         /\ inbound' \in [Member -> [batch : Seq(Delivery), at : Place, late : SUBSET DstUuid]]
         /\ \A n \in Member : /\ inbound'[n].batch = inbound[n].batch
                              /\ inbound'[n].at = inbound[n].at
         /\ copies[u].coming /\ ~copies'[u].coming
         /\ \A v \in DstUuid : /\ copies'[v].of = copies[v].of
                               /\ copies'[v].status = copies[v].status
                               /\ copies'[v].aged = copies[v].aged
                               /\ v # u => copies'[v].coming = copies[v].coming
         /\ UNCHANGED <<vars, todo, acted, journal, local>>
<1> DEFINE m == transfers[copies[u].of].to
<1>1. /\ copies \in [DstUuid -> [of : Key \cup {None}, status : Status, aged : BOOLEAN,
                                 coming : BOOLEAN]]
      /\ inbound \in [Member -> [batch : Seq(Delivery), at : Place, late : SUBSET DstUuid]]
  BY DEF SpokeInv, TandemTypeOK
<1>2. /\ copies[u].coming /\ copies' = [copies EXCEPT ![u].coming = FALSE]
      /\ UNCHANGED inbound \/ inbound' = [inbound EXCEPT ![m].late = @ \cup {u}]
      /\ UNCHANGED <<vars, todo, acted, journal, local>>
  BY DEF ThingsMakes
<1> HIDE DEF m
<1>3. /\ copies' \in [DstUuid -> [of : Key \cup {None}, status : Status, aged : BOOLEAN,
                                  coming : BOOLEAN]]
      /\ ~copies'[u].coming
      /\ \A v \in DstUuid : /\ copies'[v].of = copies[v].of
                            /\ copies'[v].status = copies[v].status
                            /\ copies'[v].aged = copies[v].aged
                            /\ v # u => copies'[v].coming = copies[v].coming
  BY <1>1, <1>2
<1>4. /\ inbound' \in [Member -> [batch : Seq(Delivery), at : Place, late : SUBSET DstUuid]]
      /\ \A n \in Member : /\ inbound'[n].batch = inbound[n].batch
                           /\ inbound'[n].at = inbound[n].at
  <2>1. CASE UNCHANGED inbound
    BY <1>1, <2>1
  <2>2. CASE inbound' = [inbound EXCEPT ![m].late = @ \cup {u}]
    <3> DEFINE Phase == [batch : Seq(Delivery), at : Place, late : SUBSET DstUuid]
    <3>1. \A n \in Member : inbound[n] \in Phase
      BY <1>1
    <3>2. inbound' = [n \in Member |-> IF n = m THEN [inbound[n] EXCEPT !.late = @ \cup {u}]
                                               ELSE inbound[n]]
      BY <1>1, <2>2
    <3>3. \A p \in Phase : LET q == [p EXCEPT !.late = @ \cup {u}]
                           IN  q \in Phase /\ q.batch = p.batch /\ q.at = p.at
      OBVIOUS
    <3> HIDE DEF Phase
    <3>4. inbound' \in [Member -> Phase]
      BY <3>1, <3>2, <3>3
    <3>5. \A n \in Member : inbound'[n].batch = inbound[n].batch /\ inbound'[n].at = inbound[n].at
      BY <3>1, <3>2, <3>3
    <3> QED
      BY <3>4, <3>5 DEF Phase
  <2> QED
    BY <1>2, <2>1, <2>2
<1>5. ThingsOK' /\ AccountsKeep
  BY <1>2, <1>3 DEF ThingsOK, AccountsKeep, SpokeInv, TandemTypeOK
<1> QED
  BY <1>2, <1>3, <1>4, <1>5

LEMMA ThingsMakesSpoke ==
  ASSUME IInv, SpokeInv, NEW u \in DstUuid, ThingsMakes(u)
  PROVE  SpokeInv'
<1>1. /\ ThingsOK' /\ AccountsKeep
      /\ inbound' \in [Member -> [batch : Seq(Delivery), at : Place, late : SUBSET DstUuid]]
      /\ \A n \in Member : /\ inbound'[n].batch = inbound[n].batch
                           /\ inbound'[n].at = inbound[n].at
      /\ UNCHANGED <<vars, todo, acted, journal, local>>
  BY ThingsMakesWrites
<1>2. LedgerKeeps /\ NoNews /\ NoSettling /\ NothingLeftOver'
  BY <1>1, NoCall
<1>3. UNCHANGED <<sent, retagged, observed, view>>
  BY <1>1 DEF local
<1>4. CopyInv' /\ ReporterInv' /\ CancelInv' /\ BothSidesClosed' /\ TagIsRetryQueue'
  <2>1. sent' \subseteq Key /\ \A k \in sent' : k \in sent \/ Exists(k)'
    BY <1>3 DEF SpokeInv, TandemTypeOK
  <2> QED
    BY <1>1, <1>2, <2>1, SidesKeep DEF ThingsOK
<1>5. \A n \in Member, d \in Delivery : Held(n, d)' => Held(n, d) \/ Leasable(n, d)
  BY <1>1 DEF Held
<1>6. InboundInv'
  BY <1>2, <1>5, InboundKeeps DEF SpokeInv
<1>7. PlaceInv'
  BY <1>1, <1>2, PlaceStays DEF PlaceInv
<1>8. ViewInv'
  BY <1>1, <1>2, <1>3, ViewShrinks DEF SpokeInv, TandemTypeOK
<1>9. JournalInv' /\ TandemTypeOK'
  BY <1>1, <1>3 DEF SpokeInv, JournalInv, TandemTypeOK, ThingsOK
<1> QED
  BY <1>2, <1>4, <1>6, <1>7, <1>8, <1>9 DEF SpokeInv

-----------------------------------------------------------------------------
(***************************************************************************)
(* The system as a client of the ledger.                                   *)
(***************************************************************************)
LEMMA PushIsLedger ==
  ASSUME NEW p \in Member, NEW h, NEW s \in SrcUuid, PushTransfer(p, h, s)
  PROVE  Next
<1>1. \E h1 \in {HandleOf[m] : m \in Member} : PushTransfer(p, h1, s)
  BY DEF PushTransfer
<1> QED
  BY <1>1 DEF Next

LEMMA NackIsLedger ==
  ASSUME SpokeInv, NEW m \in Member, inbound[m].batch # <<>>, Nack(m)
  PROVE  [Next]_vars
<1>1. Current(m) \in Delivery
  BY CurrentKnown
<1> QED
  BY <1>1 DEF Nack, Next

LEMMA AckIsLedger ==
  ASSUME SpokeInv, NEW m \in Member, Reack(m) \/ AckCopy(m) \/ AckEcho(m)
  PROVE  [Next]_vars
<1>1. inbound[m].batch # <<>>
  BY DEF Reack, AckCopy, AckEcho, At
<1>2. Current(m) \in Delivery /\ Current(m).key \in Key
  BY <1>1, CurrentKnown
<1>3. CASE AckEcho(m)
  BY <1>1, <1>2, <1>3, NackIsLedger DEF AckEcho, HubAck, Next
<1>4. CASE Reack(m) \/ AckCopy(m)
  <2> DEFINE u == journal[Current(m).key].dst
  <2>1. u # None /\ HubAck(m, AckCreate(m, Current(m), u))
    BY <1>4 DEF Reack, AckCopy, SpokeInv, PlaceInv, PlaceOf
  <2>2. u \in DstUuid
    BY <1>2, <2>1 DEF SpokeInv, TandemTypeOK
  <2> QED
    BY <1>1, <1>2, <2>1, <2>2, NackIsLedger DEF HubAck, Next
<1> QED
  BY <1>3, <1>4

LEMMA ApplyIsLedger ==
  ASSUME SpokeInv, NEW m \in Member, Apply(m)
  PROVE  [Next]_vars
<1>1. CASE Intend(m) \/ Recorrelate(m) \/ Correlate(m)
  BY <1>1 DEF Intend, Recorrelate, Correlate
<1>2. CASE Fire(m) \/ CorrelateTimesOut(m) \/ ApplyTerminal(m)
  <2>1. inbound[m].batch # <<>>
    BY <1>2 DEF Fire, CorrelateTimesOut, ApplyTerminal, At
  <2> QED
    BY <1>2, <2>1, NackIsLedger DEF Fire, CorrelateTimesOut, ApplyTerminal
<1> QED
  BY <1>1, <1>2, AckIsLedger DEF Apply

LEMMA WalkIsLedger ==
  ASSUME IInv, SpokeInv, NEW m \in Member, NEW e \in Entry, Walk(m, e)
  PROVE  [Next]_vars
<1>1. e.key \in Key
  BY DEF Entry
<1>2. CASE Report(m, e)
  <2>1. /\ e \in view[m] /\ Reportable(m, e.key)
        /\ HubObserve(m, e.key, Reported(m, e.key)) \/ UNCHANGED vars
    BY <1>2 DEF Report
  <2>2. e.key.from = m \/ transfers[e.key].dst # None
    BY <2>1 DEF SpokeInv, ViewInv, IInv, WatchInv
  <2>3. Reported(m, e.key) \in Terminal
    BY <1>1, <2>1, <2>2, ReportedIsOwn DEF Reportable
  <2> QED
    BY <1>1, <2>1, <2>3 DEF HubObserve, Next
<1>3. CASE Retag(m, e) \/ PassOver(m, e)
  BY <1>3 DEF Retag, PassOver
<1> QED
  BY <1>2, <1>3 DEF Walk

LEMMA SystemIsLedger == IInv /\ SpokeInv /\ TandemNext => [Next]_vars
<1> SUFFICES ASSUME IInv, SpokeInv, TandemNext PROVE [Next]_vars
  OBVIOUS
<1>1. ASSUME NEW m \in Member, NEW k \in Todo, Outbound(m, k)
      PROVE  [Next]_vars
  <2>1. k.src \in SrcUuid
    BY TodoAssumption DEF Key
  <2>2. HubPush(m, k)
    BY <1>1 DEF Outbound
  <2> QED
    BY <2>1, <2>2, PushIsLedger DEF HubPush
<1>2. ASSUME NEW m \in Member, Lease(m) \/ GetWatch(m) \/ Crash(m)
      PROVE  [Next]_vars
  BY <1>2 DEF Lease, GetWatch, Crash, Next
<1>3. ASSUME NEW d \in Delivery, Expire(d)
      PROVE  [Next]_vars
  <2>1. LeaseExpires(d)
    BY <1>3 DEF Expire
  <2>2. CASE Member = {}
    BY <2>2 DEF Delivery
  <2>3. CASE Member # {}
    BY <2>1, <2>3 DEF Next
  <2> QED
    BY <2>2, <2>3
<1>4. ASSUME NEW a \in Acts, Act(a)
      PROVE  [Next]_vars
  BY <1>4 DEF Act, ActOnTodo, ActOnCopy
<1>5. ASSUME NEW u \in DstUuid, ThingsMakes(u)
      PROVE  [Next]_vars
  BY <1>5 DEF ThingsMakes
<1> QED
  BY <1>1, <1>2, <1>3, <1>4, <1>5, ApplyIsLedger, WalkIsLedger DEF TandemNext

-----------------------------------------------------------------------------
(***************************************************************************)
(* The theorems.                                                           *)
(***************************************************************************)
LEMMA SpokeInit == \A T \in SUBSET Key : Start(T) => SpokeInv
<1> SUFFICES ASSUME NEW T \in SUBSET Key, Start(T) PROVE SpokeInv
  OBVIOUS
<1>1. <<>> \in Seq(Delivery)
  OBVIOUS
<1>2. TandemTypeOK
  BY <1>1 DEF Start, TandemTypeOK, NoCopy, NoJournal, Idle, Place, Status
<1>3. InboundInv /\ PlaceInv /\ JournalInv /\ ViewInv
  BY DEF Start, InboundInv, Held, PlaceInv, PlaceOf, At, Idle, JournalInv, NoJournal, ViewInv
<1>4. CopyInv /\ ReporterInv /\ CancelInv /\ TagIsRetryQueue /\ BothSidesClosed
  BY NullAssumption DEF Start, Init, NoTransfer, NoCopy, CopyInv, ReporterInv, CancelInv,
    TagIsRetryQueue, BothSidesClosed
<1>5. NothingLeftOver
  BY DEF Start, Init, NoRow, NothingLeftOver, Pending
<1> QED
  BY <1>2, <1>3, <1>4, <1>5 DEF SpokeInv

LEMMA SpokeNext == IInv /\ SpokeInv /\ TandemNext => SpokeInv'
<1> SUFFICES ASSUME IInv, SpokeInv, TandemNext PROVE SpokeInv'
  OBVIOUS
<1> QED
  BY OutboundSpoke, LeaseSpoke, ApplySpoke, GetWatchSpoke, ReportSpoke, RetagSpoke,
     PassOverSpoke, CrashSpoke, ThingsMakesSpoke, ExpireSpoke, ActSpoke
  DEF TandemNext, Walk

\* A step that leaves every variable alone.
LEMMA SpokeStutter == SpokeInv /\ UNCHANGED allVars => SpokeInv'
<1> SUFFICES ASSUME SpokeInv, UNCHANGED allVars PROVE SpokeInv'
  OBVIOUS
<1>1. UNCHANGED <<transfers, deliveries, watched, clock, todo, copies, acted, sent, retagged,
                  observed, view, journal, inbound>>
  BY DEF allVars, vars, things, local, apply
<1>2. TandemTypeOK' /\ ViewInv'
  BY <1>1 DEF SpokeInv, TandemTypeOK, ViewInv
<1>3. InboundInv'
  BY <1>1 DEF SpokeInv, InboundInv, Held, Exists
<1>4. PlaceInv'
  BY <1>1 DEF SpokeInv, PlaceInv, PlaceOf, At, Current, OwnClosed
<1>5. JournalInv' /\ CopyInv' /\ ReporterInv' /\ CancelInv' /\ TagIsRetryQueue'
  BY <1>1 DEF SpokeInv, JournalInv, CopyInv, ReporterInv, CancelInv, TagIsRetryQueue,
    OwnClosed, Exists
<1>6. BothSidesClosed' /\ NothingLeftOver'
  BY <1>1 DEF SpokeInv, BothSidesClosed, NothingLeftOver, Pending
<1> QED
  BY <1>2, <1>3, <1>4, <1>5, <1>6 DEF SpokeInv

\* The invariant of the whole system: the ledger's and the spokes', in any
\* interleaving of any number of spokes, with every fault (hub/ledger.py and
\* spoke/core.py together).
THEOREM SystemInvariance == TandemSpec => [](IInv /\ SpokeInv)
<1>1. TandemInit => IInv /\ SpokeInv
  <2>1. TandemInit => Init
    BY DEF TandemInit, Start
  <2>2. TandemInit => SpokeInv
    BY SpokeInit, TodoAssumption DEF TandemInit
  <2> QED
    BY <2>1, <2>2, InvInit
<1>2. IInv /\ SpokeInv /\ [TandemNext]_allVars => (IInv /\ SpokeInv)'
  <2>1. CASE TandemNext
    BY <2>1, SystemIsLedger, SpokeNext, InvNext
  <2>2. CASE UNCHANGED allVars
    BY <2>2, SpokeStutter, InvNext DEF allVars
  <2> QED
    BY <2>1, <2>2
<1> QED
  BY <1>1, <1>2, PTL DEF TandemSpec

\* The spokes are a client of the ledger: they ack only deliveries that were
\* handed to them, with uuids they have, and report only transfers the hub put
\* on their watchlist.  So every theorem about the ledger, its life cycle
\* included, holds in the whole system (core.py as the caller of ledger.py).
THEOREM SystemIsClient == TandemSpec => Spec
<1>1. TandemInit => Init
  BY DEF TandemInit, Start
<1>2. IInv /\ SpokeInv /\ [TandemNext]_allVars => [Next]_vars
  BY SystemIsLedger DEF allVars
<1> QED
  BY <1>1, <1>2, SystemInvariance, PTL DEF TandemSpec, Spec

\* The whole system implements the life cycle of a delegation: whatever the
\* spokes do, a todo is applied or skipped once, ended once, and told once.
THEOREM SystemImplementsLifecycle == TandemSpec => ImplementsLifecycle
BY SystemIsClient, LedgerImplementsLifecycle

\* Every variable of the spokes and of the accounts holds a value of its type.
THEOREM SystemTypes == TandemSpec => []TandemTypeOK
<1>1. SpokeInv => TandemTypeOK
  BY DEF SpokeInv
<1> QED
  BY <1>1, SystemInvariance, PTL

\* The trigger tag stays on a sender's todo until the ledger knows the copy,
\* and sent_cache never holds a push the ledger does not have, with every
\* fault (_retag_sender_copy, mark_sent).
THEOREM TagStaysRetryQueue == TandemSpec => []TagIsRetryQueue
<1>1. SpokeInv => TagIsRetryQueue
  BY DEF SpokeInv
<1> QED
  BY <1>1, SystemInvariance, PTL

\* ROUND-TRIP for any number of members and todos and with every fault: a
\* resolved transfer with a copy has no open side (set_terminal is verified
\* before the ack; whoever reported had ended their own side).
THEOREM BothSidesClose == TandemSpec => []BothSidesClosed
<1>1. SpokeInv => BothSidesClosed
  BY DEF SpokeInv
<1> QED
  BY <1>1, SystemInvariance, PTL

\* A resolved transfer has nothing left to deliver.  The ledger alone does not
\* guarantee it; the spokes do, because a todo that was canceled before there was
\* a copy is not reported as completed afterwards: a terminal state that a
\* person takes back is not modelled (CancelInv).
THEOREM NothingIsLeftOver == TandemSpec => []NothingLeftOver
<1>1. SpokeInv => NothingLeftOver
  BY DEF SpokeInv
<1> QED
  BY <1>1, SystemInvariance, PTL
=============================================================================
