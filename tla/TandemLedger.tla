----------------------------- MODULE TandemLedger -----------------------------
(***************************************************************************)
(* hub/ledger.py: the transfers and deliveries tables and the operations   *)
(* that spokes call on them.  Every operation runs in one transaction      *)
(* under the one lock of class Ledger, so each is one action here.         *)
(*                                                                         *)
(* A transfer is named by its natural key, UNIQUE(tenant_id, from_member,  *)
(* src_uuid, rev): the sender, who determines the tenant, and SrcUuid,     *)
(* which stands for the pair (src_uuid, rev).  A delivery is named by      *)
(* UNIQUE(transfer_id, kind, to_member).  A row that does not exist has    *)
(* to = None, or state "absent".                                           *)
(*                                                                         *)
(* Left out: the payload, the events table, leased_by_device, last_error,  *)
(* device and tenant administration.  The wake-up of long polls that       *)
(* follows a commit is the subject of DeliveryPush.                        *)
(***************************************************************************)
EXTENDS Integers, FiniteSets

CONSTANTS Member,      \* rows of the members table
          TenantOf,    \* members.tenant_id
          HandleOf,    \* members.handle
          CanSend,     \* members with can_send
          CanReceive,  \* members with can_receive
          SrcUuid,     \* (src_uuid, rev) of the todos on a sender's side
          DstUuid,     \* uuids a recipient's spoke may report
          Limit,       \* deliveries per lease request
          None         \* SQL NULL

ASSUME MemberAssumption ==
  /\ CanSend \subseteq Member
  /\ CanReceive \subseteq Member
  /\ None \notin Member
\* UNIQUE(tenant_id, handle) of the members table.
ASSUME HandleAssumption ==
  \A m, n \in Member : TenantOf[m] = TenantOf[n] /\ HandleOf[m] = HandleOf[n] => m = n
ASSUME UuidAssumption == None \notin DstUuid
ASSUME NullAssumption == None \notin {"completed", "canceled"}
ASSUME LimitAssumption == Limit \in Nat \ {0}

VARIABLES transfers,   \* the transfers table
          deliveries,  \* the deliveries table
          watched,     \* which watchlist entries each member has been sent so far
          clock        \* created_at of the next delivery row

vars == <<transfers, deliveries, watched, clock>>

Terminal == {"completed", "canceled"}
Kind == {"create", "complete", "cancel"}
Key == [from : Member, src : SrcUuid]
Delivery == [key : Key, kind : Kind, to : Member]

Transfer == [to       : Member \cup {None},
             dst      : DstUuid \cup {None},    \* with applied_at: set together
             terminal : Terminal \cup {None},
             by       : Member \cup {None},     \* terminal_by
             resolved : BOOLEAN]                \* resolved_at IS NOT NULL

Row == [state  : {"absent", "queued", "leased", "done"},
        live   : BOOLEAN,   \* lease_expires_at >= now
        handed : BOOLEAN,   \* attempts > 0: some client holds the delivery's id
        at     : Nat]       \* created_at

Echo == [t \in Terminal |-> IF t = "completed" THEN "complete" ELSE "cancel"]

Create(k) == [key |-> k, kind |-> "create", to |-> transfers[k].to]
EchoTo(k, t, m) == [key |-> k, kind |-> Echo[t], to |-> m]

Exists(k) == transfers[k].to # None
Pending(d) == deliveries[d].state \in {"queued", "leased"}

-----------------------------------------------------------------------------
NoTransfer == [to |-> None, dst |-> None, terminal |-> None, by |-> None, resolved |-> FALSE]
NoRow == [state |-> "absent", live |-> FALSE, handed |-> FALSE, at |-> 0]

Init == /\ transfers = [k \in Key |-> NoTransfer]
        /\ deliveries = [d \in Delivery |-> NoRow]
        /\ watched = [m \in Member |-> {}]
        /\ clock = 0

\* INSERT OR IGNORE INTO deliveries (..., 'queued', now)
Insert(D, d) ==
  IF D[d].state = "absent"
    THEN [D EXCEPT ![d] = [state |-> "queued", live |-> FALSE, handed |-> FALSE, at |-> clock]]
    ELSE D

\* Slip: the word of transfers.state is written to deliveries.state.
FinishResolved(D, d) == [D EXCEPT ![d].state = "resolved"]

\* UPDATE deliveries SET state = 'done'
Finish(D, d) == [D EXCEPT ![d].state = "done", ![d].live = FALSE]

(***************************************************************************)
(* push_transfer: member p delegates s to the member of p's tenant with    *)
(* handle h.  A second push of the same natural key changes nothing and    *)
(* returns the first record (deduped).                                     *)
(***************************************************************************)
PushTransfer(p, h, s) ==
  /\ p \in CanSend
  /\ \E to \in Member :
       LET k == [from |-> p, src |-> s]
       IN  /\ TenantOf[to] = TenantOf[p]
           /\ HandleOf[to] = h
           /\ to # p
           /\ to \in CanReceive
           /\ ~Exists(k)
           /\ transfers' = [transfers EXCEPT ![k] = [NoTransfer EXCEPT !.to = to]]
           /\ deliveries' = Insert(deliveries, [key |-> k, kind |-> "create", to |-> to])
  /\ clock' = clock + 1
  /\ UNCHANGED watched

\* Slip: no ordering guard on terminal echoes.
LeasableAny(p, d) ==
  d.to = p /\ Pending(d) /\ ~(deliveries[d].state = "leased" /\ deliveries[d].live)

(***************************************************************************)
(* lease_deliveries: the first Limit rows of p, in the order of            *)
(* created_at, that are neither done nor under a live lease, and no        *)
(* terminal echo to a recipient whose dst_uuid is not known.               *)
(***************************************************************************)
Leasable(p, d) ==
  /\ d.to = p
  /\ Pending(d)
  /\ ~(deliveries[d].state = "leased" /\ deliveries[d].live)
  /\ d.kind # "create" /\ d.to # d.key.from => transfers[d.key].dst # None

Batch(p) ==
  LET ready == {d \in Delivery : Leasable(p, d)}
  IN  {d \in ready : Cardinality({e \in ready : deliveries[e].at < deliveries[d].at}) < Limit}

LeaseDeliveries(p) ==
  /\ p \in CanReceive
  /\ LET batch == Batch(p)
     IN  /\ batch # {}
         /\ deliveries' =
              [d \in Delivery |->
                 IF d \in batch
                   THEN [deliveries[d] EXCEPT !.state = "leased", !.live = TRUE, !.handed = TRUE]
                   ELSE deliveries[d]]
  /\ UNCHANGED <<transfers, watched, clock>>

\* lease_expires_at passes; the row keeps state 'leased'.
LeaseExpires(d) ==
  /\ deliveries[d].state = "leased"
  /\ deliveries[d].live
  /\ deliveries' = [deliveries EXCEPT ![d].live = FALSE]
  /\ UNCHANGED <<transfers, watched, clock>>

\* Slips: an ack is not idempotent; an ack is refused once its lease is over.
AnswerableAgain(p, d) == d.to = p /\ deliveries[d].handed
AnswerableLive(p, d) == d.to = p /\ Pending(d) /\ deliveries[d].live

\* A client may ack or nack any delivery that was ever handed to its member,
\* also after its lease expired.  Both are no-ops once the row is done.
Answerable(p, d) == d.to = p /\ deliveries[d].handed /\ Pending(d)

\* Slip: the ack of a create does not look at the terminal state.
AckCreateForgets(p, d, u) ==
  /\ Answerable(p, d)
  /\ d.kind = "create"
  /\ transfers' = [transfers EXCEPT ![d.key].dst = u]
  /\ deliveries' = Finish(deliveries, d)
  /\ UNCHANGED <<watched, clock>>

\* ack_delivery of a create, with the uuid of the copy.  If the sender is
\* done already, the echo to the recipient is queued now.
AckCreate(p, d, u) ==
  /\ Answerable(p, d)
  /\ d.kind = "create"
  /\ LET t == transfers[d.key].terminal
     IN  /\ transfers' = [transfers EXCEPT ![d.key].dst = u]
         /\ deliveries' = IF t = None
                            THEN Finish(deliveries, d)
                            ELSE Insert(Finish(deliveries, d), EchoTo(d.key, t, d.to))
         /\ clock' = IF t = None THEN clock ELSE clock + 1
  /\ UNCHANGED watched

\* ack_delivery of a terminal echo.
AckTerminal(p, d) ==
  /\ Answerable(p, d)
  /\ d.kind # "create"
  /\ deliveries' = Finish(deliveries, d)
  /\ transfers' = [transfers EXCEPT ![d.key].resolved = TRUE]
  /\ UNCHANGED <<watched, clock>>

\* Slip: a delivery that failed is given up.
NackGivesUp(p, d) ==
  /\ Answerable(p, d)
  /\ deliveries' = Finish(deliveries, d)
  /\ UNCHANGED <<transfers, watched, clock>>

\* nack_delivery
NackDelivery(p, d) ==
  /\ Answerable(p, d)
  /\ deliveries' = [deliveries EXCEPT ![d].state = "queued", ![d].live = FALSE]
  /\ UNCHANGED <<transfers, watched, clock>>

(***************************************************************************)
(* watchlist: the open transfers of p's tenant that p is a party of, the   *)
(* recipient's only once the copy exists.  What was sent stays in watched: *)
(* a client acts on its list any time later.                               *)
(***************************************************************************)
Watchlist(p) ==
  {k \in Key : /\ Exists(k)
               /\ ~transfers[k].resolved
               /\ transfers[k].terminal = None
               /\ TenantOf[k.from] = TenantOf[p]
               /\ \/ k.from = p
                  \/ transfers[k].to = p /\ transfers[k].dst # None}

Watch(p) ==
  /\ watched' = [watched EXCEPT ![p] = @ \cup Watchlist(p)]
  /\ UNCHANGED <<transfers, deliveries, clock>>

(***************************************************************************)
(* observe and its helper _queue_echo.  D is the deliveries table after    *)
(* the statements of observe that precede the helper.                      *)
(***************************************************************************)
OtherParty(p, k) == IF p = k.from THEN transfers[k].to ELSE k.from

QueueEcho(D, p, k, t) ==
  LET toRecipient == OtherParty(p, k) = transfers[k].to /\ transfers[k].dst = None
      create == D[Create(k)].state
      new == [transfers[k] EXCEPT !.terminal = t, !.by = p]
  IN  IF toRecipient /\ create = "queued"
        THEN /\ deliveries' = Finish(D, Create(k))                \* never make the copy
             /\ transfers' = [transfers EXCEPT ![k] = [new EXCEPT !.resolved = TRUE]]
             /\ clock' = clock
        ELSE /\ transfers' = [transfers EXCEPT ![k] = new]
             /\ IF toRecipient /\ create = "leased"
                  THEN /\ deliveries' = D                         \* AckCreate will queue it
                       /\ clock' = clock
                  ELSE /\ deliveries' = Insert(D, EchoTo(k, t, OtherParty(p, k)))
                       /\ clock' = clock + 1

Party(p, k) == Exists(k) /\ (k.from = p \/ transfers[k].to = p)

\* observe, nothing reported before.
SetTerminal(p, k, t) ==
  /\ k \in watched[p]
  /\ Party(p, k)
  /\ transfers[k].terminal = None
  /\ QueueEcho(deliveries, p, k, t)
  /\ UNCHANGED watched

\* Slips of the upgrade: no test for a delivered cancel; the cancel is kept.
NeverDelivered(k) == FALSE
WithCancel(k) == deliveries

CancelDelivered(k) ==
  \E d \in Delivery : d.key = k /\ d.kind = "cancel" /\ deliveries[d].state = "done"

\* DELETE FROM deliveries WHERE kind = 'cancel' AND state != 'done'
WithoutCancel(k) ==
  [d \in Delivery |-> IF d.key = k /\ d.kind = "cancel" /\ Pending(d)
                        THEN NoRow ELSE deliveries[d]]

\* observe(completed) of a canceled transfer.  Every other report about a
\* transfer that has its terminal state changes nothing.
UpgradeTerminal(p, k) ==
  /\ k \in watched[p]
  /\ Party(p, k)
  /\ transfers[k].terminal = "canceled"
  /\ ~CancelDelivered(k)
  /\ QueueEcho(WithoutCancel(k), p, k, "completed")
  /\ UNCHANGED watched

Next == \E p \in Member :
          \/ \E h \in {HandleOf[m] : m \in Member}, s \in SrcUuid : PushTransfer(p, h, s)
          \/ LeaseDeliveries(p)
          \/ \E d \in Delivery : \/ LeaseExpires(d)
                                 \/ \E u \in DstUuid : AckCreate(p, d, u)
                                 \/ AckTerminal(p, d)
                                 \/ NackDelivery(p, d)
          \/ Watch(p)
          \/ \E k \in Key : \/ \E t \in Terminal : SetTerminal(p, k, t)
                            \/ UpgradeTerminal(p, k)

Spec == Init /\ [][Next]_vars
-----------------------------------------------------------------------------
(***************************************************************************)
(*                              Properties                                 *)
(***************************************************************************)
\* Every column of both tables holds a value its schema allows.
TypeOK == /\ transfers \in [Key -> Transfer]
          /\ deliveries \in [Delivery -> Row]
          /\ watched \in [Member -> SUBSET Key]
          /\ clock \in Nat

\* NO-LOSS.  A create that is done either has a copy at the recipient whose
\* uuid the ledger knows, or was skipped because its sender was done first
\* and the transfer is resolved; however leases, acks, nacks and late
\* reports interleave (push_transfer, ack_delivery, _queue_echo).
NoLoss == \A k \in Key : Exists(k) =>
            \/ Pending(Create(k)) /\ transfers[k].dst = None
            \/ /\ deliveries[Create(k)].state = "done"
               /\ \/ transfers[k].dst # None
                  \/ transfers[k].resolved /\ transfers[k].terminal # None

\* The echo that the present terminal state of a transfer calls for.
EchoOf(k) == EchoTo(k, transfers[k].terminal, OtherParty(transfers[k].by, k))

\* A terminal echo in the table, sent or not, says what the transfer's
\* terminal state says now and addresses the party that did not report it:
\* an upgrade leaves no cancel behind, and nobody is told of their own action
\* (observe, _queue_echo, ack_delivery).
EchoFollowsTerminal ==
  \A d \in Delivery : d.kind # "create" /\ deliveries[d].state # "absent" =>
    transfers[d.key].terminal # None /\ d = EchoOf(d.key)

\* The ordering guard of lease_deliveries as the recipient sees it: no echo of
\* a transfer was ever handed to its recipient while the ledger did not know
\* the recipient's copy.
EchoAfterCopy ==
  \A d \in Delivery : d.kind # "create" /\ d.to # d.key.from /\ deliveries[d].handed
                        => transfers[d.key].dst # None

\* A terminal state is not forgotten: until the transfer is resolved there is
\* a delivery on its way whose acknowledgement tells the other party, or the
\* create whose acknowledgement queues that delivery (_queue_echo, ack_delivery).
TerminalNotLost ==
  \A k \in Key : transfers[k].terminal # None /\ ~transfers[k].resolved =>
    \/ Pending(Create(k))
    \/ \E m \in {k.from, transfers[k].to} :
         /\ Pending(EchoTo(k, transfers[k].terminal, m))
         /\ (m = k.from \/ transfers[k].dst # None)

\* A resolved transfer has nothing left to deliver (test_invariants.py: no
\* delivery left unfinished at quiescence; test_ledger.py: after a skip the
\* recipient never receives the create or any echo).
NothingLeftOver ==
  \A d \in Delivery : transfers[d.key].resolved => ~Pending(d)

\* The uuid of the recipient's copy is set once: when a create was leased
\* twice and both holders ack, the second ack changes nothing (ack_delivery).
DstSetOnce ==
  [][\A k \in Key : transfers[k].dst # None => transfers'[k].dst = transfers[k].dst]_vars

\* A resolved transfer stays resolved and gains no copy, and once the other
\* party has been told, late reports and late acks no longer change which
\* terminal state won nor who reported it (observe, ack_delivery).
SettledIsFinal ==
  [][\A k \in Key : transfers[k].resolved =>
        /\ transfers'[k].resolved
        /\ transfers'[k].dst = transfers[k].dst
        /\ transfers[k].dst # None => /\ transfers'[k].terminal = transfers[k].terminal
                                      /\ transfers'[k].by = transfers[k].by]_vars

(***************************************************************************)
(* The ledger implements TransferLifecycle: a transfer is applied when its *)
(* dst_uuid is set, skipped when its create is done without one, and       *)
(* echoed when one of its terminal deliveries is done.                     *)
(***************************************************************************)
StageOf(k) == IF ~Exists(k) THEN "absent"
              ELSE IF transfers[k].dst # None THEN "applied"
              ELSE IF Pending(Create(k)) THEN "created" ELSE "skipped"

EchoDone(k) == \E d \in Delivery :
                 d.key = k /\ d.kind # "create" /\ deliveries[d].state = "done"

Lifecycle == INSTANCE TransferLifecycle
               WITH Transfer <- Key,
                    stage <- [k \in Key |-> StageOf(k)],
                    terminal <- [k \in Key |-> transfers[k].terminal],
                    echoed <- [k \in Key |-> EchoDone(k)]

\* Every step of the ledger is a step of the delegation life cycle or leaves
\* it alone: created once, applied or skipped, one terminal state with the one
\* upgrade while the other party has not been told, echoed once and only to a
\* party that has a copy (hub/ledger.py as a whole).
ImplementsLifecycle == Lifecycle!Spec
-----------------------------------------------------------------------------
(***************************************************************************)
(* The inductive invariant behind the safety properties.                   *)
(***************************************************************************)
\* A key without a transfer has the empty record; a transfer has a recipient
\* that is not its sender; a terminal state comes with the party that reported
\* it, and a recipient reports only on a copy that the ledger knows.
TransferInv ==
  \A k \in Key :
    LET t == transfers[k]
    IN  /\ t.to = None => t = NoTransfer
        /\ t.to # k.from
        /\ t.terminal = None <=> t.by = None
        /\ t.by # None => t.by \in {k.from, t.to}
        /\ t.by # None /\ t.by # k.from => t.dst # None
        /\ t.resolved => t.terminal # None

\* Only existing transfers have rows, a create goes to the recipient, and a
\* row that was handed out exists.
RowInv ==
  \A d \in Delivery :
    /\ deliveries[d].state # "absent" =>
         Exists(d.key) /\ (d.kind = "create" => d.to = transfers[d.key].to)
    /\ deliveries[d].handed => deliveries[d].state # "absent"

\* A create is pending exactly while nothing is known of it.
CreateInv ==
  \A k \in Key : Exists(k) =>
    /\ deliveries[Create(k)].state # "absent"
    /\ Pending(Create(k)) => transfers[k].dst = None /\ ~transfers[k].resolved
    /\ deliveries[Create(k)].state = "done" => transfers[k].dst # None \/ transfers[k].resolved

\* A transfer with a copy is resolved when, and only when, its echo is done.
EchoInv ==
  \A d \in Delivery :
    /\ d.kind # "create" /\ deliveries[d].state = "done" => transfers[d.key].resolved
    /\ transfers[d.key].resolved /\ transfers[d.key].dst # None /\ d = EchoOf(d.key)
         => deliveries[d].state = "done"

\* A member has seen a transfer on its watchlist only if it is a party of it,
\* and as the recipient only once the copy is known.
WatchInv ==
  \A p \in Member : \A k \in watched[p] :
    /\ Exists(k)
    /\ p \in {k.from, transfers[k].to}
    /\ p # k.from => transfers[k].dst # None

\* The conjunction that every operation of the ledger preserves.
IInv == /\ TypeOK /\ TransferInv /\ RowInv /\ CreateInv /\ EchoInv /\ WatchInv
        /\ EchoFollowsTerminal /\ EchoAfterCopy /\ TerminalNotLost
=============================================================================
