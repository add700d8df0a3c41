-------------------------------- MODULE Tandem --------------------------------
(***************************************************************************)
(* The whole system: spokes (spoke/core.py) on both sides of the ledger,   *)
(* the Things accounts they read and write, and the people who own them.   *)
(*                                                                         *)
(* A spoke runs two phases.  The inbound phase leases deliveries and       *)
(* applies them one at a time; the local phase pushes tagged todos, then   *)
(* walks over a watchlist it fetched, reporting terminal states and        *)
(* retagging.  A LAN spoke runs them in turn in one loop (spoke/main.py);  *)
(* a member of Gateway runs each in a thread of its own (hub/server.py).   *)
(*                                                                         *)
(* A todo on the sender's side is named by the key of its transfer.  A     *)
(* copy on the recipient's side is named by a number, in the order of      *)
(* creation.  Reading an account gives its present state, unless the       *)
(* mirror lags.                                                            *)
(***************************************************************************)
EXTENDS TandemLedger, Sequences

CONSTANTS Todo,      \* the keys of todos that carry a trigger tag at first
          Assignee,  \* the handle whose trigger tag each of them carries
          Title,     \* the title of each todo
          Gateway,   \* members whose two phases run concurrently
          Faults,    \* what may go wrong, see Fault
          Acts       \* what people do to a todo: {"completed", "canceled", "trashed"}

Fault == {"crash",       \* a spoke process dies
          "request",     \* a call to the hub fails before it takes effect
          "reply",       \* the reply of a call that took effect is lost
          "write",       \* a write to Things fails without effect
          "unverified",  \* a write takes effect but is reported as failed
          "async",       \* Things makes a copy up to two minutes after `create`
                         \* returned
          "late",        \* ... or later, while nobody looks for it, or never
          "lag"}         \* the mirror is behind: a copy is not found in time,
                         \* a todo is not visible, or is shown open when it is
                         \* not; so far behind that a write is not verified is
                         \* "unverified"

ASSUME TodoAssumption == Todo \subseteq Key
ASSUME FaultAssumption == Faults \subseteq Fault
ASSUME ActAssumption == Acts \subseteq {"completed", "canceled", "trashed"}
ASSUME CopyAssumption == DstUuid \subseteq Nat /\ None \notin Key

VARIABLES todo,      \* the todos on the senders' side
          copies,    \* the copies on the recipients' side
          acted,     \* on which side of which transfer a person acted (history)
          sent,      \* sent_cache
          journal,   \* journal: what became of the create of a transfer
          retagged,  \* retagged
          observed,  \* observed: the last state each member reported
          inbound,   \* the inbound phase of each member
          view       \* the rest of the watchlist that each local phase walks over

things == <<todo, copies, acted>>
local == <<sent, retagged, observed, view>>
apply == <<journal, inbound>>
allVars == <<vars, things, local, apply>>

Status == {"open", "completed", "canceled", "trashed"}
Entry == [key : Key, applied : BOOLEAN]

\* Where the inbound phase is with the first delivery of its batch; "wait" is
\* for the queue (TandemQueue).  Late are the copies that Things made in the
\* last two minutes of the search in progress.
Place == {"next", "fire", "wait", "find", "ack"}

NoCopy == [of |-> None, status |-> "open", aged |-> FALSE, coming |-> FALSE]
NoJournal == [open |-> FALSE, dst |-> None, early |-> {}]
Idle == [batch |-> <<>>, at |-> "next", late |-> {}]

\* The todos of T are tagged, nothing else has happened.
Start(T) ==
  /\ Init
  /\ todo = [k \in Key |-> [status |-> "open", tag |-> IF k \in T THEN "trigger" ELSE "none"]]
  /\ copies = [u \in DstUuid |-> NoCopy]
  /\ acted = {}
  /\ sent = {}
  /\ journal = [k \in Key |-> NoJournal]
  /\ retagged = {}
  /\ observed = [m \in Member |-> [k \in Key |-> None]]
  /\ inbound = [m \in Member |-> Idle]
  /\ view = [m \in Member |-> {}]

TandemInit == Start(Todo)

\* One loop runs one phase at a time.
InboundMayRun(m) == m \in Gateway \/ view[m] = {}
LocalMayRun(m) == m \in Gateway \/ inbound[m].batch = <<>>

-----------------------------------------------------------------------------
(***************************************************************************)
(* People.                                                                 *)
(***************************************************************************)
ActOnTodo(k, a) ==
  /\ todo[k].tag # "none"
  /\ todo[k].status = "open"
  /\ todo' = [todo EXCEPT ![k].status = a]
  /\ acted' = acted \cup {<<k, k.from>>}
  /\ UNCHANGED <<vars, copies, local, apply>>

ActOnCopy(u, a) ==
  /\ copies[u].of # None /\ ~copies[u].coming
  /\ copies[u].status = "open"
  /\ copies' = [copies EXCEPT ![u].status = a]
  /\ acted' = acted \cup {<<copies[u].of, transfers[copies[u].of].to>>}
  /\ UNCHANGED <<vars, todo, local, apply>>

\* "completed": true on a todo; a trashed one stays in the trash.
Completed(s) == IF s = "trashed" THEN "trashed" ELSE "completed"

-----------------------------------------------------------------------------
(***************************************************************************)
(* _outbound: push a tagged open todo that is not known to be sent.  The   *)
(* push of a transfer that exists is deduped by the hub.                   *)
(***************************************************************************)
HubPush(m, k) == \/ PushTransfer(m, Assignee[k], k.src)
                 \/ Exists(k) /\ UNCHANGED vars

Outbound(m, k) ==
  /\ LocalMayRun(m)
  /\ view[m] = {}
  /\ k.from = m /\ k \notin sent
  /\ todo[k].tag = "trigger" /\ todo[k].status = "open"
  /\ HubPush(m, k)
  /\ \/ sent' = sent \cup {k}
     \/ {"reply", "crash"} \cap Faults # {} /\ UNCHANGED sent
  /\ UNCHANGED <<things, apply, retagged, observed, view>>

-----------------------------------------------------------------------------
(***************************************************************************)
(* _inbound, _apply_create and _apply_terminal.                            *)
(***************************************************************************)
Current(m) == Head(inbound[m].batch)
At(m, place) == inbound[m].batch # <<>> /\ inbound[m].at = place
Step(m, place) == inbound' = [inbound EXCEPT ![m].at = place]
Drop(m) == inbound' = [inbound EXCEPT ![m] = [batch |-> Tail(@.batch), at |-> "next", late |-> {}]]

\* The deliveries of B, at most Limit, in the order of created_at.
InOrder(B) ==
  {s \in UNION {[1 .. n -> B] : n \in 0 .. Limit \cap {Cardinality(B)}} :
     \A i, j \in DOMAIN s : i < j => deliveries[s[i]].at < deliveries[s[j]].at}

\* A reply that is lost leaves the rows leased.
Lease(m) ==
  /\ InboundMayRun(m)
  /\ inbound[m].batch = <<>>
  /\ LeaseDeliveries(m)
  /\ \/ \E s \in InOrder(Batch(m)) : inbound' = [inbound EXCEPT ![m].batch = s]
     \/ "reply" \in Faults /\ UNCHANGED inbound
  /\ UNCHANGED <<things, local, journal>>

\* nack of the current delivery; its own failure is swallowed.
Nack(m) ==
  /\ \/ NackDelivery(m, Current(m))
     \/ ~Answerable(m, Current(m)) /\ UNCHANGED vars
     \/ "request" \in Faults /\ UNCHANGED vars
  /\ Drop(m)

\* ack of the current delivery: it succeeds, is a no-op because the row is
\* done or deleted, or raises and is followed by a nack.  When only its reply
\* is lost the nack finds the row done.
HubAck(m, ack) ==
  \/ ack /\ Drop(m)
  \/ ~Answerable(m, Current(m)) /\ UNCHANGED vars /\ Drop(m)
  \/ "request" \in Faults /\ Nack(m)

\* Slip: nothing is noted before firing.
IntendNothing(m) ==
  /\ At(m, "next") /\ Current(m).kind = "create"
  /\ journal[Current(m).key] = NoJournal
  /\ Step(m, "fire")
  /\ UNCHANGED <<vars, things, journal, local>>

\* A create without a journal row: note the intent before firing.  fired_at is
\* what it says of the copies made so far: which are older than the window
\* of 120 seconds that correlate allows for clock skew.
Intend(m) ==
  LET k == Current(m).key
  IN  /\ At(m, "next") /\ Current(m).kind = "create"
      /\ journal[k] = NoJournal
      /\ journal' = [journal EXCEPT ![k].open = TRUE,
                                    ![k].early = {u \in DstUuid : copies[u].aged}]
      /\ Step(m, "fire")
      /\ UNCHANGED <<vars, things, local>>

\* writer.create: the account gets a new todo with the payload's title and
\* the sender's provenance tag.  The copy has its number from the moment that
\* Things is told to make it.
NextCopy == {u \in DstUuid : copies[u].of = None}

MakeCopy(k, coming) ==
  \E u \in NextCopy : /\ \A v \in NextCopy : u <= v
                      /\ copies' = [copies EXCEPT ![u].of = k, ![u].coming = coming]

\* "URL applies are async": the writer returns when Things was told.
TellThings(k) == MakeCopy(k, FALSE) \/ ("async" \in Faults /\ MakeCopy(k, TRUE))

Fire(m) ==
  /\ At(m, "fire")
  /\ NextCopy # {}
  /\ \/ /\ TellThings(Current(m).key)
        /\ \/ Step(m, "find") /\ UNCHANGED vars
           \/ "unverified" \in Faults /\ Nack(m)
     \/ "write" \in Faults /\ Nack(m) /\ UNCHANGED copies
  /\ UNCHANGED <<todo, acted, journal, local>>

\* The copies that Things made in the account of m.
InAccount(m) == {u \in DstUuid : /\ copies[u].of # None /\ ~copies[u].coming
                                /\ transfers[copies[u].of].to = m}

\* Things makes a copy, in the order of the URLs: one that was overtaken never
\* comes.  If the recipient's spoke is searching, these may be the last two
\* minutes of its search; what is made after such a copy is made in them too.
ThingsMakes(u) ==
  LET m == transfers[copies[u].of].to
  IN  /\ copies[u].coming
      /\ \A v \in InAccount(m) : v < u
      /\ copies' = [copies EXCEPT ![u].coming = FALSE]
      /\ \/ inbound[m].late = {} /\ UNCHANGED inbound
         \/ /\ "late" \in Faults /\ At(m, "find")
            /\ inbound' = [inbound EXCEPT ![m].late = @ \cup {u}]
         \/ ~At(m, "find") /\ UNCHANGED inbound
      /\ UNCHANGED <<vars, todo, acted, journal, local>>

\* A journal row whose uuid is known: only the ack was lost.
Reack(m) ==
  /\ At(m, "next") /\ Current(m).kind = "create"
  /\ journal[Current(m).key].dst # None
  /\ HubAck(m, AckCreate(m, Current(m), journal[Current(m).key].dst))
  /\ UNCHANGED <<things, journal, local>>

\* Slip: an open journal row is taken for a failure.
RecorrelateNever(m) ==
  /\ At(m, "next") /\ Current(m).kind = "create"
  /\ journal[Current(m).key].open
  /\ Nack(m)
  /\ UNCHANGED <<things, journal, local>>

\* An open journal row: find the copy again, never fire again.
Recorrelate(m) ==
  /\ At(m, "next") /\ Current(m).kind = "create"
  /\ journal[Current(m).key].open
  /\ Step(m, "find")
  /\ UNCHANGED <<vars, things, journal, local>>

\* Slips of correlate: no uuid is excluded; no window.
JournaledNone(m) == {}
FoundAnyAge(m, k) ==
  {u \in InAccount(m) : /\ copies[u].of.from = k.from
                        /\ Title[copies[u].of] = Title[k]
                        /\ copies[u].status # "trashed"
                        /\ \A j \in Key : transfers[j].to = m => journal[j].dst # u}

\* correlate: the oldest copy in the account that was made in the window, has
\* the title and the provenance tag, is not in the trash and not journaled.
Journaled(m) == {journal[k].dst : k \in {j \in Key : transfers[j].to = m}}

Found(m, k) ==
  {u \in InAccount(m) : /\ copies[u].of.from = k.from
                        /\ Title[copies[u].of] = Title[k]
                        /\ copies[u].status # "trashed"
                        /\ u \notin journal[k].early \cup Journaled(m)}

Correlate(m) ==
  LET k == Current(m).key
  IN  /\ At(m, "find")
      /\ \E u \in Found(m, k) :
           /\ \A v \in Found(m, k) : u <= v
           /\ journal' = [journal EXCEPT ![k].open = FALSE, ![k].dst = u]
      /\ Step(m, "ack")
      /\ UNCHANGED <<vars, things, local>>

\* The copies in the account of m are older than the window, except those in late.
Grow(m, late) ==
  copies' = [u \in DstUuid |-> [copies[u] EXCEPT !.aged = @ \/ u \in InAccount(m) \ late]]

\* After correlate_timeout, which is twice the window, every copy in the account
\* is older than the window but for those that Things made towards the end of
\* the search.
CorrelateTimesOut(m) ==
  /\ At(m, "find")
  /\ Found(m, Current(m).key) = {} \/ "lag" \in Faults
  /\ (\E u \in DstUuid : copies[u].of = Current(m).key /\ copies[u].coming) => "late" \in Faults
  /\ Nack(m)
  /\ Grow(m, inbound[m].late)
  /\ UNCHANGED <<todo, acted, journal, local>>

AckCopy(m) ==
  /\ At(m, "ack") /\ Current(m).kind = "create"
  /\ HubAck(m, AckCreate(m, Current(m), journal[Current(m).key].dst))
  /\ UNCHANGED <<things, journal, local>>

\* writer.set_terminal(uuid, "completed") on the member's own copy, whatever
\* the kind of the delivery.
CompleteCopy(m, d) ==
  IF d.key.from = m
    THEN /\ todo' = [todo EXCEPT ![d.key].status = Completed(@)]
         /\ UNCHANGED copies
    ELSE /\ copies' = [copies EXCEPT ![transfers[d.key].dst].status = Completed(@)]
         /\ UNCHANGED todo

\* Slip: the verdict of the writer is ignored.
ApplyUnverified(m) ==
  /\ At(m, "next") /\ Current(m).kind # "create"
  /\ CompleteCopy(m, Current(m)) \/ ("write" \in Faults /\ UNCHANGED <<todo, copies>>)
  /\ Step(m, "ack")
  /\ UNCHANGED <<vars, acted, journal, local>>

ApplyTerminal(m) ==
  /\ At(m, "next") /\ Current(m).kind # "create"
  /\ \/ CompleteCopy(m, Current(m)) /\ Step(m, "ack") /\ UNCHANGED vars
     \/ "unverified" \in Faults /\ CompleteCopy(m, Current(m)) /\ Nack(m)
     \/ "write" \in Faults /\ UNCHANGED <<todo, copies>> /\ Nack(m)
  /\ UNCHANGED <<acted, journal, local>>

AckEcho(m) ==
  /\ At(m, "ack") /\ Current(m).kind # "create"
  /\ HubAck(m, AckTerminal(m, Current(m)))
  /\ UNCHANGED <<things, journal, local>>

-----------------------------------------------------------------------------
(***************************************************************************)
(* _observe_and_retag.                                                     *)
(***************************************************************************)
GetWatch(m) ==
  /\ LocalMayRun(m)
  /\ view[m] = {}
  /\ Watchlist(m) # {}
  /\ Watch(m)
  /\ view' = [view EXCEPT ![m] =
                {[key |-> k, applied |-> transfers[k].dst # None] : k \in Watchlist(m)}]
  /\ UNCHANGED <<things, apply, sent, retagged, observed>>

\* The status of the member's own copy; trashed is reported as canceled.
OwnStatus(m, k) == IF k.from = m THEN todo[k].status ELSE copies[transfers[k].dst].status
Reported(m, k) == IF OwnStatus(m, k) = "trashed" THEN "canceled" ELSE OwnStatus(m, k)

\* Slip: the spoke's own completion of a todo is news.
OwnDoingIsNews(m, e) == FALSE
OwnDoing(m, e) == e.key.from = m /\ e.key \in retagged
Reportable(m, k) == Reported(m, k) # "open" /\ observed[m][k] # Reported(m, k)

Done(m, e) == view' = [view EXCEPT ![m] = @ \ {e}]

HubObserve(m, k, t) ==
  \/ SetTerminal(m, k, t)
  \/ t = "completed" /\ UpgradeTerminal(m, k)
  \/ /\ transfers[k].terminal # None
     /\ ~(t = "completed" /\ transfers[k].terminal = "canceled" /\ ~CancelDelivered(k))
     /\ UNCHANGED vars

\* Slip: mark_observed before the hub has answered.
ReportMarksFirst(m, e) ==
  /\ e \in view[m]
  /\ ~OwnDoing(m, e)
  /\ Reportable(m, e.key)
  /\ HubObserve(m, e.key, Reported(m, e.key)) \/ ("request" \in Faults /\ UNCHANGED vars)
  /\ observed' = [observed EXCEPT ![m][e.key] = Reported(m, e.key)]
  /\ Done(m, e)
  /\ UNCHANGED <<things, apply, sent, retagged>>

Report(m, e) ==
  /\ e \in view[m]
  /\ ~OwnDoing(m, e)
  /\ Reportable(m, e.key)
  /\ \/ /\ HubObserve(m, e.key, Reported(m, e.key))
        /\ \/ observed' = [observed EXCEPT ![m][e.key] = Reported(m, e.key)]
           \/ "reply" \in Faults /\ UNCHANGED observed
     \/ "request" \in Faults /\ UNCHANGED <<vars, observed>>
  /\ Done(m, e)
  /\ UNCHANGED <<things, apply, sent, retagged>>

\* Slip: the tag is taken off before the copy is confirmed.
NeedsRetagEarly(m, e) == e.key.from = m /\ e.key \notin retagged

\* _retag_sender_copy: one write of the delegated tag and the completion,
\* then mark_retagged.  A writer that raises ends the tick.
NeedsRetag(m, e) == e.key.from = m /\ e.applied /\ e.key \notin retagged

Retag(m, e) ==
  /\ e \in view[m]
  /\ NeedsRetag(m, e)
  /\ ~Reportable(m, e.key) \/ "lag" \in Faults
  /\ \/ /\ todo' = [todo EXCEPT ![e.key] = [status |-> Completed(@.status), tag |-> "delegated"]]
        /\ \/ retagged' = retagged \cup {e.key} /\ Done(m, e)
           \/ /\ {"unverified", "crash"} \cap Faults # {}
              /\ UNCHANGED retagged
              /\ Done(m, e) \/ view' = [view EXCEPT ![m] = {}]
     \/ /\ "write" \in Faults
        /\ UNCHANGED <<todo, retagged>>
        /\ Done(m, e) \/ view' = [view EXCEPT ![m] = {}]
  /\ UNCHANGED <<vars, copies, acted, apply, sent, observed>>

\* Nothing to report and nothing to retag, or the todo is not visible.
PassOver(m, e) ==
  /\ e \in view[m]
  /\ OwnDoing(m, e) \/ (~Reportable(m, e.key) /\ ~NeedsRetag(m, e)) \/ "lag" \in Faults
  /\ Done(m, e)
  /\ UNCHANGED <<vars, things, apply, sent, retagged, observed>>

-----------------------------------------------------------------------------
\* The process dies between two steps; its database survives.
Crash(m) ==
  /\ "crash" \in Faults
  /\ inbound' = [inbound EXCEPT ![m] = Idle]
  /\ view' = [view EXCEPT ![m] = {}]
  /\ UNCHANGED <<vars, things, journal, sent, retagged, observed>>

Expire(d) == LeaseExpires(d) /\ UNCHANGED <<things, local, apply>>

Apply(m) == \/ Intend(m) \/ Fire(m) \/ Reack(m) \/ Recorrelate(m) \/ Correlate(m)
            \/ CorrelateTimesOut(m) \/ AckCopy(m) \/ ApplyTerminal(m) \/ AckEcho(m)
Walk(m, e) == Report(m, e) \/ Retag(m, e) \/ PassOver(m, e)
Act(a) == (\E k \in Todo : ActOnTodo(k, a)) \/ (\E u \in DstUuid : ActOnCopy(u, a))

TandemNext ==
  \/ \E m \in Member : \/ \E k \in Todo : Outbound(m, k)
                       \/ Lease(m)
                       \/ Apply(m)
                       \/ GetWatch(m)
                       \/ \E e \in Entry : Walk(m, e)
                       \/ Crash(m)
  \/ \E u \in DstUuid : ThingsMakes(u)
  \/ \E d \in Delivery : Expire(d)
  \/ \E a \in Acts : Act(a)

TandemSpec == TandemInit /\ [][TandemNext]_allVars
-----------------------------------------------------------------------------
(***************************************************************************)
(*                              Properties                                 *)
(***************************************************************************)
\* Every variable of the spokes and of the accounts holds a value of its type.
TandemTypeOK ==
  /\ todo \in [Key -> [status : Status, tag : {"none", "trigger", "delegated"}]]
  /\ copies \in [DstUuid -> [of : Key \cup {None}, status : Status, aged : BOOLEAN,
                             coming : BOOLEAN]]
  /\ acted \subseteq Key \X Member
  /\ sent \subseteq Key
  /\ journal \in [Key -> [open : BOOLEAN, dst : DstUuid \cup {None}, early : SUBSET DstUuid]]
  /\ retagged \subseteq Key
  /\ observed \in [Member -> [Key -> Terminal \cup {None}]]
  /\ inbound \in [Member -> [batch : Seq(Delivery), at : Place, late : SUBSET DstUuid]]
  /\ view \in [Member -> SUBSET Entry]

\* NO-DUP: a delegated todo has at most one copy, through crashes, lost
\* replies, failed acks and expired leases (the journal of _apply_create, the
\* natural key of push_transfer).
NoDup == \A u, v \in DstUuid : copies[u].of = copies[v].of /\ copies[u].of # None => u = v

\* Two transfers are never mapped to the same copy, whatever their titles, and
\* the copy a transfer is mapped to is in its recipient's account, under its
\* title and from its sender (_correlate excludes the journaled uuids).
DistinctCopies ==
  \A k \in Key : transfers[k].dst # None =>
    /\ copies[transfers[k].dst].of # None
    /\ Title[copies[transfers[k].dst].of] = Title[k]
    /\ copies[transfers[k].dst].of.from = k.from
    /\ transfers[copies[transfers[k].dst].of].to = transfers[k].to
    /\ \A j \in Key : transfers[j].dst = transfers[k].dst => j = k

\* The trigger tag is the retry queue: a spoke takes it off a sender's todo
\* only when the ledger knows the recipient's copy, and what a spoke believes
\* sent the ledger has (_retag_sender_copy, mark_sent).
TagIsRetryQueue ==
  \A k \in Key : /\ todo[k].tag = "delegated" => transfers[k].dst # None
                 /\ k \in sent => Exists(k)

\* ROUND-TRIP: when a transfer is resolved and has a copy, both sides are out
\* of the way: neither the sender's todo nor the copy is open, whoever
\* reported first and whatever failed on the way (set_terminal is verified
\* before the ack).
BothSidesClosed ==
  \A k \in Key : transfers[k].resolved /\ transfers[k].dst # None =>
                   todo[k].status # "open" /\ copies[transfers[k].dst].status # "open"

\* A terminal state in the ledger comes from a person: the party that is on
\* record as having reported it acted on their own side.  The completion that
\* a spoke writes on the sender's todo is never reported as news (the comment
\* on is_retagged in _observe_and_retag), as long as the spoke knows of its
\* write: a writer that gives up on one that took effect is "unverified".
ReportsArePeoples ==
  \A k \in Key : transfers[k].terminal # None => <<k, transfers[k].by>> \in acted

\* A transfer that was resolved without a copy leaves nothing behind: never
\* materialize a dead todo (_queue_echo).
NoDeadTodo ==
  \A k \in Key : transfers[k].resolved /\ transfers[k].dst = None =>
                   \A u \in DstUuid : copies[u].of # k

\* One delivery at a time makes the correlation unambiguous: the copy that a
\* transfer is mapped to is the one that was made for it, among todos of one
\* title (core.py, head comment).  Things must not make a copy later than two
\* minutes after it was told: nothing in the code sees to that.
CopyIsOwn == \A k \in Key : transfers[k].dst # None => copies[transfers[k].dst].of = k
=============================================================================
