------------------------------ MODULE TandemQueue ------------------------------
(***************************************************************************)
(* The whole system with the writer of the gateway                         *)
(* (spoke/writer_queue.py).  A member of Gateway writes to Things through  *)
(* a queue: the writer posts an operation and polls its record until an    *)
(* applier on a Mac has performed it, or raises after 180 seconds; the     *)
(* operation is then performed later, when its writer has given up on it.  *)
(* An operation posted with an idempotency key that the queue has is not   *)
(* enqueued again.  Other members write as in Tandem.                      *)
(*                                                                         *)
(* A spoke may also be started again, with its state database or without   *)
(* it: the journal is then lost too, which is what the idempotency key of  *)
(* a create is for.                                                        *)
(***************************************************************************)
EXTENDS Tandem

LOCAL INSTANCE Functions

CONSTANTS Retries,      \* bound: how often a retag is given up
          Losses,       \* bound: how many state databases are lost in all
          QueueFaults   \* which of the faults below may happen

ASSUME RetriesAssumption == Retries \in Nat /\ Losses \in Nat
ASSUME QueueFaultAssumption ==
  QueueFaults \subseteq {"late",      \* a writer gives up on an operation that is, or will be, performed
                         "restart",   \* a spoke is restarted while a thread of it polls
                         "amnesia"}   \* a spoke is restarted without its state database

VARIABLES ops,      \* the operations of the queue
          waiting,  \* the retag that a local thread polls
          forgot    \* how often each member's state database was lost

queueVars == <<ops, waiting, forgot>>
systemVars == <<allVars, queueVars>>

\* An operation is named by what its idempotency key says: the delivery of a
\* create, the todo of a completion.  A retag has no key; every try has a
\* number.
Op == [kind : {"create", "terminal", "retag"}, key : Key, in : Member, try : 0 .. Retries]

ApplyOp(m, d) == [kind |-> IF d.kind = "create" THEN "create" ELSE "terminal",
                  key |-> d.key, in |-> m, try |-> 0]
RetagOp(m, k, n) == [kind |-> "retag", key |-> k, in |-> m, try |-> n]

QueueInit ==
  /\ \E k \in Todo : Start({k})
  /\ ops = [o \in Op |-> "none"]
  /\ waiting = [m \in Member |-> None]
  /\ forgot = [m \in Member |-> 0]

-----------------------------------------------------------------------------
(***************************************************************************)
(* The queue and its applier.                                              *)
(***************************************************************************)
\* Slips: the queue does not know the key; it does not take the operation.
PostAnew(o) == ops' = [ops EXCEPT ![o] = "queued"]
PostRejected(o) == UNCHANGED ops

\* POST /v1/ops.  Whether a queue tries a failed operation again when its key
\* is posted again is not said anywhere.
Post(o) ==
  \/ ops' = [ops EXCEPT ![o] = IF @ = "none" THEN "queued" ELSE @]
  \/ ops[o] = "failed" /\ ops' = [ops EXCEPT ![o] = "queued"]

\* What an operation does to the account.
Effect(o) ==
  CASE o.kind = "create" -> TellThings(o.key) /\ UNCHANGED todo
    [] o.kind = "terminal" -> CompleteCopy(o.in, o)
    [] o.kind = "retag" ->
         /\ todo' = [todo EXCEPT ![o.key] = [status |-> Completed(@.status), tag |-> "delegated"]]
         /\ UNCHANGED copies

MayFail(o) == o.kind = "retag" => o.try < Retries

\* The applier performs an operation, or fails.
Perform(o) ==
  /\ ops[o] = "queued"
  /\ \/ Effect(o) /\ ops' = [ops EXCEPT ![o] = "applied"]
     \/ /\ "write" \in Faults /\ MayFail(o)
        /\ ops' = [ops EXCEPT ![o] = "failed"]
        /\ UNCHANGED <<todo, copies>>
  /\ UNCHANGED <<vars, acted, local, apply, waiting, forgot>>

-----------------------------------------------------------------------------
(***************************************************************************)
(* The inbound thread: create and set_terminal.                            *)
(***************************************************************************)
\* The state of the operation for the current delivery.
OpStatus(m) == ops[ApplyOp(m, Current(m))]

\* Slip: that the queue has the operation is taken for an error.
SubmitFirstOnly(m) ==
  /\ m \in Gateway
  /\ At(m, "fire") \/ (At(m, "next") /\ Current(m).kind # "create")
  /\ IF OpStatus(m) = "none"
       THEN Post(ApplyOp(m, Current(m))) /\ Step(m, "wait") /\ UNCHANGED vars
       ELSE Nack(m) /\ UNCHANGED ops
  /\ UNCHANGED <<things, journal, local, waiting, forgot>>

\* _submit_and_wait posts.  A request that raises may have been received.
Submit(m) ==
  /\ m \in Gateway
  /\ At(m, "fire") \/ (At(m, "next") /\ Current(m).kind # "create")
  /\ \/ /\ Post(ApplyOp(m, Current(m)))
        /\ \/ Step(m, "wait") /\ UNCHANGED vars
           \/ "late" \in QueueFaults /\ Nack(m)
     \/ "write" \in Faults /\ Nack(m) /\ UNCHANGED ops
  /\ UNCHANGED <<things, journal, local, waiting, forgot>>

Proceed(m) == Step(m, IF Current(m).kind = "create" THEN "find" ELSE "ack")

\* Slip: the time-out counts as done.
PollReturnsAnyway(m) ==
  /\ At(m, "wait")
  /\ OpStatus(m) = "applied" \/ "late" \in QueueFaults
  /\ Proceed(m)
  /\ UNCHANGED <<vars, things, journal, local, queueVars>>

\* The record says applied or verified.
PollReturns(m) ==
  /\ At(m, "wait")
  /\ OpStatus(m) = "applied"
  /\ Proceed(m)
  /\ UNCHANGED <<vars, things, journal, local, queueVars>>

\* The record says failed, a poll raises, or 180 seconds are over; the answer
\* to the last poll is not looked at.
PollRaises(m) ==
  /\ At(m, "wait")
  /\ OpStatus(m) = "failed" \/ "late" \in QueueFaults
  /\ Nack(m)
  /\ UNCHANGED <<things, journal, local, queueVars>>

-----------------------------------------------------------------------------
(***************************************************************************)
(* The local thread: set_tags_and_terminal.                                *)
(***************************************************************************)
EndTick(m) == view' = [view EXCEPT ![m] = {}] /\ waiting' = [waiting EXCEPT ![m] = None]

\* Every retag is an operation of its own, without a key.
SubmitRetag(m, e) ==
  /\ m \in Gateway /\ waiting[m] = None
  /\ e \in view[m]
  /\ NeedsRetag(m, e)
  /\ ~Reportable(m, e.key)
  /\ \/ \E n \in 0 .. Retries :
          /\ ops[RetagOp(m, e.key, n)] = "none"
          /\ n > 0 => ops[RetagOp(m, e.key, n - 1)] # "none"
          /\ ops' = [ops EXCEPT ![RetagOp(m, e.key, n)] = "queued"]
          /\ waiting' = [waiting EXCEPT ![m] = RetagOp(m, e.key, n)]
          /\ UNCHANGED view
     \/ "write" \in Faults /\ EndTick(m) /\ UNCHANGED ops
  /\ UNCHANGED <<vars, things, apply, sent, retagged, observed, forgot>>

RetagReturns(m) ==
  /\ waiting[m] # None
  /\ ops[waiting[m]] = "applied"
  /\ retagged' = retagged \cup {waiting[m].key}
  /\ view' = [view EXCEPT ![m] = {e \in @ : e.key # waiting[m].key}]
  /\ waiting' = [waiting EXCEPT ![m] = None]
  /\ UNCHANGED <<vars, things, apply, sent, observed, ops, forgot>>

\* The exception ends the tick.
RetagRaises(m) ==
  /\ waiting[m] # None
  /\ ops[waiting[m]] = "failed" \/ ("late" \in QueueFaults /\ MayFail(waiting[m]))
  /\ EndTick(m)
  /\ UNCHANGED <<vars, things, apply, sent, retagged, observed, ops, forgot>>

-----------------------------------------------------------------------------
\* The spoke of m is started again: its threads are gone, the queue is not.
\* Everywhere with "crash", as in Tandem, or only where Tandem has no place.
Restart(m) ==
  /\ \/ "crash" \in Faults
     \/ "restart" \in QueueFaults /\ (At(m, "wait") \/ waiting[m] # None)
  /\ inbound' = [inbound EXCEPT ![m] = Idle]
  /\ EndTick(m)
  /\ UNCHANGED <<vars, things, journal, sent, retagged, observed, ops, forgot>>

\* The spoke of m is started again on an empty state database.
Forget(m) ==
  /\ "amnesia" \in QueueFaults /\ SumFunction(forgot) < Losses
  /\ forgot' = [forgot EXCEPT ![m] = @ + 1]
  /\ sent' = {k \in sent : k.from # m}
  /\ retagged' = {k \in retagged : k.from # m}
  /\ observed' = [observed EXCEPT ![m] = [k \in Key |-> None]]
  /\ journal' = [k \in Key |-> IF transfers[k].to = m THEN NoJournal ELSE journal[k]]
  /\ inbound' = [inbound EXCEPT ![m] = Idle]
  /\ EndTick(m)
  /\ UNCHANGED <<vars, things, ops>>

\* Two minutes pass: what is in the account of m is older than the window of
\* every later create.  Bound: only when a create may be noted again, since
\* nothing else reads the age of a copy.
TimePasses(m) ==
  /\ forgot[m] > 0
  /\ \E k \in Key : transfers[k].to = m /\ journal[k] = NoJournal
  /\ \E u \in InAccount(m) : ~copies[u].aged
  /\ Grow(m, {})
  /\ UNCHANGED <<vars, todo, acted, local, apply, queueVars>>

\* The steps of Tandem that do not write to Things.
InboundStep(m) ==
  \/ Submit(m) \/ PollReturns(m) \/ PollRaises(m)
  \/ /\ \/ Intend(m) \/ Reack(m) \/ Recorrelate(m) \/ Correlate(m)
        \/ CorrelateTimesOut(m) \/ AckCopy(m) \/ AckEcho(m)
        \/ m \notin Gateway /\ (Fire(m) \/ ApplyTerminal(m))
     /\ UNCHANGED queueVars

WalkStep(m) ==
  \/ \E e \in view[m] : SubmitRetag(m, e)
  \/ RetagReturns(m) \/ RetagRaises(m)
  \/ /\ waiting[m] = None
     /\ \E e \in view[m] : \/ Report(m, e) \/ PassOver(m, e)
                           \/ m \notin Gateway /\ Retag(m, e)
     /\ UNCHANGED queueVars

Receive(m) == Lease(m) /\ UNCHANGED queueVars

QueueNext ==
  \/ \E m \in Member : \/ Receive(m)
                       \/ InboundStep(m)
                       \/ WalkStep(m)
                       \/ ((\E k \in Todo : Outbound(m, k)) \/ GetWatch(m)) /\ UNCHANGED queueVars
                       \/ Restart(m)
                       \/ Forget(m)
                       \/ TimePasses(m)
  \/ \E u \in DstUuid : ThingsMakes(u) /\ UNCHANGED queueVars
  \/ \E o \in Op : Perform(o)
  \/ \E d \in Delivery : Expire(d) /\ UNCHANGED queueVars
  \/ \E a \in Acts : Act(a) /\ UNCHANGED queueVars

\* Both threads of the gateway and the loop of every other spoke keep going,
\* leases run out, and a call that is made again and again gets through some
\* time (as in TandemLive), an operation of the queue too.  There are few acks
\* that get through and few operations that are applied, so one condition
\* serves both.
AckGetsThrough(m) ==
  \/ (AckCopy(m) \/ Reack(m)) /\ AckCreate(m, Current(m), journal[Current(m).key].dst)
  \/ AckEcho(m) /\ AckTerminal(m, Current(m))

WriteGetsThrough(m) ==
  \/ Submit(m) /\ inbound'[m].at = "wait"
  \/ m \notin Gateway /\ ApplyTerminal(m) /\ ~NackDelivery(m, Current(m)) /\ UNCHANGED queueVars

QueueFairness ==
  /\ \A m \in Member : /\ WF_systemVars(InboundStep(m))
                       /\ WF_systemVars(WalkStep(m))
                       /\ SF_systemVars(Receive(m))
  /\ WF_systemVars(\E d \in Delivery : Expire(d) /\ UNCHANGED queueVars)
  /\ SF_systemVars(\/ \E m \in Member : AckGetsThrough(m) /\ UNCHANGED queueVars
                   \/ \E o \in Op : Perform(o) /\ ops'[o] = "applied")
  /\ SF_systemVars(\E m \in Member : WriteGetsThrough(m))
  /\ SF_systemVars(\E m \in Member : PollReturns(m))
  /\ WF_systemVars(\E u \in DstUuid : ThingsMakes(u) /\ UNCHANGED queueVars)

QueueSpec == QueueInit /\ [][QueueNext]_systemVars /\ QueueFairness
-----------------------------------------------------------------------------
\* Every variable holds a value of its type; a thread waits for an operation
\* that was posted.
QueueTypeOK ==
  /\ TandemTypeOK
  /\ ops \in [Op -> {"none", "queued", "applied", "failed"}]
  /\ \A m \in Member : /\ waiting[m] # None => waiting[m] \in Op /\ ops[waiting[m]] # "none"
                       /\ At(m, "wait") => OpStatus(m) # "none"
  /\ forgot \in [Member -> Nat]

\* NO-DUP with a lost journal: the create fires again, but a queue-backed
\* recipient has one copy all the same (idem_key in _apply_create); another
\* gets one more for each time that its state database was lost (the double
\* failure of core.py's head comment) and none for any other restart.
Excess(k) == IF transfers[k].to \in Gateway THEN 0 ELSE forgot[transfers[k].to]

DuplicateNeedsAmnesia ==
  \A k \in Key : Exists(k) => Cardinality({u \in DstUuid : copies[u].of = k}) <= 1 + Excess(k)

\* The recipient's spoke looks for a copy that it cannot find: none was made
\* and none will be, or each is in the trash, older than its window or never
\* made.
OutOfSight(k) ==
  /\ journal[k].open
  /\ \A o \in Op : o.key = k /\ o.kind = "create" => ops[o] # "queued"
  /\ \A u \in DstUuid : copies[u].of = k =>
       copies[u].status = "trashed" \/ u \in journal[k].early \/ copies[u].coming

\* The todo that a behaviour is about: one carries a tag at first (QueueInit).
Delegated == CHOOSE k \in Key : todo[k].tag # "none"

\* NO-LOSS with late operations: the delegation reaches its recipient, or is
\* resolved, however late the applier is: the create that its writer gave up
\* is found by a later correlation.  The one way to hang is that the journal
\* speaks of a copy which is out of sight for good (_apply_create, _correlate).
DeliveredOrOutOfSight ==
  Exists(Delegated) ~> \/ transfers[Delegated].dst # None \/ transfers[Delegated].resolved
                       \/ []OutOfSight(Delegated)

\* Completion round trip with late operations: a terminal state reaches both
\* copies, although the writer may give up on the completion again and again.
\* The one way to hang is a completion that failed for good under the one key
\* that its todo has for all time (set_terminal).
EchoLandsOrFailed ==
  (transfers[Delegated].terminal # None /\ transfers[Delegated].dst # None)
    ~> \/ transfers[Delegated].resolved
       \/ [](\E o \in Op : o.key = Delegated /\ o.kind = "terminal" /\ ops[o] = "failed")
=============================================================================
