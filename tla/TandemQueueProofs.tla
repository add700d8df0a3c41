---------------------------- MODULE TandemQueueProofs ----------------------------
(***************************************************************************)
(* Theorems about TandemQueue: with the queue of the gateway between the   *)
(* spokes and the accounts, with operations that are performed late and    *)
(* with a state database that is lost, the system is still a client of the *)
(* ledger, closes both sides, and makes a second copy only where a journal *)
(* was lost and no queue remembers.                                        *)
(***************************************************************************)
EXTENDS TandemQueue, TandemCopiesProofs, FiniteSetTheorems

(***************************************************************************)
(* The invariant of the queue.                                             *)
(***************************************************************************)
\* The transfer calls for operation o, by a member that writes through the queue.
CallsFor(o) ==
  /\ o.in \in Gateway /\ Exists(o.key)
  /\ o.kind = "create" => o.try = 0 /\ transfers[o.key].to = o.in
  /\ o.kind # "create" => transfers[o.key].dst # None
  /\ o.kind = "retag" => o.in = o.key.from

\* Only what a transfer calls for was posted; a completion that was performed
\* has ended its side.
OpInv ==
  \A o \in Op :
    /\ ops[o] # "none" => CallsFor(o)
    /\ o.kind = "terminal" /\ ops[o] = "applied" => OwnClosed(o.in, o.key)

WaitInv == waiting \in [Member -> Op \cup {None}]

QueueInv == QueueTypeOK /\ OpInv /\ WaitInv

LEMMA ApplyOpIsOp ==
  ASSUME NEW m \in Member, NEW d \in Delivery
  PROVE  /\ ApplyOp(m, d) \in Op
         /\ ApplyOp(m, d).key = d.key /\ ApplyOp(m, d).in = m /\ ApplyOp(m, d).try = 0
         /\ d.kind = "create" => ApplyOp(m, d).kind = "create"
         /\ d.kind # "create" => ApplyOp(m, d).kind = "terminal"
BY RetriesAssumption DEF ApplyOp, Op, Delivery

LEMMA RetagOpIsOp ==
  ASSUME NEW m \in Member, NEW k \in Key, NEW n \in 0 .. Retries
  PROVE  /\ RetagOp(m, k, n) \in Op
         /\ RetagOp(m, k, n).key = k /\ RetagOp(m, k, n).in = m
         /\ RetagOp(m, k, n).kind = "retag"
BY DEF RetagOp, Op

LEMMA PostWrites ==
  ASSUME QueueTypeOK, NEW o \in Op, Post(o)
  PROVE  /\ ops' \in [Op -> {"none", "queued", "applied", "failed"}]
         /\ ops'[o] # "none" /\ (ops'[o] = "applied" => ops[o] = "applied")
         /\ \A p \in Op : /\ p # o => ops'[p] = ops[p]
                          /\ ops[p] # "none" => ops'[p] # "none"
                          /\ ops[p] = "applied" => ops'[p] = "applied"
<1>1. ops \in [Op -> {"none", "queued", "applied", "failed"}]
  BY DEF QueueTypeOK
<1> QED
  BY <1>1 DEF Post

-----------------------------------------------------------------------------
(***************************************************************************)
(* The system with the queue as a client of the ledger.                    *)
(***************************************************************************)
\* A step of Tandem that does not touch the queue; of those that write to an
\* account only the ones of members that do not write through it.
DirectStep == /\ TandemNext /\ UNCHANGED queueVars
              /\ \/ Calm
                 \/ \E m \in Member : \/ Intend(m) \/ Correlate(m)
                                      \/ Fire(m) /\ m \notin Gateway

\* A step of the writer, the queue, or a spoke that is started again.
WriterStep == \/ \E m \in Member :
                   \/ Submit(m) \/ PollReturns(m) \/ PollRaises(m)
                   \/ (\E e \in view[m] : SubmitRetag(m, e)) \/ RetagReturns(m) \/ RetagRaises(m)
                   \/ Restart(m) \/ Forget(m) \/ TimePasses(m)
              \/ \E o \in Op : Perform(o)

LEMMA DirectOrWriter ==
  ASSUME SpokeInv, QueueNext
  PROVE  DirectStep \/ WriterStep
<1>1. \A m \in Member : view[m] \subseteq Entry
  BY DEF SpokeInv, TandemTypeOK
<1>2. ASSUME NEW m \in Member, UNCHANGED queueVars,
             \/ Lease(m) \/ GetWatch(m) \/ (\E k \in Todo : Outbound(m, k))
             \/ \E e \in view[m] : Walk(m, e)
      PROVE  DirectStep
  <2>1. TandemNext
    BY <1>1, <1>2 DEF TandemNext
  <2>2. Calm
    BY <1>1, <1>2, WalkCalm, RestCalm
  <2> QED
    BY <1>2, <2>1, <2>2 DEF DirectStep
<1>3. ASSUME NEW m \in Member, UNCHANGED queueVars,
             \/ Intend(m) \/ Reack(m) \/ Recorrelate(m) \/ Correlate(m)
             \/ CorrelateTimesOut(m) \/ AckCopy(m) \/ AckEcho(m)
             \/ m \notin Gateway /\ (Fire(m) \/ ApplyTerminal(m))
      PROVE  DirectStep
  <2>1. TandemNext
    BY <1>3 DEF TandemNext, Apply
  <2>2. Calm \/ Intend(m) \/ Correlate(m) \/ (Fire(m) /\ m \notin Gateway)
    BY <1>3, ApplyCalm
  <2> QED
    BY <1>3, <2>1, <2>2 DEF DirectStep
<1>4. ASSUME NEW m \in Member, InboundStep(m)
      PROVE  DirectStep \/ WriterStep
  BY <1>3, <1>4 DEF InboundStep, WriterStep
<1>5. ASSUME NEW m \in Member, WalkStep(m)
      PROVE  DirectStep \/ WriterStep
  BY <1>2, <1>5 DEF WalkStep, Walk, WriterStep
<1>6. ASSUME UNCHANGED queueVars,
             \/ \E u \in DstUuid : ThingsMakes(u)
             \/ \E d \in Delivery : Expire(d)
             \/ \E a \in Acts : Act(a)
      PROVE  DirectStep
  BY <1>6, RestCalm DEF TandemNext, DirectStep
<1> QED
  BY <1>2, <1>4, <1>5, <1>6 DEF QueueNext, Receive, WriterStep

\* The writer's steps are nacks or none of the ledger's business.
LEMMA WriterIsLedger ==
  ASSUME SpokeInv, WriterStep
  PROVE  [Next]_vars
<1>1. ASSUME NEW m \in Member, Submit(m) \/ PollRaises(m)
      PROVE  [Next]_vars
  <2>1. inbound[m].batch # <<>> /\ (Nack(m) \/ UNCHANGED vars)
    BY <1>1 DEF Submit, PollRaises, At
  <2> QED
    BY <2>1, NackIsLedger
<1> QED
  BY <1>1 DEF WriterStep, PollReturns, SubmitRetag, RetagReturns, RetagRaises, Restart,
     Forget, TimePasses, Perform

LEMMA QueueIsLedger ==
  ASSUME IInv, SpokeInv, QueueNext
  PROVE  [Next]_vars
BY DirectOrWriter, WriterIsLedger, SystemIsLedger DEF DirectStep

-----------------------------------------------------------------------------
(***************************************************************************)
(* The spokes keep their invariant.                                        *)
(***************************************************************************)
LEMMA SubmitSpoke ==
  ASSUME IInv, SpokeInv, NEW m \in Member, Submit(m)
  PROVE  SpokeInv'
<1>1. /\ inbound[m].batch # <<>> /\ UNCHANGED <<things, journal, local>>
      /\ At(m, "fire") \/ (At(m, "next") /\ Current(m).kind # "create")
  BY DEF Submit, At
<1>2. ThingsOK' /\ AccountsKeep
  BY <1>1, ThingsStay
<1>3. CASE Step(m, "wait") /\ UNCHANGED vars
  <2>1. "wait" \in Place
    BY DEF Place
  <2>2. /\ inbound'[m].at = "wait" /\ Current(m)' = Current(m)
        /\ inbound'[m].batch = inbound[m].batch
    BY <1>3, <2>1, StepMoves DEF SpokeInv
  <2>3. Current(m).kind = "create" => journal[Current(m).key].open
    BY <1>1 DEF SpokeInv, PlaceInv, PlaceOf
  <2>4. PlaceOf(m)' /\ JournalInv'
    BY <1>1, <2>2, <2>3 DEF PlaceOf, At, SpokeInv, JournalInv
  <2>5. journal' \in [Key -> [open : BOOLEAN, dst : DstUuid \cup {None}, early : SUBSET DstUuid]]
    BY <1>1 DEF SpokeInv, TandemTypeOK
  <2> QED
    BY <1>1, <1>2, <1>3, <2>1, <2>4, <2>5, AdvanceKeeps
<1>4. CASE Nack(m)
  BY <1>1, <1>2, <1>4, NackCall, DropKeeps
<1> QED
  BY <1>3, <1>4 DEF Submit

\* An applied operation has done what its spoke waited for.
LEMMA PollReturnsSpoke ==
  ASSUME IInv, SpokeInv, OpInv, NEW m \in Member, PollReturns(m)
  PROVE  SpokeInv'
<1> DEFINE d == Current(m)
           o == ApplyOp(m, d)
           place == IF d.kind = "create" THEN "find" ELSE "ack"
<1>1. /\ At(m, "wait") /\ inbound[m].batch # <<>> /\ ops[o] = "applied" /\ Step(m, place)
      /\ UNCHANGED <<vars, things, journal, local>>
  BY DEF PollReturns, OpStatus, Proceed, At
<1>2. /\ d \in Delivery /\ o \in Op /\ o.in = m /\ o.key = d.key
      /\ d.kind # "create" => o.kind = "terminal"
  BY <1>1, CurrentKnown, ApplyOpIsOp
<1> HIDE DEF o
<1>3. d.kind # "create" => OwnClosed(m, d.key)
  BY <1>1, <1>2 DEF OpInv
<1>4. ThingsOK' /\ AccountsKeep
  BY <1>1, ThingsStay
<1>5. place \in Place
  BY DEF Place
<1>6. /\ inbound'[m].at = place /\ Current(m)' = d /\ inbound'[m].batch = inbound[m].batch
  BY <1>1, <1>5, StepMoves DEF SpokeInv
<1>7. d.kind = "create" => journal[d.key].open
  BY <1>1 DEF SpokeInv, PlaceInv, PlaceOf
<1>8. d.kind # "create" => OwnClosed(m, d.key)'
  BY <1>1, <1>3, <1>6 DEF OwnClosed, vars, things
<1>9. PlaceOf(m)' /\ JournalInv'
  BY <1>1, <1>6, <1>7, <1>8 DEF PlaceOf, At, SpokeInv, JournalInv
<1>10. journal' \in [Key -> [open : BOOLEAN, dst : DstUuid \cup {None}, early : SUBSET DstUuid]]
  BY <1>1 DEF SpokeInv, TandemTypeOK
<1> QED
  BY <1>1, <1>4, <1>5, <1>9, <1>10, AdvanceKeeps

LEMMA PollRaisesSpoke ==
  ASSUME IInv, SpokeInv, NEW m \in Member, PollRaises(m)
  PROVE  SpokeInv'
<1>1. inbound[m].batch # <<>> /\ Nack(m) /\ UNCHANGED <<things, journal, local>>
  BY DEF PollRaises, At
<1> QED
  BY <1>1, ThingsStay, NackCall, DropKeeps

\* The applier does to the account what a spoke would have done.
LEMMA PerformWrites ==
  ASSUME IInv, SpokeInv, OpInv, NEW o \in Op, Perform(o)
  PROVE  ThingsOK' /\ AccountsKeep
<1>1. /\ o.key \in Key /\ o.in \in Member /\ o.kind \in {"create", "terminal", "retag"}
      /\ ops[o] # "none" /\ UNCHANGED acted
  BY DEF Perform, Op
<1>2. /\ Exists(o.key)
      /\ o.kind # "create" => transfers[o.key].dst # None
  BY <1>1 DEF OpInv, CallsFor
<1>3. CASE Effect(o) /\ o.kind = "create"
  BY <1>1, <1>2, <1>3, MakeCopyKeeps DEF Effect
<1>4. CASE Effect(o) /\ o.kind = "terminal"
  BY <1>1, <1>2, <1>4, CompleteCopyKeeps DEF Effect
<1>5. CASE Effect(o) /\ o.kind = "retag"
  BY <1>1, <1>2, <1>5, RetagWrites DEF Effect
<1>6. CASE UNCHANGED <<todo, copies>>
  BY <1>1, <1>6, ThingsStay DEF things
<1> QED
  BY <1>1, <1>3, <1>4, <1>5, <1>6 DEF Perform

LEMMA PerformSpoke ==
  ASSUME IInv, SpokeInv, OpInv, NEW o \in Op, Perform(o)
  PROVE  SpokeInv'
<1>1. UNCHANGED <<vars, local, apply>>
  BY DEF Perform
<1> QED
  BY <1>1, PerformWrites, NoCall, SpokesStay

\* A step that only cuts lists short and notes a retag.
LEMMA CutShort ==
  ASSUME IInv, SpokeInv, UNCHANGED <<vars, things, apply, sent, observed>>,
         view' \in [Member -> SUBSET Entry], \A n \in Member : view'[n] \subseteq view[n],
         retagged' \subseteq Key
  PROVE  SpokeInv'
<1>1. LedgerKeeps /\ NoNews /\ NoSettling /\ NothingLeftOver'
  BY NoCall
<1>2. ThingsOK' /\ AccountsKeep
  BY ThingsStay
<1>3. ViewInv'
  BY <1>1, ViewShrinks
<1>4. /\ sent' \subseteq Key /\ observed' \in [Member -> [Key -> Terminal \cup {None}]]
      /\ \A k \in sent' : k \in sent \/ Exists(k)'
  BY DEF SpokeInv, TandemTypeOK
<1> QED
  BY <1>1, <1>2, <1>3, <1>4, RestKeeps

LEMMA RetagThreadSpoke ==
  ASSUME IInv, SpokeInv, QueueTypeOK, NEW m \in Member,
         (\E e \in view[m] : SubmitRetag(m, e)) \/ RetagReturns(m) \/ RetagRaises(m)
  PROVE  SpokeInv'
<1>1. view \in [Member -> SUBSET Entry] /\ retagged \subseteq Key
  BY DEF SpokeInv, TandemTypeOK
<1>2. UNCHANGED <<vars, things, apply, sent, observed>>
  BY DEF SubmitRetag, RetagReturns, RetagRaises
<1>3. view' \in [Member -> SUBSET Entry] /\ \A n \in Member : view'[n] \subseteq view[n]
  <2>1. CASE RetagReturns(m)
    <3> DEFINE rest == {e \in view[m] : e.key # waiting[m].key}
    <3>1. view' = [view EXCEPT ![m] = rest] /\ rest \subseteq view[m]
      BY <2>1 DEF RetagReturns
    <3> HIDE DEF rest
    <3> QED
      BY <1>1, <3>1
  <2>2. CASE view' = [view EXCEPT ![m] = {}] \/ UNCHANGED view
    BY <1>1, <2>2
  <2> QED
    BY <2>1, <2>2 DEF SubmitRetag, RetagRaises, EndTick
<1>4. retagged' \subseteq Key
  <2>1. CASE RetagReturns(m)
    <3>1. waiting[m] \in Op /\ retagged' = retagged \cup {waiting[m].key}
      BY <2>1 DEF RetagReturns, QueueTypeOK
    <3> QED
      BY <1>1, <3>1 DEF Op
  <2>2. CASE UNCHANGED retagged
    BY <1>1, <2>2
  <2> QED
    BY <2>1, <2>2 DEF SubmitRetag, RetagRaises
<1> QED
  BY <1>2, <1>3, <1>4, CutShort

LEMMA ForgetSpoke ==
  ASSUME IInv, SpokeInv, NEW m \in Member, Forget(m)
  PROVE  SpokeInv'
<1>1. /\ inbound' = [inbound EXCEPT ![m] = Idle] /\ view' = [view EXCEPT ![m] = {}]
      /\ UNCHANGED <<vars, things>> /\ sent' \subseteq sent /\ retagged' \subseteq retagged
  BY DEF Forget, EndTick
<1>2. observed' \in [Member -> [Key -> Terminal \cup {None}]]
  <2>1. observed \in [Member -> [Key -> Terminal \cup {None}]]
    BY DEF SpokeInv, TandemTypeOK
  <2>2. observed' = [observed EXCEPT ![m] = [k \in Key |-> None]]
    BY DEF Forget
  <2>3. [k \in Key |-> None] \in [Key -> Terminal \cup {None}]
    OBVIOUS
  <2> QED
    BY <2>1, <2>2, <2>3
<1>3. journal \in [Key -> JournalType] /\ NoJournal \in JournalType
  BY DEF SpokeInv, TandemTypeOK, JournalType, NoJournal
<1>4. journal' = [k \in Key |-> IF transfers[k].to = m THEN NoJournal ELSE journal[k]]
  BY DEF Forget
<1>5. /\ journal' \in [Key -> JournalType]
      /\ \A k \in Key : \/ journal'[k] = journal[k]
                        \/ transfers[k].to = m /\ journal'[k] = NoJournal
  BY <1>3, <1>4
<1> QED
  BY <1>1, <1>2, <1>5, RestartKeeps

LEMMA TimeWrites ==
  ASSUME SpokeInv, NEW m \in Member, TimePasses(m)
  PROVE  /\ ThingsOK' /\ AccountsKeep
         /\ \A u \in DstUuid : copies'[u].of = copies[u].of /\ copies'[u].status = copies[u].status
<1> DEFINE old(u) == copies[u].aged \/ u \in InAccount(m) \ {}
<1>1. /\ copies' = [u \in DstUuid |-> [copies[u] EXCEPT !.aged = old(u)]]
      /\ UNCHANGED <<todo, acted>>
  BY DEF TimePasses, Grow
<1>2. copies \in [DstUuid -> [of : Key \cup {None}, status : Status, aged : BOOLEAN, coming : BOOLEAN]]
  BY DEF SpokeInv, TandemTypeOK
<1>3. \A u \in DstUuid : old(u) \in BOOLEAN
  BY <1>2, Zenon
<1> HIDE DEF old
<1>4. \A u \in DstUuid : /\ copies'[u].of = copies[u].of
                         /\ copies'[u].status = copies[u].status
                         /\ copies'[u] \in [of : Key \cup {None}, status : Status, aged : BOOLEAN, coming : BOOLEAN]
  BY <1>1, <1>2, <1>3
<1>5. copies' \in [DstUuid -> [of : Key \cup {None}, status : Status, aged : BOOLEAN, coming : BOOLEAN]]
  BY <1>1, <1>4
<1> QED
  BY <1>1, <1>4, <1>5 DEF ThingsOK, AccountsKeep, SpokeInv, TandemTypeOK

LEMMA TimeSpoke ==
  ASSUME IInv, SpokeInv, NEW m \in Member, TimePasses(m)
  PROVE  SpokeInv'
<1>1. UNCHANGED <<vars, local, apply>>
  BY DEF TimePasses
<1> QED
  BY <1>1, TimeWrites, NoCall, SpokesStay

LEMMA RestartSpoke ==
  ASSUME IInv, SpokeInv, NEW m \in Member, Restart(m)
  PROVE  SpokeInv'
<1>1. /\ inbound' = [inbound EXCEPT ![m] = Idle] /\ view' = [view EXCEPT ![m] = {}]
      /\ UNCHANGED <<vars, things, journal, sent, retagged, observed>>
  BY DEF Restart, EndTick
<1>2. /\ observed' \in [Member -> [Key -> Terminal \cup {None}]]
      /\ journal' \in [Key -> JournalType]
  BY <1>1 DEF SpokeInv, TandemTypeOK, JournalType
<1> QED
  BY <1>1, <1>2, RestartKeeps

LEMMA QueueSpoke ==
  ASSUME IInv, SpokeInv, QueueInv, QueueNext
  PROVE  SpokeInv'
BY DirectOrWriter, SpokeNext, SubmitSpoke, PollReturnsSpoke, PollRaisesSpoke, PerformSpoke,
   RetagThreadSpoke, RestartSpoke, ForgetSpoke, TimeSpoke DEF QueueInv, DirectStep, WriterStep

-----------------------------------------------------------------------------
(***************************************************************************)
(* The queue keeps its invariant.                                          *)
(***************************************************************************)
\* What has ended stays ended.
EndsStay == /\ \A k \in Key : todo[k].status # "open" => todo'[k].status # "open"
            /\ \A u \in DstUuid : copies[u].status # "open" => copies'[u].status # "open"

LEMMA AccountsKeepEnds == AccountsKeep => EndsStay
BY DEF AccountsKeep, EndsStay

LEMMA DirectEnds ==
  ASSUME IInv, SpokeInv, TandemNext
  PROVE  EndsStay
<1>1. /\ todo \in [Key -> [status : Status, tag : {"none", "trigger", "delegated"}]]
      /\ copies \in [DstUuid -> [of : Key \cup {None}, status : Status, aged : BOOLEAN, coming : BOOLEAN]]
  BY DEF SpokeInv, TandemTypeOK
<1>2. UNCHANGED things => EndsStay
  BY DEF things, EndsStay
<1>3. ASSUME NEW m \in Member, Fire(m)
      PROVE  EndsStay
  <2>1. UNCHANGED todo /\ (UNCHANGED copies \/ \E u \in NextCopy, coming \in BOOLEAN :
                             /\ \A v \in NextCopy : u <= v
                             /\ copies' = [copies EXCEPT ![u].of = Current(m).key,
                                                         ![u].coming = coming])
    BY <1>3, FireWrites
  <2>2. ASSUME NEW v \in NextCopy, NEW coming \in BOOLEAN,
               copies' = [copies EXCEPT ![v].of = Current(m).key, ![v].coming = coming],
               NEW u \in DstUuid
        PROVE  copies'[u].status = copies[u].status
    BY <1>1, <2>2 DEF NextCopy
  <2>3. \A u \in DstUuid : copies'[u].status = copies[u].status
    BY <2>1, <2>2
  <2> QED
    BY <2>1, <2>3 DEF EndsStay
<1>4. ASSUME NEW m \in Member, CorrelateTimesOut(m)
      PROVE  EndsStay
  <2>1. UNCHANGED todo /\ \A u \in DstUuid : copies'[u].status = copies[u].status
    BY <1>1, <1>4 DEF CorrelateTimesOut, Grow
  <2> QED
    BY <2>1 DEF EndsStay
<1>5. ASSUME NEW m \in Member, ApplyTerminal(m)
      PROVE  EndsStay
  <2>1. /\ UNCHANGED acted /\ Current(m).key \in Key /\ transfers[Current(m).key].dst # None
        /\ CompleteCopy(m, Current(m)) \/ UNCHANGED <<todo, copies>>
    BY <1>5, CurrentKnown DEF ApplyTerminal, At
  <2> QED
    BY <1>2, <2>1, CompleteCopyKeeps, AccountsKeepEnds DEF things
<1>6. ASSUME NEW m \in Member, NEW e \in Entry, Retag(m, e)
      PROVE  EndsStay
  <2>1. /\ e.key \in Key /\ transfers[e.key].dst # None /\ UNCHANGED <<copies, acted>>
    BY <1>6 DEF Retag, NeedsRetag, Entry, SpokeInv, ViewInv
  <2> QED
    BY <1>2, <1>6, <2>1, RetagWrites, AccountsKeepEnds DEF Retag, things
<1>7. ASSUME NEW a \in Acts, Act(a)
      PROVE  EndsStay
  <2>1. a # "open"
    BY ActAssumption
  <2>2. ASSUME NEW k \in Todo, ActOnTodo(k, a)
        PROVE  EndsStay
    BY <1>1, <2>1, <2>2, TodoAssumption DEF ActOnTodo, EndsStay
  <2>3. ASSUME NEW u \in DstUuid, ActOnCopy(u, a)
        PROVE  EndsStay
    BY <1>1, <2>1, <2>3 DEF ActOnCopy, EndsStay
  <2> QED
    BY <1>7, <2>2, <2>3 DEF Act
<1>8. ASSUME \/ \E m \in Member : \/ \E k \in Todo : Outbound(m, k)
                                  \/ Lease(m) \/ GetWatch(m) \/ Crash(m)
                                  \/ Intend(m) \/ Reack(m) \/ Recorrelate(m) \/ Correlate(m)
                                  \/ AckCopy(m) \/ AckEcho(m)
                                  \/ \E e \in Entry : Report(m, e) \/ PassOver(m, e)
             \/ \E d \in Delivery : Expire(d)
      PROVE  UNCHANGED things
  BY <1>8 DEF Outbound, Lease, GetWatch, Crash, Intend, Reack, Recorrelate, Correlate, AckCopy,
    AckEcho, Report, PassOver, Expire
<1>9. ASSUME NEW u \in DstUuid, ThingsMakes(u)
      PROVE  EndsStay
  BY <1>9, ThingsMakesWrites, AccountsKeepEnds
<1> QED
  BY <1>2, <1>3, <1>4, <1>5, <1>6, <1>7, <1>8, <1>9 DEF TandemNext, Apply, Walk

\* Only a spoke that writes through the queue comes to wait.
NoWait == \A m \in Member : At(m, "wait")' => At(m, "wait") /\ Current(m)' = Current(m)

LEMMA NowhereWaits ==
  ASSUME NEW m \in Member, inbound'[m].at # "wait",
         \A n \in Member : n # m => inbound'[n] = inbound[n]
  PROVE  NoWait
BY DEF NoWait, At, Current

LEMMA StillWaits ==
  ASSUME UNCHANGED inbound
  PROVE  NoWait
BY DEF NoWait, At, Current

LEMMA MovesWait ==
  ASSUME SpokeInv, NEW m \in Member, inbound[m].batch # <<>>,
         Drop(m) \/ \E place \in Place : place # "wait" /\ Step(m, place)
  PROVE  NoWait
BY DropMoves, StepMoves, NowhereWaits DEF SpokeInv

LEMMA DirectWaits ==
  ASSUME SpokeInv, TandemNext
  PROVE  NoWait
<1>1. inbound \in [Member -> [batch : Seq(Delivery), at : Place, late : SUBSET DstUuid]]
  BY DEF SpokeInv, TandemTypeOK
<1>2. ASSUME NEW m \in Member, Apply(m)
      PROVE  NoWait
  <2>1. inbound[m].batch # <<>>
    BY <1>2 DEF Apply, Intend, Fire, Reack, Recorrelate, Correlate, CorrelateTimesOut, AckCopy,
      ApplyTerminal, AckEcho, At
  <2>2. Drop(m) \/ \E place \in Place : place # "wait" /\ Step(m, place)
    BY <1>2, AckDrops DEF Apply, Intend, Fire, Reack, Recorrelate, Correlate, CorrelateTimesOut,
      AckCopy, ApplyTerminal, AckEcho, Nack, Place
  <2> QED
    BY <2>1, <2>2, MovesWait
<1>3. ASSUME NEW m \in Member, Crash(m)
      PROVE  NoWait
  BY <1>1, <1>3, NowhereWaits DEF Crash, Idle
<1>4. ASSUME NEW m \in Member, Lease(m)
      PROVE  NoWait
  <2>1. inbound[m].at = "next"
    BY <1>4 DEF Lease, SpokeInv, PlaceInv, PlaceOf
  <2>2. inbound'[m].at = "next" /\ \A n \in Member : n # m => inbound'[n] = inbound[n]
    BY <1>1, <1>4, <2>1 DEF Lease
  <2> QED
    BY <2>2, NowhereWaits
<1>5. ASSUME NEW u \in DstUuid, ThingsMakes(u)
      PROVE  NoWait
  BY <1>5, ThingsMakesWrites DEF NoWait, At, Current
<1> QED
  BY <1>2, <1>3, <1>4, <1>5, StillWaits DEF TandemNext, Outbound, GetWatch, Walk, Report, Retag,
     PassOver, Expire, Act, ActOnTodo, ActOnCopy, apply

\* What a step has to show of the operations that it posts or performs.
LEMMA OpKeeps ==
  ASSUME IInv, OpInv, LedgerKeeps, EndsStay,
         \A o \in Op : ops'[o] # "none" => ops[o] # "none" \/ CallsFor(o),
         \A o \in Op : o.kind = "terminal" /\ ops'[o] = "applied" =>
                         ops[o] = "applied" \/ OwnClosed(o.in, o.key)'
  PROVE  OpInv'
<1> SUFFICES ASSUME NEW o \in Op
             PROVE  /\ ops'[o] # "none" => CallsFor(o)'
                    /\ o.kind = "terminal" /\ ops'[o] = "applied" => OwnClosed(o.in, o.key)'
  BY DEF OpInv
<1>1. o.key \in Key
  BY DEF Op
<1>2. CallsFor(o) => CallsFor(o)'
  BY <1>1, MemberAssumption DEF CallsFor, LedgerKeeps, Exists
<1>3. ASSUME o.kind = "terminal", ops[o] = "applied"
      PROVE  OwnClosed(o.in, o.key)'
  <2>1. OwnClosed(o.in, o.key) /\ transfers[o.key].dst # None
    BY <1>3 DEF OpInv, CallsFor
  <2> QED
    BY <1>1, <2>1, TransferTypes DEF OwnClosed, LedgerKeeps, EndsStay
<1> QED
  BY <1>2, <1>3 DEF OpInv

LEMMA SameOpsKeep ==
  ASSUME IInv, OpInv, LedgerKeeps, EndsStay, UNCHANGED ops
  PROVE  OpInv'
BY OpKeeps

\* The operations change and a thread waits for one.
LEMMA QueueTypesKeep ==
  ASSUME SpokeInv, SpokeInv', QueueTypeOK, WaitInv,
         ops' \in [Op -> {"none", "queued", "applied", "failed"}],
         \A o \in Op : ops[o] # "none" => ops'[o] # "none",
         \A n \in Member : At(n, "wait")' => \/ At(n, "wait") /\ Current(n)' = Current(n)
                                             \/ OpStatus(n)' # "none",
         waiting' \in [Member -> Op \cup {None}],
         \A n \in Member : waiting'[n] \in {waiting[n], None} \/ ops'[waiting'[n]] # "none",
         forgot' \in [Member -> Nat]
  PROVE  QueueTypeOK' /\ WaitInv'
<1>1. ASSUME NEW n \in Member, waiting'[n] # None
      PROVE  waiting'[n] \in Op /\ ops'[waiting'[n]] # "none"
  BY <1>1 DEF QueueTypeOK
<1>2. ASSUME NEW n \in Member, At(n, "wait")'
      PROVE  OpStatus(n)' # "none"
  <2>1. CASE At(n, "wait") /\ Current(n)' = Current(n)
    <3>1. Current(n) \in Delivery
      BY <2>1, CurrentKnown DEF At
    <3>2. ops[ApplyOp(n, Current(n))] # "none" /\ ApplyOp(n, Current(n)) \in Op
      BY <2>1, <3>1, ApplyOpIsOp DEF QueueTypeOK, OpStatus
    <3> QED
      BY <2>1, <3>2 DEF OpStatus, ApplyOp
  <2> QED
    BY <1>2, <2>1
<1> QED
  BY <1>1, <1>2 DEF QueueTypeOK, WaitInv, SpokeInv

\* The account writes of the queue and of time do not reopen anything.
LEMMA WritesEnd ==
  ASSUME SpokeInv, OpInv, IInv, WriterStep
  PROVE  EndsStay
<1>1. UNCHANGED things => EndsStay
  BY DEF things, EndsStay
<1>2. ASSUME NEW o \in Op, Perform(o)
      PROVE  EndsStay
  BY <1>2, PerformWrites, AccountsKeepEnds
<1>3. ASSUME NEW m \in Member, TimePasses(m)
      PROVE  EndsStay
  BY <1>3, TimeWrites, AccountsKeepEnds
<1> QED
  BY <1>1, <1>2, <1>3 DEF WriterStep, Submit, PollReturns, PollRaises, SubmitRetag, RetagReturns,
    RetagRaises, Restart, Forget

LEMMA DirectQueue ==
  ASSUME IInv, SpokeInv, SpokeInv', QueueInv, LedgerKeeps, DirectStep
  PROVE  QueueInv'
<1>1. TandemNext /\ UNCHANGED <<ops, waiting, forgot>>
  BY DEF DirectStep, queueVars
<1>2. EndsStay /\ NoWait
  BY <1>1, DirectEnds, DirectWaits
<1>3. OpInv'
  BY <1>1, <1>2, SameOpsKeep DEF QueueInv
<1>4. QueueTypeOK' /\ WaitInv'
  BY <1>1, <1>2, QueueTypesKeep DEF QueueInv, QueueTypeOK, WaitInv, NoWait
<1> QED
  BY <1>3, <1>4 DEF QueueInv

LEMMA SubmitQueue ==
  ASSUME IInv, SpokeInv, SpokeInv', QueueInv, LedgerKeeps, EndsStay, NEW m \in Member, Submit(m)
  PROVE  QueueInv'
<1> DEFINE d == Current(m)
           o == ApplyOp(m, d)
<1>1. /\ m \in Gateway /\ inbound[m].batch # <<>> /\ UNCHANGED <<waiting, forgot>>
      /\ Drop(m) \/ (Step(m, "wait") /\ Post(o))
      /\ UNCHANGED ops \/ Post(o)
  BY DEF Submit, At, Nack
<1>2. d \in Delivery /\ d.key \in Key /\ CallsFor(o) /\ o \in Op
  <2>1. /\ d \in Delivery /\ d.key \in Key /\ Exists(d.key)
        /\ d.kind = "create" => transfers[d.key].to = m
        /\ d.kind # "create" => transfers[d.key].dst # None
    BY <1>1, CurrentKnown
  <2> QED
    BY <1>1, <2>1, ApplyOpIsOp DEF CallsFor, ApplyOp
<1>3. /\ ops' \in [Op -> {"none", "queued", "applied", "failed"}]
      /\ \A p \in Op : /\ p # o => ops'[p] = ops[p]
                       /\ ops[p] # "none" => ops'[p] # "none"
                       /\ ops'[p] = "applied" => ops[p] = "applied"
  <2>1. CASE Post(o)
    BY <1>2, <2>1, PostWrites DEF QueueInv
  <2>2. CASE UNCHANGED ops
    BY <2>2 DEF QueueInv, QueueTypeOK
  <2> QED
    BY <1>1, <2>1, <2>2
<1>4. OpInv'
  <2>1. \A p \in Op : ops'[p] # "none" => ops[p] # "none" \/ CallsFor(p)
    BY <1>2, <1>3
  <2>2. \A p \in Op : p.kind = "terminal" /\ ops'[p] = "applied" =>
                        ops[p] = "applied" \/ OwnClosed(p.in, p.key)'
    BY <1>3
  <2> QED
    BY <2>1, <2>2, OpKeeps DEF QueueInv
<1>5. \A n \in Member : At(n, "wait")' => \/ At(n, "wait") /\ Current(n)' = Current(n)
                                          \/ OpStatus(n)' # "none"
  <2>1. CASE Drop(m)
    <3>1. NoWait
      BY <1>1, <2>1, MovesWait
    <3> QED
      BY <3>1 DEF NoWait
  <2>2. CASE Step(m, "wait") /\ Post(o)
    <3>1. Current(m)' = d /\ \A n \in Member : n # m => inbound'[n] = inbound[n]
      <4>1. "wait" \in Place
        BY DEF Place
      <4> QED
        BY <2>2, <4>1, StepMoves DEF SpokeInv
    <3>2. ops'[o] # "none"
      BY <1>2, <2>2, PostWrites DEF QueueInv
    <3>3. OpStatus(m)' # "none"
      BY <3>1, <3>2 DEF OpStatus, ApplyOp
    <3>4. ASSUME NEW n \in Member, n # m, At(n, "wait")'
          PROVE  At(n, "wait") /\ Current(n)' = Current(n)
      BY <3>1, <3>4 DEF At, Current
    <3> QED
      BY <3>3, <3>4
  <2> QED
    BY <1>1, <2>1, <2>2
<1>6. waiting' \in [Member -> Op \cup {None}] /\ forgot' \in [Member -> Nat]
  BY <1>1 DEF QueueInv, WaitInv, QueueTypeOK
<1>7. QueueTypeOK' /\ WaitInv'
  BY <1>1, <1>3, <1>5, <1>6, QueueTypesKeep DEF QueueInv
<1> QED
  BY <1>4, <1>7 DEF QueueInv

LEMMA PollQueue ==
  ASSUME IInv, SpokeInv, SpokeInv', QueueInv, LedgerKeeps, EndsStay, NEW m \in Member,
         PollReturns(m) \/ PollRaises(m)
  PROVE  QueueInv'
<1>1. inbound[m].batch # <<>> /\ UNCHANGED <<ops, waiting, forgot>>
  BY DEF PollReturns, PollRaises, At, queueVars
<1>2. Drop(m) \/ \E place \in Place : place # "wait" /\ Step(m, place)
  <2>1. CASE PollReturns(m)
    <3>1. Step(m, "find") \/ Step(m, "ack")
      BY <2>1 DEF PollReturns, Proceed
    <3> QED
      BY <3>1 DEF Place
  <2>2. CASE PollRaises(m)
    BY <2>2 DEF PollRaises, Nack
  <2> QED
    BY <2>1, <2>2
<1>3. NoWait
  BY <1>1, <1>2, MovesWait
<1>4. OpInv'
  BY <1>1, SameOpsKeep DEF QueueInv
<1>5. QueueTypeOK' /\ WaitInv'
  BY <1>1, <1>3, QueueTypesKeep DEF QueueInv, QueueTypeOK, WaitInv, NoWait
<1> QED
  BY <1>4, <1>5 DEF QueueInv

LEMMA PerformQueue ==
  ASSUME IInv, SpokeInv, SpokeInv', QueueInv, LedgerKeeps, EndsStay, NEW o \in Op, Perform(o)
  PROVE  QueueInv'
<1>1. /\ ops[o] = "queued" /\ UNCHANGED <<vars, acted, inbound, waiting, forgot>>
      /\ \/ Effect(o) /\ ops' = [ops EXCEPT ![o] = "applied"]
         \/ ops' = [ops EXCEPT ![o] = "failed"]
  BY DEF Perform, apply
<1>2. ops \in [Op -> {"none", "queued", "applied", "failed"}]
  BY DEF QueueInv, QueueTypeOK
<1>3. /\ ops' \in [Op -> {"none", "queued", "applied", "failed"}]
      /\ \A p \in Op : ops'[p] # "none" <=> ops[p] # "none"
      /\ \A p \in Op : p # o => ops'[p] = ops[p]
  BY <1>1, <1>2
<1>4. ASSUME o.kind = "terminal", ops'[o] = "applied"
      PROVE  OwnClosed(o.in, o.key)'
  <2>1. Effect(o)
    BY <1>1, <1>2, <1>4
  <2>2. CompleteCopy(o.in, o) /\ o.in \in Member /\ o.key \in Key
    BY <1>4, <2>1 DEF Effect, Op
  <2>3. transfers[o.key].dst # None
    BY <1>1, <1>4 DEF QueueInv, OpInv, CallsFor
  <2>4. IF o.key.from = o.in THEN todo'[o.key].status # "open"
                             ELSE copies'[transfers[o.key].dst].status # "open"
    BY <1>1, <2>2, <2>3, CompleteCopyKeeps
  <2> QED
    BY <1>1, <2>4 DEF OwnClosed, vars
<1>5. OpInv'
  <2>1. \A p \in Op : ops'[p] # "none" => ops[p] # "none" \/ CallsFor(p)
    BY <1>3
  <2>2. \A p \in Op : p.kind = "terminal" /\ ops'[p] = "applied" =>
                        ops[p] = "applied" \/ OwnClosed(p.in, p.key)'
    BY <1>3, <1>4
  <2> QED
    BY <2>1, <2>2, OpKeeps DEF QueueInv
<1>6. NoWait
  BY <1>1, StillWaits
<1>7. waiting' \in [Member -> Op \cup {None}] /\ forgot' \in [Member -> Nat]
  BY <1>1 DEF QueueInv, WaitInv, QueueTypeOK
<1>8. QueueTypeOK' /\ WaitInv'
  BY <1>1, <1>3, <1>6, <1>7, QueueTypesKeep DEF QueueInv, NoWait
<1> QED
  BY <1>5, <1>8 DEF QueueInv

LEMMA SubmitRetagQueue ==
  ASSUME IInv, SpokeInv, SpokeInv', QueueInv, LedgerKeeps, EndsStay, NEW m \in Member,
         NEW e \in view[m], SubmitRetag(m, e)
  PROVE  QueueInv'
<1>1. UNCHANGED <<inbound, forgot>>
  BY DEF SubmitRetag, apply
<1>2. ops \in [Op -> {"none", "queued", "applied", "failed"}]
      /\ waiting \in [Member -> Op \cup {None}] /\ forgot' \in [Member -> Nat]
  BY <1>1 DEF QueueInv, QueueTypeOK, WaitInv
<1>3. NoWait
  BY <1>1, StillWaits
<1>4. CASE UNCHANGED ops /\ EndTick(m)
  <2>1. /\ waiting' \in [Member -> Op \cup {None}]
        /\ \A n \in Member : waiting'[n] \in {waiting[n], None}
    BY <1>2, <1>4 DEF EndTick
  <2>2. QueueTypeOK' /\ WaitInv'
    BY <1>2, <1>3, <1>4, <2>1, QueueTypesKeep DEF QueueInv, NoWait
  <2> QED
    BY <1>4, <2>2, SameOpsKeep DEF QueueInv
<1>5. ASSUME NEW n \in 0 .. Retries,
             ops' = [ops EXCEPT ![RetagOp(m, e.key, n)] = "queued"],
             waiting' = [waiting EXCEPT ![m] = RetagOp(m, e.key, n)]
      PROVE  QueueInv'
  <2> DEFINE o == RetagOp(m, e.key, n)
  <2>1. /\ m \in Gateway /\ e.key.from = m /\ e.applied
    BY DEF SubmitRetag, NeedsRetag
  <2>2. /\ e \in Entry /\ e.key \in Key /\ e.key \in watched[m] /\ transfers[e.key].dst # None
    BY <2>1 DEF SpokeInv, TandemTypeOK, ViewInv, Entry
  <2>3. Exists(e.key)
    BY <2>2 DEF IInv, WatchInv
  <2>4. o \in Op /\ o.key = e.key /\ o.in = m /\ o.kind = "retag"
    BY <2>2, RetagOpIsOp
  <2>5. CallsFor(o)
    BY <2>1, <2>2, <2>3, <2>4 DEF CallsFor
  <2> HIDE DEF o
  <2>6. /\ ops' \in [Op -> {"none", "queued", "applied", "failed"}]
        /\ ops'[o] = "queued" /\ \A p \in Op : p # o => ops'[p] = ops[p]
    BY <1>2, <1>5, <2>4 DEF o
  <2>7. OpInv'
    <3>1. \A p \in Op : ops'[p] # "none" => ops[p] # "none" \/ CallsFor(p)
      BY <2>5, <2>6
    <3>2. \A p \in Op : p.kind = "terminal" /\ ops'[p] = "applied" =>
                          ops[p] = "applied" \/ OwnClosed(p.in, p.key)'
      BY <2>6
    <3> QED
      BY <3>1, <3>2, OpKeeps DEF QueueInv
  <2>8. /\ waiting' \in [Member -> Op \cup {None}]
        /\ \A l \in Member : waiting'[l] \in {waiting[l], None} \/ ops'[waiting'[l]] # "none"
    <3>1. waiting' = [waiting EXCEPT ![m] = o]
      BY <1>5 DEF o
    <3>2. waiting'[m] = o /\ \A l \in Member : l # m => waiting'[l] = waiting[l]
      BY <1>2, <3>1
    <3> QED
      BY <1>2, <2>4, <2>6, <3>1, <3>2
  <2>9. \A p \in Op : ops[p] # "none" => ops'[p] # "none"
    BY <2>6
  <2>10. QueueTypeOK' /\ WaitInv'
    BY <1>2, <1>3, <2>6, <2>8, <2>9, QueueTypesKeep DEF QueueInv, NoWait
  <2> QED
    BY <2>7, <2>10 DEF QueueInv
<1> QED
  BY <1>4, <1>5 DEF SubmitRetag

\* The rest changes no operation and starts no waiting.
LEMMA RestQueue ==
  ASSUME IInv, SpokeInv, SpokeInv', QueueInv, LedgerKeeps, EndsStay, NEW m \in Member,
         RetagReturns(m) \/ RetagRaises(m) \/ Restart(m) \/ Forget(m) \/ TimePasses(m)
  PROVE  QueueInv'
<1>1. /\ inbound \in [Member -> [batch : Seq(Delivery), at : Place, late : SUBSET DstUuid]]
      /\ waiting \in [Member -> Op \cup {None}] /\ forgot \in [Member -> Nat]
      /\ ops \in [Op -> {"none", "queued", "applied", "failed"}]
  BY DEF SpokeInv, TandemTypeOK, QueueInv, QueueTypeOK, WaitInv
<1>2. UNCHANGED ops
  BY DEF RetagReturns, RetagRaises, Restart, Forget, TimePasses, queueVars
<1>3. NoWait
  <2>1. CASE Restart(m) \/ Forget(m)
    <3>1. inbound' = [inbound EXCEPT ![m] = Idle]
      BY <2>1 DEF Restart, Forget
    <3> QED
      BY <1>1, <3>1, NowhereWaits DEF Idle
  <2>2. CASE UNCHANGED inbound
    BY <2>2, StillWaits
  <2> QED
    BY <2>1, <2>2 DEF RetagReturns, RetagRaises, TimePasses, apply
<1>4. /\ waiting' \in [Member -> Op \cup {None}]
      /\ \A n \in Member : waiting'[n] \in {waiting[n], None}
  <2>1. UNCHANGED waiting \/ waiting' = [waiting EXCEPT ![m] = None]
    BY DEF RetagReturns, RetagRaises, Restart, Forget, TimePasses, queueVars, EndTick
  <2> QED
    BY <1>1, <2>1
<1>5. forgot' \in [Member -> Nat]
  <2>1. UNCHANGED forgot \/ forgot' = [forgot EXCEPT ![m] = @ + 1]
    BY DEF RetagReturns, RetagRaises, Restart, Forget, TimePasses, queueVars
  <2> QED
    BY <1>1, <2>1
<1>6. OpInv'
  BY <1>2, SameOpsKeep DEF QueueInv
<1>7. QueueTypeOK' /\ WaitInv'
  BY <1>1, <1>2, <1>3, <1>4, <1>5, QueueTypesKeep DEF QueueInv, NoWait
<1> QED
  BY <1>6, <1>7 DEF QueueInv

LEMMA QueueKeeps ==
  ASSUME IInv, SpokeInv, QueueInv, QueueNext
  PROVE  QueueInv'
<1>1. SpokeInv' /\ LedgerKeeps
  BY QueueSpoke, QueueIsLedger, LedgerStepKeeps
<1>2. CASE DirectStep
  BY <1>1, <1>2, DirectQueue
<1>3. CASE WriterStep
  <2>1. EndsStay
    BY <1>3, WritesEnd DEF QueueInv
  <2> QED
    BY <1>1, <1>3, <2>1, SubmitQueue, PollQueue, PerformQueue, SubmitRetagQueue, RestQueue
       DEF WriterStep
<1> QED
  BY <1>2, <1>3, DirectOrWriter

LEMMA QueueStutter == QueueInv /\ UNCHANGED systemVars => QueueInv'
<1> SUFFICES ASSUME QueueInv, UNCHANGED systemVars PROVE QueueInv'
  OBVIOUS
<1>1. UNCHANGED <<transfers, todo, copies, acted, sent, retagged, observed, view, journal,
                  inbound, ops, waiting, forgot>>
  BY DEF systemVars, allVars, vars, things, local, apply, queueVars
<1>2. TandemTypeOK'
  BY <1>1 DEF QueueInv, QueueTypeOK, TandemTypeOK
<1>3. OpInv' /\ WaitInv'
  BY <1>1 DEF QueueInv, OpInv, WaitInv, CallsFor, Exists, OwnClosed
<1> QED
  BY <1>1, <1>2, <1>3 DEF QueueInv, QueueTypeOK, At, OpStatus, Current, ApplyOp

LEMMA QueueStarts == QueueInit => Init /\ SpokeInv /\ QueueInv
<1> SUFFICES ASSUME QueueInit PROVE Init /\ SpokeInv /\ QueueInv
  OBVIOUS
<1>1. PICK k \in Todo : Start({k})
  BY DEF QueueInit
<1>2. {k} \in SUBSET Key
  BY TodoAssumption
<1>3. Init /\ SpokeInv
  BY <1>1, <1>2, SpokeInit DEF Start
<1>4. \A m \in Member : ~At(m, "wait")
  BY <1>1 DEF Start, Idle, At
<1>5. OpInv /\ WaitInv
  BY DEF QueueInit, OpInv, WaitInv
<1>6. TandemTypeOK
  BY <1>3 DEF SpokeInv
<1>7. /\ ops \in [Op -> {"none", "queued", "applied", "failed"}]
      /\ \A m \in Member : waiting[m] = None
      /\ forgot \in [Member -> Nat]
  BY DEF QueueInit
<1> QED
  BY <1>3, <1>4, <1>5, <1>6, <1>7 DEF QueueInv, QueueTypeOK

\* The invariant of the system with the queue, in any interleaving of spokes,
\* threads and the applier, with operations that are performed after their
\* writer gave up and a state database that is lost (writer_queue.py,
\* spoke/core.py and hub/ledger.py together).
THEOREM QueueInvariance == QueueSpec => [](IInv /\ SpokeInv /\ QueueInv)
<1>1. QueueInit => IInv /\ SpokeInv /\ QueueInv
  BY QueueStarts, InvInit
<1>2. IInv /\ SpokeInv /\ QueueInv /\ [QueueNext]_systemVars => (IInv /\ SpokeInv /\ QueueInv)'
  <2>1. CASE QueueNext
    BY <2>1, QueueIsLedger, InvNext, QueueSpoke, QueueKeeps
  <2>2. CASE UNCHANGED systemVars
    BY <2>2, SpokeStutter, QueueStutter, InvNext DEF systemVars, allVars
  <2> QED
    BY <2>1, <2>2
<1> QED
  BY <1>1, <1>2, PTL DEF QueueSpec

\* With the queue between them and the accounts the spokes are still a client
\* of the ledger, so that every theorem about it holds here too.
THEOREM QueueIsClient == QueueSpec => Spec
<1>1. QueueInit => Init
  BY QueueStarts
<1>2. IInv /\ SpokeInv /\ QueueInv /\ [QueueNext]_systemVars => [Next]_vars
  BY QueueIsLedger DEF systemVars, allVars
<1> QED
  BY <1>1, <1>2, QueueInvariance, PTL DEF QueueSpec, Spec

\* It implements the life cycle of a delegation as well.
THEOREM QueueImplementsLifecycle == QueueSpec => ImplementsLifecycle
BY QueueIsClient, LedgerImplementsLifecycle

\* Every variable of the queue holds a value of its type, and whoever waits
\* waits for an operation that was posted (_submit_and_wait).
THEOREM QueueTypes == QueueSpec => []QueueTypeOK
<1>1. QueueInv => QueueTypeOK
  BY DEF QueueInv
<1> QED
  BY <1>1, QueueInvariance, PTL

\* ROUND-TRIP with the queue: a resolved transfer with a copy has no open
\* side, although the completion is somebody else's write and may come late:
\* the spoke acks only after the record says applied.
THEOREM QueueClosesBothSides == QueueSpec => []BothSidesClosed
<1>1. SpokeInv => BothSidesClosed
  BY DEF SpokeInv
<1> QED
  BY <1>1, QueueInvariance, PTL

-----------------------------------------------------------------------------
(***************************************************************************)
(* How many copies a todo has.                                             *)
(***************************************************************************)
CopiesOf(k) == {u \in DstUuid : copies[u].of = k}

\* No journal row keeps the create of k from being fired, or not any longer.
MayFire(k) == journal[k] = NoJournal \/ \E m \in Member : At(m, "fire") /\ Current(m).key = k

\* The operation that the idempotency key of k's create names.
CreateOp(k) == [kind |-> "create", key |-> k, in |-> transfers[k].to, try |-> 0]

\* A recipient that writes through the queue has a copy only from the one
\* operation.  Another has one copy, and one more for each journal that was
\* lost; as long as its spoke may fire, it has one less.
CountOf(k) ==
  /\ IsFiniteSet(CopiesOf(k))
  /\ transfers[k].to \in Gateway =>
       Cardinality(CopiesOf(k)) <= IF ops[CreateOp(k)] = "applied" THEN 1 ELSE 0
  /\ transfers[k].to \notin Gateway =>
       Cardinality(CopiesOf(k)) + (IF MayFire(k) THEN 1 ELSE 0) <= 1 + forgot[transfers[k].to]

CountInv == \A k \in Key : Exists(k) => CountOf(k)

LossesCount == /\ forgot \in [Member -> Nat] /\ forgot' \in [Member -> Nat]
               /\ \A n \in Member : forgot[n] <= forgot'[n]

LEMMA LossesStay ==
  ASSUME QueueInv, UNCHANGED forgot
  PROVE  LossesCount
<1>1. forgot \in [Member -> Nat]
  BY DEF QueueInv, QueueTypeOK
<1> QED
  BY <1>1 DEF LossesCount

LEMMA CreateOpIsOp ==
  ASSUME IInv, NEW k \in Key, Exists(k)
  PROVE  CreateOp(k) \in Op
<1>1. transfers[k].to \in Member
  BY TransferTypes DEF Exists
<1> QED
  BY <1>1, RetriesAssumption DEF CreateOp, Op

\* What a transfer without a copy is allowed.
LEMMA NoneCounts ==
  ASSUME NEW n \in Nat, NEW S, S = {}, NEW b
  PROVE  /\ IsFiniteSet(S) /\ Cardinality(S) = 0
         /\ Cardinality(S) <= IF b THEN 1 ELSE 0
         /\ Cardinality(S) + (IF b THEN 1 ELSE 0) <= 1 + n
<1>1. IsFiniteSet(S) /\ Cardinality(S) = 0
  BY FS_EmptySet
<1> QED
  BY <1>1

\* The copies of k stay the same and its spoke does not come to fire.
LEMMA CountStays ==
  ASSUME IInv, NEW k \in Key, Exists(k), CountOf(k), LedgerKeeps, LossesCount,
         \A u \in DstUuid : copies'[u].of = k <=> copies[u].of = k,
         ops[CreateOp(k)] = "applied" => ops'[CreateOp(k)] = "applied",
         MayFire(k)' => MayFire(k)
  PROVE  CountOf(k)'
<1> DEFINE n == Cardinality(CopiesOf(k))
           to == transfers[k].to
<1>1. transfers'[k].to = to /\ to \in Member
  BY TransferTypes DEF LedgerKeeps
<1>2. CreateOp(k)' = CreateOp(k)
  BY <1>1 DEF CreateOp
<1>3. CopiesOf(k)' = CopiesOf(k)
  BY DEF CopiesOf
<1>4. IsFiniteSet(CopiesOf(k)) /\ n \in Nat
  BY FS_CardinalityType DEF CountOf
<1>5. forgot[to] \in Nat /\ forgot'[to] \in Nat /\ forgot[to] <= forgot'[to]
  BY <1>1 DEF LossesCount
<1>6. /\ to \in Gateway => n <= IF ops[CreateOp(k)] = "applied" THEN 1 ELSE 0
      /\ to \notin Gateway => n + (IF MayFire(k) THEN 1 ELSE 0) <= 1 + forgot[to]
  BY DEF CountOf
<1> HIDE DEF n, to, CreateOp, MayFire
<1>7. to \in Gateway => n <= IF ops'[CreateOp(k)] = "applied" THEN 1 ELSE 0
  BY <1>4, <1>6
<1>8. to \notin Gateway => n + (IF MayFire(k)' THEN 1 ELSE 0) <= 1 + forgot'[to]
  BY <1>4, <1>5, <1>6
<1> QED
  BY <1>1, <1>2, <1>3, <1>4, <1>7, <1>8 DEF CountOf, n

\* A transfer that is new has no copy.
LEMMA NewCounts ==
  ASSUME SpokeInv, IInv', LossesCount, NEW k \in Key, ~Exists(k), Exists(k)',
         \A u \in DstUuid : copies'[u].of = k => copies[u].of = k
  PROVE  CountOf(k)'
<1>1. CopiesOf(k)' = {}
  BY CopyAssumption DEF SpokeInv, CopyInv, CopiesOf
<1>2. transfers'[k].to \in Member
  BY DEF IInv, TypeOK, Transfer, TransferInv, Exists
<1>3. forgot'[transfers'[k].to] \in Nat
  BY <1>2 DEF LossesCount
<1>4. /\ IsFiniteSet(CopiesOf(k)')
      /\ Cardinality(CopiesOf(k)') <= IF ops'[CreateOp(k)'] = "applied" THEN 1 ELSE 0
      /\ Cardinality(CopiesOf(k)') + (IF MayFire(k)' THEN 1 ELSE 0) <= 1 + forgot'[transfers'[k].to]
  BY <1>1, <1>3, NoneCounts
<1> QED
  BY <1>4 DEF CountOf

\* No copy of another todo than j is made; j is seen to.
LEMMA CountOthers ==
  ASSUME IInv, IInv', SpokeInv, CountInv, LedgerKeeps, LossesCount, NEW j, j \in Key => CountOf(j)',
         \A u \in DstUuid : copies'[u].of = copies[u].of \/ (copies[u].of = None /\ copies'[u].of = j),
         \A o \in Op : ops[o] = "applied" => ops'[o] = "applied",
         \A k \in Key : k # j /\ Exists(k) => (MayFire(k)' => MayFire(k))
  PROVE  CountInv'
<1> SUFFICES ASSUME NEW k \in Key, Exists(k)', k # j PROVE CountOf(k)'
  BY DEF CountInv
<1>1. \A u \in DstUuid : copies'[u].of = k <=> copies[u].of = k
  BY CopyAssumption
<1>2. CASE Exists(k)
  BY <1>1, <1>2, CreateOpIsOp, CountStays DEF CountInv
<1>3. CASE ~Exists(k)
  BY <1>1, <1>3, NewCounts
<1> QED
  BY <1>2, <1>3

\* No copy is made.
LEMMA CountQuiet ==
  ASSUME IInv, IInv', SpokeInv, CountInv, LedgerKeeps, LossesCount, SameCopies,
         \A o \in Op : ops[o] = "applied" => ops'[o] = "applied",
         \A k \in Key : Exists(k) => (MayFire(k)' => MayFire(k))
  PROVE  CountInv'
BY CountOthers, CopyAssumption DEF SameCopies

\* One copy of k more.
LEMMA OneMore ==
  ASSUME SpokeInv, NEW k \in Key, IsFiniteSet(CopiesOf(k)), NEW u \in NextCopy, NEW coming \in BOOLEAN,
         copies' = [copies EXCEPT ![u].of = k, ![u].coming = coming]
  PROVE  /\ IsFiniteSet(CopiesOf(k)')
         /\ Cardinality(CopiesOf(k)') = Cardinality(CopiesOf(k)) + 1
         /\ Cardinality(CopiesOf(k)) \in Nat
         /\ \A v \in DstUuid : \/ copies'[v].of = copies[v].of
                               \/ copies[v].of = None /\ copies'[v].of = k
<1>1. u \in DstUuid /\ copies[u].of = None
  BY DEF NextCopy
<1>2. copies \in [DstUuid -> [of : Key \cup {None}, status : Status, aged : BOOLEAN, coming : BOOLEAN]]
  BY DEF SpokeInv, TandemTypeOK
<1>3. copies'[u].of = k /\ \A v \in DstUuid : v # u => copies'[v].of = copies[v].of
  BY <1>1, <1>2
<1>4. CopiesOf(k)' = CopiesOf(k) \cup {u} /\ u \notin CopiesOf(k)
  BY <1>1, <1>3, CopyAssumption DEF CopiesOf
<1>5. \A v \in DstUuid : copies'[v].of = copies[v].of \/ (copies[v].of = None /\ copies'[v].of = k)
  BY <1>1, <1>3
<1>6. /\ IsFiniteSet(CopiesOf(k) \cup {u})
      /\ Cardinality(CopiesOf(k) \cup {u}) = Cardinality(CopiesOf(k)) + 1
  BY <1>4, FS_AddElement
<1>7. Cardinality(CopiesOf(k)) \in Nat
  BY FS_CardinalityType
<1> QED
  BY <1>4, <1>5, <1>6, <1>7

\* The spoke of a member writes to its account itself.
LEMMA FireCount ==
  ASSUME IInv, IInv', SpokeInv, CountInv, LedgerKeeps, LossesCount, UNCHANGED queueVars,
         NEW m \in Member, Fire(m), m \notin Gateway
  PROVE  CountInv'
<1>0. PICK k \in Key : k = Current(m).key
  BY FireWrites
<1>1. /\ At(m, "fire") /\ ~At(m, "fire")' /\ Exists(k) /\ transfers[k].to = m
      /\ journal[k].open /\ UNCHANGED journal
      /\ \A n \in Member : n # m => inbound'[n] = inbound[n]
  BY <1>0, FireWrites
<1>3. UNCHANGED <<ops, forgot>>
  BY DEF queueVars
<1>4. \A n \in Member : At(n, "fire")' => n # m /\ At(n, "fire") /\ Current(n)' = Current(n)
  BY <1>1 DEF At, Current
<1>5. \A j \in Key : MayFire(j)' => MayFire(j)
  <2> SUFFICES ASSUME NEW j \in Key, MayFire(j)' PROVE MayFire(j)
    OBVIOUS
  <2>1. CASE journal'[j] = NoJournal
    BY <1>1, <2>1 DEF MayFire
  <2>2. CASE \E n \in Member : At(n, "fire")' /\ Current(n)'.key = j
    BY <1>4, <2>2 DEF MayFire
  <2> QED
    BY <2>1, <2>2 DEF MayFire
<1>6. MayFire(k) /\ ~MayFire(k)'
  <2>1. MayFire(k)
    BY <1>0, <1>1 DEF MayFire
  <2>2. ASSUME NEW n \in Member, At(n, "fire")', Current(n)'.key = k
        PROVE  FALSE
    <3>1. n # m /\ At(n, "fire") /\ Current(n).key = k
      BY <1>4, <2>2
    <3>2. inbound[n].batch # <<>> /\ Current(n).kind = "create"
      BY <3>1 DEF At, SpokeInv, PlaceInv, PlaceOf
    <3>3. transfers[Current(n).key].to = n
      BY <3>2, CurrentKnown
    <3> QED
      BY <1>1, <3>1, <3>3
  <2>3. journal'[k] # NoJournal
    BY <1>1 DEF NoJournal
  <2> QED
    BY <2>1, <2>2, <2>3 DEF MayFire
<1>7. CASE UNCHANGED copies
  BY <1>3, <1>5, <1>7, CountQuiet DEF SameCopies
<1>8. ASSUME NEW u \in NextCopy, NEW coming \in BOOLEAN,
             copies' = [copies EXCEPT ![u].of = Current(m).key, ![u].coming = coming]
      PROVE  CountInv'
  <2>0. copies' = [copies EXCEPT ![u].of = k, ![u].coming = coming]
    BY <1>0, <1>8
  <2>1. /\ IsFiniteSet(CopiesOf(k))
        /\ Cardinality(CopiesOf(k)) + (IF MayFire(k) THEN 1 ELSE 0) <= 1 + forgot[m]
    BY <1>0, <1>1 DEF CountInv, CountOf
  <2>2. /\ IsFiniteSet(CopiesOf(k)')
        /\ Cardinality(CopiesOf(k)') = Cardinality(CopiesOf(k)) + 1
        /\ Cardinality(CopiesOf(k)) \in Nat
        /\ \A v \in DstUuid : \/ copies'[v].of = copies[v].of
                              \/ copies[v].of = None /\ copies'[v].of = k
    BY <2>0, <2>1, OneMore
  <2>3. transfers'[k].to = m /\ forgot'[m] = forgot[m] /\ forgot[m] \in Nat
    BY <1>0, <1>1, <1>3 DEF LedgerKeeps, LossesCount
  <2>4. Cardinality(CopiesOf(k)') + (IF MayFire(k)' THEN 1 ELSE 0) <= 1 + forgot'[m]
    BY <1>6, <2>1, <2>2, <2>3
  <2>5. CountOf(k)'
    BY <2>2, <2>3, <2>4 DEF CountOf
  <2> QED
    BY <1>0, <1>3, <1>5, <2>2, <2>5, CountOthers
<1>9. \/ UNCHANGED copies
      \/ \E u \in NextCopy, coming \in BOOLEAN :
           /\ \A v \in NextCopy : u <= v
           /\ copies' = [copies EXCEPT ![u].of = Current(m).key, ![u].coming = coming]
  BY FireWrites
<1> QED
  BY <1>7, <1>8, <1>9

LEMMA DirectCount ==
  ASSUME IInv, IInv', SpokeInv, QueueInv, CountInv, LedgerKeeps, DirectStep
  PROVE  CountInv'
<1>1. UNCHANGED queueVars /\ UNCHANGED <<ops, forgot>> /\ LossesCount
  BY LossesStay DEF DirectStep, queueVars
<1>2. CASE Calm
  <2>1. \A k \in Key : MayFire(k)' => MayFire(k)
    BY <1>2 DEF Calm, NoFire, MayFire
  <2> QED
    BY <1>1, <1>2, <2>1, CountQuiet DEF Calm
<1>3. ASSUME NEW m \in Member, Intend(m)
      PROVE  CountInv'
  <2> DEFINE j == Current(m).key
  <2>1. /\ j \in Key /\ journal[j] = NoJournal /\ journal'[j].open
        /\ \A k \in Key : k # j => journal'[k] = journal[k]
        /\ UNCHANGED things /\ Current(m)' = Current(m)
        /\ \A n \in Member : n # m => inbound'[n] = inbound[n]
    BY <1>3, IntendWrites
  <2>2. ASSUME NEW k \in Key, k # j, MayFire(k)'
        PROVE  MayFire(k)
    <3>1. CASE journal'[k] = NoJournal
      BY <2>1, <2>2, <3>1 DEF MayFire
    <3>2. ASSUME NEW n \in Member, At(n, "fire")', Current(n)'.key = k
          PROVE  MayFire(k)
      <4>1. n # m
        BY <2>1, <2>2, <3>2
      <4>2. At(n, "fire") /\ Current(n).key = k
        BY <2>1, <3>2, <4>1 DEF At, Current
      <4> QED
        BY <4>2 DEF MayFire
    <3> QED
      BY <2>2, <3>1, <3>2 DEF MayFire
  <2>3. \A k \in Key : MayFire(k)' => MayFire(k)
    BY <2>1, <2>2 DEF MayFire
  <2> QED
    BY <1>1, <2>1, <2>3, CountQuiet DEF SameCopies, things
<1>4. ASSUME NEW m \in Member, Correlate(m)
      PROVE  CountInv'
  <2> DEFINE j == Current(m).key
  <2>1. /\ j \in Key /\ \E u \in Found(m, j) : journal'[j].dst = u
        /\ \A k \in Key : k # j => journal'[k] = journal[k]
        /\ UNCHANGED things /\ ~At(m, "fire")'
        /\ \A n \in Member : n # m => inbound'[n] = inbound[n]
    BY <1>4, CorrelateWrites
  <2>2. journal'[j] # NoJournal
    BY <2>1, UuidAssumption DEF NoJournal, Found, InAccount
  <2>3. \A n \in Member : At(n, "fire")' => At(n, "fire") /\ Current(n)' = Current(n)
    BY <2>1 DEF At, Current
  <2>4. \A k \in Key : MayFire(k)' => MayFire(k)
    BY <2>1, <2>2, <2>3 DEF MayFire
  <2> QED
    BY <1>1, <2>1, <2>4, CountQuiet DEF SameCopies, things
<1> QED
  BY <1>1, <1>2, <1>3, <1>4, FireCount DEF DirectStep

\* An operation is performed once, so that its key names one copy.
LEMMA PerformCount ==
  ASSUME IInv, IInv', SpokeInv, QueueInv, CountInv, LedgerKeeps, NEW o \in Op, Perform(o)
  PROVE  CountInv'
<1>1. /\ ops[o] = "queued" /\ UNCHANGED <<vars, journal, inbound, forgot>>
      /\ \/ Effect(o) /\ ops' = [ops EXCEPT ![o] = "applied"]
         \/ ops' = [ops EXCEPT ![o] = "failed"] /\ UNCHANGED <<todo, copies>>
  BY DEF Perform, apply
<1>2. /\ ops \in [Op -> {"none", "queued", "applied", "failed"}]
      /\ copies \in [DstUuid -> [of : Key \cup {None}, status : Status, aged : BOOLEAN, coming : BOOLEAN]]
  BY DEF QueueInv, QueueTypeOK, SpokeInv, TandemTypeOK
<1>3. \A p \in Op : ops[p] = "applied" => ops'[p] = "applied"
  BY <1>1, <1>2
<1>4. \A k \in Key : MayFire(k)' => MayFire(k)
  BY <1>1 DEF MayFire, At, Current
<1>0. LossesCount
  BY <1>1, LossesStay
<1>5. CASE SameCopies
  BY <1>0, <1>1, <1>3, <1>4, <1>5, CountQuiet
<1>6. CASE Effect(o) /\ o.kind = "create" /\ ops' = [ops EXCEPT ![o] = "applied"]
  <2> DEFINE k == o.key
  <2>1. k \in Key /\ Exists(k) /\ transfers[k].to = o.in /\ o.in \in Gateway /\ o.try = 0
    BY <1>1, <1>6 DEF QueueInv, OpInv, CallsFor, Op
  <2>2. o = CreateOp(k)
    BY <1>6, <2>1 DEF CreateOp, Op
  <2>3. IsFiniteSet(CopiesOf(k)) /\ Cardinality(CopiesOf(k)) <= 0
    BY <1>1, <2>1, <2>2 DEF CountInv, CountOf
  <2>4. PICK u \in NextCopy, coming \in BOOLEAN :
          copies' = [copies EXCEPT ![u].of = k, ![u].coming = coming]
    BY <1>6 DEF Effect, TellThings, MakeCopy
  <2>5. /\ IsFiniteSet(CopiesOf(k)')
        /\ Cardinality(CopiesOf(k)') = Cardinality(CopiesOf(k)) + 1
        /\ Cardinality(CopiesOf(k)) \in Nat
        /\ \A v \in DstUuid : \/ copies'[v].of = copies[v].of
                              \/ copies[v].of = None /\ copies'[v].of = k
    BY <2>1, <2>3, <2>4, OneMore
  <2>6. Cardinality(CopiesOf(k)') <= 1
    BY <2>3, <2>5
  <2>7. ops'[CreateOp(k)'] = "applied" /\ transfers'[k].to \in Gateway
    BY <1>1, <1>2, <1>6, <2>1, <2>2 DEF CreateOp, vars
  <2>8. CountOf(k)'
    BY <2>5, <2>6, <2>7 DEF CountOf
  <2> HIDE DEF k
  <2> QED
    BY <1>0, <1>3, <1>4, <2>5, <2>8, CountOthers
<1>7. CASE Effect(o) /\ o.kind # "create"
  <2>1. UNCHANGED copies \/ CompleteCopy(o.in, o)
    BY <1>7 DEF Effect, Op
  <2>2. SameCopies
    BY <1>2, <2>1 DEF CompleteCopy, SameCopies
  <2> QED
    BY <1>5, <2>2
<1> QED
  BY <1>1, <1>5, <1>6, <1>7 DEF SameCopies

\* The one step that lets a create be fired again.
LEMMA ForgetCount ==
  ASSUME IInv, SpokeInv, QueueInv, CountInv, LedgerKeeps, NEW m \in Member, Forget(m)
  PROVE  CountInv'
<1>1. /\ forgot' = [forgot EXCEPT ![m] = @ + 1] /\ UNCHANGED <<vars, things, ops>>
      /\ inbound' = [inbound EXCEPT ![m] = Idle]
      /\ journal' = [k \in Key |-> IF transfers[k].to = m THEN NoJournal ELSE journal[k]]
  BY DEF Forget
<1>2. /\ inbound \in [Member -> [batch : Seq(Delivery), at : Place, late : SUBSET DstUuid]]
      /\ forgot \in [Member -> Nat]
  BY DEF SpokeInv, TandemTypeOK, QueueInv, QueueTypeOK
<1>3. ~At(m, "fire")' /\ \A n \in Member : n # m => inbound'[n] = inbound[n]
  BY <1>1, <1>2 DEF At, Idle
<1>7. forgot'[m] = forgot[m] + 1 /\ LossesCount
  BY <1>1, <1>2 DEF LossesCount
<1> SUFFICES ASSUME NEW k \in Key, Exists(k) PROVE CountOf(k)'
  BY <1>1 DEF CountInv, Exists, vars
<1>4. UNCHANGED <<transfers, copies, ops>>
  BY <1>1 DEF vars, things
<1>5. CASE transfers[k].to = m
  <2> DEFINE n == Cardinality(CopiesOf(k))
  <2>1. /\ IsFiniteSet(CopiesOf(k))
        /\ m \in Gateway => n <= IF ops[CreateOp(k)] = "applied" THEN 1 ELSE 0
        /\ m \notin Gateway => n + (IF MayFire(k) THEN 1 ELSE 0) <= 1 + forgot[m]
    BY <1>5 DEF CountInv, CountOf
  <2>2. n \in Nat /\ forgot[m] \in Nat
    BY <1>2, <2>1, FS_CardinalityType
  <2>3. /\ CopiesOf(k)' = CopiesOf(k) /\ CreateOp(k)' = CreateOp(k) /\ transfers'[k].to = m
    BY <1>4, <1>5 DEF CopiesOf, CreateOp
  <2>4. m \notin Gateway => n + (IF MayFire(k)' THEN 1 ELSE 0) <= 1 + forgot'[m]
    BY <1>7, <2>1, <2>2
  <2> QED
    BY <1>4, <2>1, <2>3, <2>4 DEF CountOf
<1>6. CASE transfers[k].to # m
  <2>1. journal'[k] = journal[k]
    BY <1>1, <1>6
  <2>2. \A n \in Member : At(n, "fire")' => At(n, "fire") /\ Current(n)' = Current(n)
    BY <1>3 DEF At, Current
  <2>3. MayFire(k)' => MayFire(k)
    BY <2>1, <2>2 DEF MayFire
  <2> QED
    BY <1>4, <1>7, <2>3, CountStays DEF CountInv
<1> QED
  BY <1>5, <1>6

LEMMA SubmitCount ==
  ASSUME IInv, IInv', SpokeInv, QueueInv, CountInv, LedgerKeeps, NEW m \in Member,
         Submit(m) \/ PollReturns(m) \/ PollRaises(m)
  PROVE  CountInv'
<1>1. inbound[m].batch # <<>> /\ UNCHANGED <<things, journal, forgot>>
  BY DEF Submit, PollReturns, PollRaises, At, queueVars
<1>2. \A o \in Op : ops[o] = "applied" => ops'[o] = "applied"
  <2>1. CASE Post(ApplyOp(m, Current(m)))
    <3>1. ApplyOp(m, Current(m)) \in Op
      BY <1>1, CurrentKnown, ApplyOpIsOp
    <3> QED
      BY <2>1, <3>1, PostWrites DEF QueueInv
  <2> QED
    BY <2>1 DEF Submit, PollReturns, PollRaises, queueVars
<1>3. Drop(m) \/ Step(m, "wait") \/ Step(m, "find") \/ Step(m, "ack")
  BY DEF Submit, PollReturns, PollRaises, Nack, Proceed
<1>4. NoFire
  BY <1>1, <1>3, DropIsFar, StepIsFar DEF Place
<1>5. \A k \in Key : MayFire(k)' => MayFire(k)
  BY <1>1, <1>4 DEF NoFire, MayFire
<1> QED
  BY <1>1, <1>2, <1>5, LossesStay, CountQuiet DEF SameCopies, things

LEMMA RestCount ==
  ASSUME IInv, IInv', SpokeInv, QueueInv, CountInv, LedgerKeeps, NEW m \in Member,
         \/ \E e \in view[m] : SubmitRetag(m, e)
         \/ RetagReturns(m) \/ RetagRaises(m) \/ Restart(m) \/ TimePasses(m)
  PROVE  CountInv'
<1>0. inbound \in [Member -> [batch : Seq(Delivery), at : Place, late : SUBSET DstUuid]]
  BY DEF SpokeInv, TandemTypeOK
<1>1. UNCHANGED <<journal, forgot>> /\ (UNCHANGED inbound \/ inbound' = [inbound EXCEPT ![m] = Idle])
  BY DEF SubmitRetag, RetagReturns, RetagRaises, Restart, TimePasses, apply, queueVars
<1>2. SameCopies
  <2>1. CASE TimePasses(m)
    BY <2>1, TimeWrites DEF SameCopies
  <2>2. CASE UNCHANGED things
    BY <2>2 DEF things, SameCopies
  <2> QED
    BY <2>1, <2>2 DEF SubmitRetag, RetagReturns, RetagRaises, Restart
<1>3. \A o \in Op : ops[o] = "applied" => ops'[o] = "applied"
  <2>1. ASSUME NEW p, ops[p] = "none", ops' = [ops EXCEPT ![p] = "queued"]
        PROVE  \A o \in Op : ops[o] = "applied" => ops'[o] = "applied"
    BY <2>1 DEF QueueInv, QueueTypeOK
  <2> QED
    BY <2>1 DEF SubmitRetag, RetagReturns, RetagRaises, Restart, TimePasses, queueVars
<1>4. NoFire
  <2>1. CASE UNCHANGED inbound
    BY <2>1 DEF NoFire, At, Current
  <2>2. CASE inbound' = [inbound EXCEPT ![m] = Idle]
    BY <1>0, <2>2 DEF NoFire, At, Current, Idle
  <2> QED
    BY <1>1, <2>1, <2>2
<1>5. \A k \in Key : MayFire(k)' => MayFire(k)
  BY <1>1, <1>4 DEF NoFire, MayFire
<1> QED
  BY <1>1, <1>2, <1>3, <1>5, LossesStay, CountQuiet

LEMMA CountKeeps ==
  ASSUME IInv, SpokeInv, QueueInv, CountInv, QueueNext
  PROVE  CountInv'
<1>1. LedgerKeeps /\ IInv'
  BY QueueIsLedger, LedgerStepKeeps, InvNext
<1> QED
  BY <1>1, DirectOrWriter, DirectCount, PerformCount, ForgetCount, SubmitCount, RestCount
     DEF WriterStep

\* NO-DUP with the queue, however the operations and the steps of the spokes
\* interleave and however often they are started again (the journal and the
\* idempotency key of _apply_create).  A recipient that writes through the
\* queue has one copy of a todo at most; another has one more at most for each
\* time that its own state database was lost, so that a second copy takes one
\* loss, a third takes two.
THEOREM DuplicatesNeedAmnesia == QueueSpec => []DuplicateNeedsAmnesia
<1>1. QueueInit => CountInv
  <2> SUFFICES ASSUME QueueInit PROVE CountInv
    OBVIOUS
  <2>1. Init
    BY QueueStarts
  <2> QED
    BY <2>1 DEF Init, NoTransfer, CountInv, Exists
<1>2. IInv /\ SpokeInv /\ QueueInv /\ CountInv /\ [QueueNext]_systemVars => CountInv'
  <2>1. CountInv /\ UNCHANGED systemVars => CountInv'
    <3> SUFFICES ASSUME CountInv, UNCHANGED systemVars PROVE CountInv'
      OBVIOUS
    <3>1. UNCHANGED <<transfers, copies, journal, inbound, ops, forgot>>
      BY DEF systemVars, allVars, vars, things, apply, queueVars
    <3> QED
      BY <3>1 DEF CountInv, CountOf, Exists, CopiesOf, MayFire, CreateOp, At, Current
  <2> QED
    BY <2>1, CountKeeps
<1>3. IInv /\ QueueInv /\ CountInv => DuplicateNeedsAmnesia
  <2> SUFFICES ASSUME IInv, QueueInv, CountInv, NEW k \in Key, Exists(k)
               PROVE  Cardinality(CopiesOf(k)) <= 1 + Excess(k)
    BY DEF DuplicateNeedsAmnesia, CopiesOf
  <2>1. transfers[k].to \in Member /\ forgot[transfers[k].to] \in Nat
    BY TransferTypes DEF QueueInv, QueueTypeOK
  <2>2. CountOf(k) /\ Cardinality(CopiesOf(k)) \in Nat
    BY FS_CardinalityType DEF CountInv, CountOf
  <2> QED
    BY <2>1, <2>2 DEF CountOf, Excess
<1> QED
  BY <1>1, <1>2, <1>3, QueueInvariance, PTL DEF QueueSpec
=============================================================================
