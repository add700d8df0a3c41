-------------------------- MODULE TandemCopiesProofs --------------------------
(***************************************************************************)
(* Theorems about the copies that the spokes of Tandem make: NO-DUP, which *)
(* copy a transfer is mapped to, and when that copy is its own.            *)
(***************************************************************************)
EXTENDS TandemProofs

(***************************************************************************)
(* The journal and the copies.                                             *)
(***************************************************************************)
\* A copy is made after its journal row, and only while there is none.
FiredInv ==
  /\ \A u \in DstUuid : copies[u].of # None => journal[copies[u].of] # NoJournal
  /\ \A m \in Member : At(m, "fire") => \A u \in DstUuid : copies[u].of # Current(m).key

\* A journaled uuid is a copy at the recipient of the transfer, with its title
\* and from its sender, and no other row has it.
MappedInv ==
  \A k \in Key : journal[k].dst # None =>
    /\ copies[journal[k].dst].of # None
    /\ Title[copies[journal[k].dst].of] = Title[k]
    /\ copies[journal[k].dst].of.from = k.from
    /\ Exists(k) /\ transfers[copies[journal[k].dst].of].to = transfers[k].to
    /\ \A j \in Key : journal[j].dst = journal[k].dst => j = k

\* What the hub knows of a copy it has from the journal.
DstInv == \A k \in Key : transfers[k].dst # None => transfers[k].dst = journal[k].dst

CopiesInv == FiredInv /\ MappedInv /\ DstInv /\ NoDup

-----------------------------------------------------------------------------
(***************************************************************************)
(* What the steps do to the copies and to the journal.                     *)
(***************************************************************************)
SameCopies == \A u \in DstUuid : copies'[u].of = copies[u].of
NoFire == \A m \in Member : At(m, "fire")' => At(m, "fire") /\ Current(m)' = Current(m)

\* No copy is made and no journal row is written.
Calm == SameCopies /\ UNCHANGED journal /\ NoFire

LEMMA NowhereNear ==
  ASSUME NEW m \in Member, inbound'[m].at # "fire",
         \A n \in Member : n # m => inbound'[n] = inbound[n]
  PROVE  NoFire
BY DEF NoFire, At, Current

LEMMA StillThere ==
  ASSUME UNCHANGED inbound
  PROVE  NoFire
BY DEF NoFire, At, Current

LEMMA DropIsFar ==
  ASSUME SpokeInv, NEW m \in Member, inbound[m].batch # <<>>, Drop(m)
  PROVE  NoFire
BY DropMoves, NowhereNear DEF SpokeInv

LEMMA StepIsFar ==
  ASSUME SpokeInv, NEW m \in Member, NEW place \in Place, place # "fire", Step(m, place)
  PROVE  NoFire
BY StepMoves, NowhereNear DEF SpokeInv

LEMMA AckDrops ==
  ASSUME NEW m, NEW A, HubAck(m, A)
  PROVE  Drop(m)
BY DEF HubAck, Nack

\* The steps of the inbound phase that write neither.
LEMMA ApplyCalm ==
  ASSUME SpokeInv, NEW m \in Member,
         \/ Reack(m) \/ Recorrelate(m) \/ CorrelateTimesOut(m)
         \/ AckCopy(m) \/ ApplyTerminal(m) \/ AckEcho(m)
  PROVE  Calm
<1>1. inbound[m].batch # <<>> /\ UNCHANGED journal
  BY DEF Reack, Recorrelate, CorrelateTimesOut, AckCopy, ApplyTerminal, AckEcho, At
<1>2. copies \in [DstUuid -> [of : Key \cup {None}, status : Status, aged : BOOLEAN, coming : BOOLEAN]]
  BY DEF SpokeInv, TandemTypeOK
<1>3. CASE Reack(m) \/ AckCopy(m) \/ AckEcho(m)
  BY <1>1, <1>3, AckDrops, DropIsFar DEF Reack, AckCopy, AckEcho, things, Calm, SameCopies
<1>4. CASE Recorrelate(m)
  BY <1>1, <1>4, StepIsFar DEF Recorrelate, things, Calm, SameCopies, Place
<1>5. CASE CorrelateTimesOut(m)
  <2>1. Drop(m)
    BY <1>5 DEF CorrelateTimesOut, Nack
  <2>2. SameCopies
    BY <1>2, <1>5 DEF CorrelateTimesOut, Grow, SameCopies
  <2> QED
    BY <1>1, <2>1, <2>2, DropIsFar DEF Calm
<1>6. CASE ApplyTerminal(m)
  <2>1. Drop(m) \/ Step(m, "ack")
    BY <1>6 DEF ApplyTerminal, Nack
  <2>2. NoFire
    BY <1>1, <2>1, DropIsFar, StepIsFar DEF Place
  <2>3. SameCopies
    BY <1>2, <1>6 DEF ApplyTerminal, CompleteCopy, SameCopies
  <2> QED
    BY <1>1, <2>2, <2>3 DEF Calm
<1> QED
  BY <1>3, <1>4, <1>5, <1>6

LEMMA WalkCalm ==
  ASSUME SpokeInv, NEW m \in Member, NEW e \in Entry, Walk(m, e)
  PROVE  Calm
BY StillThere DEF Walk, Report, Retag, PassOver, things, apply, Calm, SameCopies

LEMMA RestCalm ==
  ASSUME SpokeInv,
         \/ \E m \in Member : \/ \E k \in Todo : Outbound(m, k)
                              \/ Lease(m)
                              \/ GetWatch(m)
                              \/ Crash(m)
         \/ \E u \in DstUuid : ThingsMakes(u)
         \/ \E d \in Delivery : Expire(d)
         \/ \E a \in Acts : Act(a)
  PROVE  Calm
<1>1. inbound \in [Member -> [batch : Seq(Delivery), at : Place, late : SUBSET DstUuid]]
  BY DEF SpokeInv, TandemTypeOK
<1>2. copies \in [DstUuid -> [of : Key \cup {None}, status : Status, aged : BOOLEAN, coming : BOOLEAN]]
  BY DEF SpokeInv, TandemTypeOK
<1>3. ASSUME NEW m \in Member, (\E k \in Todo : Outbound(m, k)) \/ GetWatch(m)
      PROVE  Calm
  BY <1>3, StillThere DEF Outbound, GetWatch, things, apply, Calm, SameCopies
<1>4. ASSUME NEW d \in Delivery, Expire(d)
      PROVE  Calm
  BY <1>4, StillThere DEF Expire, things, apply, Calm, SameCopies
<1>5. ASSUME NEW m \in Member, Crash(m)
      PROVE  Calm
  <2>1. NoFire
    BY <1>1, <1>5, NowhereNear DEF Crash, Idle
  <2> QED
    BY <1>5, <2>1 DEF Crash, things, Calm, SameCopies
<1>6. ASSUME NEW m \in Member, Lease(m)
      PROVE  Calm
  <2>1. inbound[m].batch = <<>> /\ inbound[m].at = "next"
    BY <1>6 DEF Lease, SpokeInv, PlaceInv, PlaceOf
  <2>2. inbound'[m].at = "next" /\ \A n \in Member : n # m => inbound'[n] = inbound[n]
    BY <1>1, <1>6, <2>1 DEF Lease
  <2> QED
    BY <1>6, <2>2, NowhereNear DEF Lease, things, Calm, SameCopies
<1>7. ASSUME NEW a \in Acts, Act(a)
      PROVE  Calm
  <2>1. UNCHANGED apply
    BY <1>7 DEF Act, ActOnTodo, ActOnCopy
  <2>2. SameCopies
    BY <1>2, <1>7 DEF Act, ActOnTodo, ActOnCopy, SameCopies
  <2> QED
    BY <2>1, <2>2, StillThere DEF apply, Calm
<1>8. ASSUME NEW u \in DstUuid, ThingsMakes(u)
      PROVE  Calm
  BY <1>8, ThingsMakesWrites DEF Calm, SameCopies, NoFire, At, Current
<1> QED
  BY <1>3, <1>4, <1>5, <1>6, <1>7, <1>8

\* Every other step intends, fires or correlates.
LEMMA CalmOrNot ==
  ASSUME SpokeInv, TandemNext
  PROVE  \/ Calm
         \/ \E m \in Member : Intend(m) \/ Fire(m) \/ Correlate(m)
BY ApplyCalm, WalkCalm, RestCalm DEF TandemNext, Apply

LEMMA IntendWrites ==
  ASSUME IInv, SpokeInv, NEW m \in Member, Intend(m)
  PROVE  LET k == Current(m).key
         IN  /\ k \in Key /\ Exists(k) /\ transfers[k].to = m
             /\ journal[k] = NoJournal /\ journal'[k].open /\ journal'[k].dst = None
             /\ journal'[k].early = {u \in DstUuid : copies[u].aged}
             /\ \A j \in Key : j # k => journal'[j] = journal[j]
             /\ UNCHANGED <<vars, things, local>>
             /\ At(m, "fire")' /\ Current(m)' = Current(m)
             /\ \A n \in Member : n # m => inbound'[n] = inbound[n]
<1> DEFINE k == Current(m).key
           early == {u \in DstUuid : copies[u].aged}
<1>1. /\ inbound[m].batch # <<>> /\ journal[k] = NoJournal /\ Step(m, "fire") /\ "fire" \in Place
      /\ journal' = [journal EXCEPT ![k].open = TRUE, ![k].early = early]
      /\ UNCHANGED <<vars, things, local>>
  BY DEF Intend, At, Place
<1>2. k \in Key /\ Exists(k) /\ Current(m).kind = "create" /\ transfers[k].to = m
  BY <1>1, CurrentKnown DEF Intend
<1>3. journal \in [Key -> JournalType] /\ journal[k].dst = None
  BY <1>1 DEF SpokeInv, TandemTypeOK, JournalType, NoJournal
<1> HIDE DEF early
<1>4. /\ journal'[k].open /\ journal'[k].dst = None /\ journal'[k].early = early
      /\ \A j \in Key : j # k => journal'[j] = journal[j]
  BY <1>1, <1>2, <1>3 DEF JournalType
<1>5. /\ inbound'[m].at = "fire" /\ Current(m)' = Current(m)
      /\ inbound'[m].batch = inbound[m].batch
      /\ \A n \in Member : n # m => inbound'[n] = inbound[n]
  BY <1>1, StepMoves DEF SpokeInv
<1> QED
  BY <1>1, <1>2, <1>4, <1>5 DEF At, early

LEMMA FireWrites ==
  ASSUME IInv, SpokeInv, NEW m \in Member, Fire(m)
  PROVE  /\ Current(m).key \in Key /\ At(m, "fire") /\ ~At(m, "fire")'
         /\ Exists(Current(m).key) /\ transfers[Current(m).key].to = m
         /\ journal[Current(m).key].open
         /\ UNCHANGED <<todo, acted, journal, local>>
         /\ \A n \in Member : n # m => inbound'[n] = inbound[n]
         /\ \/ UNCHANGED copies
            \/ \E u \in NextCopy, coming \in BOOLEAN :
                 /\ \A v \in NextCopy : u <= v
                 /\ copies' = [copies EXCEPT ![u].of = Current(m).key, ![u].coming = coming]
<1>1. At(m, "fire") /\ inbound[m].batch # <<>> /\ UNCHANGED <<todo, acted, journal, local>>
  BY DEF Fire, At
<1>2. /\ Current(m).key \in Key /\ Exists(Current(m).key) /\ Current(m).kind = "create"
      /\ transfers[Current(m).key].to = m /\ journal[Current(m).key].open
  BY <1>1, CurrentKnown DEF SpokeInv, PlaceInv, PlaceOf
<1>3. inbound'[m].at # "fire" /\ \A n \in Member : n # m => inbound'[n] = inbound[n]
  <2>1. CASE Step(m, "find")
    BY <2>1, StepMoves DEF SpokeInv, Place
  <2>2. CASE Nack(m)
    <3>1. Drop(m)
      BY <2>2 DEF Nack
    <3> QED
      BY <1>1, <3>1, DropMoves DEF SpokeInv
  <2> QED
    BY <2>1, <2>2 DEF Fire
<1> QED
  BY <1>1, <1>2, <1>3 DEF Fire, TellThings, MakeCopy, At

LEMMA CorrelateWrites ==
  ASSUME IInv, SpokeInv, NEW m \in Member, Correlate(m)
  PROVE  LET k == Current(m).key
         IN  /\ k \in Key /\ Exists(k) /\ transfers[k].to = m /\ At(m, "find") /\ journal[k].open
             /\ \E u \in Found(m, k) : /\ \A v \in Found(m, k) : u <= v
                                       /\ journal'[k].dst = u /\ ~journal'[k].open
             /\ \A j \in Key : j # k => journal'[j] = journal[j]
             /\ UNCHANGED <<vars, things, local>>
             /\ ~At(m, "fire")' /\ ~At(m, "find")'
             /\ \A n \in Member : n # m => inbound'[n] = inbound[n]
<1> DEFINE k == Current(m).key
<1>1. /\ At(m, "find") /\ inbound[m].batch # <<>> /\ Step(m, "ack") /\ "ack" \in Place
      /\ UNCHANGED <<vars, things, local>>
  BY DEF Correlate, At, Place
<1>2. /\ k \in Key /\ Exists(k) /\ Current(m).kind = "create" /\ transfers[k].to = m
      /\ journal[k].open
  BY <1>1, CurrentKnown DEF SpokeInv, PlaceInv, PlaceOf
<1>3. PICK u \in Found(m, k) : /\ \A v \in Found(m, k) : u <= v
                               /\ journal' = [journal EXCEPT ![k].open = FALSE, ![k].dst = u]
  BY DEF Correlate
<1>4. journal \in [Key -> JournalType]
  BY DEF SpokeInv, TandemTypeOK, JournalType
<1>5. /\ ~journal'[k].open /\ journal'[k].dst = u
      /\ \A j \in Key : j # k => journal'[j] = journal[j]
  BY <1>2, <1>3, <1>4 DEF JournalType
<1>6. /\ inbound'[m].at = "ack"
      /\ \A n \in Member : n # m => inbound'[n] = inbound[n]
  BY <1>1, StepMoves DEF SpokeInv
<1> QED
  BY <1>1, <1>2, <1>3, <1>5, <1>6 DEF At

-----------------------------------------------------------------------------
(***************************************************************************)
(* NO-DUP.                                                                 *)
(***************************************************************************)
LEMMA FiredKeeps ==
  ASSUME IInv, SpokeInv, FiredInv, NoDup, TandemNext
  PROVE  FiredInv' /\ NoDup'
<1>1. /\ inbound \in [Member -> [batch : Seq(Delivery), at : Place, late : SUBSET DstUuid]]
      /\ copies \in [DstUuid -> [of : Key \cup {None}, status : Status, aged : BOOLEAN, coming : BOOLEAN]]
  BY DEF SpokeInv, TandemTypeOK
<1>2. CASE Calm
  BY <1>2 DEF Calm, SameCopies, NoFire, FiredInv, NoDup
<1>3. ASSUME NEW m \in Member, Intend(m)
      PROVE  FiredInv' /\ NoDup'
  <2> DEFINE k == Current(m).key
  <2>1. /\ k \in Key /\ Exists(k) /\ transfers[k].to = m
        /\ journal[k] = NoJournal /\ journal'[k].open
        /\ \A j \in Key : j # k => journal'[j] = journal[j]
        /\ UNCHANGED <<vars, things, local>>
        /\ At(m, "fire")' /\ Current(m)' = Current(m)
        /\ \A n \in Member : n # m => inbound'[n] = inbound[n]
    BY <1>3, IntendWrites
  <2>2. UNCHANGED copies
    BY <2>1 DEF things
  <2>3. \A u \in DstUuid : copies[u].of # k
    BY <2>1, CopyAssumption DEF FiredInv
  <2>4. journal'[k] # NoJournal
    BY <2>1 DEF NoJournal
  <2>5. \A u \in DstUuid : copies[u].of # None => journal'[copies[u].of] # NoJournal
    BY <1>1, <2>1, <2>4 DEF FiredInv
  <2>6. \A n \in Member : At(n, "fire")' => \A u \in DstUuid : copies[u].of # (Current(n)').key
    <3>1. \A n \in Member : n # m => (At(n, "fire")' => At(n, "fire")) /\ Current(n)' = Current(n)
      BY <2>1 DEF At, Current
    <3> QED
      BY <2>1, <2>3, <3>1 DEF FiredInv
  <2> QED
    BY <2>2, <2>5, <2>6 DEF FiredInv, NoDup
<1>4. ASSUME NEW m \in Member, Fire(m)
      PROVE  FiredInv' /\ NoDup'
  <2> DEFINE k == Current(m).key
  <2>1. /\ k \in Key /\ At(m, "fire") /\ ~At(m, "fire")' /\ transfers[k].to = m
        /\ journal[k].open /\ UNCHANGED journal
        /\ \A n \in Member : n # m => inbound'[n] = inbound[n]
        /\ \/ UNCHANGED copies
           \/ \E u \in NextCopy, coming \in BOOLEAN :
                /\ \A v \in NextCopy : u <= v
                /\ copies' = [copies EXCEPT ![u].of = k, ![u].coming = coming]
    BY <1>4, FireWrites
  <2>2. \A n \in Member : At(n, "fire")' =>
          n # m /\ At(n, "fire") /\ Current(n)' = Current(n)
    BY <2>1 DEF At, Current
  <2>3. CASE UNCHANGED copies
    BY <2>1, <2>2, <2>3 DEF FiredInv, NoDup
  <2>4. ASSUME NEW u \in NextCopy, NEW coming \in BOOLEAN,
               copies' = [copies EXCEPT ![u].of = k, ![u].coming = coming]
        PROVE  FiredInv' /\ NoDup'
    <3>1. /\ u \in DstUuid /\ copies'[u].of = k
          /\ \A v \in DstUuid : v # u => copies'[v].of = copies[v].of
      BY <1>1, <2>4 DEF NextCopy
    <3>2. \A v \in DstUuid : copies[v].of # k
      BY <2>1 DEF FiredInv
    <3>3. NoDup'
      BY <3>1, <3>2 DEF NoDup
    <3>4. journal[k] # NoJournal
      BY <2>1 DEF NoJournal
    <3>5. ASSUME NEW n \in Member, At(n, "fire")'
          PROVE  n # m /\ At(n, "fire") /\ Current(n)' = Current(n) /\ Current(n).key # k
      <4>1. n # m /\ At(n, "fire") /\ Current(n)' = Current(n)
        BY <2>2, <3>5
      <4>2. Current(n).kind = "create" /\ inbound[n].batch # <<>>
        BY <4>1 DEF SpokeInv, PlaceInv, PlaceOf, At
      <4>3. transfers[Current(n).key].to = n
        BY <4>2, CurrentKnown
      <4> QED
        BY <2>1, <4>1, <4>3
    <3>6. FiredInv'
      BY <2>1, <3>1, <3>4, <3>5 DEF FiredInv
    <3> QED
      BY <3>3, <3>6
  <2> QED
    BY <2>1, <2>3, <2>4
<1>5. ASSUME NEW m \in Member, Correlate(m)
      PROVE  FiredInv' /\ NoDup'
  <2> DEFINE k == Current(m).key
  <2>1. /\ k \in Key
        /\ \E u \in Found(m, k) : journal'[k].dst = u
        /\ \A j \in Key : j # k => journal'[j] = journal[j]
        /\ UNCHANGED <<vars, things, local>>
        /\ ~At(m, "fire")' /\ \A n \in Member : n # m => inbound'[n] = inbound[n]
    BY <1>5, CorrelateWrites
  <2>2. journal'[k] # NoJournal
    BY <2>1, UuidAssumption DEF NoJournal, Found, InAccount
  <2>3. \A n \in Member : At(n, "fire")' => At(n, "fire") /\ Current(n)' = Current(n)
    BY <2>1 DEF At, Current
  <2>4. UNCHANGED copies
    BY <2>1 DEF things
  <2> QED
    BY <1>1, <2>1, <2>2, <2>3, <2>4 DEF FiredInv, NoDup
<1> QED
  BY <1>2, <1>3, <1>4, <1>5, CalmOrNot

-----------------------------------------------------------------------------
(***************************************************************************)
(* The copy that a transfer is mapped to.                                  *)
(***************************************************************************)
LEMMA LedgerStepKeeps == IInv /\ [Next]_vars => LedgerKeeps
<1> SUFFICES ASSUME IInv, [Next]_vars PROVE LedgerKeeps
  OBVIOUS
<1>1. CASE UNCHANGED vars
  BY <1>1 DEF vars, LedgerKeeps, Exists
<1>2. CASE Next
  BY <1>2, PushKeeps, LeaseKeeps, ExpiryKeeps, AckCreateKeeps, AckTerminalKeeps, NackKeeps,
     WatchKeeps, SetTerminalKeeps, UpgradeKeeps DEF Next
<1> QED
  BY <1>1, <1>2

LEMMA SystemStepKeeps == IInv /\ SpokeInv /\ TandemNext => LedgerKeeps
BY SystemIsLedger, LedgerStepKeeps

LEMMA NackIsQuiet ==
  ASSUME NEW m \in Member, Nack(m)
  PROVE  UNCHANGED transfers
BY DEF Nack, NackDelivery, vars

\* An ack of a create tells the hub what the journal says.
LEMMA AckTells ==
  ASSUME IInv, SpokeInv, NEW m \in Member, Reack(m) \/ AckCopy(m), NEW k \in Key
  PROVE  transfers'[k].dst \in {transfers[k].dst, journal[k].dst}
<1> DEFINE d == Current(m)
           u == journal[d.key].dst
<1>1. inbound[m].batch # <<>> /\ HubAck(m, AckCreate(m, d, u))
  BY DEF Reack, AckCopy, At
<1>2. d \in Delivery /\ d.key \in Key
  BY <1>1, CurrentKnown
<1>3. u # None
  BY DEF Reack, AckCopy, SpokeInv, PlaceInv, PlaceOf
<1>4. u \in DstUuid
  BY <1>2, <1>3 DEF SpokeInv, TandemTypeOK
<1>5. CASE AckCreate(m, d, u)
  BY <1>2, <1>4, <1>5, AckCreateChanges
<1>6. CASE UNCHANGED transfers
  BY <1>6
<1> QED
  BY <1>1, <1>5, <1>6, NackIsQuiet DEF HubAck, vars

LEMMA ApplyTells ==
  ASSUME IInv, SpokeInv, NEW m \in Member, Apply(m), NEW k \in Key
  PROVE  transfers'[k].dst \in {transfers[k].dst, journal[k].dst}
<1>1. CASE Intend(m) \/ Recorrelate(m) \/ Correlate(m)
  BY <1>1 DEF Intend, Recorrelate, Correlate, vars
<1>2. CASE Fire(m) \/ CorrelateTimesOut(m) \/ ApplyTerminal(m)
  BY <1>2, NackIsQuiet DEF Fire, CorrelateTimesOut, ApplyTerminal, vars
<1>3. CASE AckEcho(m)
  <2>1. inbound[m].batch # <<>> /\ HubAck(m, AckTerminal(m, Current(m)))
    BY <1>3 DEF AckEcho, At
  <2>2. Current(m) \in Delivery
    BY <2>1, CurrentKnown
  <2>3. CASE AckTerminal(m, Current(m))
    <3>1. transfers' = [transfers EXCEPT ![Current(m).key].resolved = TRUE]
      BY <2>2, <2>3, AckTerminalChanges
    <3>2. transfers \in [Key -> Transfer]
      BY DEF IInv, TypeOK
    <3> QED
      BY <3>1, <3>2 DEF Transfer
  <2> QED
    BY <2>1, <2>3, NackIsQuiet DEF HubAck, vars
<1> QED
  BY <1>1, <1>2, <1>3, AckTells DEF Apply

LEMMA ReportTells ==
  ASSUME IInv, SpokeInv, NEW m \in Member, NEW e \in Entry, Walk(m, e), NEW k \in Key
  PROVE  transfers'[k].dst = transfers[k].dst
<1>1. CASE Report(m, e)
  <2> DEFINE j == e.key
             t == Reported(m, j)
  <2>1. /\ j \in Key /\ e \in view[m] /\ Reportable(m, j)
        /\ HubObserve(m, j, t) \/ UNCHANGED vars
    BY <1>1 DEF Report, Entry
  <2>2. j.from = m \/ transfers[j].dst # None
    BY <2>1 DEF SpokeInv, ViewInv, IInv, WatchInv
  <2>3. t \in Terminal
    BY <2>1, <2>2, ReportedIsOwn DEF Reportable
  <2>4. CASE SetTerminal(m, j, t)
    <3>1. QueueEcho(deliveries, m, j, t)
      BY <2>4 DEF SetTerminal
    <3> QED
      BY <2>1, <2>3, <3>1, ReportChanges
  <2>5. CASE t = "completed" /\ UpgradeTerminal(m, j)
    <3>1. QueueEcho(WithoutCancel(j), m, j, t)
      BY <2>5 DEF UpgradeTerminal
    <3> QED
      BY <2>1, <2>3, <3>1, ReportChanges
  <2> QED
    BY <2>1, <2>4, <2>5 DEF HubObserve, vars
<1>2. CASE Retag(m, e) \/ PassOver(m, e)
  BY <1>2 DEF Retag, PassOver, vars
<1> QED
  BY <1>1, <1>2 DEF Walk

LEMMA DstFollows ==
  ASSUME IInv, SpokeInv, TandemNext, NEW k \in Key
  PROVE  transfers'[k].dst \in {transfers[k].dst, journal[k].dst}
<1>1. ASSUME NEW m \in Member, NEW j \in Todo, Outbound(m, j)
      PROVE  transfers'[k].dst = transfers[k].dst
  <2>1. j.src \in SrcUuid /\ HubPush(m, j)
    BY <1>1, TodoAssumption DEF Outbound, Key
  <2>2. CASE PushTransfer(m, Assignee[j], j.src)
    <3> DEFINE i == [from |-> m, src |-> j.src]
    <3>1. /\ i \in Key /\ transfers[i] = NoTransfer /\ transfers'[i].dst = None
          /\ \A l \in Key : l # i => transfers'[l] = transfers[l]
      BY <2>1, <2>2, PushChanges
    <3>2. transfers[i].dst = None
      BY <3>1 DEF NoTransfer
    <3> HIDE DEF i
    <3> QED
      BY <3>1, <3>2
  <2> QED
    BY <2>1, <2>2 DEF HubPush, vars
<1>2. ASSUME NEW m \in Member, Lease(m) \/ GetWatch(m) \/ Crash(m)
      PROVE  UNCHANGED transfers
  BY <1>2 DEF Lease, LeaseDeliveries, GetWatch, Watch, Crash, vars
<1>3. ASSUME NEW d \in Delivery, Expire(d)
      PROVE  UNCHANGED transfers
  BY <1>3 DEF Expire, LeaseExpires
<1>4. ASSUME NEW a \in Acts, Act(a)
      PROVE  UNCHANGED transfers
  BY <1>4 DEF Act, ActOnTodo, ActOnCopy, vars
<1>5. ASSUME NEW u \in DstUuid, ThingsMakes(u)
      PROVE  UNCHANGED transfers
  BY <1>5 DEF ThingsMakes, vars
<1> QED
  BY <1>1, <1>2, <1>3, <1>4, <1>5, ApplyTells, ReportTells DEF TandemNext

LEMMA DstKeeps ==
  ASSUME IInv, SpokeInv, DstInv, TandemNext
  PROVE  DstInv'
<1> SUFFICES ASSUME NEW k \in Key, transfers'[k].dst # None
             PROVE  transfers'[k].dst = journal'[k].dst
  BY DEF DstInv
<1>1. transfers'[k].dst = journal[k].dst /\ journal[k].dst # None
  BY DstFollows DEF DstInv
<1>2. journal'[k].dst = journal[k].dst
  <2>1. CASE Calm
    BY <2>1 DEF Calm
  <2>2. ASSUME NEW m \in Member, Intend(m)
        PROVE  journal'[k].dst = journal[k].dst
    BY <1>1, <2>2, IntendWrites DEF NoJournal
  <2>3. ASSUME NEW m \in Member, Fire(m)
        PROVE  journal'[k].dst = journal[k].dst
    BY <2>3, FireWrites
  <2>4. ASSUME NEW m \in Member, Correlate(m)
        PROVE  journal'[k].dst = journal[k].dst
    BY <1>1, <2>4, CorrelateWrites DEF SpokeInv, JournalInv
  <2> QED
    BY <2>1, <2>2, <2>3, <2>4, CalmOrNot
<1> QED
  BY <1>1, <1>2

\* A mapped row stays right when its copy and its transfer stay as they are.
LEMMA MappedStays ==
  ASSUME IInv, SpokeInv, LedgerKeeps, MappedInv, NEW k \in Key, journal[k].dst # None,
         journal'[k].dst = journal[k].dst,
         copies'[journal[k].dst].of = copies[journal[k].dst].of
  PROVE  /\ copies'[journal'[k].dst].of # None
         /\ Title[copies'[journal'[k].dst].of] = Title[k]
         /\ copies'[journal'[k].dst].of.from = k.from
         /\ Exists(k)' /\ transfers'[copies'[journal'[k].dst].of].to = transfers'[k].to
<1> DEFINE u == journal[k].dst
<1>1. u \in DstUuid /\ copies[u].of \in Key /\ copies[u].of # None
  BY DEF MappedInv, SpokeInv, TandemTypeOK
<1>2. /\ Title[copies[u].of] = Title[k] /\ copies[u].of.from = k.from
      /\ Exists(k) /\ transfers[copies[u].of].to = transfers[k].to
  BY DEF MappedInv
<1>3. Exists(copies[u].of)
  BY <1>1 DEF SpokeInv, CopyInv
<1> QED
  BY <1>1, <1>2, <1>3 DEF LedgerKeeps

LEMMA MappedKeeps ==
  ASSUME IInv, SpokeInv, MappedInv, TandemNext
  PROVE  MappedInv'
<1>1. LedgerKeeps
  BY SystemStepKeeps
<1>2. \A k \in Key : journal[k].dst # None => journal[k].dst \in DstUuid
  BY DEF SpokeInv, TandemTypeOK
<1>3. ASSUME \A k \in Key : journal'[k].dst = journal[k].dst,
             \A u \in DstUuid : copies[u].of # None => copies'[u].of = copies[u].of
      PROVE  MappedInv'
  <2> SUFFICES ASSUME NEW k \in Key, journal'[k].dst # None
               PROVE  /\ copies'[journal'[k].dst].of # None
                      /\ Title[copies'[journal'[k].dst].of] = Title[k]
                      /\ copies'[journal'[k].dst].of.from = k.from
                      /\ Exists(k)'
                      /\ transfers'[copies'[journal'[k].dst].of].to = transfers'[k].to
                      /\ \A j \in Key : journal'[j].dst = journal'[k].dst => j = k
    BY DEF MappedInv
  <2>1. /\ journal'[k].dst = journal[k].dst /\ journal[k].dst # None
        /\ copies'[journal[k].dst].of = copies[journal[k].dst].of
    BY <1>2, <1>3 DEF MappedInv
  <2>2. \A j \in Key : journal'[j].dst = journal'[k].dst => j = k
    BY <1>3, <2>1 DEF MappedInv
  <2> QED
    BY <1>1, <2>1, <2>2, MappedStays
<1>4. CASE Calm
  BY <1>3, <1>4 DEF Calm, SameCopies
<1>5. ASSUME NEW m \in Member, Intend(m)
      PROVE  MappedInv'
  <2>1. \A k \in Key : journal'[k].dst = journal[k].dst
    BY <1>5, IntendWrites DEF NoJournal
  <2>2. UNCHANGED copies
    BY <1>5, IntendWrites DEF things
  <2> QED
    BY <1>3, <2>1, <2>2
<1>6. ASSUME NEW m \in Member, Fire(m)
      PROVE  MappedInv'
  <2>1. UNCHANGED journal
    BY <1>6, FireWrites
  <2>2. \A u \in DstUuid : copies[u].of # None => copies'[u].of = copies[u].of
    <3>1. copies \in [DstUuid -> [of : Key \cup {None}, status : Status, aged : BOOLEAN, coming : BOOLEAN]]
      BY DEF SpokeInv, TandemTypeOK
    <3>2. \/ UNCHANGED copies
          \/ \E u \in NextCopy, coming \in BOOLEAN :
               /\ \A v \in NextCopy : u <= v
               /\ copies' = [copies EXCEPT ![u].of = Current(m).key, ![u].coming = coming]
      BY <1>6, FireWrites
    <3> QED
      BY <3>1, <3>2 DEF NextCopy
  <2> QED
    BY <1>3, <2>1, <2>2
<1>7. ASSUME NEW m \in Member, Correlate(m)
      PROVE  MappedInv'
  <2> DEFINE k == Current(m).key
  <2>1. /\ k \in Key /\ Exists(k) /\ transfers[k].to = m
        /\ \E u \in Found(m, k) : journal'[k].dst = u
        /\ \A j \in Key : j # k => journal'[j] = journal[j]
        /\ UNCHANGED <<vars, things, local>>
    BY <1>7, CorrelateWrites
  <2>2. UNCHANGED copies /\ UNCHANGED transfers
    BY <2>1 DEF things, vars
  <2>3. PICK u \in Found(m, k) : journal'[k].dst = u
    BY <2>1
  <2>4. /\ u \in DstUuid /\ copies[u].of # None /\ transfers[copies[u].of].to = m
        /\ copies[u].of.from = k.from /\ Title[copies[u].of] = Title[k]
        /\ u \notin Journaled(m)
    BY <2>3 DEF Found, InAccount
  <2>5. \A j \in Key : journal[j].dst # u
    <3> SUFFICES ASSUME NEW j \in Key, journal[j].dst = u PROVE FALSE
      OBVIOUS
    <3>1. transfers[j].to = transfers[copies[u].of].to
      BY <2>4, UuidAssumption DEF MappedInv
    <3> QED
      BY <2>4, <3>1 DEF Journaled
  <2> SUFFICES ASSUME NEW j \in Key, journal'[j].dst # None
               PROVE  /\ copies'[journal'[j].dst].of # None
                      /\ Title[copies'[journal'[j].dst].of] = Title[j]
                      /\ copies'[journal'[j].dst].of.from = j.from
                      /\ Exists(j)'
                      /\ transfers'[copies'[journal'[j].dst].of].to = transfers'[j].to
                      /\ \A i \in Key : journal'[i].dst = journal'[j].dst => i = j
    BY DEF MappedInv
  <2>6. CASE j = k
    BY <2>1, <2>2, <2>3, <2>4, <2>5, <2>6 DEF Exists
  <2>7. CASE j # k
    <3>1. journal'[j] = journal[j] /\ journal[j].dst # None
      BY <2>1, <2>7
    <3>2. \A i \in Key : journal'[i].dst = journal'[j].dst => i = j
      BY <2>1, <2>3, <2>5, <3>1 DEF MappedInv
    <3> QED
      BY <2>2, <3>1, <3>2 DEF MappedInv, Exists
  <2> QED
    BY <2>6, <2>7
<1> QED
  BY <1>4, <1>5, <1>6, <1>7, CalmOrNot

-----------------------------------------------------------------------------
LEMMA CopiesNext == IInv /\ SpokeInv /\ CopiesInv /\ TandemNext => CopiesInv'
BY FiredKeeps, MappedKeeps, DstKeeps DEF CopiesInv

LEMMA CopiesStutter == CopiesInv /\ UNCHANGED allVars => CopiesInv'
<1> SUFFICES ASSUME CopiesInv, UNCHANGED allVars PROVE CopiesInv'
  OBVIOUS
<1>1. UNCHANGED <<transfers, copies, journal, inbound>>
  BY DEF allVars, vars, things, apply
<1> QED
  BY <1>1 DEF CopiesInv, FiredInv, MappedInv, DstInv, NoDup, At, Current, Exists

LEMMA CopiesInit == TandemInit => CopiesInv
BY DEF TandemInit, Start, Init, NoTransfer, NoCopy, NoJournal, Idle, CopiesInv, FiredInv,
   MappedInv, DstInv, NoDup, At

THEOREM CopiesInvariance == TandemSpec => []CopiesInv
<1>1. IInv /\ SpokeInv /\ CopiesInv /\ [TandemNext]_allVars => CopiesInv'
  BY CopiesNext, CopiesStutter
<1> QED
  BY <1>1, CopiesInit, SystemInvariance, PTL DEF TandemSpec

\* NO-DUP for any number of spokes and todos and with every fault: no crash,
\* lost reply, failed ack, write that is reported as failed, or expired lease
\* makes a second copy (the journal row that _apply_create writes before it
\* fires, and that nothing removes).
THEOREM NoDuplicates == TandemSpec => []NoDup
<1>1. CopiesInv => NoDup
  BY DEF CopiesInv
<1> QED
  BY <1>1, CopiesInvariance, PTL

\* Two transfers never share a copy, and a transfer's copy is in its
\* recipient's account under its title and from its sender, with every fault
\* (_correlate excludes what is journaled; the hub knows what is journaled).
THEOREM CopiesAreDistinct == TandemSpec => []DistinctCopies
<1>1. CopiesInv => DistinctCopies
  BY DEF CopiesInv, MappedInv, DstInv, DistinctCopies
<1> QED
  BY <1>1, CopiesInvariance, PTL

-----------------------------------------------------------------------------
(***************************************************************************)
(* When the copy is the transfer's own, although todos share a title: one  *)
(* delivery at a time, as long as no create is left between its firing and *)
(* its correlation.  Then a copy that could not be found yet is older than *)
(* the window of every later create, or in the trash.  Things may make a   *)
(* copy after `create` returned, as long as it does so in the two minutes  *)
(* after which the search for the copy still goes on for two more.         *)
(***************************************************************************)
\* No spoke dies, no write takes effect that is reported as failed, and Things
\* makes no copy later than two minutes after it was told; and if a mirror
\* lags, no write fails and nobody trashes a copy.
Orderly == /\ Faults \subseteq {"request", "reply", "write", "async", "lag"}
           /\ "lag" \in Faults => "write" \notin Faults /\ "trashed" \notin Acts

\* u was made for a create that has not been mapped; it is being looked for.
Unmapped(u) == copies[u].of # None /\ journal[copies[u].of].open
Sought(u) == \E m \in Member : At(m, "find") /\ Current(m).key = copies[u].of

MappedOwn == \A k \in Key : journal[k].dst # None => copies[journal[k].dst].of = k

\* Numbers are used in order; what is older than a create is a copy of another.
UsedInv ==
  /\ \A u \in DstUuid : copies[u].aged => copies[u].of # None
  /\ \A u, v \in DstUuid : copies[v].of # None /\ u < v => copies[u].of # None
  /\ \A k \in Key : \A u \in journal[k].early : copies[u].of \notin {None, k}

\* A journal row is written for a transfer, and open until it has a uuid; its
\* copy is made at once, unless the write fails.
OpenInv ==
  \A k \in Key :
    /\ "write" \notin Faults /\ journal[k].open =>
         \/ \E m \in Member : At(m, "fire") /\ Current(m).key = k
         \/ \E u \in DstUuid : copies[u].of = k
    /\ journal[k].open \/ journal[k].dst # None \/ journal[k] = NoJournal
    /\ journal[k] # NoJournal => Exists(k)

\* An unmapped copy is being looked for, or it is out of the window.
AgedInv == \A u \in DstUuid : Unmapped(u) => copies[u].aged \/ Sought(u)

\* An unmapped copy is out of the window of every create that was fired later.
EarlyInv ==
  \A u \in DstUuid, k \in Key :
    /\ "write" \notin Faults /\ Unmapped(u) /\ copies[u].of # k
    /\ transfers[copies[u].of].to = transfers[k].to
    /\ journal[k].open
    /\ \A v \in DstUuid : copies[v].of = k => u < v
    => u \in journal[k].early

\* With an up-to-date mirror only the trash hides a copy.
TrashInv ==
  /\ "lag" \notin Faults =>
       \A u \in DstUuid : Unmapped(u) => Sought(u) \/ copies[u].status = "trashed"
  /\ "trashed" \notin Acts => \A u \in DstUuid : copies[u].status # "trashed"

\* No search has seen a late copy.  A copy that is still to be made is being
\* looked for, and it is the last of its account.
ComingInv ==
  /\ \A m \in Member : inbound[m].late = {}
  /\ \A u \in DstUuid : copies[u].coming =>
       /\ copies[u].of # None
       /\ Sought(u)
       /\ \A v \in DstUuid : copies[v].of # None
                              /\ transfers[copies[v].of].to = transfers[copies[u].of].to => v <= u

OwnInv == MappedOwn /\ UsedInv /\ OpenInv /\ AgedInv /\ EarlyInv /\ TrashInv /\ ComingInv

\* Nobody orders a copy or writes a journal row, and no search is given up.
Steady ==
  /\ Calm
  /\ \A u \in DstUuid :
       /\ copies'[u].aged = copies[u].aged
       /\ copies'[u].coming => copies[u].coming
       /\ copies[u].status = "trashed" => copies'[u].status = "trashed"
       /\ "trashed" \notin Acts /\ copies'[u].status = "trashed" => copies[u].status = "trashed"
  /\ \A m \in Member : /\ At(m, "find") => At(m, "find")' /\ Current(m)' = Current(m)
                       /\ At(m, "fire") => At(m, "fire")' /\ Current(m)' = Current(m)

\* Unless Things is late, no search sees a late copy.
NoneLate == \A m \in Member : inbound[m].late = {}

LEMMA NoneLateKeeps ==
  ASSUME SpokeInv, NoneLate, "late" \notin Faults, TandemNext
  PROVE  NoneLate'
<1>1. inbound \in [Member -> [batch : Seq(Delivery), at : Place, late : SUBSET DstUuid]]
  BY DEF SpokeInv, TandemTypeOK
<1>2. CASE UNCHANGED inbound
  BY <1>2 DEF NoneLate
<1>3. ASSUME NEW m \in Member, Apply(m)
      PROVE  NoneLate'
  <2>1. inbound[m].batch # <<>> /\ (Drop(m) \/ \E place \in Place : Step(m, place))
    BY <1>3, AckDrops DEF Apply, Intend, Fire, Reack, Recorrelate, Correlate, CorrelateTimesOut,
      AckCopy, ApplyTerminal, AckEcho, Nack, At, Place
  <2>2. CASE Drop(m)
    BY <2>1, <2>2, DropMoves DEF SpokeInv, NoneLate
  <2>3. ASSUME NEW place \in Place, Step(m, place)
        PROVE  NoneLate'
    BY <2>3, StepMoves DEF SpokeInv, NoneLate
  <2> QED
    BY <2>1, <2>2, <2>3
<1>4. ASSUME NEW m \in Member, Lease(m)
      PROVE  NoneLate'
  <2>1. UNCHANGED inbound \/ \E s : inbound' = [inbound EXCEPT ![m].batch = s]
    BY <1>4 DEF Lease
  <2> QED
    BY <1>1, <2>1 DEF NoneLate
<1>5. ASSUME NEW m \in Member, Crash(m)
      PROVE  NoneLate'
  BY <1>1, <1>5 DEF Crash, Idle, NoneLate
<1>6. ASSUME NEW u \in DstUuid, ThingsMakes(u)
      PROVE  UNCHANGED inbound
  BY <1>6 DEF ThingsMakes
<1>7. ASSUME \/ \E m \in Member : \/ \E k \in Todo : Outbound(m, k)
                                  \/ GetWatch(m)
                                  \/ \E e \in Entry : Walk(m, e)
             \/ \E d \in Delivery : Expire(d)
             \/ \E a \in Acts : Act(a)
      PROVE  UNCHANGED inbound
  BY <1>7 DEF Outbound, GetWatch, Walk, Report, Retag, PassOver, Expire, Act, ActOnTodo,
    ActOnCopy, apply
<1> QED
  BY <1>2, <1>3, <1>4, <1>5, <1>6, <1>7 DEF TandemNext

\* What is said of the copies that are still to be made.
LastInv == \A u \in DstUuid : copies[u].coming =>
             /\ copies[u].of # None
             /\ Sought(u)
             /\ \A v \in DstUuid : copies[v].of # None
                    /\ transfers[copies[v].of].to = transfers[copies[u].of].to => v <= u

\* It stays so when no copy is ordered and no search for one of them ends.
LEMMA LastKeeps ==
  ASSUME IInv, SpokeInv, LedgerKeeps, OwnInv,
         \A u \in DstUuid : /\ copies'[u].of = copies[u].of
                            /\ copies'[u].coming => copies[u].coming /\ (Sought(u) => Sought(u)')
  PROVE  LastInv'
<1>1. \A u \in DstUuid : copies[u].of # None => copies[u].of \in Key /\ Exists(copies[u].of)
  BY DEF SpokeInv, TandemTypeOK, CopyInv
<1>2. \A u \in DstUuid : copies[u].of # None =>
        transfers'[copies[u].of].to = transfers[copies[u].of].to
  BY <1>1 DEF LedgerKeeps
<1> QED
  BY <1>2 DEF OwnInv, ComingInv, LastInv

LEMMA SteadyKeeps ==
  ASSUME IInv, SpokeInv, LedgerKeeps, OwnInv, Steady, NoneLate'
  PROVE  OwnInv'
<1>1. /\ copies \in [DstUuid -> [of : Key \cup {None}, status : Status, aged : BOOLEAN, coming : BOOLEAN]]
      /\ journal \in [Key -> JournalType]
  BY DEF SpokeInv, TandemTypeOK, JournalType
<1>2. /\ UNCHANGED journal
      /\ \A u \in DstUuid : copies'[u].of = copies[u].of /\ copies'[u].aged = copies[u].aged
  BY DEF Steady, Calm, SameCopies
<1>3. \A u \in DstUuid : Unmapped(u)' <=> Unmapped(u)
  BY <1>2 DEF Unmapped
<1>4. \A u \in DstUuid : Sought(u) => Sought(u)'
  BY <1>2 DEF Sought, Steady
<1>5. MappedOwn' /\ AgedInv'
  BY <1>1, <1>2, <1>3, <1>4 DEF OwnInv, MappedOwn, AgedInv, JournalType
<1>6. UsedInv'
  BY <1>1, <1>2 DEF OwnInv, UsedInv, JournalType
<1>7. OpenInv'
  <2> SUFFICES ASSUME NEW k \in Key
               PROVE  /\ "write" \notin Faults /\ journal[k].open =>
                           \/ \E m \in Member : At(m, "fire")' /\ (Current(m)').key = k
                           \/ \E u \in DstUuid : copies'[u].of = k
                      /\ journal[k].open \/ journal[k].dst # None \/ journal[k] = NoJournal
                      /\ journal[k] # NoJournal => Exists(k)'
    BY <1>2 DEF OpenInv
  <2>1. journal[k] # NoJournal => Exists(k)'
    BY DEF OwnInv, OpenInv, LedgerKeeps
  <2>2. \A m \in Member : At(m, "fire") => At(m, "fire")' /\ Current(m)' = Current(m)
    BY DEF Steady
  <2> QED
    BY <1>2, <2>1, <2>2 DEF OwnInv, OpenInv
<1>8. EarlyInv'
  <2> SUFFICES ASSUME NEW u \in DstUuid, NEW k \in Key,
                      "write" \notin Faults, Unmapped(u), copies[u].of # k, journal[k].open,
                      transfers'[copies[u].of].to = transfers'[k].to,
                      \A v \in DstUuid : copies[v].of = k => u < v
               PROVE  u \in journal[k].early
    BY <1>2, <1>3 DEF EarlyInv
  <2>1. copies[u].of \in Key /\ Exists(copies[u].of)
    BY <1>1 DEF Unmapped, SpokeInv, CopyInv
  <2>2. Exists(k)
    BY DEF OwnInv, OpenInv, NoJournal
  <2>3. transfers[copies[u].of].to = transfers[k].to
    BY <2>1, <2>2 DEF LedgerKeeps
  <2> QED
    BY <2>3 DEF OwnInv, EarlyInv
<1>9. TrashInv'
  BY <1>3, <1>4 DEF OwnInv, TrashInv, Steady
<1>10. ComingInv'
  <2>1. LastInv'
    BY <1>2, <1>4, LastKeeps DEF Steady
  <2> QED
    BY <2>1 DEF ComingInv, LastInv, NoneLate
<1> QED
  BY <1>5, <1>6, <1>7, <1>8, <1>9, <1>10 DEF OwnInv

\* Who may be at a create of k is the recipient of k.
LEMMA AtCreate ==
  ASSUME SpokeInv, NEW m \in Member, At(m, "fire") \/ At(m, "find")
  PROVE  Current(m).key \in Key /\ transfers[Current(m).key].to = m
<1>1. inbound[m].batch # <<>> /\ Current(m).kind = "create"
  BY DEF At, SpokeInv, PlaceInv, PlaceOf
<1> QED
  BY <1>1, CurrentKnown

LEMMA IntendOwn ==
  ASSUME IInv, SpokeInv, CopiesInv, OwnInv, NEW m \in Member, Intend(m), NoneLate'
  PROVE  OwnInv'
<1> DEFINE k == Current(m).key
<1>1. /\ k \in Key /\ Exists(k) /\ transfers[k].to = m
      /\ journal[k] = NoJournal /\ journal'[k].open /\ journal'[k].dst = None
      /\ journal'[k].early = {u \in DstUuid : copies[u].aged}
      /\ \A j \in Key : j # k => journal'[j] = journal[j]
      /\ UNCHANGED <<copies, transfers>>
      /\ At(m, "fire")' /\ Current(m)' = Current(m)
      /\ \A n \in Member : n # m => inbound'[n] = inbound[n]
  BY IntendWrites DEF things, vars
<1>2. /\ ~At(m, "fire") /\ ~At(m, "find")
      /\ \A n \in Member : n # m => /\ \A place : At(n, place)' <=> At(n, place)
                                    /\ Current(n)' = Current(n)
  BY <1>1 DEF Intend, At, Current
<1>3. /\ copies \in [DstUuid -> [of : Key \cup {None}, status : Status, aged : BOOLEAN, coming : BOOLEAN]]
      /\ journal \in [Key -> JournalType]
  BY DEF SpokeInv, TandemTypeOK, JournalType
<1>4. \A u \in DstUuid : copies[u].of # k
  BY <1>1, CopyAssumption DEF CopiesInv, FiredInv
<1>5. \A u \in DstUuid : Unmapped(u)' <=> Unmapped(u)
  BY <1>1, <1>3, <1>4 DEF Unmapped
<1>6. \A u \in DstUuid : Sought(u) => Sought(u)'
  BY <1>1, <1>2 DEF Sought
<1>7. MappedOwn' /\ AgedInv' /\ TrashInv'
  BY <1>1, <1>5, <1>6 DEF OwnInv, MappedOwn, AgedInv, TrashInv
<1>8. UsedInv'
  BY <1>1, <1>3, <1>4 DEF OwnInv, UsedInv, JournalType
<1>9. OpenInv'
  <2> SUFFICES ASSUME NEW j \in Key
               PROVE  /\ "write" \notin Faults /\ journal'[j].open =>
                           \/ \E n \in Member : At(n, "fire")' /\ (Current(n)').key = j
                           \/ \E u \in DstUuid : copies[u].of = j
                      /\ journal'[j].open \/ journal'[j].dst # None \/ journal'[j] = NoJournal
                      /\ journal'[j] # NoJournal => Exists(j)
    BY <1>1 DEF OpenInv, Exists
  <2>1. CASE j = k
    BY <1>1, <2>1
  <2>2. CASE j # k
    <3>1. journal'[j] = journal[j]
      BY <1>1, <2>2
    <3>2. ASSUME NEW n \in Member, At(n, "fire"), Current(n).key = j
          PROVE  At(n, "fire")' /\ (Current(n)').key = j
      BY <1>2, <3>2
    <3> QED
      BY <3>1, <3>2 DEF OwnInv, OpenInv
  <2> QED
    BY <2>1, <2>2
<1>10. EarlyInv'
  <2> SUFFICES ASSUME NEW u \in DstUuid, NEW j \in Key,
                      "write" \notin Faults, Unmapped(u), copies[u].of # j, journal'[j].open,
                      transfers[copies[u].of].to = transfers[j].to,
                      \A v \in DstUuid : copies[v].of = j => u < v
               PROVE  u \in journal'[j].early
    BY <1>1, <1>5 DEF EarlyInv
  <2>1. CASE j = k
    <3>1. ~Sought(u)
      BY <1>1, <1>2, <2>1, AtCreate DEF Sought
    <3>2. copies[u].aged
      BY <3>1 DEF OwnInv, AgedInv
    <3> QED
      BY <1>1, <2>1, <3>2
  <2>2. CASE j # k
    BY <1>1, <2>2 DEF OwnInv, EarlyInv
  <2> QED
    BY <2>1, <2>2
<1>11. ComingInv'
  BY <1>1, <1>6 DEF OwnInv, ComingInv, NoneLate
<1> QED
  BY <1>7, <1>8, <1>9, <1>10, <1>11 DEF OwnInv

\* The journal row of a copy that is neither unmapped nor missing has it.
LEMMA MappedHere ==
  ASSUME SpokeInv, CopiesInv, OwnInv, NEW u \in DstUuid, copies[u].of # None, ~Unmapped(u)
  PROVE  journal[copies[u].of].dst = u
<1> DEFINE k == copies[u].of
<1>1. k \in Key /\ journal[k] # NoJournal /\ ~journal[k].open
  BY DEF SpokeInv, TandemTypeOK, CopiesInv, FiredInv, Unmapped
<1>2. journal[k].dst # None /\ journal[k].dst \in DstUuid
  BY <1>1 DEF OwnInv, OpenInv, SpokeInv, TandemTypeOK
<1>3. copies[journal[k].dst].of = k
  BY <1>1, <1>2 DEF OwnInv, MappedOwn
<1> QED
  BY <1>2, <1>3 DEF CopiesInv, NoDup

\* The own copy of an open create can be found once it is made, unless it is in
\* the trash.
LEMMA OwnIsFound ==
  ASSUME SpokeInv, CopiesInv, OwnInv, NEW m \in Member, NEW k \in Key, transfers[k].to = m,
         journal[k].open, NEW u \in DstUuid, copies[u].of = k, ~copies[u].coming,
         copies[u].status # "trashed"
  PROVE  u \in Found(m, k)
<1>1. u \notin journal[k].early /\ k # None
  BY CopyAssumption DEF OwnInv, UsedInv
<1>2. \A j \in Key : journal[j].dst # u
  <2> SUFFICES ASSUME NEW j \in Key, journal[j].dst = u PROVE FALSE
    OBVIOUS
  <2>1. j = k
    BY UuidAssumption DEF OwnInv, MappedOwn
  <2> QED
    BY <2>1, UuidAssumption DEF SpokeInv, JournalInv
<1> QED
  BY <1>1, <1>2 DEF Found, InAccount, Journaled

\* What the search of an open create finds first is its own copy.
LEMMA FoundIsOwn ==
  ASSUME Orderly, IInv, SpokeInv, CopiesInv, OwnInv, NEW m \in Member, At(m, "find"),
         NEW u \in Found(m, Current(m).key), \A v \in Found(m, Current(m).key) : u <= v
  PROVE  copies[u].of = Current(m).key
<1> DEFINE k == Current(m).key
           j == copies[u].of
<1> SUFFICES ASSUME j # k PROVE FALSE
  OBVIOUS
<1>1. k \in Key /\ transfers[k].to = m /\ journal[k].open
  BY AtCreate DEF SpokeInv, PlaceInv, PlaceOf, At
<1>2. /\ u \in DstUuid /\ j # None /\ transfers[j].to = m /\ copies[u].status # "trashed"
      /\ u \notin journal[k].early /\ u \notin Journaled(m)
  BY DEF Found, InAccount
<1>3. j \in Key
  BY <1>2 DEF SpokeInv, TandemTypeOK
<1>4. Unmapped(u)
  <2> SUFFICES ASSUME ~Unmapped(u) PROVE FALSE
    OBVIOUS
  <2>1. journal[j].dst = u
    BY <1>2, MappedHere
  <2> QED
    BY <1>2, <1>3, <2>1 DEF Journaled
<1>5. CASE "lag" \notin Faults
  <2>1. Sought(u)
    BY <1>2, <1>4, <1>5 DEF OwnInv, TrashInv
  <2>2. PICK n \in Member : At(n, "find") /\ Current(n).key = j
    BY <2>1 DEF Sought
  <2>3. n = m
    BY <1>2, <2>2, AtCreate
  <2> QED
    BY <2>2, <2>3
<1>6. CASE "lag" \in Faults
  <2>0. "write" \notin Faults /\ "trashed" \notin Acts
    BY <1>6 DEF Orderly
  <2>1. PICK v \in DstUuid : copies[v].of = k
    <3>1. ~\E n \in Member : At(n, "fire") /\ Current(n).key = k
      BY <1>1, AtCreate DEF At
    <3> QED
      BY <1>1, <2>0, <3>1 DEF OwnInv, OpenInv
  <2>2. v < u
    <3>1. ~(\A w \in DstUuid : copies[w].of = k => u < w)
      BY <1>1, <1>2, <1>4, <2>0 DEF OwnInv, EarlyInv
    <3>2. \A w \in DstUuid : copies[w].of = k => w = v
      BY <1>1, <2>1, CopyAssumption DEF CopiesInv, NoDup
    <3>3. ~(u < v) /\ u # v /\ u \in Nat /\ v \in Nat
      BY <1>2, <2>1, <3>1, <3>2, CopyAssumption
    <3> QED
      BY <3>3
  <2>3. copies[v].status # "trashed"
    BY <2>0 DEF OwnInv, TrashInv
  <2>4. v \in Found(m, k)
    <3>1. ~copies[v].coming
      <4> SUFFICES ASSUME copies[v].coming PROVE FALSE
        OBVIOUS
      <4>1. u <= v
        BY <1>1, <1>2, <2>1 DEF OwnInv, ComingInv
      <4> QED
        BY <1>2, <2>1, <2>2, <4>1, CopyAssumption
    <3> QED
      BY <1>1, <2>1, <2>3, <3>1, OwnIsFound
  <2>5. u <= v /\ u \in Nat /\ v \in Nat
    BY <1>2, <2>4, CopyAssumption
  <2> QED
    BY <2>2, <2>5
<1> QED
  BY <1>5, <1>6

LEMMA CorrelateOwn ==
  ASSUME Orderly, IInv, SpokeInv, CopiesInv, OwnInv, NEW m \in Member, Correlate(m), NoneLate'
  PROVE  OwnInv'
<1> DEFINE k == Current(m).key
<1>1. /\ k \in Key /\ Exists(k) /\ transfers[k].to = m /\ At(m, "find") /\ journal[k].open
      /\ \A j \in Key : j # k => journal'[j] = journal[j]
      /\ UNCHANGED <<vars, things, local>>
      /\ ~At(m, "fire")' /\ ~At(m, "find")'
      /\ \A n \in Member : n # m => inbound'[n] = inbound[n]
  BY CorrelateWrites
<1>2. PICK u \in Found(m, k) : /\ \A v \in Found(m, k) : u <= v
                               /\ journal'[k].dst = u /\ ~journal'[k].open
  BY CorrelateWrites
<1>3. u \in DstUuid /\ copies[u].of = k /\ ~copies[u].coming
  <2>1. u \in DstUuid /\ ~copies[u].coming
    BY DEF Found, InAccount
  <2> QED
    BY <1>1, <1>2, <2>1, FoundIsOwn
<1>4. UNCHANGED <<copies, transfers>>
  BY <1>1 DEF vars, things
<1>5. /\ copies \in [DstUuid -> [of : Key \cup {None}, status : Status, aged : BOOLEAN, coming : BOOLEAN]]
      /\ journal \in [Key -> JournalType]
  BY DEF SpokeInv, TandemTypeOK, JournalType
<1>6. \A n \in Member : n # m => /\ \A place : At(n, place)' <=> At(n, place)
                                 /\ Current(n)' = Current(n)
  BY <1>1 DEF At, Current
<1>7. journal'[k].early = journal[k].early
  <2>1. journal' = [journal EXCEPT ![k].open = FALSE, ![k].dst = journal'[k].dst]
    <3>1. PICK w \in DstUuid : journal' = [journal EXCEPT ![k].open = FALSE, ![k].dst = w]
      BY DEF Correlate, Found, InAccount
    <3>2. journal'[k].dst = w
      BY <1>1, <1>5, <3>1 DEF JournalType
    <3> QED
      BY <3>1, <3>2
  <2> QED
    BY <1>1, <1>5, <2>1 DEF JournalType
<1>8. \A v \in DstUuid : Unmapped(v)' => Unmapped(v) /\ copies[v].of # k
  BY <1>1, <1>2, <1>4, <1>5 DEF Unmapped
<1>9. \A v \in DstUuid : Sought(v) /\ copies[v].of # k => Sought(v)'
  BY <1>1, <1>4, <1>6 DEF Sought
<1>10. MappedOwn'
  BY <1>1, <1>2, <1>3, <1>4 DEF OwnInv, MappedOwn
<1>11. AgedInv' /\ TrashInv'
  BY <1>4, <1>8, <1>9 DEF OwnInv, AgedInv, TrashInv
<1>12. UsedInv'
  BY <1>1, <1>4, <1>5, <1>7 DEF OwnInv, UsedInv, JournalType
<1>13. OpenInv'
  <2> SUFFICES ASSUME NEW j \in Key
               PROVE  /\ "write" \notin Faults /\ journal'[j].open =>
                           \/ \E n \in Member : At(n, "fire")' /\ (Current(n)').key = j
                           \/ \E v \in DstUuid : copies[v].of = j
                      /\ journal'[j].open \/ journal'[j].dst # None \/ journal'[j] = NoJournal
                      /\ journal'[j] # NoJournal => Exists(j)
    BY <1>4 DEF OpenInv, Exists
  <2>1. CASE j = k
    BY <1>1, <1>2, <1>3, <2>1, UuidAssumption
  <2>2. CASE j # k
    <3>1. journal'[j] = journal[j]
      BY <1>1, <2>2
    <3>2. ASSUME NEW n \in Member, At(n, "fire"), Current(n).key = j
          PROVE  At(n, "fire")' /\ (Current(n)').key = j
      <4>1. n # m
        BY <1>1, <3>2 DEF At
      <4> QED
        BY <1>6, <3>2, <4>1
    <3> QED
      BY <3>1, <3>2 DEF OwnInv, OpenInv
  <2> QED
    BY <2>1, <2>2
<1>14. EarlyInv'
  <2> SUFFICES ASSUME NEW v \in DstUuid, NEW j \in Key,
                      "write" \notin Faults, Unmapped(v)', copies[v].of # j, journal'[j].open,
                      transfers[copies[v].of].to = transfers[j].to,
                      \A w \in DstUuid : copies[w].of = j => v < w
               PROVE  v \in journal'[j].early
    BY <1>4 DEF EarlyInv
  <2>1. j # k /\ journal'[j] = journal[j]
    BY <1>1, <1>2
  <2> QED
    BY <1>8, <2>1 DEF OwnInv, EarlyInv
<1>15. ComingInv'
  <2>1. \A v \in DstUuid : copies[v].coming => copies[v].of # k
    BY <1>1, <1>3, CopyAssumption DEF CopiesInv, NoDup
  <2>2. LastInv'
    BY <1>4, <1>9, <2>1 DEF OwnInv, ComingInv, LastInv
  <2> QED
    BY <2>2 DEF ComingInv, LastInv, NoneLate
<1> QED
  BY <1>10, <1>11, <1>12, <1>13, <1>14, <1>15 DEF OwnInv

\* A create that is fired has its copy ordered at once, and waits for it.
LEMMA FireOwn ==
  ASSUME IInv, SpokeInv, CopiesInv, OwnInv, NEW m \in Member, Fire(m),
         TellThings(Current(m).key), Step(m, "find"), UNCHANGED vars, NoneLate'
  PROVE  OwnInv'
<1> DEFINE k == Current(m).key
<1>1. TellThings(k) /\ Step(m, "find") /\ UNCHANGED vars /\ UNCHANGED journal
  BY DEF Fire
<1>2. /\ k \in Key /\ At(m, "fire") /\ Exists(k) /\ transfers[k].to = m /\ journal[k].open
  BY FireWrites
<1>3. PICK u \in NextCopy, coming \in BOOLEAN :
        /\ \A v \in NextCopy : u <= v
        /\ copies' = [copies EXCEPT ![u].of = k, ![u].coming = coming]
  BY <1>1 DEF TellThings, MakeCopy
<1>4. /\ copies \in [DstUuid -> [of : Key \cup {None}, status : Status, aged : BOOLEAN, coming : BOOLEAN]]
      /\ journal \in [Key -> JournalType]
  BY DEF SpokeInv, TandemTypeOK, JournalType
<1>5. /\ u \in DstUuid /\ copies[u].of = None /\ copies'[u].of = k /\ k # None
      /\ \A v \in DstUuid : v # u => /\ copies'[v].of = copies[v].of
                                     /\ copies'[v].coming = copies[v].coming
      /\ \A v \in DstUuid : /\ copies'[v].aged = copies[v].aged
                            /\ copies'[v].status = copies[v].status
  BY <1>2, <1>3, <1>4, CopyAssumption DEF NextCopy
<1>6. /\ At(m, "find")' /\ Current(m)' = Current(m)
      /\ \A n \in Member : n # m => inbound'[n] = inbound[n]
  <2>1. "find" \in Place
    BY DEF Place
  <2>2. /\ inbound'[m].at = "find" /\ inbound'[m].batch = inbound[m].batch
        /\ Current(m)' = Current(m) /\ \A n \in Member : n # m => inbound'[n] = inbound[n]
    BY <1>1, <2>1, StepMoves DEF SpokeInv
  <2> QED
    BY <1>2, <2>2 DEF At
<1>7. \A n \in Member : n # m => /\ \A place : At(n, place)' <=> At(n, place)
                                 /\ Current(n)' = Current(n)
  BY <1>6 DEF At, Current
<1>8. \A v \in DstUuid : copies[v].of # k
  BY <1>2 DEF CopiesInv, FiredInv
<1>9. Sought(u)'
  BY <1>5, <1>6 DEF Sought
<1>10. \A v \in DstUuid : v # u /\ Unmapped(v)' => Unmapped(v)
  BY <1>1, <1>5 DEF Unmapped
<1>11. \A v \in DstUuid : v # u /\ Sought(v) => Sought(v)'
  <2> SUFFICES ASSUME NEW v \in DstUuid, v # u, NEW n \in Member,
                      At(n, "find"), Current(n).key = copies[v].of
               PROVE  Sought(v)'
    BY DEF Sought
  <2>1. n # m
    BY <1>2 DEF At
  <2> QED
    BY <1>5, <1>7, <2>1 DEF Sought
<1>12. UNCHANGED transfers
  BY <1>1 DEF vars
<1>13. MappedOwn'
  BY <1>1, <1>5, UuidAssumption, CopyAssumption DEF OwnInv, MappedOwn, SpokeInv, TandemTypeOK
<1>14. AgedInv'
  BY <1>5, <1>9, <1>10, <1>11 DEF OwnInv, AgedInv
<1>15. TrashInv'
  BY <1>5, <1>9, <1>10, <1>11 DEF OwnInv, TrashInv
<1>16. \A v \in DstUuid : copies[v].of # None => v < u
  <2> SUFFICES ASSUME NEW v \in DstUuid, copies[v].of # None PROVE v < u
    OBVIOUS
  <2>1. ~(u < v)
    BY <1>5 DEF OwnInv, UsedInv
  <2>2. u # v /\ u \in Nat /\ v \in Nat
    BY <1>5, CopyAssumption
  <2> QED
    BY <2>1, <2>2
<1>17. UsedInv'
  <2>1. \A v \in DstUuid : copies'[v].aged => copies'[v].of # None
    BY <1>5 DEF OwnInv, UsedInv
  <2>2. \A v, w \in DstUuid : copies'[w].of # None /\ v < w => copies'[v].of # None
    <3> SUFFICES ASSUME NEW v \in DstUuid, NEW w \in DstUuid, copies'[w].of # None, v < w
                 PROVE  copies'[v].of # None
      OBVIOUS
    <3>1. CASE w = u
      <4>1. ~(u <= v)
        BY <3>1, CopyAssumption
      <4>2. v \notin NextCopy
        BY <1>3, <4>1
      <4> QED
        BY <1>5, <4>2 DEF NextCopy
    <3>2. CASE w # u
      <4>1. copies[v].of # None
        BY <1>5, <3>2 DEF OwnInv, UsedInv
      <4> QED
        BY <1>5, <4>1
    <3> QED
      BY <3>1, <3>2
  <2>3. \A j \in Key : \A v \in journal'[j].early : copies'[v].of \notin {None, j}
    BY <1>1, <1>4, <1>5 DEF OwnInv, UsedInv, JournalType
  <2> QED
    BY <2>1, <2>2, <2>3 DEF UsedInv
<1>18. OpenInv'
  <2> SUFFICES ASSUME NEW j \in Key
               PROVE  /\ "write" \notin Faults /\ journal[j].open =>
                           \/ \E n \in Member : At(n, "fire")' /\ (Current(n)').key = j
                           \/ \E v \in DstUuid : copies'[v].of = j
                      /\ journal[j].open \/ journal[j].dst # None \/ journal[j] = NoJournal
                      /\ journal[j] # NoJournal => Exists(j)
    BY <1>1, <1>12 DEF OpenInv, Exists
  <2>1. CASE j = k
    BY <1>5, <2>1 DEF OwnInv, OpenInv
  <2>2. CASE j # k
    <3>1. ASSUME NEW n \in Member, At(n, "fire"), Current(n).key = j
          PROVE  At(n, "fire")' /\ (Current(n)').key = j
      BY <1>7, <2>2, <3>1
    <3>2. ASSUME NEW v \in DstUuid, copies[v].of = j
          PROVE  copies'[v].of = j
      BY <1>5, <3>2, CopyAssumption
    <3> QED
      BY <3>1, <3>2 DEF OwnInv, OpenInv
  <2> QED
    BY <2>1, <2>2
<1>19. EarlyInv'
  <2> SUFFICES ASSUME NEW v \in DstUuid, NEW j \in Key,
                      "write" \notin Faults, Unmapped(v)', copies'[v].of # j, journal[j].open,
                      transfers[copies'[v].of].to = transfers[j].to,
                      \A w \in DstUuid : copies'[w].of = j => v < w
               PROVE  v \in journal[j].early
    BY <1>1, <1>12 DEF EarlyInv
  <2>1. CASE v = u
    <3>1. j # k /\ transfers[j].to = m
      BY <1>2, <1>5, <2>1
    <3>2. ~\E n \in Member : At(n, "fire") /\ Current(n).key = j
      BY <1>2, <3>1, AtCreate
    <3>3. PICK w \in DstUuid : copies[w].of = j
      BY <3>2 DEF OwnInv, OpenInv
    <3>4. copies'[w].of = j /\ w < u /\ u < w
      BY <1>5, <1>16, <2>1, <3>3, CopyAssumption
    <3>5. u \in Nat /\ w \in Nat
      BY <1>5, CopyAssumption
    <3> QED
      BY <3>4, <3>5
  <2>2. CASE v # u
    <3>1. Unmapped(v) /\ copies[v].of = copies'[v].of
      BY <1>5, <1>10, <2>2
    <3>2. \A w \in DstUuid : copies[w].of = j => copies'[w].of = j
      BY <1>5, CopyAssumption
    <3> QED
      BY <3>1, <3>2 DEF OwnInv, EarlyInv
  <2> QED
    BY <2>1, <2>2
<1>20. ComingInv'
  <2> SUFFICES ASSUME NEW v \in DstUuid, copies'[v].coming
               PROVE  /\ copies'[v].of # None
                      /\ Sought(v)'
                      /\ \A w \in DstUuid : copies'[w].of # None
                             /\ transfers[copies'[w].of].to = transfers[copies'[v].of].to => w <= v
    BY <1>12 DEF ComingInv, NoneLate
  <2>1. CASE v = u
    <3>1. \A w \in DstUuid : copies'[w].of # None => w <= u
      BY <1>5, <1>16, CopyAssumption
    <3> QED
      BY <1>5, <1>9, <2>1, <3>1
  <2>2. CASE v # u
    <3>1. copies[v].coming /\ copies'[v].of = copies[v].of
      BY <1>5, <2>2
    <3>2. /\ copies[v].of # None /\ Sought(v)
          /\ \A w \in DstUuid : copies[w].of # None
                 /\ transfers[copies[w].of].to = transfers[copies[v].of].to => w <= v
      BY <3>1 DEF OwnInv, ComingInv
    <3>3. transfers[copies[v].of].to # m
      <4>1. PICK n \in Member : At(n, "find") /\ Current(n).key = copies[v].of
        BY <3>2 DEF Sought
      <4>2. n # m
        BY <1>2, <4>1 DEF At
      <4> QED
        BY <4>1, <4>2, AtCreate
    <3>4. ASSUME NEW w \in DstUuid, copies'[w].of # None,
                 transfers[copies'[w].of].to = transfers[copies[v].of].to
          PROVE  w <= v
      <4>1. w # u
        BY <1>2, <1>5, <3>3, <3>4
      <4> QED
        BY <1>5, <3>2, <3>4, <4>1
    <3> QED
      BY <1>11, <2>2, <3>1, <3>2, <3>4
  <2> QED
    BY <2>1, <2>2
<1> QED
  BY <1>13, <1>14, <1>15, <1>17, <1>18, <1>19, <1>20 DEF OwnInv

\* A write that fails leaves an open row without a copy.
LEMMA FireFailsOwn ==
  ASSUME "write" \in Faults, IInv, SpokeInv, OwnInv, NEW m \in Member, Fire(m),
         Nack(m), UNCHANGED copies, NoneLate'
  PROVE  OwnInv'
<1>1. At(m, "fire") /\ inbound[m].batch # <<>> /\ UNCHANGED <<copies, journal>>
  BY DEF Fire, At
<1>2. UNCHANGED transfers /\ Drop(m)
  BY NackIsQuiet DEF Nack
<1>3. ~At(m, "find") /\ \A n \in Member : n # m => inbound'[n] = inbound[n]
  BY <1>1, <1>2, DropMoves DEF SpokeInv, At
<1>4. \A u \in DstUuid : /\ Unmapped(u)' <=> Unmapped(u)
                         /\ Sought(u) => Sought(u)'
  BY <1>1, <1>3 DEF Unmapped, Sought, At, Current
<1>5. MappedOwn' /\ UsedInv' /\ EarlyInv'
  BY <1>1 DEF OwnInv, MappedOwn, UsedInv, EarlyInv
<1>6. OpenInv'
  BY <1>1, <1>2 DEF OwnInv, OpenInv, Exists
<1>7. AgedInv' /\ TrashInv'
  BY <1>1, <1>4 DEF OwnInv, AgedInv, TrashInv
<1>8. ComingInv'
  BY <1>1, <1>2, <1>4 DEF OwnInv, ComingInv, NoneLate
<1> QED
  BY <1>5, <1>6, <1>7, <1>8 DEF OwnInv

\* A search that is given up: the copy is out of the window from now on.
LEMMA TimesOutOwn ==
  ASSUME IInv, SpokeInv, CopiesInv, OwnInv, NEW m \in Member, CorrelateTimesOut(m),
         "late" \notin Faults, NoneLate'
  PROVE  OwnInv'
<1> DEFINE k == Current(m).key
           old(u) == copies[u].aged \/ u \in InAccount(m)
<1>1. /\ At(m, "find") /\ Nack(m) /\ UNCHANGED journal
      /\ Found(m, k) = {} \/ "lag" \in Faults
      /\ \A u \in DstUuid : copies[u].of = k => ~copies[u].coming
      /\ copies' = [u \in DstUuid |-> [copies[u] EXCEPT !.aged = old(u)]]
  BY DEF CorrelateTimesOut, Grow, OwnInv, ComingInv
<1>2. k \in Key /\ transfers[k].to = m /\ journal[k].open /\ inbound[m].batch # <<>>
  BY <1>1, AtCreate DEF SpokeInv, PlaceInv, PlaceOf, At
<1>3. /\ copies \in [DstUuid -> [of : Key \cup {None}, status : Status, aged : BOOLEAN, coming : BOOLEAN]]
      /\ journal \in [Key -> JournalType]
  BY DEF SpokeInv, TandemTypeOK, JournalType
<1> HIDE DEF old
<1>4. \A u \in DstUuid : /\ copies'[u].of = copies[u].of /\ copies'[u].status = copies[u].status
                         /\ copies'[u].aged = old(u) /\ copies'[u].coming = copies[u].coming
  BY <1>1, <1>3
<1>5. \A n \in Member : n # m => /\ \A place : At(n, place)' <=> At(n, place)
                                 /\ Current(n)' = Current(n)
  <2>1. Drop(m)
    BY <1>1 DEF Nack
  <2>2. \A n \in Member : n # m => inbound'[n] = inbound[n]
    BY <1>2, <2>1, DropMoves DEF SpokeInv
  <2> QED
    BY <2>2 DEF At, Current
<1>6. LedgerKeeps /\ UNCHANGED transfers
  BY <1>1, <1>2, NackCall, NackIsQuiet
<1>7. \A u \in DstUuid : Unmapped(u)' <=> Unmapped(u)
  BY <1>1, <1>4 DEF Unmapped
<1>8. \A u \in DstUuid : Sought(u) => Sought(u)' \/ copies[u].of = k
  BY <1>4, <1>5 DEF Sought
<1>9. MappedOwn'
  BY <1>1, <1>4 DEF OwnInv, MappedOwn, SpokeInv, TandemTypeOK
<1>10. UsedInv'
  <2>1. \A u \in DstUuid : copies'[u].aged => copies'[u].of # None
    BY <1>4 DEF OwnInv, UsedInv, InAccount, old
  <2>2. \A u, v \in DstUuid : copies'[v].of # None /\ u < v => copies'[u].of # None
    BY <1>4 DEF OwnInv, UsedInv
  <2>3. \A j \in Key : \A u \in journal'[j].early : copies'[u].of \notin {None, j}
    BY <1>1, <1>3, <1>4 DEF OwnInv, UsedInv, JournalType
  <2> QED
    BY <2>1, <2>2, <2>3 DEF UsedInv
<1>11. AgedInv'
  <2>1. ASSUME NEW u \in DstUuid, Unmapped(u), copies[u].of = k
        PROVE  old(u)
    BY <1>1, <1>2, <2>1, CopyAssumption DEF InAccount, old
  <2>2. ASSUME NEW u \in DstUuid, copies[u].aged
        PROVE  old(u)
    BY <2>2 DEF old
  <2> QED
    BY <1>4, <1>7, <1>8, <2>1, <2>2 DEF OwnInv, AgedInv
<1>12. TrashInv'
  <2>1. ASSUME "lag" \notin Faults, NEW u \in DstUuid, Unmapped(u), copies[u].of = k
        PROVE  copies[u].status = "trashed"
    BY <1>1, <1>2, <2>1, OwnIsFound
  <2> QED
    BY <1>4, <1>7, <1>8, <2>1 DEF OwnInv, TrashInv
<1>16. /\ UNCHANGED <<journal, transfers>>
       /\ \A u \in DstUuid : copies'[u].of = copies[u].of
  BY <1>1, <1>4, <1>6
<1>13. OpenInv'
  <2> SUFFICES ASSUME NEW j \in Key
               PROVE  /\ "write" \notin Faults /\ journal[j].open =>
                           \/ \E n \in Member : At(n, "fire")' /\ (Current(n)').key = j
                           \/ \E u \in DstUuid : copies[u].of = j
                      /\ journal[j].open \/ journal[j].dst # None \/ journal[j] = NoJournal
                      /\ journal[j] # NoJournal => Exists(j)
    BY <1>16 DEF OpenInv, Exists
  <2>1. ASSUME NEW n \in Member, At(n, "fire"), Current(n).key = j
        PROVE  At(n, "fire")' /\ (Current(n)').key = j
    <3>1. n # m
      BY <1>1, <2>1 DEF At
    <3> QED
      BY <1>5, <2>1, <3>1
  <2>2. OpenInv
    BY DEF OwnInv
  <2> QED
    BY <2>1, <2>2 DEF OpenInv
<1>14. EarlyInv'
  <2>1. EarlyInv
    BY DEF OwnInv
  <2>2. \A u \in DstUuid : copies'[u].of = copies[u].of
    BY <1>4
  <2> HIDE DEF k
  <2> QED
    BY <1>1, <1>6, <1>7, <2>1, <2>2 DEF EarlyInv
<1>15. ComingInv'
  <2>1. LastInv'
    BY <1>1, <1>4, <1>6, <1>8, LastKeeps
  <2> QED
    BY <2>1 DEF ComingInv, LastInv, NoneLate
<1> QED
  BY <1>9, <1>10, <1>11, <1>12, <1>13, <1>14, <1>15 DEF OwnInv

\* Searches and firings go on when the one who moves is at neither.
SearchesGoOn ==
  \A m \in Member : /\ At(m, "find") => At(m, "find")' /\ Current(m)' = Current(m)
                    /\ At(m, "fire") => At(m, "fire")' /\ Current(m)' = Current(m)

LEMMA OthersSearch ==
  ASSUME NEW m \in Member, ~At(m, "find"), ~At(m, "fire"),
         \A n \in Member : n # m => inbound'[n] = inbound[n]
  PROVE  SearchesGoOn
BY DEF SearchesGoOn, At, Current

LEMMA AllSearch ==
  ASSUME UNCHANGED inbound
  PROVE  SearchesGoOn
BY DEF SearchesGoOn, At, Current

LEMMA ApplySteady ==
  ASSUME SpokeInv, NEW m \in Member,
         Reack(m) \/ Recorrelate(m) \/ AckCopy(m) \/ ApplyTerminal(m) \/ AckEcho(m)
  PROVE  Steady
<1>1. Calm /\ inbound[m].batch # <<>>
  BY ApplyCalm DEF Reack, Recorrelate, AckCopy, ApplyTerminal, AckEcho, At
<1>2. ~At(m, "find") /\ ~At(m, "fire")
  BY DEF Reack, Recorrelate, AckCopy, ApplyTerminal, AckEcho, At
<1>3. SearchesGoOn
  <2>1. Drop(m) \/ Step(m, "find") \/ Step(m, "ack")
    BY AckDrops DEF Reack, Recorrelate, AckCopy, ApplyTerminal, AckEcho, Nack
  <2>2. \A n \in Member : n # m => inbound'[n] = inbound[n]
    BY <1>1, <2>1, DropMoves, StepMoves DEF SpokeInv, Place
  <2> QED
    BY <1>2, <2>2, OthersSearch
<1>4. copies \in [DstUuid -> [of : Key \cup {None}, status : Status, aged : BOOLEAN, coming : BOOLEAN]]
  BY DEF SpokeInv, TandemTypeOK
<1>5. \/ UNCHANGED copies
      \/ \E u : copies' = [copies EXCEPT ![u].status = Completed(@)]
  BY DEF Reack, Recorrelate, AckCopy, ApplyTerminal, AckEcho, things, CompleteCopy
<1>6. \A u \in DstUuid : /\ copies'[u].aged = copies[u].aged
                         /\ copies'[u].coming = copies[u].coming
                         /\ copies'[u].status = "trashed" <=> copies[u].status = "trashed"
  BY <1>4, <1>5 DEF Completed
<1> QED
  BY <1>1, <1>3, <1>6 DEF Steady, SearchesGoOn

LEMMA RestSteady ==
  ASSUME SpokeInv,
         \/ \E m \in Member : \/ \E k \in Todo : Outbound(m, k)
                              \/ Lease(m)
                              \/ GetWatch(m)
                              \/ \E e \in Entry : Walk(m, e)
         \/ \E u \in DstUuid : ThingsMakes(u)
         \/ \E d \in Delivery : Expire(d)
         \/ \E a \in Acts : Act(a)
  PROVE  Steady
<1>1. Calm
  BY WalkCalm, RestCalm
<1>2. SearchesGoOn
  <2>1. ASSUME NEW m \in Member, Lease(m)
        PROVE  SearchesGoOn
    <3>1. ~At(m, "find") /\ ~At(m, "fire")
      BY <2>1 DEF Lease, At
    <3>2. \A n \in Member : n # m => inbound'[n] = inbound[n]
      BY <2>1 DEF Lease, SpokeInv, TandemTypeOK
    <3> QED
      BY <3>1, <3>2, OthersSearch
  <2>2. ASSUME NEW u \in DstUuid, ThingsMakes(u)
        PROVE  SearchesGoOn
    BY <2>2, ThingsMakesWrites DEF SearchesGoOn, At, Current
  <2> QED
    BY <2>1, <2>2, AllSearch DEF Outbound, GetWatch, Walk, Report, Retag, PassOver, Expire,
      Act, ActOnTodo, ActOnCopy, apply
<1>3. copies \in [DstUuid -> [of : Key \cup {None}, status : Status, aged : BOOLEAN, coming : BOOLEAN]]
  BY DEF SpokeInv, TandemTypeOK
<1>4. ASSUME NEW a \in Acts, NEW w \in DstUuid, ActOnCopy(w, a), NEW u \in DstUuid
      PROVE  /\ copies'[u].aged = copies[u].aged /\ (copies'[u].coming => copies[u].coming)
             /\ copies[u].status = "trashed" => copies'[u].status = "trashed"
             /\ "trashed" \notin Acts /\ copies'[u].status = "trashed" => copies[u].status = "trashed"
  BY <1>3, <1>4 DEF ActOnCopy
<1>5. \/ UNCHANGED copies
      \/ \E a \in Acts, w \in DstUuid : ActOnCopy(w, a)
      \/ \E w \in DstUuid : ThingsMakes(w)
  BY DEF Outbound, Lease, GetWatch, Walk, Report, Retag, PassOver, Expire, Act, ActOnTodo, things
<1>6. ASSUME NEW u \in DstUuid
      PROVE  /\ copies'[u].aged = copies[u].aged /\ (copies'[u].coming => copies[u].coming)
             /\ copies[u].status = "trashed" => copies'[u].status = "trashed"
             /\ "trashed" \notin Acts /\ copies'[u].status = "trashed" => copies[u].status = "trashed"
  BY <1>4, <1>5, ThingsMakesWrites
<1> QED
  BY <1>1, <1>2, <1>6 DEF Steady, SearchesGoOn

LEMMA OwnNext ==
  ASSUME Orderly, IInv, SpokeInv, CopiesInv, OwnInv, TandemNext
  PROVE  OwnInv'
<1>1. LedgerKeeps
  BY SystemStepKeeps
<1>0. "late" \notin Faults /\ NoneLate'
  BY NoneLateKeeps DEF Orderly, OwnInv, ComingInv, NoneLate
<1>2. CASE Steady
  BY <1>0, <1>1, <1>2, SteadyKeeps
<1>3. ~\E m \in Member : Crash(m)
  BY DEF Crash, Orderly
<1>4. ASSUME NEW m \in Member, Fire(m)
      PROVE  OwnInv'
  <2>1. "unverified" \notin Faults
    BY DEF Orderly
  <2> QED
    BY <1>0, <1>4, <2>1, FireOwn, FireFailsOwn DEF Fire
<1> QED
  BY <1>0, <1>2, <1>3, <1>4, IntendOwn, CorrelateOwn, TimesOutOwn, ApplySteady, RestSteady
     DEF TandemNext, Apply

LEMMA OwnStutter == OwnInv /\ UNCHANGED allVars => OwnInv'
<1> SUFFICES ASSUME OwnInv, UNCHANGED allVars PROVE OwnInv'
  OBVIOUS
<1>1. UNCHANGED <<transfers, copies, journal, inbound>>
  BY DEF allVars, vars, things, apply
<1> QED
  BY <1>1 DEF OwnInv, MappedOwn, UsedInv, OpenInv, AgedInv, EarlyInv, TrashInv, ComingInv, Unmapped,
     Sought, At, Current, Exists

LEMMA OwnInit == TandemInit => OwnInv
BY DEF TandemInit, Start, NoCopy, NoJournal, Idle, OwnInv, MappedOwn, UsedInv, OpenInv, AgedInv,
   EarlyInv, TrashInv, ComingInv, Unmapped

\* One delivery at a time makes the correlation unambiguous (core.py, head
\* comment), for any number of todos with one title, with lost requests and
\* lost replies, with copies that Things makes up to two minutes after it was
\* told, and with writes that fail or a mirror that lags, but not both, nor a
\* mirror that lags and people who trash copies.  It takes that no spoke dies,
\* that no write takes effect unseen and that Things is never later: each
\* leaves a fresh copy that nobody looks for and that the next todo takes.
THEOREM OneAtATimeIsOwn == Orderly => (TandemSpec => []CopyIsOwn)
<1> SUFFICES ASSUME Orderly PROVE TandemSpec => []CopyIsOwn
  OBVIOUS
<1>1. IInv /\ SpokeInv /\ CopiesInv /\ OwnInv /\ [TandemNext]_allVars => OwnInv'
  BY OwnNext, OwnStutter
<1>2. CopiesInv /\ OwnInv => CopyIsOwn
  BY DEF CopiesInv, DstInv, OwnInv, MappedOwn, CopyIsOwn
<1> QED
  BY <1>1, <1>2, OwnInit, SystemInvariance, CopiesInvariance, PTL DEF TandemSpec

\* With any fault, when no two todos of a sender have the same title.
DistinctTitles == \A j, k \in Key : j.from = k.from /\ Title[j] = Title[k] => j = k

THEOREM DistinctTitlesAreOwn == DistinctTitles => (TandemSpec => []CopyIsOwn)
<1> SUFFICES ASSUME DistinctTitles PROVE TandemSpec => []CopyIsOwn
  OBVIOUS
<1>1. SpokeInv /\ CopiesInv => CopyIsOwn
  <2> SUFFICES ASSUME SpokeInv, CopiesInv, NEW k \in Key, transfers[k].dst # None
               PROVE  copies[transfers[k].dst].of = k
    BY DEF CopyIsOwn
  <2>1. journal[k].dst = transfers[k].dst /\ journal[k].dst \in DstUuid
    BY DEF CopiesInv, DstInv, SpokeInv, TandemTypeOK
  <2>2. /\ copies[journal[k].dst].of \in Key
        /\ Title[copies[journal[k].dst].of] = Title[k]
        /\ copies[journal[k].dst].of.from = k.from
    BY <2>1 DEF CopiesInv, MappedInv, SpokeInv, TandemTypeOK
  <2> QED
    BY <2>1, <2>2 DEF DistinctTitles
<1> QED
  BY <1>1, SystemInvariance, CopiesInvariance, PTL

-----------------------------------------------------------------------------
(***************************************************************************)
(* Whose doing a terminal state is.                                        *)
(***************************************************************************)
\* Spokes with one loop, which do not die and whose writes are never reported
\* as failed when they took effect.
Alone == Gateway = {} /\ {"crash", "unverified"} \cap Faults = {}

\* A todo or a copy that is not open was ended by a person, by the spoke that
\* retagged it, or by an echo.
EndInv ==
  /\ \A k \in Key : todo[k].status # "open" =>
       k \in retagged \/ <<k, k.from>> \in acted \/ transfers[k].terminal # None
  /\ \A u \in DstUuid : copies[u].status # "open" =>
       /\ copies[u].of # None
       /\ \/ <<copies[u].of, transfers[copies[u].of].to>> \in acted
          \/ transfers[copies[u].of].terminal # None

\* A local phase has a list only while the inbound phase of the loop has nothing.
LoopInv == \A m \in Member : view[m] # {} => inbound[m].batch = <<>>

\* What ended while a local phase walks over its list was ended by a person,
\* or by the spoke itself when it retagged.
NewsInv ==
  \A m \in Member : \A e \in view[m] :
    /\ e.key.from = m =>
         (todo[e.key].status # "open" => e.key \in retagged \/ <<e.key, m>> \in acted)
    /\ e.key.from # m =>
         \A u \in DstUuid : copies[u].of = e.key =>
           (copies[u].status # "open" => <<e.key, m>> \in acted)

\* An echo that a spoke holds is for a party of a transfer that has ended.
ToldInv ==
  \A m \in Member, d \in Delivery : Held(m, d) /\ d.kind # "create" =>
    transfers[d.key].terminal # None /\ m \in {d.key.from, transfers[d.key].to}

PeopleInv == EndInv /\ LoopInv /\ NewsInv /\ ToldInv /\ ReportsArePeoples

\* Only a report changes a terminal state, the one of its transfer.
LEMMA NewsAreReports ==
  ASSUME IInv, SpokeInv, TandemNext
  PROVE  \/ NoNews
         \/ \E m \in Member, e \in Entry :
              /\ Report(m, e)
              /\ transfers'[e.key].terminal # None /\ transfers'[e.key].by = m
              /\ \A j \in Key : j # e.key => transfers'[j] = transfers[j]
<1>1. UNCHANGED vars => NoNews
  BY NoCall
<1>2. ASSUME NEW m \in Member, NEW k \in Todo, Outbound(m, k)
      PROVE  NoNews
  <2>1. k.src \in SrcUuid /\ HubPush(m, k)
    BY <1>2, TodoAssumption DEF Outbound, Key
  <2> QED
    BY <1>1, <2>1, PushKeeps DEF HubPush
<1>3. ASSUME NEW m \in Member, Lease(m) \/ GetWatch(m) \/ Crash(m)
      PROVE  NoNews
  BY <1>1, <1>3, LeaseKeeps, WatchKeeps DEF Lease, GetWatch, Crash
<1>4. ASSUME NEW m \in Member, Apply(m)
      PROVE  NoNews
  <2>1. CASE Intend(m) \/ Recorrelate(m) \/ Correlate(m)
    BY <1>1, <2>1 DEF Intend, Recorrelate, Correlate
  <2>2. CASE Fire(m) \/ CorrelateTimesOut(m) \/ ApplyTerminal(m)
    <3>1. inbound[m].batch # <<>>
      BY <2>2 DEF Fire, CorrelateTimesOut, ApplyTerminal, At
    <3> QED
      BY <1>1, <2>2, <3>1, NackCall DEF Fire, CorrelateTimesOut, ApplyTerminal
  <2>3. CASE AckEcho(m)
    BY <2>3, AckEchoCall DEF AckEcho
  <2>4. CASE Reack(m) \/ AckCopy(m)
    <3> DEFINE u == journal[Current(m).key].dst
    <3>1. inbound[m].batch # <<>> /\ u # None /\ HubAck(m, AckCreate(m, Current(m), u))
      BY <2>4 DEF Reack, AckCopy, SpokeInv, PlaceInv, PlaceOf, At
    <3>2. u \in DstUuid
      BY <3>1, CurrentKnown DEF SpokeInv, TandemTypeOK
    <3> QED
      BY <3>1, <3>2, AckCreateCall
  <2> QED
    BY <1>4, <2>1, <2>2, <2>3, <2>4 DEF Apply
<1>5. ASSUME NEW m \in Member, NEW e \in Entry, Report(m, e)
      PROVE  \/ NoNews
             \/ /\ transfers'[e.key].terminal # None /\ transfers'[e.key].by = m
                /\ \A j \in Key : j # e.key => transfers'[j] = transfers[j]
  <2> DEFINE k == e.key
             t == Reported(m, k)
  <2>1. /\ k \in Key /\ e \in view[m] /\ Reportable(m, k)
        /\ HubObserve(m, k, t) \/ UNCHANGED vars
    BY <1>5 DEF Report, Entry
  <2>2. k.from = m \/ transfers[k].dst # None
    BY <2>1 DEF SpokeInv, ViewInv, IInv, WatchInv
  <2>3. t \in Terminal /\ t # None
    BY <2>1, <2>2, ReportedIsOwn, NullAssumption DEF Reportable, Terminal
  <2>4. CASE SetTerminal(m, k, t)
    <3>1. QueueEcho(deliveries, m, k, t)
      BY <2>4 DEF SetTerminal
    <3> QED
      BY <2>1, <2>3, <3>1, ReportChanges
  <2>5. CASE t = "completed" /\ UpgradeTerminal(m, k)
    <3>1. QueueEcho(WithoutCancel(k), m, k, t)
      BY <2>5 DEF UpgradeTerminal
    <3> QED
      BY <2>1, <2>3, <3>1, ReportChanges
  <2> QED
    BY <1>1, <2>1, <2>4, <2>5 DEF HubObserve
<1>6. ASSUME NEW m \in Member, NEW e \in Entry, Retag(m, e) \/ PassOver(m, e)
      PROVE  NoNews
  BY <1>1, <1>6 DEF Retag, PassOver
<1>7. ASSUME NEW d \in Delivery, Expire(d)
      PROVE  NoNews
  BY <1>7, ExpiryKeeps DEF Expire
<1>8. ASSUME NEW a \in Acts, Act(a)
      PROVE  NoNews
  BY <1>1, <1>8 DEF Act, ActOnTodo, ActOnCopy
<1>9. ASSUME NEW u \in DstUuid, ThingsMakes(u)
      PROVE  NoNews
  BY <1>1, <1>9, ThingsMakesWrites
<1> QED
  BY <1>2, <1>3, <1>4, <1>5, <1>6, <1>7, <1>8, <1>9 DEF TandemNext, Walk

\* What a spoke holds next it held before or was leased.
LEMMA HeldWasLeased ==
  ASSUME SpokeInv, TandemNext, NEW n \in Member, NEW d \in Delivery, Held(n, d)'
  PROVE  Held(n, d) \/ Leasable(n, d)
<1>1. inbound \in [Member -> [batch : Seq(Delivery), at : Place, late : SUBSET DstUuid]]
  BY DEF SpokeInv, TandemTypeOK
<1>2. CASE UNCHANGED inbound
  BY <1>2 DEF Held
<1>3. ASSUME NEW m \in Member, Apply(m)
      PROVE  Held(n, d)
  <2>1. inbound[m].batch # <<>>
    BY <1>3 DEF Apply, Intend, Fire, Reack, Recorrelate, Correlate, CorrelateTimesOut, AckCopy,
      ApplyTerminal, AckEcho, At
  <2>2. Drop(m) \/ \E place \in Place : Step(m, place)
    BY <1>3, AckDrops DEF Apply, Intend, Fire, Reack, Recorrelate, Correlate, CorrelateTimesOut,
      AckCopy, ApplyTerminal, AckEcho, Nack, Place
  <2> QED
    BY <2>1, <2>2, DropMoves, StepMoves DEF SpokeInv
<1>4. ASSUME NEW m \in Member, Crash(m)
      PROVE  Held(n, d)
  <2>1. inbound' = [inbound EXCEPT ![m] = Idle]
    BY <1>4 DEF Crash
  <2>2. inbound'[n] = inbound[n] \/ inbound'[n].batch = <<>>
    BY <1>1, <2>1 DEF Idle
  <2> QED
    BY <2>2 DEF Held
<1>5. ASSUME NEW m \in Member, NEW s \in InOrder(Batch(m)), inbound' = [inbound EXCEPT ![m].batch = s]
      PROVE  Held(n, d) \/ Leasable(n, d)
  <2>1. CASE n = m
    <3>1. inbound'[n].batch = s
      BY <1>1, <1>5, <2>1
    <3>2. PICK c \in 0 .. Limit : s \in [1 .. c -> Batch(m)]
      BY <1>5 DEF InOrder
    <3>3. \A b \in Batch(m) : b \in Delivery /\ Leasable(m, b)
      BY DEF Batch
    <3>4. c \in Nat /\ s \in [1 .. c -> Delivery]
      BY <3>2, <3>3, LimitAssumption
    <3>5. Len(s) = c
      BY <3>4
    <3> QED
      BY <2>1, <3>1, <3>2, <3>3, <3>5 DEF Held
  <2>2. CASE n # m
    BY <1>1, <1>5, <2>2 DEF Held
  <2> QED
    BY <2>1, <2>2
<1>6. ASSUME NEW m \in Member, Lease(m)
      PROVE  Held(n, d) \/ Leasable(n, d)
  BY <1>2, <1>5, <1>6 DEF Lease
<1>7. ASSUME NEW u \in DstUuid, ThingsMakes(u)
      PROVE  Held(n, d)
  BY <1>7, ThingsMakesWrites DEF Held
<1> QED
  BY <1>2, <1>3, <1>4, <1>6, <1>7 DEF TandemNext, Outbound, GetWatch, Walk, Report, Retag, PassOver,
     Expire, Act, ActOnTodo, ActOnCopy, apply

LEMMA LoopKeeps ==
  ASSUME Gateway = {}, SpokeInv, LoopInv, TandemNext
  PROVE  LoopInv'
<1>1. /\ inbound \in [Member -> [batch : Seq(Delivery), at : Place, late : SUBSET DstUuid]]
      /\ view \in [Member -> SUBSET Entry]
  BY DEF SpokeInv, TandemTypeOK
<1>2. ASSUME UNCHANGED inbound, \A n \in Member : view'[n] \subseteq view[n]
      PROVE  LoopInv'
  BY <1>2 DEF LoopInv
<1>3. ASSUME NEW m \in Member, Apply(m)
      PROVE  LoopInv'
  <2>1. inbound[m].batch # <<>> /\ UNCHANGED view
    BY <1>3 DEF Apply, Intend, Fire, Reack, Recorrelate, Correlate, CorrelateTimesOut, AckCopy,
      ApplyTerminal, AckEcho, At, local
  <2>2. Drop(m) \/ \E place \in Place : Step(m, place)
    BY <1>3, AckDrops DEF Apply, Intend, Fire, Reack, Recorrelate, Correlate, CorrelateTimesOut,
      AckCopy, ApplyTerminal, AckEcho, Nack, Place
  <2>3. \A n \in Member : n # m => inbound'[n] = inbound[n]
    BY <2>1, <2>2, DropMoves, StepMoves DEF SpokeInv
  <2> QED
    BY <2>1, <2>3 DEF LoopInv
<1>4. ASSUME NEW m \in Member, Lease(m)
      PROVE  LoopInv'
  <2>1. view[m] = {} /\ UNCHANGED view
    BY <1>4 DEF Lease, InboundMayRun, local
  <2>2. \A n \in Member : n # m => inbound'[n] = inbound[n]
    BY <1>1, <1>4 DEF Lease
  <2> QED
    BY <2>1, <2>2 DEF LoopInv
<1>5. ASSUME NEW m \in Member, GetWatch(m)
      PROVE  LoopInv'
  <2>1. inbound[m].batch = <<>> /\ UNCHANGED inbound
    BY <1>5 DEF GetWatch, LocalMayRun, apply
  <2>2. \A n \in Member : n # m => view'[n] = view[n]
    BY <1>1, <1>5 DEF GetWatch
  <2> QED
    BY <2>1, <2>2 DEF LoopInv
<1>6. ASSUME NEW m \in Member, Crash(m)
      PROVE  LoopInv'
  <2>1. /\ view'[m] = {}
        /\ \A n \in Member : n # m => view'[n] = view[n] /\ inbound'[n] = inbound[n]
    BY <1>1, <1>6 DEF Crash
  <2> QED
    BY <2>1 DEF LoopInv
<1>7. ASSUME NEW m \in Member, NEW e \in Entry, Walk(m, e)
      PROVE  LoopInv'
  <2>1. UNCHANGED inbound /\ (Done(m, e) \/ view' = [view EXCEPT ![m] = {}])
    BY <1>7 DEF Walk, Report, Retag, PassOver, apply
  <2> QED
    BY <1>2, <2>1, DoneShrinks
<1>8. ASSUME \/ \E m \in Member, k \in Todo : Outbound(m, k)
             \/ \E d \in Delivery : Expire(d)
             \/ \E a \in Acts : Act(a)
      PROVE  LoopInv'
  BY <1>2, <1>8 DEF Outbound, Expire, Act, ActOnTodo, ActOnCopy, apply, local
<1>9. ASSUME NEW u \in DstUuid, ThingsMakes(u)
      PROVE  LoopInv'
  <2>1. UNCHANGED view /\ \A n \in Member : inbound'[n].batch = inbound[n].batch
    BY <1>9, ThingsMakesWrites DEF local
  <2> QED
    BY <2>1 DEF LoopInv
<1> QED
  BY <1>3, <1>4, <1>5, <1>6, <1>7, <1>8, <1>9 DEF TandemNext

\* A todo or a copy ends in this step.
FreshTodo(k) == todo[k].status = "open" /\ todo'[k].status # "open"
FreshCopy(u) == copies[u].status = "open" /\ copies'[u].status # "open"

\* k ends on the side of m: m's person did it, or it had been reported and no
\* local phase of m is under way.
EndsFor(m, k) == \/ <<k, m>> \in acted'
                 \/ transfers[k].terminal # None /\ view[m] = {}

\* What ends in this step is accounted for, and nothing is forgotten.
Accounted ==
  /\ \A k \in Key : FreshTodo(k) => k \in retagged' \/ EndsFor(k.from, k)
  /\ \A u \in DstUuid : FreshCopy(u) => /\ copies[u].of # None
                                        /\ EndsFor(transfers[copies[u].of].to, copies[u].of)
  /\ \A u \in DstUuid : copies[u].of # None => copies'[u].of = copies[u].of
  /\ acted \subseteq acted' /\ retagged \subseteq retagged'

LEMMA EndKeeps ==
  ASSUME IInv, SpokeInv, EndInv, LedgerKeeps, Accounted,
         \A k \in Key : transfers[k].terminal # None => transfers'[k].terminal # None
  PROVE  EndInv'
<1>1. ASSUME NEW k \in Key, todo'[k].status # "open"
      PROVE  k \in retagged' \/ <<k, k.from>> \in acted' \/ transfers'[k].terminal # None
  <2>1. CASE FreshTodo(k)
    BY <2>1 DEF Accounted, EndsFor
  <2>2. CASE ~FreshTodo(k)
    BY <1>1, <2>2 DEF FreshTodo, EndInv, Accounted
  <2> QED
    BY <2>1, <2>2
<1>2. ASSUME NEW u \in DstUuid, copies'[u].status # "open"
      PROVE  /\ copies'[u].of # None
             /\ \/ <<copies'[u].of, transfers'[copies'[u].of].to>> \in acted'
                \/ transfers'[copies'[u].of].terminal # None
  <2> DEFINE k == copies[u].of
  <2>1. /\ k # None
        /\ <<k, transfers[k].to>> \in acted' \/ transfers[k].terminal # None
    <3>1. CASE FreshCopy(u)
      BY <3>1 DEF Accounted, EndsFor
    <3>2. CASE ~FreshCopy(u)
      BY <1>2, <3>2 DEF FreshCopy, EndInv, Accounted
    <3> QED
      BY <3>1, <3>2
  <2>2. k \in Key /\ Exists(k) /\ copies'[u].of = k
    BY <2>1 DEF Accounted, SpokeInv, CopyInv, TandemTypeOK
  <2>3. transfers'[k].to = transfers[k].to
    BY <2>2 DEF LedgerKeeps
  <2> QED
    BY <2>1, <2>2, <2>3
<1> QED
  BY <1>1, <1>2 DEF EndInv

LEMMA NewsKeeps ==
  ASSUME IInv, SpokeInv, EndInv, NewsInv, Accounted, \A m \in Member : view'[m] \subseteq view[m]
  PROVE  NewsInv'
<1> SUFFICES ASSUME NEW m \in Member, NEW e \in view'[m]
             PROVE  /\ e.key.from = m =>
                         (todo'[e.key].status # "open" => e.key \in retagged' \/ <<e.key, m>> \in acted')
                    /\ e.key.from # m =>
                         \A u \in DstUuid : copies'[u].of = e.key =>
                           (copies'[u].status # "open" => <<e.key, m>> \in acted')
  BY DEF NewsInv
<1> DEFINE k == e.key
<1>1. e \in view[m] /\ k \in Key
  BY DEF SpokeInv, TandemTypeOK, Entry
<1>2. m \in {k.from, transfers[k].to}
  BY <1>1 DEF SpokeInv, ViewInv, IInv, WatchInv
<1>3. ASSUME k.from = m, todo'[k].status # "open"
      PROVE  k \in retagged' \/ <<k, m>> \in acted'
  <2>1. CASE FreshTodo(k)
    BY <1>1, <1>3, <2>1 DEF Accounted, EndsFor
  <2>2. CASE ~FreshTodo(k)
    BY <1>1, <1>3, <2>2 DEF FreshTodo, NewsInv, Accounted
  <2> QED
    BY <2>1, <2>2
<1>4. ASSUME k.from # m, NEW u \in DstUuid, copies'[u].of = k, copies'[u].status # "open"
      PROVE  <<k, m>> \in acted'
  <2>1. CASE FreshCopy(u)
    <3>1. copies[u].of = k /\ EndsFor(transfers[k].to, k)
      BY <1>4, <2>1 DEF Accounted
    <3> QED
      BY <1>1, <1>2, <1>4, <3>1 DEF EndsFor
  <2>2. CASE ~FreshCopy(u)
    <3>1. copies[u].status # "open"
      BY <1>4, <2>2 DEF FreshCopy
    <3>2. copies[u].of = k
      BY <1>4, <3>1 DEF EndInv, Accounted
    <3> QED
      BY <1>1, <1>4, <3>1, <3>2 DEF NewsInv, Accounted
  <2> QED
    BY <2>1, <2>2
<1> QED
  BY <1>3, <1>4

\* A step that ends nothing.
LEMMA QuietAccounts ==
  ASSUME \A k \in Key : todo'[k].status = todo[k].status,
         \A u \in DstUuid : copies'[u].status = copies[u].status,
         \A u \in DstUuid : copies[u].of # None => copies'[u].of = copies[u].of,
         acted \subseteq acted', retagged \subseteq retagged'
  PROVE  Accounted
BY DEF Accounted, FreshTodo, FreshCopy

LEMMA SameThingsAccount ==
  ASSUME UNCHANGED <<things, retagged>>
  PROVE  Accounted
BY QuietAccounts DEF things

LEMMA EchoAccounts ==
  ASSUME IInv, SpokeInv, LoopInv, ToldInv, CopyIsOwn, NEW m \in Member, ApplyTerminal(m)
  PROVE  Accounted
<1> DEFINE d == Current(m)
           k == d.key
           u == transfers[k].dst
<1>1. /\ inbound[m].batch # <<>> /\ d.kind # "create" /\ UNCHANGED <<acted, retagged>>
      /\ CompleteCopy(m, d) \/ UNCHANGED <<todo, copies>>
  BY DEF ApplyTerminal, At, local
<1>2. /\ d \in Delivery /\ Held(m, d) /\ k \in Key /\ u # None
  BY <1>1, CurrentHeld, CurrentKnown DEF SpokeInv
<1>3. /\ view[m] = {} /\ transfers[k].terminal # None /\ m \in {k.from, transfers[k].to}
  BY <1>1, <1>2 DEF LoopInv, ToldInv
<1>4. EndsFor(m, k)
  BY <1>3 DEF EndsFor
<1>5. /\ todo \in [Key -> [status : Status, tag : {"none", "trigger", "delegated"}]]
      /\ copies \in [DstUuid -> [of : Key \cup {None}, status : Status, aged : BOOLEAN, coming : BOOLEAN]]
  BY DEF SpokeInv, TandemTypeOK
<1>6. CASE UNCHANGED <<todo, copies>>
  BY <1>1, <1>6, SameThingsAccount DEF things
<1>7. CASE CompleteCopy(m, d) /\ k.from = m
  <2>1. UNCHANGED copies /\ \A j \in Key : j # k => todo'[j] = todo[j]
    BY <1>5, <1>7 DEF CompleteCopy
  <2> QED
    BY <1>1, <1>4, <1>7, <2>1 DEF Accounted, FreshTodo, FreshCopy
<1>8. CASE CompleteCopy(m, d) /\ k.from # m
  <2>1. /\ UNCHANGED todo /\ u \in DstUuid
        /\ \A v \in DstUuid : copies'[v].of = copies[v].of /\ (v # u => copies'[v] = copies[v])
    BY <1>2, <1>5, <1>8, TransferTypes DEF CompleteCopy
  <2>2. copies[u].of = k /\ k # None /\ transfers[k].to = m
    BY <1>2, <1>3, <1>8, CopyAssumption DEF CopyIsOwn
  <2> QED
    BY <1>1, <1>4, <2>1, <2>2 DEF Accounted, FreshTodo, FreshCopy
<1> QED
  BY <1>1, <1>6, <1>7, <1>8

LEMMA RetagAccounts ==
  ASSUME Alone, SpokeInv, NEW m \in Member, NEW e \in Entry, Retag(m, e)
  PROVE  Accounted
<1>1. e.key \in Key
  BY DEF Entry
<1>2. UNCHANGED <<copies, acted>>
  BY DEF Retag
<1>3. todo \in [Key -> [status : Status, tag : {"none", "trigger", "delegated"}]]
  BY DEF SpokeInv, TandemTypeOK
<1>4. CASE UNCHANGED <<todo, retagged>>
  BY <1>2, <1>4, SameThingsAccount DEF things
<1>5. CASE /\ todo' = [todo EXCEPT ![e.key] = [status |-> Completed(@.status), tag |-> "delegated"]]
           /\ retagged' = retagged \cup {e.key}
  <2>1. \A j \in Key : j # e.key => todo'[j] = todo[j]
    BY <1>3, <1>5
  <2> QED
    BY <1>2, <1>5, <2>1 DEF Accounted, FreshTodo, FreshCopy
<1> QED
  BY <1>4, <1>5 DEF Retag, Alone

LEMMA ActAccounts ==
  ASSUME IInv, SpokeInv, NEW a \in Acts, Act(a)
  PROVE  Accounted
<1>1. /\ todo \in [Key -> [status : Status, tag : {"none", "trigger", "delegated"}]]
      /\ copies \in [DstUuid -> [of : Key \cup {None}, status : Status, aged : BOOLEAN, coming : BOOLEAN]]
  BY DEF SpokeInv, TandemTypeOK
<1>2. UNCHANGED retagged
  BY DEF Act, ActOnTodo, ActOnCopy, local
<1>3. ASSUME NEW k \in Todo, ActOnTodo(k, a)
      PROVE  Accounted
  <2>1. UNCHANGED copies /\ acted' = acted \cup {<<k, k.from>>}
    BY <1>3 DEF ActOnTodo
  <2>2. \A j \in Key : j # k => todo'[j] = todo[j]
    BY <1>1, <1>3 DEF ActOnTodo
  <2> QED
    BY <1>2, <2>1, <2>2 DEF Accounted, FreshTodo, FreshCopy, EndsFor
<1>4. ASSUME NEW u \in DstUuid, ActOnCopy(u, a)
      PROVE  Accounted
  <2>1. /\ UNCHANGED todo /\ copies[u].of # None
        /\ acted' = acted \cup {<<copies[u].of, transfers[copies[u].of].to>>}
    BY <1>4 DEF ActOnCopy
  <2>2. \A v \in DstUuid : copies'[v].of = copies[v].of /\ (v # u => copies'[v] = copies[v])
    BY <1>1, <1>4 DEF ActOnCopy
  <2> QED
    BY <1>2, <2>1, <2>2 DEF Accounted, FreshTodo, FreshCopy, EndsFor
<1> QED
  BY <1>3, <1>4 DEF Act

LEMMA StepAccounts ==
  ASSUME Alone, IInv, SpokeInv, LoopInv, ToldInv, CopyIsOwn, TandemNext
  PROVE  Accounted
<1>1. copies \in [DstUuid -> [of : Key \cup {None}, status : Status, aged : BOOLEAN, coming : BOOLEAN]]
  BY DEF SpokeInv, TandemTypeOK
<1>2. ASSUME NEW m \in Member, Fire(m)
      PROVE  Accounted
  <2>1. UNCHANGED <<todo, acted, retagged>>
    BY <1>2 DEF Fire, local
  <2>2. \A u \in DstUuid : /\ copies'[u].status = copies[u].status
                           /\ copies[u].of # None => copies'[u].of = copies[u].of
    <3>1. \/ UNCHANGED copies
          \/ \E u \in NextCopy, coming \in BOOLEAN :
               /\ \A v \in NextCopy : u <= v
               /\ copies' = [copies EXCEPT ![u].of = Current(m).key, ![u].coming = coming]
      BY <1>2, FireWrites
    <3>2. ASSUME NEW v \in NextCopy, NEW coming \in BOOLEAN,
                 copies' = [copies EXCEPT ![v].of = Current(m).key, ![v].coming = coming],
                 NEW u \in DstUuid
          PROVE  copies'[u].status = copies[u].status /\ (u # v => copies'[u].of = copies[u].of)
      BY <1>1, <3>2 DEF NextCopy
    <3> QED
      BY <3>1, <3>2 DEF NextCopy
  <2> QED
    BY <2>1, <2>2, QuietAccounts
<1>3. ASSUME NEW m \in Member, CorrelateTimesOut(m)
      PROVE  Accounted
  <2>1. UNCHANGED <<todo, acted, retagged>>
    BY <1>3 DEF CorrelateTimesOut, local
  <2>2. \A u \in DstUuid : copies'[u].status = copies[u].status /\ copies'[u].of = copies[u].of
    BY <1>1, <1>3 DEF CorrelateTimesOut, Grow
  <2> QED
    BY <2>1, <2>2, QuietAccounts
<1>4. ASSUME NEW m \in Member, \/ Intend(m) \/ Reack(m) \/ Recorrelate(m) \/ Correlate(m)
                               \/ AckCopy(m) \/ AckEcho(m)
      PROVE  Accounted
  <2>1. UNCHANGED <<things, retagged>>
    BY <1>4 DEF Intend, Reack, Recorrelate, Correlate, AckCopy, AckEcho, local
  <2> QED
    BY <2>1, SameThingsAccount
<1>5. ASSUME \/ \E m \in Member : \/ \E k \in Todo : Outbound(m, k)
                                  \/ Lease(m)
                                  \/ GetWatch(m)
                                  \/ Crash(m)
                                  \/ \E e \in Entry : Report(m, e) \/ PassOver(m, e)
             \/ \E d \in Delivery : Expire(d)
      PROVE  Accounted
  <2>1. UNCHANGED <<things, retagged>>
    BY <1>5 DEF Outbound, Lease, GetWatch, Crash, Report, PassOver, Expire, local
  <2> QED
    BY <2>1, SameThingsAccount
<1>6. ASSUME NEW u \in DstUuid, ThingsMakes(u)
      PROVE  Accounted
  BY <1>6, ThingsMakesWrites, QuietAccounts DEF local
<1> QED
  BY <1>2, <1>3, <1>4, <1>5, <1>6, EchoAccounts, RetagAccounts, ActAccounts DEF TandemNext, Apply, Walk

\* A fresh list has nothing that was reported: what ended was ended by a person.
LEMMA GetWatchNews ==
  ASSUME SpokeInv, EndInv, NewsInv, NEW m \in Member, GetWatch(m)
  PROVE  NewsInv'
<1>1. UNCHANGED <<todo, copies, acted, retagged>>
  BY DEF GetWatch, things
<1>2. view \in [Member -> SUBSET Entry]
  BY DEF SpokeInv, TandemTypeOK
<1> DEFINE list == {[key |-> k, applied |-> transfers[k].dst # None] : k \in Watchlist(m)}
<1>3. view' = [view EXCEPT ![m] = list]
  BY DEF GetWatch
<1>4. \A e \in list : e.key \in Watchlist(m)
  OBVIOUS
<1> HIDE DEF list
<1>5. view'[m] = list /\ \A n \in Member : n # m => view'[n] = view[n]
  BY <1>2, <1>3
<1> SUFFICES ASSUME NEW n \in Member, NEW e \in view'[n]
             PROVE  /\ e.key.from = n =>
                         (todo[e.key].status # "open" => e.key \in retagged \/ <<e.key, n>> \in acted)
                    /\ e.key.from # n =>
                         \A u \in DstUuid : copies[u].of = e.key =>
                           (copies[u].status # "open" => <<e.key, n>> \in acted)
  BY <1>1 DEF NewsInv
<1>6. CASE n # m
  BY <1>5, <1>6 DEF NewsInv
<1>7. CASE n = m
  <2>1. /\ e.key \in Key /\ transfers[e.key].terminal = None
        /\ e.key.from = m \/ transfers[e.key].to = m
    BY <1>4, <1>5, <1>7 DEF Watchlist
  <2> QED
    BY <1>7, <2>1 DEF EndInv
<1> QED
  BY <1>6, <1>7

LEMMA ViewsShrink ==
  ASSUME SpokeInv, TandemNext, ~\E m \in Member : GetWatch(m)
  PROVE  \A n \in Member : view'[n] \subseteq view[n]
<1>1. ASSUME NEW m \in Member, (\E e \in Entry : Walk(m, e)) \/ Crash(m)
      PROVE  \A n \in Member : view'[n] \subseteq view[n]
  <2>1. (\E e : Done(m, e)) \/ view' = [view EXCEPT ![m] = {}]
    BY <1>1 DEF Walk, Report, Retag, PassOver, Crash
  <2> QED
    BY <2>1, DoneShrinks
<1>2. ASSUME NEW m \in Member, Apply(m) \/ Lease(m) \/ (\E k \in Todo : Outbound(m, k))
      PROVE  UNCHANGED view
  BY <1>2 DEF Apply, Intend, Fire, Reack, Recorrelate, Correlate, CorrelateTimesOut, AckCopy,
    ApplyTerminal, AckEcho, Lease, Outbound, local
<1>3. ASSUME NEW u \in DstUuid, ThingsMakes(u)
      PROVE  UNCHANGED view
  BY <1>3, ThingsMakesWrites DEF local
<1> QED
  BY <1>1, <1>2, <1>3 DEF TandemNext, Expire, Act, ActOnTodo, ActOnCopy, local

\* An echo in the table is for the party that did not report.
LEMMA LeasableTold ==
  ASSUME IInv, NEW m \in Member, NEW d \in Delivery, Leasable(m, d), d.kind # "create"
  PROVE  transfers[d.key].terminal # None /\ m \in {d.key.from, transfers[d.key].to}
<1>1. d.to = m /\ d.key \in Key /\ deliveries[d].state # "absent"
  BY DEF Leasable, Pending, Delivery
<1>2. transfers[d.key].terminal # None /\ d = EchoOf(d.key)
  BY <1>1 DEF IInv, EchoFollowsTerminal
<1> QED
  BY <1>1, <1>2 DEF EchoOf, EchoTo, OtherParty

LEMMA ToldKeeps ==
  ASSUME IInv, SpokeInv, ToldInv, LedgerKeeps, TandemNext,
         \A k \in Key : transfers[k].terminal # None => transfers'[k].terminal # None
  PROVE  ToldInv'
<1> SUFFICES ASSUME NEW m \in Member, NEW d \in Delivery, Held(m, d)', d.kind # "create"
             PROVE  transfers'[d.key].terminal # None /\ m \in {d.key.from, transfers'[d.key].to}
  BY DEF ToldInv
<1>1. transfers[d.key].terminal # None /\ m \in {d.key.from, transfers[d.key].to} /\ d.key \in Key
  BY HeldWasLeased, LeasableTold DEF ToldInv, Delivery
<1>2. Exists(d.key)
  BY HeldWasLeased DEF SpokeInv, InboundInv, Leasable, Pending, IInv, RowInv
<1> QED
  BY <1>1, <1>2 DEF LedgerKeeps

\* What a local phase reports was done by its person.
LEMMA ReportIsPeoples ==
  ASSUME IInv, SpokeInv, NewsInv, CopyIsOwn, NEW m \in Member, NEW e \in Entry, Report(m, e)
  PROVE  <<e.key, m>> \in acted
<1> DEFINE k == e.key
<1>1. /\ k \in Key /\ e \in view[m] /\ ~OwnDoing(m, e) /\ Reported(m, k) # "open"
  BY DEF Report, Reportable, Entry
<1>2. k.from = m \/ transfers[k].dst # None
  BY <1>1 DEF SpokeInv, ViewInv, IInv, WatchInv
<1>3. OwnClosed(m, k)
  BY <1>1, <1>2, ReportedIsOwn
<1>4. CASE k.from = m
  BY <1>1, <1>3, <1>4 DEF OwnClosed, OwnDoing, NewsInv
<1>5. CASE k.from # m
  <2>1. /\ transfers[k].dst \in DstUuid /\ copies[transfers[k].dst].of = k
        /\ copies[transfers[k].dst].status # "open"
    BY <1>1, <1>2, <1>3, <1>5, TransferTypes DEF OwnClosed, CopyIsOwn
  <2> QED
    BY <1>1, <1>5, <2>1 DEF NewsInv
<1> QED
  BY <1>4, <1>5

LEMMA PeopleNext ==
  ASSUME Alone, IInv, SpokeInv, PeopleInv, CopyIsOwn, TandemNext
  PROVE  PeopleInv'
<1>1. /\ EndInv /\ LoopInv /\ NewsInv /\ ToldInv /\ ReportsArePeoples /\ Gateway = {}
  BY DEF PeopleInv, Alone
<1>2. LedgerKeeps /\ Accounted
  BY <1>1, SystemStepKeeps, StepAccounts
<1>3. \A k \in Key : transfers[k].terminal # None => transfers'[k].terminal # None
  BY NewsAreReports DEF NoNews
<1>4. NewsInv'
  BY <1>1, <1>2, GetWatchNews, ViewsShrink, NewsKeeps
<1>5. ReportsArePeoples'
  <2> SUFFICES ASSUME NEW k \in Key, transfers'[k].terminal # None
               PROVE  <<k, transfers'[k].by>> \in acted
    BY <1>2 DEF ReportsArePeoples, Accounted
  <2>1. CASE NoNews
    BY <1>1, <2>1 DEF NoNews, ReportsArePeoples
  <2>2. ASSUME NEW m \in Member, NEW e \in Entry, Report(m, e), transfers'[e.key].by = m,
               \A j \in Key : j # e.key => transfers'[j] = transfers[j]
        PROVE  <<k, transfers'[k].by>> \in acted
    <3>1. <<e.key, m>> \in acted
      BY <1>1, <2>2, ReportIsPeoples
    <3> QED
      BY <1>1, <2>2, <3>1 DEF ReportsArePeoples
  <2> QED
    BY <2>1, <2>2, NewsAreReports
<1> QED
  BY <1>1, <1>2, <1>3, <1>4, <1>5, EndKeeps, LoopKeeps, ToldKeeps DEF PeopleInv

LEMMA PeopleStutter == PeopleInv /\ UNCHANGED allVars => PeopleInv'
<1> SUFFICES ASSUME PeopleInv, UNCHANGED allVars PROVE PeopleInv'
  OBVIOUS
<1>1. UNCHANGED <<transfers, todo, copies, acted, retagged, inbound, view>>
  BY DEF allVars, vars, things, local, apply
<1> QED
  BY <1>1 DEF PeopleInv, EndInv, LoopInv, NewsInv, ToldInv, ReportsArePeoples, Held

LEMMA PeopleInit == TandemInit => PeopleInv
BY DEF TandemInit, Start, Init, NoTransfer, NoCopy, Idle, PeopleInv, EndInv, LoopInv, NewsInv,
   ToldInv, ReportsArePeoples, Held

\* A terminal state in the ledger comes from a person, for any number of LAN
\* spokes and todos: what a spoke completed itself, on the todo that it retags
\* or for an echo, is never reported as news (is_retagged in
\* _observe_and_retag, and the one loop of spoke/main.py, which applies no echo
\* between the watchlist and the report).  It takes that every write that took
\* effect is known to have: a spoke that dies, or whose writer raises, between
\* the completion of a todo and mark_retagged reports its own doing.
THEOREM ReportsAreOfPeople ==
  Alone /\ (DistinctTitles \/ Orderly) => (TandemSpec => []ReportsArePeoples)
<1> SUFFICES ASSUME Alone, DistinctTitles \/ Orderly PROVE TandemSpec => []ReportsArePeoples
  OBVIOUS
<1>1. TandemSpec => []CopyIsOwn
  BY OneAtATimeIsOwn, DistinctTitlesAreOwn
<1>2. IInv /\ SpokeInv /\ PeopleInv /\ CopyIsOwn /\ [TandemNext]_allVars => PeopleInv'
  BY PeopleNext, PeopleStutter
<1>3. PeopleInv => ReportsArePeoples
  BY DEF PeopleInv
<1> QED
  BY <1>1, <1>2, <1>3, PeopleInit, SystemInvariance, PTL DEF TandemSpec
=============================================================================
