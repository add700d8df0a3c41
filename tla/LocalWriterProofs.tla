--------------------------- MODULE LocalWriterProofs ---------------------------
(***************************************************************************)
(* Theorems about LocalWriter and ThingsMirror, for any number of URLs     *)
(* that Things has not performed yet and anything people do.               *)
(***************************************************************************)
EXTENDS LocalWriter, TLAPS

-----------------------------------------------------------------------------
(***************************************************************************)
(* The inductive invariant.  A todo only ever moves forward, so what an    *)
(* old snapshot shows of its end still holds; and until the spoke has      *)
(* opened a URL, nobody but a person can have ended it.                    *)
(***************************************************************************)
Marked(t) == t.status = "completed" /\ "trigger" \notin t.tags /\ "delegated" \in t.tags

\* t is what may become of the todo s.
Before(s, t) ==
  /\ s.status # "open" => t.status # "open"
  /\ s.status = "completed" => t.status = "completed"
  /\ Marked(s) => Marked(t)

MirrorInv ==
  /\ MirrorTypeOK(Todo)
  /\ agent # Off => ~marked
  /\ SkipIsSafe
  /\ agent.at = "rename" /\ agent.cur /\ ~blurred => agent.copy = account
  /\ agent.at = "mark" /\ agent.cur /\ ~blurred => mirror = account
  /\ mirror # None => Before(mirror, account)
  /\ agent.at = "rename" => Before(agent.copy, account)

\* The tags that a retag sets.
Marks(u) == u.tags # None => "trigger" \notin u.tags /\ "delegated" \in u.tags

WriterInv ==
  /\ vocabulary \subseteq Tag
  /\ opened \in Seq(Update) /\ Len(opened) <= MaxOpen
  /\ spoke \in [at : {"idle", "status", "tags"}] \cup [at : {"verify"}, want : Update]
  /\ At("tags") => mirror # None
  /\ transfer \in {"applied", "ended", "reported", "acked"}
  /\ {retagged, acted, gaveUp} \subseteq BOOLEAN
  /\ "delegated" \in account.tags => "delegated" \in vocabulary
  /\ \A i \in 1 .. Len(opened) : Marks(opened[i])
  /\ At("verify") => Marks(spoke.want)
  /\ TrueIsTrue

\* Before its first URL the spoke has ended nothing; while it walks the
\* watchlist it has not marked the todo.
ReportInv ==
  /\ SelfReportNeedsGivingUp
  /\ At("status") \/ At("tags") => ~retagged /\ transfer \in {"applied", "ended"}
  /\ \/ acted \/ gaveUp \/ retagged \/ transfer = "acked" \/ At("verify")
     \/ opened = <<>> /\ account.status = "open"

IInv == MirrorInv /\ WriterInv /\ ReportInv

LEMMA InitIInv == LocalInit => IInv
<1> SUFFICES ASSUME LocalInit PROVE IInv
  OBVIOUS
<1>1. account = [tags |-> {"trigger"}, status |-> "open"] /\ account \in Todo
  BY DEF LocalInit, MirrorInit, Todo, Tag
<1>2. MirrorInv
  BY <1>1 DEF LocalInit, MirrorInit, MirrorInv, MirrorTypeOK, SkipIsSafe, Off
<1>3. opened = <<>> /\ opened \in Seq(Update) /\ Len(opened) = 0
  BY DEF LocalInit
<1>4. WriterInv
  <2>1. Len(opened) <= MaxOpen /\ 1 .. Len(opened) = {}
    BY <1>3, MaxOpenAssumption
  <2>2. spoke = [at |-> "idle"] /\ ~At("tags") /\ ~At("verify")
    BY DEF LocalInit, Idle, At
  <2>3. /\ vocabulary \subseteq Tag /\ transfer = "applied"
        /\ ~retagged /\ {retagged, acted, gaveUp} \subseteq BOOLEAN
    BY DEF LocalInit
  <2>4. "delegated" \notin account.tags
    BY <1>1
  <2>5. spoke \in [at : {"idle", "status", "tags"}]
    BY <2>2
  <2>6. TrueIsTrue
    BY <2>3 DEF TrueIsTrue
  <2>7. \A i \in 1 .. Len(opened) : Marks(opened[i])
    BY <2>1
  <2> QED
    BY <1>3, <2>1, <2>2, <2>3, <2>4, <2>5, <2>6, <2>7 DEF WriterInv
<1>5. ReportInv
  BY <1>1, <1>3 DEF LocalInit, ReportInv, SelfReportNeedsGivingUp, At, Idle
<1> QED
  BY <1>2, <1>4, <1>5 DEF IInv

-----------------------------------------------------------------------------
(***************************************************************************)
(* The mirror.                                                             *)
(***************************************************************************)
LEMMA AccountIsTodo == MirrorInv => account \in Todo /\ account # None
BY NoneAssumption DEF MirrorInv, MirrorTypeOK

\* Things stores what may become of the todo.
LEMMA ChangeKeeps ==
  ASSUME MirrorInv, NEW a \in Todo, Before(account, a), Change(a)
  PROVE  MirrorInv' /\ account' = a /\ mirror' = mirror
<1>1. account' = a /\ mirror' = mirror
  BY DEF Change
<1>2. CASE ChangesStat
  <2>1. ~marked' /\ ~blurred' /\ marked' \in BOOLEAN /\ blurred' \in BOOLEAN
    BY <1>2 DEF ChangesStat
  <2>2. CASE agent = Off
    BY <2>1, <2>2, <1>1, <1>2
       DEF ChangesStat, MirrorInv, MirrorTypeOK, SkipIsSafe, Off, Before
  <2>3. CASE agent # Off
    <3>1. agent' = [agent EXCEPT !.cur = FALSE]
      BY <2>3, <1>2 DEF ChangesStat
    <3>2. agent'.at = agent.at /\ ~agent'.cur /\ (agent.at = "rename" => agent'.copy = agent.copy)
      BY <2>3, <3>1 DEF MirrorInv, MirrorTypeOK
    <3>3. MirrorTypeOK(Todo)'
      BY <2>1, <2>3, <3>1, <1>1 DEF MirrorInv, MirrorTypeOK
    <3> QED
      BY <2>1, <3>2, <3>3, <1>1 DEF MirrorInv, SkipIsSafe, Before
  <2> QED
    BY <2>2, <2>3
<1>3. CASE LeavesStat
  BY <1>1, <1>3 DEF LeavesStat, MirrorInv, MirrorTypeOK, SkipIsSafe, Before
<1> QED
  BY <1>1, <1>2, <1>3 DEF Change

\* A step of the script, or a kick.
LEMMA AgentKeeps ==
  ASSUME MirrorInv, Agent \/ Refresh
  PROVE  MirrorInv' /\ account' = account /\ (mirror # None => mirror' # None)
<1> USE DEF MirrorInv, MirrorTypeOK, SkipIsSafe
<1>1. CASE AgentStarts
  BY <1>1 DEF AgentStarts, RunAt, Off
<1>2. CASE AgentCopies
  BY <1>2 DEF AgentCopies, Off, Before
<1>3. CASE AgentFails
  BY <1>3 DEF AgentFails, Off
<1>4. CASE AgentRenames
  <2>1. agent.copy \in Todo /\ agent.copy # None /\ agent # Off /\ agent.cur \in BOOLEAN
    BY <1>4, NoneAssumption DEF AgentRenames, Off
  <2> QED
    BY <1>4, <2>1 DEF AgentRenames, RunAt, Off
<1>5. CASE AgentMarks
  <2>1. agent # Off /\ agent.cur \in BOOLEAN
    BY <1>5 DEF AgentMarks, Off
  <2> QED
    BY <1>5, <2>1 DEF AgentMarks, Off
<1>6. CASE Refresh
  BY <1>6 DEF Refresh, Off
<1> QED
  BY <1>1, <1>2, <1>3, <1>4, <1>5, <1>6 DEF Agent

LEMMA MirrorStays ==
  ASSUME MirrorInv, UNCHANGED mirrorVars
  PROVE  MirrorInv' /\ account' = account /\ mirror' = mirror
BY DEF mirrorVars, MirrorInv, MirrorTypeOK, SkipIsSafe
-----------------------------------------------------------------------------
(***************************************************************************)
(* People and Things.                                                      *)
(***************************************************************************)
\* What keeps the other parts when only the account changes.
LEMMA AccountKeeps ==
  ASSUME WriterInv, ReportInv, NEW a \in Todo, Before(account, a),
         account' = a, mirror' = mirror,
         "delegated" \in a.tags => "delegated" \in vocabulary,
         UNCHANGED <<vocabulary, callVars>>,
         acted' \in BOOLEAN, acted => acted'
  PROVE  /\ opened' = opened => WriterInv'
         /\ opened' = opened /\ (acted' \/ a.status = account.status) => ReportInv'
<1>1. opened' = opened => WriterInv'
  BY DEF WriterInv, TrueIsTrue, Before, Marked, Marks, At, callVars
<1>2. ASSUME opened' = opened, acted' \/ a.status = account.status
      PROVE  ReportInv'
  BY <1>2 DEF ReportInv, SelfReportNeedsGivingUp, WriterInv, At, callVars
<1> QED
  BY <1>1, <1>2

LEMMA PutTagKeeps == IInv /\ PutTag => IInv'
<1> SUFFICES ASSUME IInv, PutTag PROVE IInv'
  OBVIOUS
<1> DEFINE a == [account EXCEPT !.tags = @ \cup {"home"}]
<1>1. account \in Todo
  BY AccountIsTodo DEF IInv
<1>2. /\ a \in Todo /\ a.status = account.status
      /\ a.tags = account.tags \cup {"home"}
  BY <1>1 DEF Todo, Tag
<1>3. Before(account, a) /\ ("delegated" \in a.tags => "delegated" \in vocabulary)
  BY <1>2 DEF Before, Marked, IInv, WriterInv
<1>4. MirrorInv' /\ account' = a /\ mirror' = mirror
  BY <1>2, <1>3, ChangeKeeps DEF PutTag, IInv
<1>5. acted' \in BOOLEAN /\ acted' = acted
  BY DEF PutTag, IInv, WriterInv
<1>6. UNCHANGED <<vocabulary, callVars>> /\ opened' = opened /\ (acted => acted')
  BY <1>5 DEF PutTag
<1>7. WriterInv /\ ReportInv
  BY DEF IInv
<1> HIDE DEF a
<1>8. WriterInv' /\ ReportInv'
  BY <1>2, <1>3, <1>4, <1>5, <1>6, <1>7, AccountKeeps
<1> QED
  BY <1>4, <1>8 DEF IInv

LEMMA EndTodoKeeps == IInv /\ EndTodo => IInv'
<1> SUFFICES ASSUME IInv, EndTodo PROVE IInv'
  OBVIOUS
<1>1. PICK s \in Acts : Change([account EXCEPT !.status = s])
  BY DEF EndTodo
<1> DEFINE a == [account EXCEPT !.status = s]
<1>2. account \in Todo /\ account.status = "open"
  BY AccountIsTodo DEF IInv, EndTodo
<1>3. a \in Todo /\ a.status # "open" /\ a.tags = account.tags
  BY <1>2, ActsAssumption DEF Todo
<1>4. Before(account, a) /\ ("delegated" \in a.tags => "delegated" \in vocabulary)
  BY <1>2, <1>3 DEF Before, Marked, IInv, WriterInv
<1>5. MirrorInv' /\ account' = a /\ mirror' = mirror
  BY <1>1, <1>3, <1>4, ChangeKeeps DEF IInv
<1>6. acted' = TRUE
  BY DEF EndTodo
<1>7. WriterInv' /\ ReportInv'
  BY <1>3, <1>4, <1>5, <1>6, AccountKeeps DEF EndTodo, IInv
<1> QED
  BY <1>5, <1>7 DEF IInv

\* The URLs that are left.
LEMMA TailKeeps ==
  ASSUME WriterInv, opened # <<>>, opened' = Tail(opened)
  PROVE  /\ opened' \in Seq(Update) /\ Len(opened') <= MaxOpen
         /\ \A i \in 1 .. Len(opened') : Marks(opened'[i])
<1>1. opened \in Seq(Update) /\ Len(opened) \in Nat /\ Len(opened) > 0
  BY DEF WriterInv
<1>2. /\ opened' \in Seq(Update) /\ Len(opened') = Len(opened) - 1
      /\ \A i \in 1 .. Len(opened') : opened'[i] = opened[i + 1] /\ i + 1 \in 1 .. Len(opened)
  BY <1>1
<1>3. \A i \in 1 .. Len(opened') : Marks(opened'[i])
  BY <1>2 DEF WriterInv
<1> QED
  BY <1>1, <1>2, <1>3, MaxOpenAssumption DEF WriterInv

\* Once a URL was opened, an end may be the spoke's.
LEMMA OpenedKeeps ==
  ASSUME ReportInv, opened # <<>>, UNCHANGED <<acted, callVars>>
  PROVE  ReportInv'
BY DEF ReportInv, SelfReportNeedsGivingUp, At, callVars

LEMMA PerformKeeps == IInv /\ Perform => IInv'
<1> SUFFICES ASSUME IInv, Perform PROVE IInv'
  OBVIOUS
<1> DEFINE u == Head(opened)
           a == Performed(u)
<1>1. account \in Todo
  BY AccountIsTodo DEF IInv
<1>2. u \in Update /\ Marks(u)
  <2>1. opened \in Seq(Update) /\ opened # <<>>
    BY DEF IInv, WriterInv, Perform
  <2>2. u = opened[1] /\ 1 \in 1 .. Len(opened) /\ u \in Update
    BY <2>1
  <2> QED
    BY <2>2 DEF IInv, WriterInv
<1>3. /\ a.status = "completed"
      /\ a.tags = IF u.tags = None THEN account.tags ELSE u.tags \cap vocabulary
  BY DEF Performed
<1> HIDE DEF u
<1>4. a \in Todo
  <2>1. account.tags \in SUBSET Tag
    BY <1>1 DEF Todo
  <2>2. u.tags = None \/ u.tags \in SUBSET Tag
    BY <1>2 DEF Update
  <2>3. (IF u.tags = None THEN account.tags ELSE u.tags \cap vocabulary) \in SUBSET Tag
    BY <2>1, <2>2
  <2> QED
    BY <2>3 DEF Performed, Todo
<1>5. "delegated" \in a.tags => "delegated" \in vocabulary
  BY <1>3 DEF IInv, WriterInv
<1>6. Marked(account) => Marked(a)
  BY <1>2, <1>3 DEF Marked, Marks, IInv, WriterInv
<1>7. Before(account, a)
  BY <1>3, <1>6 DEF Before
<1>8. MirrorInv' /\ account' = a /\ mirror' = mirror
  BY <1>4, <1>7, ChangeKeeps DEF Perform, IInv, u
<1>9. WriterInv'
  <2>1. /\ opened' \in Seq(Update) /\ Len(opened') <= MaxOpen
        /\ \A i \in 1 .. Len(opened') : Marks(opened'[i])
    BY TailKeeps DEF Perform, IInv
  <2>2. TrueIsTrue'
    BY <1>3, <1>6, <1>8 DEF TrueIsTrue, Marked, IInv, WriterInv, Perform, callVars
  <2> QED
    BY <2>1, <2>2, <1>5, <1>8 DEF IInv, WriterInv, Perform, callVars, At
<1>10. ReportInv'
  BY OpenedKeeps DEF Perform, IInv
<1> QED
  BY <1>8, <1>9, <1>10 DEF IInv

LEMMA DropKeeps == IInv /\ Drop => IInv'
<1> SUFFICES ASSUME IInv, Drop PROVE IInv'
  OBVIOUS
<1>1. MirrorInv' /\ account' = account /\ mirror' = mirror
  BY MirrorStays DEF Drop, IInv
<1>2. WriterInv'
  <2>1. /\ opened' \in Seq(Update) /\ Len(opened') <= MaxOpen
        /\ \A i \in 1 .. Len(opened') : Marks(opened'[i])
    BY TailKeeps DEF Drop, IInv
  <2> QED
    BY <2>1, <1>1 DEF IInv, WriterInv, TrueIsTrue, Drop, callVars, At
<1>3. ReportInv'
  BY OpenedKeeps DEF Drop, IInv
<1> QED
  BY <1>1, <1>2, <1>3 DEF IInv

-----------------------------------------------------------------------------
(***************************************************************************)
(* The launchd agent and the spoke.                                        *)
(***************************************************************************)
LEMMA AgentStepKeeps == IInv /\ Agent /\ UNCHANGED <<vocabulary, opened, acted, callVars>> => IInv'
<1> SUFFICES ASSUME IInv, Agent, UNCHANGED <<vocabulary, opened, acted, callVars>> PROVE IInv'
  OBVIOUS
<1>1. MirrorInv' /\ account' = account /\ (mirror # None => mirror' # None)
  BY AgentKeeps DEF IInv
<1>2. WriterInv'
  BY <1>1 DEF IInv, WriterInv, TrueIsTrue, callVars, At
<1>3. ReportInv'
  BY <1>1 DEF IInv, ReportInv, SelfReportNeedsGivingUp, callVars, At
<1> QED
  BY <1>1, <1>2, <1>3 DEF IInv

LEMMA GetWatchKeeps == IInv /\ GetWatch => IInv'
<1> SUFFICES ASSUME IInv, GetWatch PROVE IInv'
  OBVIOUS
<1>1. MirrorInv' /\ account' = account /\ (mirror # None => mirror' # None)
  BY AgentKeeps DEF GetWatch, IInv
<1>2. /\ spoke' = [at |-> "status"] /\ ~retagged /\ transfer = "applied" /\ ~At("verify")
      /\ UNCHANGED <<vocabulary, opened, acted, transfer, retagged, gaveUp>>
  BY DEF GetWatch, At
<1>3. WriterInv'
  BY <1>1, <1>2 DEF IInv, WriterInv, TrueIsTrue, At
<1>4. ReportInv'
  BY <1>1, <1>2 DEF IInv, ReportInv, SelfReportNeedsGivingUp, At
<1> QED
  BY <1>1, <1>3, <1>4 DEF IInv

\* The report that nobody meant needs an end that nobody but the spoke wrote.
LEMMA ReportKeeps == IInv /\ Report => IInv'
<1> SUFFICES ASSUME IInv, Report PROVE IInv'
  OBVIOUS
<1>1. MirrorInv' /\ account' = account /\ mirror' = mirror
  BY MirrorStays DEF Report, IInv
<1>2. /\ spoke' = [at |-> "idle"] /\ At("status") /\ transfer' \in {transfer, "reported"}
      /\ UNCHANGED <<vocabulary, opened, acted, retagged, gaveUp>>
  BY DEF Report, Idle
<1>3. ~retagged /\ transfer \in {"applied", "ended"}
  BY <1>2 DEF IInv, ReportInv
<1>4. account.status # "open"
  BY DEF Report, IInv, MirrorInv, Before
<1>5. acted \/ gaveUp
  BY <1>2, <1>3, <1>4 DEF IInv, ReportInv, At
<1>6. WriterInv'
  BY <1>1, <1>2 DEF IInv, WriterInv, TrueIsTrue, At
<1>7. ReportInv'
  BY <1>2, <1>5 DEF ReportInv, SelfReportNeedsGivingUp, At
<1> QED
  BY <1>1, <1>6, <1>7 DEF IInv

LEMMA GoOnKeeps == IInv /\ GoOn => IInv'
<1> SUFFICES ASSUME IInv, GoOn PROVE IInv'
  OBVIOUS
<1>1. MirrorInv' /\ account' = account /\ mirror' = mirror
  BY MirrorStays DEF GoOn, IInv
<1>2. /\ spoke' = [at |-> "idle"] \/ (spoke' = [at |-> "tags"] /\ mirror # None)
      /\ At("status")
      /\ UNCHANGED <<vocabulary, opened, acted, transfer, retagged, gaveUp>>
  BY DEF GoOn, Idle
<1>3. WriterInv'
  BY <1>1, <1>2 DEF IInv, WriterInv, TrueIsTrue, At
<1>4. ReportInv'
  BY <1>1, <1>2 DEF IInv, ReportInv, SelfReportNeedsGivingUp, At
<1> QED
  BY <1>1, <1>3, <1>4 DEF IInv

\* A URL that marks, or that only completes.
LEMMA OpenKeeps ==
  ASSUME IInv, NEW u \in Update, Marks(u), Open(u), ~At("verify"),
         UNCHANGED <<vocabulary, acted, transfer, retagged>>
  PROVE  IInv'
<1>1. CASE spoke' = Idle /\ UNCHANGED <<mirrorVars, opened, gaveUp>>
  <2>1. MirrorInv' /\ account' = account /\ mirror' = mirror
    BY <1>1, MirrorStays DEF IInv
  <2>2. spoke' = [at |-> "idle"] /\ UNCHANGED <<opened, gaveUp>>
    BY <1>1 DEF Idle
  <2>3. WriterInv'
    BY <2>1, <2>2 DEF IInv, WriterInv, TrueIsTrue, At
  <2>4. ReportInv'
    BY <2>1, <2>2 DEF IInv, ReportInv, SelfReportNeedsGivingUp, At
  <2> QED
    BY <2>1, <2>3, <2>4 DEF IInv
<1>2. ASSUME Len(opened) < MaxOpen, opened' = Append(opened, u),
             \/ spoke' = [at |-> "verify", want |-> u] /\ Refresh /\ UNCHANGED gaveUp
             \/ spoke' = Idle /\ gaveUp' = TRUE /\ UNCHANGED mirrorVars
      PROVE  IInv'
  <2>1. MirrorInv' /\ account' = account /\ (mirror # None => mirror' # None)
    BY <1>2, MirrorStays, AgentKeeps DEF IInv
  <2>2. \/ spoke' = [at |-> "verify", want |-> u] /\ UNCHANGED gaveUp
        \/ spoke' = [at |-> "idle"] /\ gaveUp' = TRUE
    BY <1>2 DEF Idle
  <2>3. opened \in Seq(Update) /\ Len(opened) \in Nat
    BY DEF IInv, WriterInv
  <2>4. /\ opened' \in Seq(Update) /\ Len(opened') = Len(opened) + 1
        /\ \A i \in 1 .. Len(opened') :
             opened'[i] = u \/ (i \in 1 .. Len(opened) /\ opened'[i] = opened[i])
    BY <1>2, <2>3
  <2>5. \A i \in 1 .. Len(opened') : Marks(opened'[i])
    BY <2>4 DEF IInv, WriterInv
  <2>6. Len(opened') <= MaxOpen
    BY <1>2, <2>3, <2>4, MaxOpenAssumption
  <2>7. WriterInv'
    <3>1. spoke' \in [at : {"idle", "status", "tags"}] \cup [at : {"verify"}, want : Update]
      BY <2>2
    <3>2. (At("tags") => mirror # None)' /\ (At("verify") => Marks(spoke.want))'
      BY <2>2 DEF At, Marks
    <3>3. TrueIsTrue' /\ gaveUp' \in BOOLEAN
      BY <2>1, <2>2 DEF IInv, WriterInv, TrueIsTrue
    <3> QED
      BY <2>1, <2>4, <2>5, <2>6, <3>1, <3>2, <3>3 DEF IInv, WriterInv
  <2>8. ReportInv'
    BY <2>2 DEF IInv, ReportInv, SelfReportNeedsGivingUp, At
  <2> QED
    BY <2>1, <2>7, <2>8 DEF IInv
<1> QED
  BY <1>1, <1>2 DEF Open

LEMMA RetagSenderCopyKeeps == IInv /\ RetagSenderCopy => IInv'
<1> SUFFICES ASSUME IInv, RetagSenderCopy PROVE IInv'
  OBVIOUS
<1> DEFINE tags == (mirror.tags \ {"trigger"}) \cup {"delegated"}
           u == [tags |-> tags]
<1>1. At("tags") /\ Open(u) /\ UNCHANGED <<vocabulary, acted, transfer, retagged>>
  BY DEF RetagSenderCopy
<1>2. mirror \in Todo
  BY <1>1 DEF IInv, WriterInv, MirrorInv, MirrorTypeOK
<1>3. tags \in SUBSET Tag /\ "trigger" \notin tags /\ "delegated" \in tags
  BY <1>2 DEF Todo, Tag
<1>4. u \in Update /\ Marks(u)
  BY <1>3 DEF Update, Marks
<1>5. ~At("verify")
  BY <1>1 DEF At
<1> HIDE DEF u
<1> QED
  BY <1>1, <1>4, <1>5, OpenKeeps

LEMMA ApplyTerminalKeeps == IInv /\ ApplyTerminal => IInv'
<1> SUFFICES ASSUME IInv, ApplyTerminal PROVE IInv'
  OBVIOUS
<1> DEFINE u == [tags |-> None]
<1>1. At("idle") /\ Open(u) /\ UNCHANGED <<vocabulary, acted, transfer, retagged>>
  BY DEF ApplyTerminal
<1>2. u \in Update /\ Marks(u)
  BY DEF Update, Marks
<1>3. ~At("verify")
  BY <1>1 DEF At
<1> HIDE DEF u
<1> QED
  BY <1>1, <1>2, <1>3, OpenKeeps

LEMMA RecipientEndsKeeps == IInv /\ RecipientEnds => IInv'
<1> SUFFICES ASSUME IInv, RecipientEnds PROVE IInv'
  OBVIOUS
<1>1. MirrorInv' /\ account' = account /\ mirror' = mirror
  BY MirrorStays DEF RecipientEnds, IInv
<1>2. /\ transfer = "applied" /\ transfer' = "ended"
      /\ UNCHANGED <<vocabulary, opened, acted, spoke, retagged, gaveUp>>
  BY DEF RecipientEnds
<1>3. WriterInv'
  BY <1>1, <1>2 DEF IInv, WriterInv, TrueIsTrue, At
<1>4. ReportInv'
  BY <1>1, <1>2 DEF IInv, ReportInv, SelfReportNeedsGivingUp, At
<1> QED
  BY <1>1, <1>3, <1>4 DEF IInv

\* What the mirror shows is true of the account, however old it is.
LEMMA VerifySucceedsKeeps == IInv /\ VerifySucceeds => IInv'
<1> SUFFICES ASSUME IInv, VerifySucceeds PROVE IInv'
  OBVIOUS
<1>1. MirrorInv' /\ account' = account /\ mirror' = mirror
  BY MirrorStays DEF VerifySucceeds, IInv
<1>2. /\ At("verify") /\ mirror # None /\ Shows(mirror, spoke.want)
      /\ spoke' = [at |-> "idle"]
      /\ UNCHANGED <<vocabulary, opened, acted, gaveUp>>
  BY DEF VerifySucceeds, Verified, Idle
<1>3. account.status = "completed"
  BY <1>2 DEF Shows, IInv, MirrorInv, Before
<1>4. Marks(spoke.want)
  BY <1>2 DEF IInv, WriterInv
<1>5. CASE spoke.want.tags = None
  <2>1. transfer' = "acked" /\ retagged' = retagged
    BY <1>5 DEF VerifySucceeds
  <2>2. WriterInv'
    BY <1>1, <1>2, <1>3, <2>1 DEF IInv, WriterInv, TrueIsTrue, At
  <2>3. ReportInv'
    BY <1>1, <1>2, <2>1 DEF IInv, ReportInv, SelfReportNeedsGivingUp, At
  <2> QED
    BY <1>1, <2>2, <2>3 DEF IInv
<1>6. CASE spoke.want.tags # None
  <2>1. transfer' = transfer /\ retagged' = TRUE
    BY <1>6 DEF VerifySucceeds
  <2>2. Marked(mirror)
    BY <1>2, <1>4, <1>6 DEF Marked, Marks, Shows
  <2>3. Marked(account)
    BY <1>2, <2>2 DEF IInv, MirrorInv, Before
  <2>4. WriterInv'
    BY <1>1, <1>2, <1>3, <2>1, <2>3 DEF IInv, WriterInv, TrueIsTrue, At, Marked
  <2>5. ReportInv'
    BY <1>1, <1>2, <2>1 DEF IInv, ReportInv, SelfReportNeedsGivingUp, At
  <2> QED
    BY <1>1, <2>4, <2>5 DEF IInv
<1> QED
  BY <1>5, <1>6

LEMMA VerifyGoesOnKeeps == IInv /\ VerifyGoesOn => IInv'
<1> SUFFICES ASSUME IInv, VerifyGoesOn PROVE IInv'
  OBVIOUS
<1>1. MirrorInv' /\ account' = account /\ (mirror # None => mirror' # None)
  BY AgentKeeps DEF VerifyGoesOn, IInv
<1>2. WriterInv'
  BY <1>1 DEF IInv, WriterInv, TrueIsTrue, VerifyGoesOn, callVars, At
<1>3. ReportInv'
  BY <1>1 DEF IInv, ReportInv, SelfReportNeedsGivingUp, VerifyGoesOn, callVars, At
<1> QED
  BY <1>1, <1>2, <1>3 DEF IInv

LEMMA VerifyGivesUpKeeps == IInv /\ VerifyGivesUp => IInv'
<1> SUFFICES ASSUME IInv, VerifyGivesUp PROVE IInv'
  OBVIOUS
<1>1. MirrorInv' /\ account' = account /\ mirror' = mirror
  BY MirrorStays DEF VerifyGivesUp, IInv
<1>2. /\ spoke' = [at |-> "idle"] /\ gaveUp' = TRUE
      /\ UNCHANGED <<vocabulary, opened, acted, transfer, retagged>>
  BY DEF VerifyGivesUp, Idle
<1>3. WriterInv'
  BY <1>1, <1>2 DEF IInv, WriterInv, TrueIsTrue, At
<1>4. ReportInv'
  BY <1>2 DEF ReportInv, SelfReportNeedsGivingUp, At
<1> QED
  BY <1>1, <1>3, <1>4 DEF IInv

-----------------------------------------------------------------------------
LEMMA NextIInv == IInv /\ [LocalNext]_localVars => IInv'
<1> SUFFICES ASSUME IInv, [LocalNext]_localVars PROVE IInv'
  OBVIOUS
<1>1. CASE LocalNext
  BY <1>1, PutTagKeeps, EndTodoKeeps, PerformKeeps, DropKeeps, RecipientEndsKeeps,
     AgentStepKeeps, GetWatchKeeps, ReportKeeps, GoOnKeeps, RetagSenderCopyKeeps,
     ApplyTerminalKeeps, VerifySucceedsKeeps, VerifyGoesOnKeeps, VerifyGivesUpKeeps
     DEF LocalNext, Spoke
<1>2. CASE UNCHANGED localVars
  <2>1. MirrorInv' /\ account' = account /\ mirror' = mirror
    BY <1>2, MirrorStays DEF localVars, IInv
  <2>2. WriterInv'
    BY <1>2, <2>1 DEF IInv, WriterInv, TrueIsTrue, localVars, callVars, At
  <2>3. ReportInv'
    BY <1>2, <2>1 DEF IInv, ReportInv, SelfReportNeedsGivingUp, localVars, callVars, At
  <2> QED
    BY <2>1, <2>2, <2>3 DEF IInv
<1> QED
  BY <1>1, <1>2

LEMMA LocalInvariance == LocalSpec => []IInv
<1>1. LocalInit => IInv
  BY InitIInv
<1>2. IInv /\ [LocalNext]_localVars => IInv'
  BY NextIInv
<1> QED
  BY <1>1, <1>2, PTL DEF LocalSpec

\* The types of the spoke, of Things and of the mirror (LocalTypeOK).
THEOREM LocalTypes == LocalSpec => []LocalTypeOK
<1>1. IInv => LocalTypeOK
  BY DEF IInv, MirrorInv, WriterInv, LocalTypeOK
<1> QED
  BY <1>1, LocalInvariance, PTL

\* A run of the snapshot script that skips the copy may skip it
\* (things-mirror.zsh), whenever it is killed and whatever changes meanwhile.
THEOREM SkipIsAlwaysSafe == LocalSpec => []SkipIsSafe
<1>1. IInv => SkipIsSafe
  BY DEF IInv, MirrorInv
<1> QED
  BY <1>1, LocalInvariance, PTL

\* What the local writer says is applied stays applied (_verify), for any
\* number of URLs that Things still has to perform.
THEOREM TrueStaysTrue == LocalSpec => []TrueIsTrue
<1>1. IInv => TrueIsTrue
  BY DEF IInv, WriterInv
<1> QED
  BY <1>1, LocalInvariance, PTL

\* A self-report needs a write that was not watched to its end
\* (_observe_and_retag).
THEOREM SelfReportsNeedGivingUp == LocalSpec => []SelfReportNeedsGivingUp
<1>1. IInv => SelfReportNeedsGivingUp
  BY DEF IInv, ReportInv
<1> QED
  BY <1>1, LocalInvariance, PTL
=============================================================================
