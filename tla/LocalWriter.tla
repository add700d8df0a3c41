------------------------------ MODULE LocalWriter ------------------------------
(***************************************************************************)
(* The sender's side on a Mac (spoke/writer_local.py with the local phase  *)
(* and the terminal applies of spoke/core.py): one delegated todo, from    *)
(* the moment its transfer is applied.                                     *)
(*                                                                         *)
(* A write is a URL that is handed to Things, which performs it some time  *)
(* later, in order, or never; the writer reads the mirror until it shows   *)
(* the result or 30 seconds are over.  Tags that Things does not have are  *)
(* dropped.  The tags of a retag are computed from the mirror, and people  *)
(* edit the todo meanwhile.                                                *)
(*                                                                         *)
(* Left out: the focus watchdog, the create (Tandem has it) and what the   *)
(* hub does with a report (TandemLedger has it).                           *)
(***************************************************************************)
EXTENDS ThingsMirror, Naturals, Sequences

CONSTANTS Acts,      \* how a person may end the todo
          MaxOpen    \* bound: URLs that Things has not performed yet

ASSUME ActsAssumption == Acts \subseteq {"completed", "canceled"}
ASSUME MaxOpenAssumption == MaxOpen \in Nat \ {0}

VARIABLES vocabulary,  \* the tags that Things has
          opened,      \* the URLs that Things has not performed yet
          spoke,       \* where the one thread of the spoke is
          transfer,    \* what the hub thinks of the transfer
          retagged,    \* the table retagged of the spoke
          acted,       \* history: a person ended the todo
          gaveUp       \* history: a retag was not watched to its end

callVars == <<spoke, transfer, retagged, gaveUp>>
localVars == <<mirrorVars, vocabulary, opened, acted, callVars>>

Tag == {"trigger", "delegated", "home"}
Todo == [tags : SUBSET Tag, status : {"open", "completed", "canceled"}]

ASSUME NoneAssumption == (\A T \in SUBSET Tag : T # None) /\ (\A t \in Todo : t # None)

\* An update: the tags to set, or None, and completed.
Update == [tags : (SUBSET Tag) \cup {None}]

\* What the check of a write looks for.  Slip: the tags are not compared.
ShowsEnd(t, u) == t.status = "completed"
Shows(t, u) == t.status = "completed" /\ (u.tags = None \/ t.tags = u.tags)

Idle == [at |-> "idle"]
At(place) == spoke.at = place

LocalInit ==
  /\ MirrorInit([tags |-> {"trigger"}, status |-> "open"])
  /\ vocabulary \in {Tag, Tag \ {"delegated"}}
  /\ opened = <<>>
  /\ spoke = Idle
  /\ transfer = "applied"
  /\ retagged = FALSE
  /\ acted = FALSE /\ gaveUp = FALSE

-----------------------------------------------------------------------------
(***************************************************************************)
(* People and Things.                                                      *)
(***************************************************************************)
\* A person puts a tag on the todo.
PutTag ==
  /\ "home" \notin account.tags
  /\ Change([account EXCEPT !.tags = @ \cup {"home"}])
  /\ UNCHANGED <<vocabulary, opened, acted, callVars>>

EndTodo ==
  /\ account.status = "open"
  /\ \E s \in Acts : Change([account EXCEPT !.status = s])
  /\ acted' = TRUE
  /\ UNCHANGED <<vocabulary, opened, callVars>>

Performed(u) == [tags   |-> IF u.tags = None THEN account.tags ELSE u.tags \cap vocabulary,
                 status |-> "completed"]

Perform ==
  /\ opened # <<>>
  /\ Change(Performed(Head(opened)))
  /\ opened' = Tail(opened)
  /\ UNCHANGED <<vocabulary, acted, callVars>>

\* "open returning proves nothing."
Drop ==
  /\ opened # <<>>
  /\ opened' = Tail(opened)
  /\ UNCHANGED <<mirrorVars, vocabulary, acted, callVars>>

-----------------------------------------------------------------------------
(***************************************************************************)
(* The local phase.                                                        *)
(***************************************************************************)
\* tick_local refreshes and fetches the watchlist.
GetWatch ==
  /\ At("idle")
  /\ transfer = "applied" /\ ~retagged
  /\ Refresh
  /\ spoke' = [at |-> "status"]
  /\ UNCHANGED <<vocabulary, opened, acted, transfer, retagged, gaveUp>>

\* The mirror shows that the todo ended.  The hub takes the first report, and
\* a completion over the recipient's cancel; observe may fail.
Report ==
  /\ At("status")
  /\ mirror # None /\ mirror.status # "open"
  /\ spoke' = Idle
  /\ \/ UNCHANGED transfer
     \/ /\ transfer = "applied" \/ (transfer = "ended" /\ mirror.status = "completed")
        /\ transfer' = "reported"
  /\ UNCHANGED <<mirrorVars, vocabulary, opened, acted, retagged, gaveUp>>

\* Slip: that there may be no snapshot yet is not considered.
GoOnBlind ==
  /\ At("status")
  /\ mirror # None => mirror.status = "open"
  /\ spoke' = [at |-> "tags"]
  /\ UNCHANGED <<mirrorVars, vocabulary, opened, acted, transfer, retagged, gaveUp>>

\* The mirror shows the todo open.  Without a mirror the tick fails.
GoOn ==
  /\ At("status")
  /\ mirror # None => mirror.status = "open"
  /\ spoke' = IF mirror = None THEN Idle ELSE [at |-> "tags"]
  /\ UNCHANGED <<mirrorVars, vocabulary, opened, acted, transfer, retagged, gaveUp>>

\* _open_json and the first refresh of _verify.  An open that raises may have
\* been received.
Open(u) ==
  \/ /\ Len(opened) < MaxOpen
     /\ opened' = Append(opened, u)
     /\ \/ spoke' = [at |-> "verify", want |-> u] /\ Refresh /\ UNCHANGED gaveUp
        \/ spoke' = Idle /\ gaveUp' = TRUE /\ UNCHANGED mirrorVars
  \/ spoke' = Idle /\ UNCHANGED <<mirrorVars, opened, gaveUp>>

\* _retag_sender_copy, with a second read of the mirror.
RetagSenderCopy ==
  /\ At("tags")
  /\ Open([tags |-> (mirror.tags \ {"trigger"}) \cup {"delegated"}])
  /\ UNCHANGED <<vocabulary, acted, transfer, retagged>>

-----------------------------------------------------------------------------
(***************************************************************************)
(* The inbound phase.                                                      *)
(***************************************************************************)
\* The recipient ends the copy: the transfer leaves the watchlist and an echo
\* is queued.
RecipientEnds ==
  /\ transfer = "applied"
  /\ transfer' = "ended"
  /\ UNCHANGED <<mirrorVars, vocabulary, opened, acted, spoke, retagged, gaveUp>>

ApplyTerminal ==
  /\ At("idle")
  /\ transfer = "ended"
  /\ Open([tags |-> None])
  /\ UNCHANGED <<vocabulary, acted, transfer, retagged>>

-----------------------------------------------------------------------------
(***************************************************************************)
(* _verify.                                                                *)
(***************************************************************************)
Verified == At("verify") /\ mirror # None /\ Shows(mirror, spoke.want)

\* Slip: mark_retagged is forgotten.
SucceedsUnmarked ==
  /\ Verified
  /\ spoke' = Idle
  /\ transfer' = IF spoke.want.tags = None THEN "acked" ELSE transfer
  /\ UNCHANGED <<mirrorVars, vocabulary, opened, acted, gaveUp, retagged>>

\* The call returns True: mark_retagged, or the ack of the echo.
VerifySucceeds ==
  /\ Verified
  /\ spoke' = Idle
  /\ IF spoke.want.tags = None
       THEN transfer' = "acked" /\ UNCHANGED retagged
       ELSE retagged' = TRUE /\ UNCHANGED transfer
  /\ UNCHANGED <<mirrorVars, vocabulary, opened, acted, gaveUp>>

VerifyGoesOn ==
  /\ At("verify") /\ ~Verified
  /\ Refresh
  /\ UNCHANGED <<vocabulary, opened, acted, callVars>>

\* The call returns False: the retag is left to the next tick, the echo nacked.
\* A process that dies leaves the same state, here and where an open raises.
VerifyGivesUp ==
  /\ At("verify")
  /\ spoke' = Idle /\ gaveUp' = TRUE
  /\ UNCHANGED <<mirrorVars, vocabulary, opened, acted, transfer, retagged>>

-----------------------------------------------------------------------------
Spoke == \/ GetWatch \/ Report \/ GoOn \/ RetagSenderCopy \/ ApplyTerminal
         \/ VerifySucceeds \/ VerifyGoesOn \/ VerifyGivesUp

LocalNext ==
  \/ PutTag \/ EndTodo \/ Perform \/ Drop \/ RecipientEnds
  \/ Agent /\ UNCHANGED <<vocabulary, opened, acted, callVars>>
  \/ Spoke

\* The agent of launchd and the loop of the spoke go on, and what is tried
\* again and again succeeds some time: a URL is received, and performed in
\* another second than the change before; a report arrives; a verification
\* is there when the mirror shows its result.
LocalFairness ==
  /\ AgentFairness
  /\ WF_localVars(Spoke)
  /\ WF_localVars(VerifyGivesUp)
  /\ SF_localVars(RetagSenderCopy /\ spoke' # Idle)
  /\ SF_localVars(ApplyTerminal /\ spoke' # Idle)
  /\ SF_localVars(Perform /\ ~blurred')
  /\ SF_localVars(Report /\ transfer' = "reported")
  /\ SF_localVars(VerifySucceeds)

LocalSpec == LocalInit /\ [][LocalNext]_localVars /\ LocalFairness
-----------------------------------------------------------------------------
\* Every variable holds a value of its type; what is read is there.
LocalTypeOK ==
  /\ MirrorTypeOK(Todo)
  /\ vocabulary \subseteq Tag
  /\ opened \in Seq(Update) /\ Len(opened) <= MaxOpen
  /\ spoke \in [at : {"idle", "status", "tags"}] \cup [at : {"verify"}, want : Update]
  /\ At("tags") => mirror # None
  /\ transfer \in {"applied", "ended", "reported", "acked"}
  /\ {retagged, acted, gaveUp} \subseteq BOOLEAN

\* "True = verified/applied", across asynchronous writes and a stale mirror: a
\* todo that the spoke has marked is completed and has the delegated tag for
\* the trigger tag, although people put another tag on it or end it and Things
\* performs other writes late; one whose echo was acked is completed
\* (set_tags_and_terminal, set_terminal, _verify).
TrueIsTrue ==
  /\ retagged => /\ account.status = "completed"
                 /\ "trigger" \notin account.tags /\ "delegated" \in account.tags
  /\ transfer = "acked" => account.status = "completed"

\* The spoke reports an end that nobody meant only after a retag of its own
\* that it did not watch to its end: the verification gave up, the open
\* raised, or the process died (_observe_and_retag, _retag_sender_copy).
SelfReportNeedsGivingUp == transfer = "reported" => acted \/ gaveUp

\* The watch entry is done with in the end, also when people edit the tags
\* during a verification, Things does not have the delegated tag or a late
\* retag is performed before the echo: the todo is marked and its transfer goes
\* on, or its end is reported, or told by the recipient's echo.
WatchEntryEnds ==
  <>[](transfer \in {"reported", "acked"} \/ (transfer = "applied" /\ retagged))
=============================================================================
