----------------------------- MODULE ThingsMirror -----------------------------
(***************************************************************************)
(* The mirror of the Things database on a Mac: the snapshot script that    *)
(* launchd starts every few seconds (things-mirror.zsh), and the refresh   *)
(* of the reader, which restarts it (spoke/things_db.py).                  *)
(*                                                                         *)
(* The script stats the database, copies it unless the stat is the one in  *)
(* the marker file, renames the copy over the mirror and then writes the   *)
(* marker.  It may be killed between any two of these steps: kickstart -k  *)
(* kills a run in progress.                                                *)
(*                                                                         *)
(* A stat is seconds and sizes, so a change of the database may leave it   *)
(* as it was.  A stat never comes back and is only compared with that of   *)
(* the database, so of the two that are kept, in the marker and by the run *)
(* in progress, the model keeps whether they are that of the database.  A  *)
(* rename within the directory does not fail.                              *)
(***************************************************************************)
CONSTANT None   \* no file

VARIABLES account,   \* what Things has stored
          mirror,    \* the snapshot that readers see, or None
          marked,    \* the marker file has the stat of the database
          agent,     \* the run of the script in progress
          blurred    \* history: the last change left a stat that was kept

mirrorVars == <<account, mirror, marked, agent, blurred>>

Off == [at |-> "off"]
RunAt(place, current) == [at |-> place, cur |-> current]

MirrorInit(a) ==
  /\ account = a
  /\ mirror = None /\ marked = FALSE
  /\ agent = Off
  /\ blurred = FALSE

-----------------------------------------------------------------------------
\* Things stores a.
ChangesStat ==
  /\ marked' = FALSE
  /\ agent' = IF agent = Off THEN Off ELSE [agent EXCEPT !.cur = FALSE]
  /\ blurred' = FALSE

\* Bound: one change in a row that the stat does not show.
LeavesStat ==
  /\ ~blurred /\ (marked \/ (agent # Off /\ agent.cur))
  /\ blurred' = TRUE
  /\ UNCHANGED <<marked, agent>>

Change(a) ==
  /\ account' = a
  /\ ChangesStat \/ LeavesStat
  /\ UNCHANGED mirror

\* Slip: that there is a marker is enough for the run to end.
AgentStartsOnce ==
  /\ agent = Off /\ ~marked /\ mirror = None
  /\ agent' = RunAt("copy", TRUE)
  /\ UNCHANGED <<account, mirror, marked, blurred>>

\* A run that finds the stat in the marker ends at once.
AgentStarts ==
  /\ agent = Off /\ ~marked
  /\ agent' = RunAt("copy", TRUE)
  /\ UNCHANGED <<account, mirror, marked, blurred>>

\* VACUUM INTO the temporary file.
AgentCopies ==
  /\ agent.at = "copy"
  /\ agent' = [at |-> "rename", cur |-> agent.cur, copy |-> account]
  /\ UNCHANGED <<account, mirror, marked, blurred>>

\* Slip: the marker is written whether the copy succeeded or not.
AgentFailsMarked ==
  /\ agent.at = "copy"
  /\ agent' = Off /\ marked' = agent.cur
  /\ UNCHANGED <<account, mirror, blurred>>

AgentFails ==
  /\ agent.at = "copy"
  /\ agent' = Off
  /\ UNCHANGED <<account, mirror, marked, blurred>>

AgentRenames ==
  /\ agent.at = "rename"
  /\ mirror' = agent.copy
  /\ agent' = RunAt("mark", agent.cur)
  /\ UNCHANGED <<account, marked, blurred>>

\* Slip: the stat is taken when the marker is written.
AgentMarksNow ==
  /\ agent.at = "mark"
  /\ agent' = Off /\ marked' = TRUE
  /\ UNCHANGED <<account, mirror, blurred>>

AgentMarks ==
  /\ agent.at = "mark"
  /\ agent' = Off /\ marked' = agent.cur
  /\ UNCHANGED <<account, mirror, blurred>>

Agent == AgentStarts \/ AgentCopies \/ AgentFails \/ AgentRenames \/ AgentMarks

\* MirrorReader.refresh: kickstart -k kills the run; launchd starts another.
\* The kick itself may fail, and the wait for a new file ends after some
\* seconds whatever happened.
Refresh ==
  /\ agent' \in {Off, agent}
  /\ UNCHANGED <<account, mirror, marked, blurred>>

\* launchd starts the script again and again, and some time it is neither
\* killed nor fails while it copies and renames.
AgentFairness ==
  /\ WF_mirrorVars(AgentStarts)
  /\ SF_mirrorVars(AgentCopies)
  /\ SF_mirrorVars(AgentRenames)
  /\ WF_mirrorVars(AgentMarks)
-----------------------------------------------------------------------------
\* Every variable holds a value of its type; Account is the type of account.
MirrorTypeOK(Account) ==
  /\ account \in Account /\ mirror \in Account \cup {None}
  /\ {marked, blurred} \subseteq BOOLEAN
  /\ agent \in {Off} \cup [at : {"copy", "mark"}, cur : BOOLEAN]
                     \cup [at : {"rename"}, cur : BOOLEAN, copy : Account]

\* "Skip when unchanged": a run that finds its stat in the marker may skip the
\* copy, because the mirror is the database: the stat is taken before the copy
\* and written after the rename, so a change or a kill in between makes the
\* next run copy again.  The exception is a change within the second, and of
\* the size, of the one that was stat'd.
SkipIsSafe == marked /\ ~blurred => mirror = account

\* When Things changes no more, the mirror becomes the database and stays it,
\* however often readers kill the script (with the same exception).
MirrorCatchesUp == (<>[][FALSE]_account) => <>[](mirror = account \/ blurred)
=============================================================================
