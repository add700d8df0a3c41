-------------------------- MODULE TransferLifecycle --------------------------
(***************************************************************************)
(* What a delegation promises, seen one transfer at a time and without the *)
(* deliveries that carry it out.  A transfer is created once, its create   *)
(* is either applied at the recipient or skipped, it gets one terminal     *)
(* state that may be upgraded from canceled to completed while the other   *)
(* party has not been told, and it is echoed to the other party once.      *)
(*                                                                         *)
(* TandemLedger, the model of hub/ledger.py, implements this module.       *)
(***************************************************************************)
CONSTANTS Transfer,   \* natural keys of the transfers
          None        \* no terminal state

VARIABLES stage,      \* how far the create got, per transfer
          terminal,   \* the winning terminal state, or None
          echoed      \* has the other party been told?

vars == <<stage, terminal, echoed>>

Stage == {"absent", "created", "applied", "skipped"}
Terminal == {"completed", "canceled"}

TypeOK == /\ stage \in [Transfer -> Stage]
          /\ terminal \in [Transfer -> Terminal \cup {None}]
          /\ echoed \in [Transfer -> BOOLEAN]

Init == /\ stage = [k \in Transfer |-> "absent"]
        /\ terminal = [k \in Transfer |-> None]
        /\ echoed = [k \in Transfer |-> FALSE]

Create(k) == /\ stage[k] = "absent"
             /\ stage' = [stage EXCEPT ![k] = "created"]
             /\ UNCHANGED <<terminal, echoed>>

\* The recipient has a copy and the ledger knows its uuid.
Apply(k) == /\ stage[k] = "created"
            /\ stage' = [stage EXCEPT ![k] = "applied"]
            /\ UNCHANGED <<terminal, echoed>>

\* The first terminal state seen on either copy.
Observe(k, t) == /\ stage[k] \in {"created", "applied"}
                 /\ terminal[k] = None
                 /\ terminal' = [terminal EXCEPT ![k] = t]
                 /\ UNCHANGED <<stage, echoed>>

\* The sender is done with a transfer that nobody has fetched: no copy is made.
Skip(k, t) == /\ stage[k] = "created"
              /\ terminal[k] \in {None, "canceled"}
              /\ terminal[k] = "canceled" => t = "completed"
              /\ stage' = [stage EXCEPT ![k] = "skipped"]
              /\ terminal' = [terminal EXCEPT ![k] = t]
              /\ UNCHANGED echoed

\* Work done beats a cancellation that the other party has not been told of.
Upgrade(k) == /\ terminal[k] = "canceled"
              /\ ~echoed[k]
              /\ terminal' = [terminal EXCEPT ![k] = "completed"]
              /\ UNCHANGED <<stage, echoed>>

Echo(k) == /\ stage[k] = "applied"
           /\ terminal[k] # None
           /\ ~echoed[k]
           /\ echoed' = [echoed EXCEPT ![k] = TRUE]
           /\ UNCHANGED <<stage, terminal>>

Next == \E k \in Transfer :
          \/ Create(k) \/ Apply(k) \/ Upgrade(k) \/ Echo(k)
          \/ \E t \in Terminal : Observe(k, t) \/ Skip(k, t)

Spec == Init /\ [][Next]_vars
=============================================================================
