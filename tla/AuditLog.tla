------------------------------ MODULE AuditLog ------------------------------
(***************************************************************************)
(* What the durable audit sink promises: one log per organization, to      *)
(* which an event is appended once, whole and never taken back, and an     *)
(* event is confirmed only when it is in a log.                            *)
(***************************************************************************)
EXTENDS Sequences, Functions

CONSTANTS Orgs, Calls

VARIABLES log,        \* log[o]: the events of organization o, oldest first
          confirmed   \* the events whose durable record was confirmed

Recorded(c) == \E o \in Orgs : c \in Range(log[o])

LogInit ==
    /\ log = [o \in Orgs |-> <<>>]
    /\ confirmed = {}

\* Confirmed or not: the answer may be lost.
Record(o, c) ==
    /\ ~Recorded(c)
    /\ log' = [log EXCEPT ![o] = Append(@, c)]
    /\ confirmed' \in {confirmed, confirmed \cup {c}}

LogNext == \E o \in Orgs, c \in Calls : Record(o, c)

LogSpec == LogInit /\ [][LogNext]_<<log, confirmed>>

=============================================================================
