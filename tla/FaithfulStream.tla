---------------------------- MODULE FaithfulStream ----------------------------
(***************************************************************************)
(* What a streamed answer promises its client, whatever lies between it    *)
(* and the provider: it hears what the provider said, in order and without *)
(* a gap, and is told it is whole only when it is; but for what the        *)
(* provider says in a form that is not understood, which is left out       *)
(* without a word.                                                         *)
(***************************************************************************)
EXTENDS Naturals, Sequences

CONSTANT Texts

VARIABLES
    said,     \* the pieces of text the provider has said, ...
    legible,  \* ... and those of them in a form that is understood
    vouched,  \* has the provider said that this is all?
    heard,    \* the pieces the client has
    verdict   \* what the client was told of them

vars == <<said, legible, vouched, heard, verdict>>

Init ==
    /\ said = <<>> /\ legible = <<>> /\ heard = <<>>
    /\ vouched = FALSE
    /\ verdict = "none"

Say ==
    /\ ~vouched
    /\ \E t \in Texts : /\ said' = Append(said, t)
                        /\ legible' = Append(legible, t)
    /\ UNCHANGED <<vouched, heard, verdict>>

Mumble ==
    /\ ~vouched
    /\ \E t \in Texts : said' = Append(said, t)
    /\ UNCHANGED <<legible, vouched, heard, verdict>>

Vouch ==
    /\ vouched' = TRUE
    /\ UNCHANGED <<said, legible, heard, verdict>>

Hear ==
    /\ verdict = "none"
    /\ Len(heard) < Len(legible)
    /\ heard' = Append(heard, legible[Len(heard) + 1])
    /\ UNCHANGED <<said, legible, vouched, verdict>>

\* An error or a lost connection may come at any time, [DONE] after the end
\* of an answer, and a status code other than 200 before any of it.
Conclude ==
    /\ verdict = "none"
    /\ verdict' \in {"done", "error", "refused", "lost"}
    /\ verdict' = "done" => vouched /\ heard = legible
    /\ verdict' = "refused" => heard = <<>>
    /\ UNCHANGED <<said, legible, vouched, heard>>

Next == Say \/ Mumble \/ Vouch \/ Hear \/ Conclude

Spec == Init /\ [][Next]_vars

=============================================================================
