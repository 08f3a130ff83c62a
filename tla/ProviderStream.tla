---------------------------- MODULE ProviderStream ----------------------------
(***************************************************************************)
(* One streamed answer on its way from the provider to the client: the     *)
(* provider's wire, OpenAiCompatibleProviderClient.stream, which turns     *)
(* lines into owned events, StreamingCoordinator, which relays them and    *)
(* settles and caches a whole answer, and _frame, which writes SSE.        *)
(*                                                                         *)
(* Each of the three is an async generator pulled by the next.  A step     *)
(* runs from one await or yield to the next, and where the gateway is when *)
(* its client goes decides what becomes of the call to the provider: an    *)
(* await is left by an exception that closes it, a generator suspended at  *)
(* a yield is just dropped.  The money of the stream is in                 *)
(* StreamingCoordinator; here settling succeeds, fails or raises.          *)
(***************************************************************************)
EXTENDS Naturals, Sequences

CONSTANTS
    Texts,      \* pieces of generated text
    Usages,     \* usage reports
    None,       \* no text, no usage
    MaxFrames   \* bound: lines the provider sends

ASSUME ProviderStreamAssumption ==
    MaxFrames \in Nat /\ None \notin Texts /\ None \notin Usages

VARIABLES
    conn,      \* the connection: "none", "requested", "open", "closed",
               \* "broken", or "aborted" by the gateway
    wire,      \* lines sent and not read
    said,      \* all the text the provider has sent (history), ...
    legible,   \* ... and what of it is not in an odd line (history)
    vouched, reported,  \* has it sent [DONE], and its last usage report (history)
    lines,     \* lines sent so far (bounds the model)
    pc,        \* where the gateway is suspended
    usage,     \* the local variable of stream: the usage seen last
    hand,      \* the event the coordinator has in hand
    buffered,  \* _deliver's buffer
    heard, verdict,  \* what the client has and was told
    billed, cached   \* what was settled and cached

wireVars == <<said, legible, vouched, reported, lines>>
bookVars == <<billed, cached>>
clientVars == <<heard, verdict>>
vars == <<conn, wire, wireVars, pc, usage, hand, buffered, clientVars, bookVars>>

\* A line that carries no event, [DONE], text garbled past decoding, an object
\* with a delta, a usage block, both or neither (an error reported in band has
\* neither), or an odd one: an object with its text where _delta_from does not
\* look for it.
Lines ==
    [kind : {"comment", "done"}, text : {None}, usage : {None}]
        \cup [kind : {"junk"}, text : Texts, usage : {None}]
        \cup [kind : {"event"}, text : Texts \cup {None}, usage : Usages \cup {None}]
        \cup [kind : {"odd"}, text : Texts, usage : Usages \cup {None}]

\* ProviderStreamEvent; "stopped" is the None of anext(stream, None).
Chunk(t) == [type |-> "chunk", text |-> t, usage |-> None]
Completed(u) == [type |-> "completed", text |-> None, usage |-> u]
Failure == [type |-> "failed", text |-> None, usage |-> None]
Stopped == [type |-> "stopped", text |-> None, usage |-> None]
Nothing == [type |-> "none", text |-> None, usage |-> None]

\* open awaits its first event ("opening") or closes a stream that failed
\* ("refusing"); the first event waits for the client to pull ("opened");
\* _deliver is suspended at the yield of a chunk ("sent"), awaits the next
\* ("reading"), settles, puts, releases and is suspended at the yield of a
\* terminal error ("closing"), or is in its finally clause after an exception
\* ("finally").  In the end all of them have returned ("ended"), or they are
\* left as they are ("dropped").
Init ==
    /\ conn = "none" /\ wire = <<>>
    /\ said = <<>> /\ legible = <<>> /\ vouched = FALSE /\ reported = None /\ lines = 0
    /\ pc = "start" /\ usage = None /\ hand = Nothing /\ buffered = <<>>
    /\ heard = <<>> /\ verdict = "none"
    /\ billed = None /\ cached = None

-----------------------------------------------------------------------------
(* The provider.                                                           *)

Accept ==
    /\ conn = "requested"
    /\ conn' = "open"
    /\ UNCHANGED <<wire, wireVars, pc, usage, hand, buffered, clientVars, bookVars>>

\* The text of a line, if it is not odd.
Piece(l) == IF l.kind = "odd" THEN None ELSE l.text

Send(l) ==
    /\ conn = "open" /\ ~vouched /\ lines < MaxFrames
    /\ wire' = Append(wire, l)
    /\ lines' = lines + 1
    /\ said' = IF l.text = None THEN said ELSE Append(said, l.text)
    /\ legible' = IF Piece(l) = None THEN legible ELSE Append(legible, Piece(l))
    /\ vouched' = (l.kind = "done")
    /\ reported' = IF l.usage = None THEN reported ELSE l.usage
    /\ UNCHANGED <<conn, pc, usage, hand, buffered, clientVars, bookVars>>

\* The body ends, with [DONE] or without.
Close ==
    /\ conn = "open"
    /\ conn' = "closed"
    /\ UNCHANGED <<wire, wireVars, pc, usage, hand, buffered, clientVars, bookVars>>

\* The connection fails; what is on its way may be lost from some line on.
Break ==
    /\ conn \in {"requested", "open", "closed"}
    /\ conn' = "broken"
    /\ \E n \in 0..Len(wire) : wire' = SubSeq(wire, 1, n)
    /\ UNCHANGED <<wireVars, pc, usage, hand, buffered, clientVars, bookVars>>

-----------------------------------------------------------------------------
(* The adapter and the coordinator.                                        *)

\* Mutant: aclose_stream is left to the garbage collector.
HangUpLater == conn' = conn

\* aclose of the generators: the contexts of stream close the connection.
HangUp == conn' = IF conn \in {"requested", "open"} THEN "aborted" ELSE conn

\* No connection is configured, for this provider or for any: the only event
\* is a failure.
Unconfigured == conn' = "none" /\ pc' = "refusing"

\* open pulls for the first time, which sends the request.
Open ==
    /\ pc = "start"
    /\ (conn' = "requested" /\ pc' = "opening") \/ Unconfigured
    /\ UNCHANGED <<wire, wireVars, usage, hand, buffered, clientVars, bookVars>>

\* Mutant: a line that cannot be decoded is skipped.
EventOrSkip(l) ==
    CASE l.kind = "done" -> Completed(usage)
      [] l.kind = "event" /\ l.text # None -> Chunk(l.text)
      [] OTHER -> Nothing

\* The event a line is turned into, Nothing for one that is skipped: comments,
\* objects in which _delta_from finds no text, odd ones included.
EventOf(l) ==
    CASE l.kind = "done" -> Completed(usage)
      [] l.kind = "junk" -> Failure
      [] l.kind = "event" /\ l.text # None -> Chunk(l.text)
      [] OTHER -> Nothing

\* open, with the first event: a failure is still a refusal.
FirstEvent(e) ==
    /\ \/ e.type \in {"chunk", "completed"} /\ hand' = e /\ pc' = "opened"
       \/ e.type \in {"failed", "stopped"} /\ UNCHANGED hand /\ pc' = "refusing"
    /\ UNCHANGED <<buffered, heard>>

\* _deliver, with the next: a chunk goes out; an end with usage is settled;
\* anything else is told as an error.
Deliver(e) ==
    \/ /\ e.type = "chunk"
       /\ buffered' = Append(buffered, e.text)
       /\ heard' = Append(heard, e.text)
       /\ hand' = Nothing /\ pc' = "sent"
    \/ /\ e.type = "completed" /\ e.usage # None
       /\ hand' = e /\ pc' = "settle"
       /\ UNCHANGED <<buffered, heard>>
    \/ /\ e.type \in {"completed", "failed", "stopped"} /\ e.usage = None
       /\ hand' = Nothing /\ pc' = "closing"
       /\ UNCHANGED <<buffered, heard>>

\* What anext returns to open or _deliver.
Yield(e) ==
    /\ \/ e.type = "none" /\ UNCHANGED <<pc, hand, buffered, heard>>
       \/ pc = "opening" /\ FirstEvent(e)
       \/ pc = "reading" /\ Deliver(e)
    /\ UNCHANGED <<verdict, bookVars>>

\* A line comes in.
Read ==
    /\ pc \in {"opening", "reading"} /\ wire # <<>>
    /\ wire' = Tail(wire)
    /\ usage' = IF Head(wire).usage = None THEN usage ELSE Head(wire).usage
    /\ Yield(EventOf(Head(wire)))
    /\ UNCHANGED <<conn, wireVars>>

\* Mutant: the end of the body is the end of the answer.
ReadEndAsDone ==
    /\ pc \in {"opening", "reading"} /\ wire = <<>> /\ conn = "closed"
    /\ Yield(Completed(usage))
    /\ UNCHANGED <<conn, wire, wireVars, usage>>

\* The body ends without [DONE]: the generator just stops.
ReadEnd ==
    /\ pc \in {"opening", "reading"} /\ wire = <<>> /\ conn = "closed"
    /\ Yield(Stopped)
    /\ UNCHANGED <<conn, wire, wireVars, usage>>

\* A status of 400 or more, reported from within the contexts of stream.
ReadStatus ==
    /\ pc = "opening" /\ conn = "open" /\ lines = 0
    /\ Yield(Failure)
    /\ UNCHANGED <<conn, wire, wireVars, usage>>

\* Mutant: the client is built without a timeout.
ReadFailsUntimed ==
    /\ pc \in {"opening", "reading"} /\ wire = <<>> /\ conn = "broken"
    /\ Yield(Failure)
    /\ UNCHANGED <<conn, wire, wireVars, usage>>

\* A transport error, or silence up to the timeout: the exception leaves the
\* contexts before the failure is yielded.
ReadFails ==
    /\ pc \in {"opening", "reading"} /\ wire = <<>>
    /\ conn \in {"requested", "open", "broken"}
    /\ HangUp
    /\ Yield(Failure)
    /\ UNCHANGED <<wire, wireVars, usage>>

\* aclose_stream and release in open; the client gets a 502.
Refuse ==
    /\ pc = "refusing"
    /\ HangUp
    /\ pc' = "ended" /\ verdict' = "refused"
    /\ UNCHANGED <<wire, wireVars, usage, hand, buffered, heard, bookVars>>

\* _frame pulls _deliver, for the first event or for the next.
Pull ==
    /\ \/ pc = "opened" /\ Deliver(hand)
       \/ pc = "sent" /\ pc' = "reading" /\ UNCHANGED <<hand, buffered, heard>>
    /\ UNCHANGED <<conn, wire, wireVars, usage, verdict, bookVars>>

\* settle: accounted; refused or unanswered, which is told as an error; or an
\* exception that escapes through _frame.
Settle ==
    /\ pc = "settle"
    /\ \/ billed' = hand.usage /\ pc' = "put" /\ UNCHANGED hand
       \/ billed' \in {None, hand.usage} /\ pc' = "closing" /\ hand' = Nothing
       \/ billed' = None /\ pc' = "finally" /\ hand' = Nothing
    /\ UNCHANGED <<conn, wire, wireVars, usage, buffered, clientVars, cached>>

\* _safe_put, which may fail unseen, the finally clause, and data: [DONE].
Put ==
    /\ pc = "put"
    /\ cached' \in {None, buffered}
    /\ HangUp
    /\ pc' = "ended" /\ hand' = Nothing /\ verdict' = "done"
    /\ UNCHANGED <<wire, wireVars, usage, buffered, heard, billed>>

\* The error event is out: _frame returns, and closing _deliver runs its
\* finally clause.
Tell ==
    /\ pc = "closing"
    /\ HangUp
    /\ pc' = "ended" /\ verdict' = "error"
    /\ UNCHANGED <<wire, wireVars, usage, hand, buffered, heard, bookVars>>

\* The finally clause under an exception: release, then aclose_stream.
CloseStream ==
    /\ pc = "finally"
    /\ HangUp
    /\ pc' = "ended" /\ verdict' = "lost"
    /\ UNCHANGED <<wire, wireVars, usage, hand, buffered, heard, bookVars>>

-----------------------------------------------------------------------------
(* The client.                                                             *)

\* It goes away, and the serving task is cancelled.  In an await on the
\* provider the cancellation leaves the contexts of stream.  In settle or put,
\* which may have taken effect, or in the release before an error is told, it
\* goes to the finally clause.
Cancel ==
    /\ \/ /\ pc \in {"opening", "refusing"}
          /\ HangUp /\ pc' = "ended" /\ verdict' = "lost"
          /\ UNCHANGED bookVars
       \/ /\ pc = "reading"
          /\ HangUp /\ pc' = "finally"
          /\ UNCHANGED <<verdict, bookVars>>
       \/ /\ pc = "settle"
          /\ billed' \in {None, hand.usage} /\ pc' = "finally"
          /\ UNCHANGED <<conn, verdict, cached>>
       \/ /\ pc = "put"
          /\ cached' \in {None, buffered} /\ pc' = "finally"
          /\ UNCHANGED <<conn, verdict, billed>>
       \/ /\ pc = "closing" /\ pc' = "finally"
          /\ UNCHANGED <<conn, verdict, bookVars>>
    /\ hand' = Nothing
    /\ UNCHANGED <<wire, wireVars, usage, buffered, heard>>

\* Nobody resumes the generators again, and the call goes on: cancelled outside
\* them, before the first pull or while a frame is sent, or a second time, in
\* the release of the finally clause, which may also raise.
Abandon ==
    /\ pc \in {"opened", "sent", "closing", "finally"}
    /\ pc' = "dropped" /\ hand' = Nothing /\ verdict' = "lost"
    /\ UNCHANGED <<conn, wire, wireVars, usage, buffered, heard, bookVars>>

\* The event loop finalizes a generator nobody refers to.
Finalize ==
    /\ pc = "dropped" /\ conn \in {"requested", "open"}
    /\ conn' = "aborted"
    /\ UNCHANGED <<wire, wireVars, pc, usage, hand, buffered, clientVars, bookVars>>

-----------------------------------------------------------------------------
Provider == Accept \/ (\E l \in Lines : Send(l)) \/ Close \/ Break

Gateway ==
    \/ Open \/ Read \/ ReadEnd \/ ReadStatus \/ ReadFails \/ Refuse
    \/ Pull \/ Settle \/ Put \/ Tell \/ CloseStream

Next == Provider \/ Gateway \/ Cancel \/ Abandon \/ Finalize

Spec == Init /\ [][Next]_vars

\* The gateway goes on, by its read timeout if need be, and its client pulls.
FairSpec == Spec /\ WF_vars(Gateway)

-----------------------------------------------------------------------------
(* Properties.                                                             *)

Promise == INSTANCE FaithfulStream

\* The client hears what the provider said, in order and without a gap but for
\* the odd lines, and sees [DONE] only after the rest of an answer the provider
\* has ended itself: the whole path implements FaithfulStream (stream,
\* _deliver, _frame).  The docstring of the adapter says that an object of
\* unrecognisable shape ends the stream, too; _delta_from skips it.
AnswersAreFaithful == Promise!Spec

\* What is billed is the usage the provider reported last, and what is cached
\* is all that was legible of the answer, both only for an answer the provider
\* has ended: never a truncated or garbled one, never a reconstruction ("Never
\* reconstruct usage").
OnlyVouchedCounts ==
    /\ billed # None => vouched /\ billed = reported
    /\ cached # None => vouched /\ cached = legible

\* No call to the provider goes on after the gateway has answered its client,
\* by a status, an error or [DONE], nor after a cancellation that found it in an
\* await, whatever the provider had still to say: only generators that nobody
\* resumes leave it to the event loop (aclose_stream, _aclose).
UpstreamIsAborted == pc = "ended" => conn \notin {"requested", "open"}

\* Every stream comes to an end, though the provider falls silent.
StreamConcludes == pc \notin {"ended", "dropped"} ~> pc \in {"ended", "dropped"}

=============================================================================
