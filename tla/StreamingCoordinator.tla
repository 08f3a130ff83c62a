------------------------ MODULE StreamingCoordinator ------------------------
(***************************************************************************)
(* application/streaming/streaming_coordinator.py: a streamed inference is *)
(* opened (cache, reserve, first provider event) and then delivered event  *)
(* by event until the provider ends it, the client goes away or something  *)
(* fails, over the ledger of BudgetLedger.  Streams are not deduplicated,  *)
(* so two of them may share a correlation id and its one reservation.      *)
(*                                                                         *)
(* A step runs from one await (or yield) to the next.  The chunks after    *)
(* the first change nothing that is modelled.                              *)
(***************************************************************************)
EXTENDS Coordination

CONSTANTS
    Streams,    \* the streamed requests clients send
    StreamIds   \* which correlation ids the streams may have

ASSUME StreamAssumption == StreamIds \subseteq [Streams -> Cids]

VARIABLES
    cid,      \* the correlation id of each stream (fixed)
    at,       \* where a stream is: the await or yield it is suspended in
    first,    \* the event open has taken from the provider, until it is delivered
    result,   \* how the stream ended for its client: refused with a status, hit, completed,
              \* failed with a terminal error, or disconnected
    observed, \* history: how often a stream has fed the circuit breaker (0..2)
    upstream  \* history: has the provider ended a stream, and with its usage?

streamVars == <<cid, at, first, result, cache, observed, upstream, adrift, faults>>
allStreamVars == <<vars, streamVars>>

-----------------------------------------------------------------------------
(* State.                                                                  *)

\* What anext(stream, None) returns: a StreamChunk, a StreamCompleted with or
\* without usage, a StreamFailed, or None from a stream that just stops.
Terminals == {"completed", "noUsage", "failed", "truncated"}
Events == {"chunk"} \cup Terminals

\* Suspended in an await of open ...
Opening == {"lookup", "reclaim", "reserve", "opening", "releaseFirst"}
\* ... in one of _deliver, with the hold not finalized yet ...
Releasing == {"releaseFailed", "releaseUnaccounted"}
Delivering == {"streaming", "settle", "put"} \cup Releasing
\* ... or between the two ("opened"), or in _deliver's finally clause, because
\* the client went away ("disconnected") or an exception passes ("raising").

StreamInit ==
    /\ Init
    /\ cid \in StreamIds
    /\ at = [s \in Streams |-> "new"]
    /\ first = [s \in Streams |-> "none"]
    /\ result = [s \in Streams |-> "none"]
    /\ cache = {}
    /\ observed = [s \in Streams |-> 0]
    /\ upstream = [s \in Streams |-> "open"]
    /\ adrift = {}
    /\ faults = 0

GotoAt(s, place) == /\ at' = [at EXCEPT ![s] = place]
                    /\ UNCHANGED result

StreamEnd(s, r) == /\ at' = [at EXCEPT ![s] = "ended"]
                   /\ result' = [result EXCEPT ![s] = r]

StreamAdrift(s) == adrift' = adrift \cup {cid[s]}

-----------------------------------------------------------------------------
(* open                                                                    *)

StreamArrive(s) ==
    /\ at[s] = "new"
    /\ GotoAt(s, "lookup")
    /\ UNCHANGED <<vars, cid, first, cache, observed, upstream, adrift, faults>>

StreamNotRouted(s) ==
    /\ at[s] = "new"
    /\ StreamEnd(s, "refused")
    /\ UNCHANGED <<vars, cid, first, cache, observed, upstream, adrift, faults>>

\* _replayable: a hit is served as one chunk and needs nothing further; a miss
\* goes on.  So does a key whose entry has expired, is no text or cannot be
\* reached, which is counted among the faults.
StreamCacheHit(s) ==
    /\ at[s] = "lookup"
    /\ KeyOf[s] \in cache
    /\ StreamEnd(s, "hit")
    /\ UNCHANGED <<vars, cid, first, cache, observed, upstream, adrift, faults>>

StreamCacheMiss(s) ==
    /\ at[s] = "lookup"
    /\ \/ KeyOf[s] \notin cache /\ UNCHANGED faults
       \/ KeyOf[s] \in cache /\ Fault
    /\ GotoAt(s, "reclaim")
    /\ UNCHANGED <<vars, cid, first, cache, observed, upstream, adrift>>

\* ReservationService.reserve sweeps first; a ledger that cannot be reached
\* sweeps nothing.
OpenReclaim(s) ==
    /\ at[s] = "reclaim"
    /\ \/ Reclaim(now, Stale(now - TTL)) /\ UNCHANGED faults
       \/ Fault /\ UNCHANGED vars
    /\ GotoAt(s, "reserve")
    /\ UNCHANGED <<cid, first, cache, observed, upstream, adrift>>

\* RESERVED: the provider stream is opened and its first event awaited.
OpenReserved(s, a, cur) ==
    /\ at[s] = "reserve"
    /\ \/ ReserveReplay(cid[s])
       \/ ReserveUnbounded(cid[s], a, cur)
       \/ ReserveHeld(cid[s], a, cur)
    /\ GotoAt(s, "opening")
    /\ UNCHANGED <<cid, first, cache, observed, upstream, adrift, faults>>

\* EXCEEDED, an unpriced model, or UnsupportedCurrencyError, which escapes.
OpenRefused(s, a, cur) ==
    /\ at[s] = "reserve"
    /\ \/ ReserveExceeded(cid[s], a, cur) /\ StreamEnd(s, "refused")
       \/ UNCHANGED vars /\ StreamEnd(s, "refused")
       \/ ReserveWrongCurrency(cid[s], cur) /\ StreamEnd(s, "refused")
    /\ UNCHANGED <<cid, first, cache, observed, upstream, adrift, faults>>

\* The hold is committed and the answer lost.
HoldUnseen(s, a) ==
    /\ \/ ReserveHeld(cid[s], a, BudgetCurrency)
       \/ ReserveUnbounded(cid[s], a, BudgetCurrency)
    /\ StreamAdrift(s)

\* UNAVAILABLE: the ledger failed before or after committing the hold.
OpenUnavailable(s, a) ==
    /\ at[s] = "reserve"
    /\ Fault
    /\ UNCHANGED <<vars, adrift>> \/ HoldUnseen(s, a)
    /\ StreamEnd(s, "refused")
    /\ UNCHANGED <<cid, first, cache, observed, upstream>>

\* _observe.
Observe(s) == observed' = [observed EXCEPT ![s] = @ + 1]

Upstream(s, e) ==
    upstream' = [upstream EXCEPT ![s] = CASE e = "chunk" -> "open"
                                          [] e = "completed" -> "whole"
                                          [] OTHER -> "broken"]

\* The first event decides: a session, or still an ordinary refusal.
FirstEvent(s, e) ==
    /\ at[s] = "opening"
    /\ Upstream(s, e)
    /\ \/ /\ e \in {"chunk", "completed", "noUsage"}
          /\ first' = [first EXCEPT ![s] = e]
          /\ GotoAt(s, "opened")
          /\ UNCHANGED observed
       \/ /\ e \in {"failed", "truncated"}
          /\ Observe(s)
          /\ GotoAt(s, "releaseFirst")
          /\ UNCHANGED first
    /\ UNCHANGED <<vars, cid, cache, adrift, faults>>

-----------------------------------------------------------------------------
(* _deliver and _complete                                                  *)

\* The event in hand: the one open took when the generator starts, then what
\* the provider sends.
Deliver(s, e) ==
    /\ \/ at[s] = "opened" /\ e = first[s] /\ UNCHANGED upstream
       \/ at[s] = "streaming" /\ e \in Terminals /\ Upstream(s, e)
    /\ \/ e = "chunk" /\ GotoAt(s, "streaming") /\ UNCHANGED observed
       \/ e \in {"failed", "truncated"} /\ Observe(s) /\ GotoAt(s, "releaseFailed")
       \/ e = "noUsage" /\ Observe(s) /\ GotoAt(s, "releaseUnaccounted")
       \/ e = "completed" /\ Observe(s) /\ GotoAt(s, "settle")
    /\ first' = [first EXCEPT ![s] = "none"]
    /\ UNCHANGED <<vars, cid, cache, adrift, faults>>

StreamSettled(s, a, cur) ==
    /\ at[s] = "settle"
    /\ Settle(cid[s], a, cur) \/ SettleReplay(cid[s])
    /\ GotoAt(s, "put")
    /\ UNCHANGED <<cid, first, cache, observed, upstream, adrift, faults>>

\* Mutant: an answer that cannot be settled is delivered as if it were.
StreamUnsettledServed(s, a) ==
    /\ at[s] = "settle"
    /\ \/ UNCHANGED <<vars, faults>>
       \/ SettleUnknown(cid[s]) /\ UNCHANGED faults
       \/ Fault /\ Settle(cid[s], a, BudgetCurrency)
    /\ GotoAt(s, "put")
    /\ UNCHANGED <<cid, first, cache, observed, upstream, adrift>>

\* An accounting defect, UnknownReservationError and LedgerUnavailableError
\* (before or after the commit) are caught: the hold is released.
StreamUnsettled(s, a) ==
    /\ at[s] = "settle"
    /\ \/ UNCHANGED <<vars, faults>>
       \/ SettleUnknown(cid[s]) /\ UNCHANGED faults
       \/ Fault /\ Settle(cid[s], a, BudgetCurrency)
    /\ GotoAt(s, "releaseUnaccounted")
    /\ UNCHANGED <<cid, first, cache, observed, upstream, adrift>>

\* The price table cannot be read: the error escapes open before there is a
\* hold, or passes through _deliver's finally.
PriceUnavailable(s) ==
    /\ Fault
    /\ \/ at[s] = "reserve" /\ StreamEnd(s, "refused")
       \/ at[s] = "settle" /\ GotoAt(s, "raising")
    /\ UNCHANGED <<vars, cid, first, cache, observed, upstream, adrift>>

\* UnsupportedCurrencyError does so too.
StreamSettleRaises(s, cur) ==
    /\ at[s] = "settle"
    /\ SettleWrongCurrency(cid[s], cur)
    /\ GotoAt(s, "raising")
    /\ UNCHANGED <<cid, first, cache, observed, upstream, adrift, faults>>

\* Mutant: an answer without usage is completed and cached.
StreamPutAnyhow(s) ==
    /\ at[s] \in {"put", "releaseUnaccounted"}
    /\ CachePut(KeyOf[s])
    /\ StreamEnd(s, "completed")
    /\ UNCHANGED <<vars, cid, first, observed, upstream, adrift>>

\* _safe_put, and the normal end of the stream.
StreamPut(s) ==
    /\ at[s] = "put"
    /\ CachePut(KeyOf[s])
    /\ StreamEnd(s, "completed")
    /\ UNCHANGED <<vars, cid, first, observed, upstream, adrift>>

\* How a stream ends once its hold has been given back.
Ending == [releaseFirst |-> "refused", releaseFailed |-> "failed",
           releaseUnaccounted |-> "failed", disconnected |-> "disconnected",
           raising |-> "failed"]

\* Mutant: the endings of a stream give nothing back.
StreamReleaseSkipped(s) ==
    /\ at[s] \in DOMAIN Ending
    /\ StreamEnd(s, Ending[at[s]])
    /\ UNCHANGED <<vars, cid, first, cache, observed, upstream, adrift, faults>>

\* Mutant: release insists on a hold that is still there.
StreamReleaseInsisting(s) ==
    /\ at[s] \in DOMAIN Ending
    /\ Release(cid[s])
    /\ StreamEnd(s, Ending[at[s]])
    /\ UNCHANGED <<cid, first, cache, observed, upstream, adrift, faults>>

\* _release: a failing ledger is logged, never raised.
StreamRelease(s) ==
    /\ at[s] \in DOMAIN Ending
    /\ \/ Release(cid[s]) /\ UNCHANGED <<adrift, faults>>
       \/ ReleaseReplay(cid[s]) /\ UNCHANGED <<adrift, faults>>
       \/ Fault /\ UNCHANGED vars /\ StreamAdrift(s)
       \/ Fault /\ Release(cid[s]) /\ UNCHANGED adrift
    /\ StreamEnd(s, Ending[at[s]])
    /\ UNCHANGED <<cid, first, cache, observed, upstream>>

-----------------------------------------------------------------------------
(* The client and the server.                                              *)

\* The client goes away while _deliver runs: its finally clause releases, as
\* none of its endings has been finalized.  A generator that was not started
\* runs no finally clause: the hold stays.
Disconnect(s) ==
    /\ \/ /\ at[s] \in Delivering
          /\ UNCHANGED vars \/ (at[s] \in Releasing /\ Release(cid[s]))
          /\ GotoAt(s, "disconnected")
          /\ UNCHANGED adrift
       \/ /\ at[s] = "opened"
          /\ StreamEnd(s, "disconnected")
          /\ StreamAdrift(s)
          /\ UNCHANGED vars
    /\ first' = [first EXCEPT ![s] = "none"]
    /\ UNCHANGED <<cid, cache, observed, upstream, faults>>

\* The serving task is cancelled in open, which has no finally clause, or
\* again in _deliver's finally clause.
StreamCancel(s, a) ==
    /\ \/ at[s] \in {"lookup", "reclaim"} /\ UNCHANGED <<vars, adrift>>
       \/ at[s] = "reserve" /\ (UNCHANGED <<vars, adrift>> \/ HoldUnseen(s, a))
       \/ at[s] \in {"opening", "releaseFirst", "disconnected", "raising"}
              /\ StreamAdrift(s) /\ UNCHANGED vars
    /\ StreamEnd(s, "failed")
    /\ UNCHANGED <<cid, first, cache, observed, upstream, faults>>

\* The process dies.
StreamCrash ==
    LET live == {s \in Streams : at[s] \notin {"new", "ended"}}
    IN  /\ live # {}
        /\ Fault
        /\ at' = [s \in Streams |-> IF s \in live THEN "ended" ELSE at[s]]
        /\ result' = [s \in Streams |-> IF s \in live THEN "failed" ELSE result[s]]
        /\ adrift' = adrift \cup {cid[s] : s \in live}
        /\ first' = [s \in Streams |-> "none"]
        /\ UNCHANGED <<vars, cid, cache, observed, upstream>>

\* Other requests of the organization sweep, and time passes.
StreamTraffic ==
    /\ Stale(now - TTL) # {}
    /\ Reclaim(now, Stale(now - TTL))
    /\ UNCHANGED streamVars

StreamTick == Tick /\ UNCHANGED streamVars

-----------------------------------------------------------------------------

Open(s) ==
    \/ StreamCacheHit(s) \/ StreamCacheMiss(s) \/ OpenReclaim(s)
    \/ \E a \in Amounts, cur \in Currencies : OpenReserved(s, a, cur) \/ OpenRefused(s, a, cur)
    \/ \E a \in Amounts : OpenUnavailable(s, a)
    \/ \E e \in Events : FirstEvent(s, e)

Run(s) ==
    \/ \E e \in Events : Deliver(s, e)
    \/ \E a \in Amounts, cur \in Currencies : StreamSettled(s, a, cur)
    \/ \E a \in Amounts : StreamUnsettled(s, a)
    \/ \E cur \in Currencies : StreamSettleRaises(s, cur)
    \/ PriceUnavailable(s) \/ StreamPut(s) \/ StreamRelease(s)

StreamNext ==
    \/ \E s \in Streams : \/ StreamArrive(s) \/ StreamNotRouted(s)
                          \/ Open(s) \/ Run(s) \/ Disconnect(s)
                          \/ \E a \in Amounts : StreamCancel(s, a)
    \/ StreamCrash
    \/ StreamTraffic
    \/ StreamTick

\* The event loop runs every coroutine that can go on; the client pulls or
\* goes away; database and provider reads end, by their timeouts if need be.
StreamSpec ==
    /\ StreamInit
    /\ [][StreamNext]_allStreamVars
    /\ \A s \in Streams : WF_allStreamVars(Open(s) \/ Run(s))

-----------------------------------------------------------------------------
(* Properties.                                                             *)

\* "Every ending of _deliver finalizes" (docs/Security_Traceability.md): a
\* hold that is reserved has a stream still running for its id, unless a
\* fault or a cancellation outside _deliver has set it adrift.
StreamHoldsAreOwned ==
    \A c \in Cids : row[c].status = "reserved" =>
        \/ c \in adrift
        \/ \E s \in Streams : /\ cid[s] = c
                              /\ at[s] \notin {"new", "lookup", "reclaim", "reserve", "ended"}

\* A client that gets the whole answer, [DONE] included, is charged for it,
\* whatever another stream of the same id did to the reservation they share.
CompletedIsAccounted ==
    \A s \in Streams : result[s] = "completed" => costLedger[cid[s]] # NoEntry

\* "Only a completed, accounted stream is written back" and "never reconstruct
\* usage": what is billed or cached is an answer the provider has ended with
\* its usage, never a partial one; and the circuit breaker hears of a stream
\* once, when the provider has ended it: a client that leaves is no evidence.
OnlyWholeAnswersCount ==
    /\ \A c \in Cids : costLedger[c] # NoEntry =>
           \E s \in Streams : cid[s] = c /\ upstream[s] = "whole"
    /\ \A k \in cache :
           \E s \in Streams : /\ KeyOf[s] = k
                              /\ upstream[s] = "whole"
                              /\ costLedger[cid[s]] # NoEntry
    /\ \A s \in Streams : /\ observed[s] <= 1
                          /\ observed[s] = 1 => upstream[s] # "open"

\* Every stream that arrives ends.
StreamsEnd ==
    \A s \in Streams : at[s] = "lookup" ~> at[s] = "ended"

=============================================================================
