------------------------------ MODULE Exchange ------------------------------
(* One request while its response is delivered: internal/gateway/exchange.go, *)
(* drainingUpstreamContext, the reader of upstream/stream.go and              *)
(* consumeEvents of server/stream.go.                                         *)
(*                                                                            *)
(* The reader takes events from the provider and hands them to the loop that  *)
(* writes to the client.  The loop, the end of a context and the handler may  *)
(* each close the exchange; the first one does.  A Codex stream is detached:  *)
(* its provider is read on for a grace after the client has gone.             *)
EXTENDS Naturals

CONSTANT MaxDeltas                         \* bound: events before the last one

ASSUME DeltasAssumption == MaxDeltas \in Nat

VARIABLES
  shape,                    \* what is open: a stream, a stream collected for one answer, or a whole body
  detached,
  client, entryCtx, upCtx,  \* the contexts of the client's connection, of the request and of a detached stream
  expired, shutdown,        \* the request's time is over; the gateway stops
  body,                     \* the provider's response
  reader, loop, closer,     \* the three threads
  outcome, exchangeClosed, tokens,  \* the exchange, and whether the final usage was observed
  record,                   \* observation.finish
  fault                     \* history: what broke the stream

exchangeVars == <<shape, detached, client, entryCtx, upCtx, expired, shutdown, body, reader, loop, closer, outcome, exchangeClosed, tokens, record, fault>>
contexts == <<client, entryCtx, upCtx, expired, shutdown>>
deciding == <<outcome, exchangeClosed, tokens, record>>

NoRecord == [on |-> FALSE]

ExchangeInit ==
  /\ shape = "none" /\ detached = FALSE
  /\ client = "live" /\ entryCtx = "live" /\ upCtx = "live" /\ expired = FALSE /\ shutdown = FALSE
  /\ body = "open"
  /\ reader = [at |-> "off", event |-> "none", left |-> MaxDeltas, err |-> "none", refused |-> FALSE, downstream |-> FALSE]
  /\ loop = "off" /\ closer = "idle"
  /\ outcome = "canceled" /\ exchangeClosed = FALSE /\ tokens = FALSE
  /\ record = NoRecord /\ fault = "none"

upstreamDone == IF detached THEN upCtx # "live" ELSE entryCtx # "live"

\* Which outcome an error means; "interrupted" is the one that counts against the account's model.
classify(err) ==
  IF entryCtx = "canceled" \/ err = "canceled" THEN "canceled"
  ELSE IF entryCtx = "deadline" \/ err = "deadline" THEN "timeout" ELSE err

\* After a status that is no success there is nothing to read.
trackExchange(s, codex, ok) ==
  /\ shape = "none"
  /\ shape' = s /\ detached' = codex
  /\ codex => s # "whole"
  /\ outcome' = IF ok THEN "canceled" ELSE "rejected"
  /\ loop' = IF ~ok THEN "returned" ELSE IF s = "whole" THEN "whole" ELSE "select"
  /\ reader' = [reader EXCEPT !.at = IF ok /\ s # "whole" THEN "read" ELSE "stopped"]
  /\ UNCHANGED <<contexts, body, closer, exchangeClosed, tokens, record, fault>>
-----------------------------------------------------------------------------
(* Contexts.                                                                  *)

clientEnds(how) ==
  /\ client = "live" /\ client' = how
  /\ entryCtx' = IF entryCtx = "live" THEN how ELSE entryCtx
  /\ UNCHANGED <<shape, detached, upCtx, expired, shutdown, body, reader, loop, closer, deciding, fault>>

clientCancels == shape # "none" /\ clientEnds("canceled")
deadline == expired /\ clientEnds("deadline")

timeOver ==
  /\ shape # "none" /\ ~expired /\ expired' = TRUE
  /\ UNCHANGED <<shape, detached, client, entryCtx, upCtx, shutdown, body, reader, loop, closer, deciding, fault>>

stopRuntime ==
  /\ shape # "none" /\ ~shutdown /\ shutdown' = TRUE
  /\ UNCHANGED <<shape, detached, client, entryCtx, upCtx, expired, body, reader, loop, closer, deciding, fault>>

runtimeStopsEntry ==
  /\ shutdown /\ entryCtx = "live" /\ entryCtx' = "canceled"
  /\ UNCHANGED <<shape, detached, client, upCtx, expired, shutdown, body, reader, loop, closer, deciding, fault>>

mDrainingUpstreamContext == expired \/ shutdown

\* A detached stream ends with its deadline, with the gateway, or a grace after the request's context.
drainingUpstreamContext == expired \/ shutdown \/ entryCtx # "live"

upstreamEnds ==
  /\ detached /\ upCtx = "live" /\ drainingUpstreamContext
  /\ upCtx' = "done"
  /\ UNCHANGED <<shape, detached, client, entryCtx, expired, shutdown, body, reader, loop, closer, deciding, fault>>
-----------------------------------------------------------------------------
(* close: the first caller runs it, every other one waits for it.             *)

mAfterFunc == entryCtx # "live"

\* The context whose end closes the exchange.
afterFunc == upstreamDone

closeBegins == closer = "idle" /\ closer' = "released" /\ upCtx' = IF detached /\ upCtx = "live" THEN "released" ELSE upCtx

contextCloses ==
  /\ shape # "none" /\ afterFunc /\ closeBegins
  /\ UNCHANGED <<shape, detached, client, entryCtx, expired, shutdown, body, reader, loop, deciding, fault>>

closeBody ==
  /\ closer = "released" /\ closer' = "bodyClosed" /\ body' = "closed"
  /\ UNCHANGED <<shape, detached, contexts, reader, loop, deciding, fault>>

finish(result) == record' = [on |-> TRUE, outcome |-> result, tokens |-> tokens]

close ==
  /\ closer = "bodyClosed" /\ closer' = "done"
  /\ exchangeClosed' = TRUE
  /\ outcome' = IF outcome = "canceled" /\ entryCtx # "live" THEN classify(entryCtx) ELSE outcome
  /\ finish(outcome')
  /\ UNCHANGED <<shape, detached, contexts, body, reader, loop, tokens, fault>>
-----------------------------------------------------------------------------
(* The reader.                                                                *)

terminal(event) == event \in {"completed", "incomplete"}

readSSE(event) ==
  /\ reader.at = "read" /\ body = "open"
  /\ event = "delta" => reader.left > 0
  /\ reader' = [reader EXCEPT !.at = "observe", !.event = event, !.left = IF event = "delta" THEN @ - 1 ELSE @]
  /\ UNCHANGED <<shape, detached, contexts, body, loop, closer, deciding, fault>>

\* Whatever ends the body early, its own closing and its context included, reads as an interruption.
requireTerminal ==
  /\ reader.at = "read"
  /\ reader' = [reader EXCEPT !.at = "end", !.err = "interrupted"]
  /\ fault' = IF upstreamDone /\ expired THEN "deadline" ELSE IF body = "closed" \/ upstreamDone THEN "gateway" ELSE "provider"
  /\ UNCHANGED <<shape, detached, contexts, body, loop, closer, deciding>>

\* What follows an event that is not, or no longer, delivered.
onward(r) == IF terminal(r.event) THEN [r EXCEPT !.at = "end"] ELSE [r EXCEPT !.at = "read"]

\* The final usage is observed as long as the exchange is open.
observe == ~exchangeClosed /\ reader.event \in {"completed", "incomplete", "failed"}

readEvents ==
  /\ reader.at = "observe"
  /\ tokens' = (tokens \/ observe)
  /\ reader' = IF reader.event = "failed" THEN [reader EXCEPT !.at = "end", !.err = "interrupted"]
               ELSE IF reader.downstream THEN onward(reader) ELSE [reader EXCEPT !.at = "offer"]
  /\ fault' = IF reader.event = "failed" THEN "provider" ELSE fault
  /\ UNCHANGED <<shape, detached, contexts, body, loop, closer, outcome, exchangeClosed, record>>

\* An event the client did not take: a detached stream is read on if the client has gone.
refused(err) ==
  IF detached /\ entryCtx # "live" THEN onward([reader EXCEPT !.refused = TRUE, !.downstream = TRUE, !.err = err])
  ELSE [reader EXCEPT !.refused = TRUE, !.at = "end", !.err = err]

operationDone == client # "live" \/ loop \in {"draining", "closing"}

yieldStopped ==
  /\ reader.at \in {"offer", "reply"} /\ operationDone
  /\ reader' = refused("canceled")
  /\ UNCHANGED <<shape, detached, contexts, body, loop, closer, deciding, fault>>

streamEnd ==
  IF ~reader.refused THEN IF reader.err = "none" THEN IF reader.event = "incomplete" THEN "incomplete" ELSE "success"
                          ELSE classify(reader.err)
  ELSE IF entryCtx # "live" THEN classify(entryCtx) ELSE IF reader.err = "limit" THEN "rejected" ELSE "canceled"

mSettled == streamEnd
settled == IF exchangeClosed THEN outcome ELSE streamEnd

Events ==
  /\ reader.at = "end" /\ reader' = [reader EXCEPT !.at = "stopped"]
  /\ outcome' = settled
  /\ UNCHANGED <<shape, detached, contexts, body, loop, closer, exchangeClosed, tokens, record, fault>>
-----------------------------------------------------------------------------
(* The loop of consumeEvents, and the handler after it.                       *)

failExchange(err) == outcome' = IF exchangeClosed THEN outcome ELSE classify(err)

takeEvent ==
  /\ loop = "select" /\ reader.at = "offer"
  /\ IF client = "live" THEN loop' = "yielding" /\ reader' = [reader EXCEPT !.at = "reply"]
     ELSE loop' = "waiting" /\ reader' = refused("canceled")
  /\ UNCHANGED <<shape, detached, contexts, body, closer, deciding, fault>>

\* The client is written to; `err` is what comes of it.
yield(err) ==
  /\ loop = "yielding"
  /\ err = "limit" => reader.at = "reply" /\ terminal(reader.event)
  /\ loop' = IF err = "none" THEN "select" ELSE "waiting"
  /\ reader' = IF reader.at # "reply" THEN reader ELSE IF err = "none" THEN onward(reader) ELSE refused(err)
  /\ UNCHANGED <<shape, detached, contexts, body, closer, deciding, fault>>

\* The reader's end: the only way on for a loop that waits for it.
loopDone ==
  /\ loop \in {"select", "waiting", "draining"} /\ reader.at = "stopped"
  /\ loop' = "returned"
  /\ UNCHANGED <<shape, detached, contexts, body, reader, closer, deciding, fault>>

\* The client has gone: the reader decides when the stream is over.
gone == loop' = "draining" /\ UNCHANGED outcome

heartbeat ==
  /\ loop = "select" /\ IF client = "canceled" THEN gone ELSE loop' = "closing" /\ failExchange("canceled")
  /\ UNCHANGED <<shape, detached, contexts, body, reader, closer, exchangeClosed, tokens, record, fault>>

idle ==
  /\ loop = "select" /\ loop' = "closing" /\ failExchange("deadline")
  /\ UNCHANGED <<shape, detached, contexts, body, reader, closer, exchangeClosed, tokens, record, fault>>

contextDone ==
  /\ loop = "select" /\ client # "live"
  /\ IF client = "canceled" THEN gone ELSE loop' = "closing" /\ failExchange("deadline")
  /\ UNCHANGED <<shape, detached, contexts, body, reader, closer, exchangeClosed, tokens, record, fault>>

consumeEvents ==
  /\ loop = "closing"
  /\ \/ closeBegins /\ UNCHANGED loop
     \/ closer = "done" /\ reader.at = "stopped" /\ loop' = "returned" /\ UNCHANGED <<closer, upCtx>>
  /\ UNCHANGED <<shape, detached, client, entryCtx, expired, shutdown, body, reader, deciding, fault>>

\* A message that is valid is accepted with its usage, unless the exchange is closed.
AcceptMessage(result) ==
  /\ outcome' = IF exchangeClosed THEN outcome ELSE result
  /\ tokens' = (tokens \/ ~exchangeClosed)

\* A body that is not a stream is read as a whole.
AcceptWhole(result) ==
  /\ loop = "whole" /\ loop' = "returned"
  /\ result \in {"success", "incomplete"} => body = "open"
  /\ IF result = "interrupted" THEN failExchange(result) /\ UNCHANGED tokens ELSE AcceptMessage(result)
  /\ UNCHANGED <<shape, detached, contexts, body, reader, closer, exchangeClosed, record, fault>>

\* The answer put together from a stream may turn out to be none.
Complete ==
  /\ loop = "returned" /\ shape = "collected" /\ reader.err = "none" /\ outcome \in {"success", "incomplete"}
  /\ loop' = "completed" /\ failExchange("interrupted")
  /\ fault' = "provider"
  /\ UNCHANGED <<shape, detached, contexts, body, reader, closer, exchangeClosed, tokens, record>>

handlerCloses ==
  /\ loop \in {"returned", "completed"} /\ loop' = "over"
  /\ closeBegins \/ (closer # "idle" /\ UNCHANGED <<closer, upCtx>>)
  /\ UNCHANGED <<shape, detached, client, entryCtx, expired, shutdown, body, reader, deciding, fault>>

\* Steps that nothing outside has to happen for; the grace is one of them.
threads ==
  \/ deadline \/ runtimeStopsEntry \/ upstreamEnds \/ contextCloses \/ closeBody \/ close
  \/ reader.at = "read" /\ (body = "closed" \/ upstreamDone) /\ requireTerminal
  \/ readEvents \/ yieldStopped \/ Events
  \/ takeEvent \/ \E err \in {"none", "write", "limit"} : yield(err)
  \/ loopDone \/ contextDone \/ consumeEvents \/ handlerCloses
  \/ \E result \in {"success", "interrupted"} : AcceptWhole(result)

\* What one of them waits for has come.
movable ==
  \/ expired /\ client = "live"
  \/ shutdown /\ entryCtx = "live"
  \/ detached /\ upCtx = "live" /\ drainingUpstreamContext
  \/ closer = "idle" /\ (upstreamDone \/ loop = "closing")
  \/ closer \in {"released", "bodyClosed"}
  \/ reader.at = "read" /\ (body = "closed" \/ upstreamDone)
  \/ reader.at \in {"observe", "end"}
  \/ reader.at \in {"offer", "reply"} /\ operationDone
  \/ loop = "select" /\ (reader.at = "offer" \/ client # "live")
  \/ loop \in {"yielding", "whole", "returned", "completed"}
  \/ reader.at = "stopped" /\ (loop \in {"select", "waiting", "draining"} \/ (loop = "closing" /\ closer = "done"))

ExchangeNext ==
  \/ \E s \in {"stream", "collected", "whole"}, codex, ok \in BOOLEAN : trackExchange(s, codex, ok)
  \/ clientCancels \/ timeOver \/ deadline \/ stopRuntime \/ runtimeStopsEntry \/ upstreamEnds
  \/ contextCloses \/ closeBody \/ close
  \/ \E event \in {"delta", "completed", "incomplete", "failed"} : readSSE(event)
  \/ requireTerminal \/ readEvents \/ yieldStopped \/ Events
  \/ takeEvent \/ \E err \in {"none", "write", "limit"} : yield(err)
  \/ loopDone \/ heartbeat \/ idle \/ contextDone \/ consumeEvents
  \/ \E result \in {"success", "incomplete", "interrupted"} : AcceptWhole(result)
  \/ Complete \/ handlerCloses

ExchangeSpec == ExchangeInit /\ [][ExchangeNext]_exchangeVars
-----------------------------------------------------------------------------
(* Properties.                                                                *)

\* What is recorded of a request, and charged for it, stands: no thread that comes late, after another one
\* closed the exchange, changes the outcome or the usage behind the record.
RecordStands == record.on => record.outcome = outcome /\ record.tokens = tokens

\* A success is recorded only for a response that the provider finished and the client took to its end; what
\* is read on after the client has gone is no success.
SuccessIsWhole ==
  record.on /\ record.outcome \in {"success", "incomplete"} /\ shape # "whole"
    => terminal(reader.event) /\ ~reader.refused /\ reader.at = "stopped"

\* A drain is left alone until its grace, its deadline or the gateway ends it: the usage at the end of a
\* stream is observed although the client has gone.
DrainUndisturbed == loop = "draining" /\ detached /\ upCtx # "done" => closer = "idle" /\ ~exchangeClosed /\ body = "open"

\* What an exchange records is whole, final and observed to its end, whichever of its threads ends it.
ExchangeKept == RecordStands /\ SuccessIsWhole /\ DrainUndisturbed

\* Once the client has gone, the time is over or the gateway stops, an exchange in which nothing can move has
\* been recorded and its lease released.
StopsWhenOver == shape # "none" /\ (client # "live" \/ expired \/ shutdown) /\ ~movable => record.on /\ loop = "over"

\* No thread waits for another one for ever: an exchange stops only when it is over, and movable is
\* when a thread can move.
NobodyWaits == StopsWhenOver /\ (shape # "none" => (movable <=> ENABLED threads))

\* "Request deadlines and unknown network failures do not penalize account health": an interruption counts
\* against the model of the account, and a stream that the request's own deadline cut is not recorded as one.
DeadlinesDoNotPenalize == record.on /\ record.outcome = "interrupted" => fault # "deadline"
=============================================================================
