------------------------------ MODULE SseStream ------------------------------
(***************************************************************************)
(* One streamed request: internal/httpserver.streamResult between the app   *)
(* method it runs in a goroutine and the calctl client that reads the       *)
(* stream.  Progress events and the final result share one bounded channel; *)
(* every sender gives up when its context is done, the handler when the     *)
(* client has gone; the socket holds a few events and then blocks.          *)
(*                                                                         *)
(* Events are emitted by the request's own goroutine and by the pipelines   *)
(* proposal starts, which emit under deadlines of their own.                *)
(***************************************************************************)
EXTENDS Integers, Sequences

CONSTANTS
  Emitters,    \* goroutines of the app method that emit progress events
  Timed,       \* the emitters whose context has its own deadline
  MaxEvents,   \* bound: progress events of one emitter
  BufferSize,  \* progressBufferSize
  WireSize,    \* bound: events the socket holds before a write blocks
  LongEvents,  \* events whose data line is over bufio.MaxScanTokenSize
  Unencodable  \* events whose data json.Marshal refuses

Answers == {"result", "error"}
Progress(e, n) == [event |-> "progress", emitter |-> e, number |-> n]
Final(answer) == [event |-> answer]
IsFinal(m) == m.event \in Answers
Events == {Progress(e, n) : e \in Emitters, n \in 1..MaxEvents}
            \cup {Final(answer) : answer \in Answers}
NoMessage == [event |-> "none"]

ASSUME SseAssumption ==
  /\ Timed \subseteq Emitters
  /\ MaxEvents \in Nat
  /\ BufferSize \in Nat \ {0}
  /\ WireSize \in Nat \ {0}
  /\ LongEvents \subseteq Events /\ Unencodable \subseteq Events

VARIABLES
  emitted,   \* [Emitters -> how many events it has emitted]
  sending,   \* [Emitters -> it waits to put its last event into the channel]
  expired,   \* [Emitters -> its own deadline has passed]
  app,       \* the app method: "running", then what it returned, then "done"
  answered,  \* what the app method returned, or "none"
  messages,  \* the channel
  handler,   \* "selecting", "writing", "returned"
  message,   \* the message the handler took last
  wire,      \* events written and not yet read
  client,    \* "reading", or how the client's call ended
  got,       \* history: events the client has read
  noticed,   \* r.Context is done: the server saw the client go
  died       \* the daemon was killed

senders == <<emitted, sending, expired, app, answered>>
vars == <<senders, messages, handler, message, wire, client, got, noticed, died>>

TypeOK ==
  /\ emitted \in [Emitters -> 0..MaxEvents]
  /\ sending \in [Emitters -> BOOLEAN]
  /\ expired \in [Emitters -> BOOLEAN]
  /\ app \in {"running", "done"} \cup Answers
  /\ answered \in {"none"} \cup Answers
  /\ messages \in Seq(Events) /\ Len(messages) <= BufferSize
  /\ handler \in {"selecting", "writing", "returned"}
  /\ message \in Events \cup {NoMessage}
  /\ wire \in Seq(Events) /\ Len(wire) <= WireSize
  /\ client \in {"reading", "broken", "gone"} \cup Answers
  /\ got \in Seq(Events)
  /\ noticed \in BOOLEAN /\ died \in BOOLEAN

Init ==
  /\ emitted = [e \in Emitters |-> 0]
  /\ sending = [e \in Emitters |-> FALSE]
  /\ expired = [e \in Emitters |-> FALSE]
  /\ app = "running" /\ answered = "none"
  /\ messages = <<>>
  /\ handler = "selecting" /\ message = NoMessage
  /\ wire = <<>>
  /\ client = "reading" /\ got = <<>>
  /\ noticed = FALSE /\ died = FALSE

\* The derived context: canceled with the request's, or when the handler returns.
CtxDone == noticed \/ handler = "returned"

----------------------------------------------------------------------------
(* The app method's goroutines *)

Emit(e) ==
  /\ ~died /\ app = "running"
  /\ ~sending[e] /\ emitted[e] < MaxEvents
  /\ emitted' = [emitted EXCEPT ![e] = @ + 1]
  /\ sending' = [sending EXCEPT ![e] = TRUE]
  /\ UNCHANGED <<expired, app, answered, messages, handler, message, wire,
                 client, got, noticed, died>>

Expire(e) ==
  /\ e \in Timed /\ ~expired[e] /\ ~died /\ app = "running"
  /\ expired' = [expired EXCEPT ![e] = TRUE]
  /\ UNCHANGED <<emitted, sending, app, answered, messages, handler, message,
                 wire, client, got, noticed, died>>

\* The send case of the select: there is room in the channel.
Enqueue(m) ==
  /\ ~died /\ Len(messages) < BufferSize
  /\ messages' = Append(messages, m)
  /\ UNCHANGED <<handler, message, wire, client, got, noticed, died>>

SendEvent(e) ==
  /\ sending[e] /\ sending' = [sending EXCEPT ![e] = FALSE]
  /\ Enqueue(Progress(e, emitted[e]))
  /\ UNCHANGED <<emitted, expired, app, answered>>

\* The event is sent or forgotten: the sender waits for nobody.
Mut_DropEvent(e) ==
  /\ ~died
  /\ sending[e] /\ sending' = [sending EXCEPT ![e] = FALSE]
  /\ UNCHANGED <<emitted, expired, app, answered, messages, handler, message,
                 wire, client, got, noticed, died>>

\* Only a full channel is waited for, never the context.
Mut_DropNothing(e) == FALSE /\ UNCHANGED vars

\* The other case: the context the event was emitted under is done.  When both
\* are ready Go picks either, so an event can be lost with room to spare.
DropEvent(e) ==
  /\ ~died /\ (CtxDone \/ expired[e])
  /\ sending[e] /\ sending' = [sending EXCEPT ![e] = FALSE]
  /\ UNCHANGED <<emitted, expired, app, answered, messages, handler, message,
                 wire, client, got, noticed, died>>

\* Pipelines are not waited for.
Mut_Answer ==
  /\ ~died /\ app = "running"
  /\ app' \in Answers /\ answered' = app'
  /\ UNCHANGED <<emitted, sending, expired, messages, handler, message, wire,
                 client, got, noticed, died>>

\* The app method returns: every pipeline has been waited for.
Answer ==
  /\ ~died /\ app = "running"
  /\ \A e \in Emitters : ~sending[e]
  /\ app' \in Answers /\ answered' = app'
  /\ UNCHANGED <<emitted, sending, expired, messages, handler, message, wire,
                 client, got, noticed, died>>

SendAnswer ==
  /\ app \in Answers /\ app' = "done"
  /\ Enqueue(Final(answered))
  /\ UNCHANGED <<emitted, sending, expired, answered>>

\* A full channel drops the answer too.
Mut_DropAnswer ==
  /\ ~died /\ (CtxDone \/ Len(messages) = BufferSize)
  /\ app \in Answers /\ app' = "done"
  /\ UNCHANGED <<emitted, sending, expired, answered, messages, handler, message,
                 wire, client, got, noticed, died>>

DropAnswer ==
  /\ ~died /\ CtxDone
  /\ app \in Answers /\ app' = "done"
  /\ UNCHANGED <<emitted, sending, expired, answered, messages, handler, message,
                 wire, client, got, noticed, died>>

----------------------------------------------------------------------------
(* The handler *)

Take ==
  /\ ~died /\ handler = "selecting" /\ messages # <<>>
  /\ message' = Head(messages) /\ messages' = Tail(messages)
  /\ handler' = "writing"
  /\ UNCHANGED <<senders, wire, client, got, noticed, died>>

\* The handler also leaves when the goroutine has ended.
Mut_HandlerGone ==
  /\ ~died /\ handler = "selecting" /\ (noticed \/ app = "done")
  /\ handler' = "returned"
  /\ UNCHANGED <<senders, messages, message, wire, client, got, noticed, died>>

HandlerGone ==
  /\ ~died /\ handler = "selecting" /\ noticed
  /\ handler' = "returned"
  /\ UNCHANGED <<senders, messages, message, wire, client, got, noticed, died>>

Connected == client = "reading"

\* writeSSE and Flush: the socket takes the event.
Write ==
  /\ ~died /\ handler = "writing" /\ message \notin Unencodable
  /\ Connected /\ Len(wire) < WireSize
  /\ wire' = Append(wire, message)
  /\ handler' = IF IsFinal(message) THEN "returned" ELSE "selecting"
  /\ UNCHANGED <<senders, messages, message, client, got, noticed, died>>

\* The client has gone: the write fails, or the socket took it for nobody.
WriteToNobody ==
  /\ ~died /\ handler = "writing" /\ message \notin Unencodable /\ ~Connected
  /\ handler' \in {"returned", IF IsFinal(message) THEN "returned" ELSE "selecting"}
  /\ UNCHANGED <<senders, messages, message, wire, client, got, noticed, died>>

\* writeSSE refuses the event before a byte of it is written: the stream ends.
WriteRefused ==
  /\ ~died /\ handler = "writing" /\ message \in Unencodable
  /\ handler' = "returned"
  /\ UNCHANGED <<senders, messages, message, wire, client, got, noticed, died>>

\* net/http's background read sees the connection closed.
Notice ==
  /\ ~died /\ ~Connected /\ ~noticed /\ handler # "returned"
  /\ noticed' = TRUE
  /\ UNCHANGED <<senders, messages, handler, message, wire, client, got, died>>

----------------------------------------------------------------------------
(* The client: readStream and handleStreamEvent *)

\* The Scanner has room for the lines of the event.
Read ==
  /\ client = "reading" /\ wire # <<>> /\ Head(wire) \notin LongEvents
  /\ wire' = Tail(wire)
  /\ got' = Append(got, Head(wire))
  /\ client' = IF IsFinal(Head(wire)) THEN Head(wire).event ELSE "reading"
  /\ UNCHANGED <<senders, messages, handler, message, noticed, died>>

\* "read stream: token too long": the Scanner stops within a progress event's
\* line or an answer's, of which the client has read nothing.
ReadTooLong ==
  /\ client = "reading" /\ wire # <<>> /\ Head(wire) \in LongEvents
  /\ client' = "broken"
  /\ UNCHANGED <<senders, messages, handler, message, wire, got, noticed, died>>

\* "stream ended without result"
ReadEnd ==
  /\ client = "reading" /\ wire = <<>>
  /\ handler = "returned" \/ died
  /\ client' = "broken"
  /\ UNCHANGED <<senders, messages, handler, message, wire, got, noticed, died>>

\* Interrupted, or its output failed: the connection is closed.
Leave ==
  /\ client = "reading"
  /\ client' = "gone"
  /\ UNCHANGED <<senders, messages, handler, message, wire, got, noticed, died>>

Die ==
  /\ ~died
  /\ died' = TRUE
  /\ UNCHANGED <<senders, messages, handler, message, wire, client, got, noticed>>

AppStep ==
  \/ \E e \in Emitters : SendEvent(e) \/ DropEvent(e)
  \/ Answer \/ SendAnswer \/ DropAnswer
HandlerStep == Take \/ HandlerGone \/ Write \/ WriteToNobody \/ WriteRefused
ClientStep == Read \/ ReadTooLong \/ ReadEnd

Next ==
  \/ \E e \in Emitters : Emit(e) \/ Expire(e)
  \/ AppStep \/ HandlerStep \/ Notice \/ ClientStep \/ Leave \/ Die

Spec == Init /\ [][Next]_vars

\* Every goroutine is scheduled, and a client that does not leave goes on reading.
\* Every app method returns: Acquisition!Settles, on the condition it states, that
\* no child a command leaves behind holds the command's output for ever.
FairSpec ==
  /\ Spec
  /\ \A e \in Emitters : WF_vars(SendEvent(e) \/ DropEvent(e))
  /\ WF_vars(Answer) /\ WF_vars(SendAnswer \/ DropAnswer)
  /\ WF_vars(HandlerStep) /\ WF_vars(Notice) /\ WF_vars(ClientStep)

----------------------------------------------------------------------------
(* Properties *)

\* Everything on its way to the client and already there, oldest first.
Written == got \o wire \o (IF handler = "writing" THEN <<message>> ELSE <<>>)
Stream == Written \o messages

OfEmitter(m, e) == m.event = "progress" /\ m.emitter = e

\* The events of one emitter pass in the order of their numbers, none twice.
InOrder(stream, e) ==
  \A j, k \in DOMAIN stream :
    j < k /\ OfEmitter(stream[j], e) /\ OfEmitter(stream[k], e) =>
      stream[j].number < stream[k].number

Sent(e) == emitted[e] - (IF sending[e] THEN 1 ELSE 0)

\* While nobody has gone and no deadline has passed, the channel, the handler
\* and the socket hold every event an emitter has sent, once and in its order;
\* and what a client reads of an emitter stays in that order even when events
\* are dropped between those that pass.
NothingLostWhileConnected ==
  \A e \in Emitters :
    /\ Connected /\ ~died /\ ~expired[e] /\ handler # "returned" =>
         /\ \A n \in 1..Sent(e) : \E k \in DOMAIN Stream : Stream[k] = Progress(e, n)
         /\ \A k \in DOMAIN Stream : OfEmitter(Stream[k], e) => Stream[k].number <= Sent(e)
         /\ InOrder(Stream, e)
    /\ InOrder(got, e)

\* cal-progress-streaming.md "write exactly one terminal result or error event":
\* whatever races, the client reads events, then at most one answer and nothing
\* after it, and that answer is the one the app method returned.
OneAnswerLast ==
  \A k \in DOMAIN Stream : IsFinal(Stream[k]) =>
    k = Len(Stream) /\ Stream[k] = Final(answered)

\* A client that stays is left without an answer only by a daemon that died, or by
\* one event, of whatever kind: the one next in the stream is too long a line for
\* the client's Scanner, or the one taken last could not be encoded.  No race of
\* senders, handler and deadlines ends the stream before its answer is read.
ClientDecodesAnswer ==
  client = "broken" =>
    \/ died
    \/ wire # <<>> /\ Head(wire) \in LongEvents
    \/ handler = "returned" /\ message \in Unencodable

\* docs/cal-release-v1/cal-progress-streaming.md:243 "CLI client decodes progress,
\* result, and error events": a daemon that lives does not leave a client that
\* stays without an answer.  A progress event with a long raw_response does.
DecodesEveryEvent == client = "broken" => died

\* No goroutine of the app method stays blocked on the channel: its reader may
\* have returned, but then the context is done.
SendersReleased ==
  \A e \in Emitters : sending[e] ~> (~sending[e] \/ died)

\* The client's call always ends.
ClientReturns == (client = "reading") ~> (client # "reading")
=============================================================================
