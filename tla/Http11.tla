------------------------------- MODULE Http11 -------------------------------
(***************************************************************************)
(* One HTTP/1.1 connection: the Http11Protocol of _http11.py on its home   *)
(* loop, with the native parser it feeds and pumps (FastHttpConnection),   *)
(* the transport, and the application that is run once per request.  The   *)
(* client's bytes are a sequence of units that the parser turns into one   *)
(* event each: the head of a request, a piece of its body, or something    *)
(* malformed; a head that has not arrived in full has not arrived.  The    *)
(* code between two awaits is one step.                                    *)
(***************************************************************************)
EXTENDS Naturals, Sequences, FiniteSets

CONSTANTS
    Requests,        \* how many requests the client sends, pipelined at will
    Kinds,           \* what they may be: records of Kind
    Habits,          \* liberties the application takes: subset of AllHabits
    QueueMax, QueueResume,   \* _QUEUE_MAX_SIZE and _QUEUE_RESUME_SIZE, 32 and 16
    MaxKeepalive,    \* _MAX_KEEPALIVE_REQUESTS, 1000
    MaxParts         \* bound: what one response writes before its end

Reqs == 1..Requests

\* To answer before it has read the body ("early"), to return without a complete
\* answer ("short"), to raise during one ("raise"), and to wait for the
\* disconnect ("wait").
AllHabits == {"early", "short", "raise", "wait"}

Kind == [chunks : Nat, keep : BOOLEAN, ws : BOOLEAN, bad : BOOLEAN]

\* What the constants are.  Reading is resumed only for a piece that is not the
\* last, so QueueResume = 0 would leave a connection paused.
HttpParams ==
    /\ Requests \in Nat /\ Kinds \subseteq Kind /\ Habits \subseteq AllHabits
    /\ QueueMax \in Nat /\ QueueResume \in 1..(QueueMax - 1)
    /\ MaxKeepalive \in Nat \ {0} /\ MaxParts \in Nat \ {0}

VARIABLES
    stream,     \* units the client has still to send
    gone,       \* the client has left
    h           \* the protocol object with its parser, transport and cycles

vars == <<stream, gone, h>>

\* The units of a request; the last one of a bad request is malformed.
Units(r, k) ==
    LET head == [tag |-> "start", r |-> r, body |-> k.chunks > 0 /\ ~k.ws, keep |-> k.keep, ws |-> k.ws]
        piece(i) == [tag |-> "chunk", r |-> r, i |-> i, more |-> i < k.chunks]
        all == <<head>> \o [i \in 1..k.chunks |-> piece(i)]
    IN  IF k.bad THEN Append(SubSeq(all, 1, k.chunks), [tag |-> "error", r |-> r]) ELSE all

\* What the client sends: its requests, one behind the other.
Sends(kind) ==
    LET upto[r \in 0..Requests] ==
            IF r = 0 THEN <<>> ELSE upto[r - 1] \o Units(r, kind[r])
    IN  upto[Requests]

\* A cycle runs the application for one request: "new" (created, not begun),
\* "app" (in the application's code), waiting for a piece of the body ("get"),
\* for the disconnect ("gone") or for the drain ("drain"), "ws" in the WebSocket
\* handler, or "over".
NoCycle == [at |-> "none", body |-> FALSE, keep |-> FALSE, ws |-> FALSE, resp |-> 0,
            then |-> 0, wrote |-> FALSE, given |-> 0, hit |-> FALSE]

Init ==
    /\ \E kind \in [Reqs -> Kinds] : stream = Sends(kind)
    /\ gone = FALSE
    /\ h = [parser |-> [state |-> "waiting", keep |-> TRUE, count |-> 0, buffer |-> <<>>],
            state |-> "WAITING_HEADER", has_queue |-> FALSE, queue |-> <<>>,
            disconnect |-> FALSE, drain |-> TRUE, closed |-> FALSE, pending |-> <<>>,
            upgraded |-> FALSE, current |-> 0, closing |-> FALSE, paused |-> FALSE,
            lost |-> FALSE, wire |-> <<>>, cycle |-> [r \in Reqs |-> NoCycle]]

-----------------------------------------------------------------------------
(* FastHttpConnection *)

\* A head that is answered without a body, or hands the connection over.
HeadCompletes(u) == u.tag = "start" /\ (u.ws \/ ~u.body)
BodyCompletes(u) == u.tag = "chunk" /\ ~u.more
Completes(u) == HeadCompletes(u) \/ BodyCompletes(u)
Refused(u) == u.tag = "error"

\* How many units one call consumes: the parser stops behind a complete request,
\* and reads nothing while that request is served.
Consumed(p) ==
    IF p.state \in {"serving", "closed"} THEN 0
    ELSE LET ends == {i \in DOMAIN p.buffer : Completes(p.buffer[i]) \/ Refused(p.buffer[i])}
         IN  IF ends = {} THEN Len(p.buffer) ELSE CHOOSE i \in ends : \A j \in ends : i <= j

process_events(p) ==
    LET n == Consumed(p)
        heads == {i \in 1..n : p.buffer[i].tag = "start"}
    IN  IF n = 0 THEN p ELSE
        [state  |-> IF Refused(p.buffer[n]) THEN "closed"
                    ELSE IF Completes(p.buffer[n]) THEN "serving" ELSE "body",
         keep   |-> IF heads = {} THEN p.keep ELSE p.buffer[CHOOSE i \in heads : \A j \in heads : j <= i].keep,
         count  |-> p.count + Cardinality(heads),
         buffer |-> SubSeq(p.buffer, n + 1, Len(p.buffer))]

\* Only a request that was received in full is finished by this.
reset_for_next_request(p) ==
    IF p.state # "serving" THEN p
    ELSE [p EXCEPT !.state = IF p.keep /\ p.count < MaxKeepalive THEN "waiting" ELSE "closed"]

-----------------------------------------------------------------------------
(* Http11Protocol *)

\* The transport drops what is written after close().
Write(c, r, what) == IF c.closing THEN c ELSE [c EXCEPT !.wire = Append(@, <<r, what>>)]

Live(c, r) == c.cycle[r].at \notin {"none", "over"}

close(c) ==
    IF c.state = "CLOSED" THEN c
    ELSE [c EXCEPT !.state = "CLOSED", !.closed = TRUE, !.disconnect = TRUE,
                   !.closing = TRUE, !.drain = TRUE, !.current = 0,
                   !.cycle = [r \in Reqs |-> IF r = c.current /\ Live(c, r)
                                             THEN [@[r] EXCEPT !.hit = TRUE] ELSE @[r]]]

Create(c, u) ==
    [c EXCEPT !.state = "SERVING_APP", !.current = u.r,
              !.cycle[u.r] = [NoCycle EXCEPT !.at = "new", !.body = u.body,
                                             !.keep = u.keep, !.ws = u.ws]]

\* Mutant of Serve: what the last request left unread stays.
ServeKeepingQueue(c, u) == [Create(c, u) EXCEPT !.has_queue = u.body, !.disconnect = FALSE]

Serve(c, u) ==
    [Create(c, u) EXCEPT !.has_queue = u.body, !.queue = <<>>, !.disconnect = FALSE]

HandleEvent(c, u) ==
    CASE u.tag = "start" /\ u.ws -> Create(c, u)
      [] u.tag = "start" /\ ~u.ws /\ c.state = "SERVING_APP" ->
            [c EXCEPT !.pending = Append(@, u)]
      [] u.tag = "start" /\ ~u.ws /\ c.state # "SERVING_APP" -> Serve(c, u)
      [] u.tag = "chunk" /\ c.has_queue ->
            [c EXCEPT !.queue = Append(@, u),
                      !.paused = @ \/ (Len(c.queue) + 1 >= QueueMax /\ ~c.closing)]
      [] u.tag = "chunk" /\ ~c.has_queue -> c
      [] u.tag = "error" -> close([Write(c, u.r, "refused") EXCEPT !.closing = TRUE])

\* pump_events, and what _handle_events does about each event.
Pump(c) ==
    LET n == Consumed(c.parser)
        after[i \in 0..n] ==
            IF i = 0 THEN [c EXCEPT !.parser = process_events(@)]
            ELSE HandleEvent(after[i - 1], c.parser.buffer[i])
    IN  after[n]

\* Mutant of Finish: the parser is not asked again.
FinishQuietly(c, r) ==
    LET a == [c EXCEPT !.disconnect = TRUE, !.cycle[r].at = "over",
                       !.parser = reset_for_next_request(@)]
    IN  IF a.parser.state = "closed" THEN [a EXCEPT !.closing = TRUE]
        ELSE [a EXCEPT !.state = "KEEP_ALIVE_WAIT"]

\* The finally block of a cycle: the connection waits for the next request, or
\* begins with the one that has already arrived.
Finish(c, r) ==
    LET a == [c EXCEPT !.disconnect = TRUE, !.cycle[r].at = "over",
                       !.parser = reset_for_next_request(@)]
        b == [a EXCEPT !.state = "KEEP_ALIVE_WAIT"]
    IN  IF a.parser.state = "closed" THEN [a EXCEPT !.closing = TRUE]
        ELSE IF b.pending # <<>> THEN Serve([b EXCEPT !.pending = Tail(@)], Head(b.pending))
        ELSE Pump(b)

\* Bytes arrive, in segments of any size.
data_received ==
    /\ ~h.closing /\ ~h.paused
    /\ \E n \in 1..Len(stream) :
         /\ stream' = SubSeq(stream, n + 1, Len(stream))
         /\ h' = IF h.upgraded THEN h
                 ELSE Pump([h EXCEPT !.parser.buffer = @ \o SubSeq(stream, 1, n)])
    /\ UNCHANGED gone

\* A paused transport does not see the client leave.
connection_lost ==
    /\ ~h.lost
    /\ \/ h.closing /\ (h.drain \/ gone)
       \/ gone /\ ~h.paused
    /\ h' = [close(h) EXCEPT !.lost = TRUE]
    /\ UNCHANGED <<stream, gone>>

Leave == ~gone /\ gone' = TRUE /\ UNCHANGED <<stream, h>>

resume_writing == ~h.drain /\ ~gone /\ h' = [h EXCEPT !.drain = TRUE] /\ UNCHANGED <<stream, gone>>

-----------------------------------------------------------------------------
(* A cycle *)

\* The cycle r takes a step from one of these places, to what the protocol is then.
Step(r, places, next) ==
    /\ h.cycle[r].at \in places
    /\ h' = next
    /\ UNCHANGED <<stream, gone>>

\* A task that is cancelled before it begins never runs its finally block.
Begin(r) ==
    LET hit == h.cycle[r].hit  ws == h.cycle[r].ws
    IN  Step(r, {"new"},
             [h EXCEPT !.cycle[r].at = IF hit THEN "over" ELSE IF ws THEN "ws" ELSE "app",
                       !.upgraded = @ \/ (ws /\ ~hit)])

AllRead(r) == ~(h.cycle[r].body /\ h.has_queue)
Ready(r) == AllRead(r) \/ "early" \in Habits

\* receive(): the body's next piece, the empty body once, or the disconnect.
Receive(r) ==
    LET c == h.cycle[r]
    IN  /\ AllRead(r) => "wait" \in Habits
        /\ Step(r, {"app"},
                IF c.body /\ h.has_queue THEN [h EXCEPT !.cycle[r].at = "get"]
                ELSE IF ~c.body /\ c.given = 0 THEN [h EXCEPT !.cycle[r].given = 1]
                ELSE [h EXCEPT !.cycle[r].at = "gone"])

Got(r) ==
    /\ h.queue # <<>>
    /\ LET more == Head(h.queue).more
           given == [h.cycle[r] EXCEPT !.at = "app", !.given = @ + 1]
           a == [h EXCEPT !.cycle[r] = given, !.queue = Tail(@), !.has_queue = more]
       IN  Step(r, {"get"},
                IF more /\ Len(a.queue) <= QueueResume
                THEN Pump([a EXCEPT !.paused = FALSE]) ELSE a)

Disconnected(r) == h.disconnect /\ Step(r, {"gone"}, [h EXCEPT !.cycle[r].at = "app"])

Parts(r) == Len(SelectSeq(h.wire, LAMBDA w : w[1] = r))

SendStart(r) ==
    /\ h.cycle[r].resp = 0 /\ Ready(r)
    /\ Step(r, {"app"}, [h EXCEPT !.cycle[r].resp = 1])

\* A body message that is complete with its response closes the connection when
\* it does not stay open; the end of a streamed one leaves that to the finally.
Sent(c, r) ==
    LET y == c.cycle[r]
    IN  [c EXCEPT !.cycle[r].at = "app", !.cycle[r].resp = y.then,
                  !.closing = @ \/ (y.resp = 1 /\ y.then = 3 /\ ~y.keep)]

\* full: the write fills the transport's buffer, which calls pause_writing;
\* stay: the application's headers let the connection stay open.
Answer(r, more, full, stay) ==
    LET y == h.cycle[r]
        what == IF y.resp = 1 THEN (IF more THEN "head" ELSE "full")
                ELSE IF more THEN "part" ELSE "end"
        sent == [y EXCEPT !.wrote = TRUE, !.keep = @ /\ stay, !.then = IF more THEN 2 ELSE 3]
    IN  [Write(h, r, what) EXCEPT !.cycle[r] = sent, !.drain = @ /\ ~full]

SendBody(r) == \E more, full, stay \in BOOLEAN :
    LET c == Answer(r, more, full, stay)
    IN  /\ h.cycle[r].resp \in {1, 2} /\ (more => Parts(r) < MaxParts)
        /\ (h.closing => ~full) /\ (h.cycle[r].resp = 2 => stay)
        /\ Step(r, {"app"}, IF c.drain THEN Sent(c, r) ELSE [c EXCEPT !.cycle[r].at = "drain"])

Drained(r) == h.drain /\ Step(r, {"drain"}, Sent(h, r))

Return(r) ==
    /\ Ready(r) /\ (h.cycle[r].resp = 3 \/ "short" \in Habits)
    /\ Step(r, {"app"}, Finish(h, r))

\* The application raises; so do send() and receive() used against the protocol.
Fail(r) ==
    /\ Ready(r) /\ (h.cycle[r].wrote => "raise" \in Habits)
    /\ Step(r, {"app"},
            Finish(IF h.cycle[r].wrote \/ h.closing THEN h
                   ELSE [Write(h, r, "500") EXCEPT !.closing = TRUE], r))

\* A cancelled application ends without an answer.
Cancelled(r) ==
    /\ h.cycle[r].hit
    /\ Step(r, {"app", "get", "gone", "drain", "ws"},
            IF h.cycle[r].ws THEN [h EXCEPT !.cycle[r].at = "over"] ELSE Finish(h, r))

\* The WebSocket handler returns and the connection is closed.
WebSocketEnds(r) ==
    Step(r, {"ws"}, close([h EXCEPT !.cycle[r].at = "over"]))

AppStep(r) ==
    \/ Begin(r) \/ Receive(r) \/ Got(r) \/ Disconnected(r) \/ SendStart(r)
    \/ SendBody(r) \/ Drained(r) \/ Return(r) \/ Fail(r)

Next ==
    \/ data_received \/ connection_lost \/ Leave \/ resume_writing
    \/ \E r \in Reqs : AppStep(r) \/ Cancelled(r) \/ WebSocketEnds(r)

Spec == Init /\ [][Next]_vars

-----------------------------------------------------------------------------
(* Properties *)

TypeOK ==
    /\ h.parser.state \in {"waiting", "body", "serving", "closed"}
    /\ h.state \in {"WAITING_HEADER", "SERVING_APP", "KEEP_ALIVE_WAIT", "CLOSED"}
    /\ h.current \in Reqs \cup {0}
    /\ \A r \in Reqs : h.cycle[r].resp \in 0..3 /\ h.cycle[r].given \in Nat

\* One application at a time serves the connection, and what it receives are the
\* pieces of its own request, in order and without a gap, whatever the earlier
\* ones left unread.
OwnBody ==
    \A r \in Reqs : Live(h, r) =>
        /\ \A s \in Reqs : Live(h, s) => s = r
        /\ h.cycle[r].body /\ h.has_queue =>
             \A i \in DOMAIN h.queue :
                h.queue[i].r = r /\ h.queue[i].i = h.cycle[r].given + i

\* Responses appear in the order of their requests, and none is begun twice.
InOrder ==
    \A i, j \in DOMAIN h.wire : i < j =>
        /\ h.wire[i][1] <= h.wire[j][1]
        /\ h.wire[i][1] = h.wire[j][1] => h.wire[j][2] \notin {"head", "full", "500"}

\* A response, or a refusal, is written only behind complete responses.
NotInterleaved ==
    \A i \in 2..Len(h.wire) :
        h.wire[i][2] \in {"head", "full", "500", "refused"} =>
            h.wire[i - 1][2] \in {"full", "end", "500", "refused"}

\* The parser alone keeps requests apart: nothing is ever left in
\* _pending_pipeline_events, which holds requests that arrive during another.
NeverPending == h.pending = <<>>

\* Reading is paused only while somebody is there who will resume it.
PauseOwned ==
    h.paused => \/ h.closing
                \/ \E r \in Reqs : Live(h, r) /\ ~AllRead(r) /\ Len(h.queue) > QueueResume

\* No application is started on a connection that was lost.
DeadStayDead == \A r \in Reqs : h.lost => h.cycle[r].at # "new" \/ h.cycle[r].hit

\* Every request that was sent in full is served, unless the connection is closed
\* or handed over to the WebSocket handler.
Arrived(r) == \A i \in DOMAIN stream : stream[i].r # r
RequestsAnswered ==
    \A r \in Reqs : Arrived(r) ~> (h.closing \/ h.upgraded \/ h.cycle[r].at = "over")
=============================================================================
