---------------------------- MODULE WsgiExchange ----------------------------
(***************************************************************************)
(* One request of the WSGI worker (wsgi.py): the connection's handler and  *)
(* the feeder of the request body, coroutines of one loop, and the         *)
(* application, which runs in a thread of the executor.  The body reaches  *)
(* the application through one Channel (SyncStreamReader), its answer      *)
(* comes back through another, and everybody may be left in the middle by  *)
(* the client, a time-out or a cancellation.  A body is a number of        *)
(* pieces; parsing and formatting are left out.                            *)
(***************************************************************************)
EXTENDS Naturals, Sequences, FiniteSets

CONSTANTS
    Pieces,               \* of the request body
    BodyCapacity,         \* maxsize of the body channel, 16
    OutCapacity,          \* maxsize of chunk_channel, 128
    MaxData,              \* bound: what the application yields
    Liberties             \* subset of AllLiberties

\* The application raises a BrokenPipeError of its own ("pipe"), yields something
\* that is not bytes ("text"), or calls start_response with exc_info after it has
\* yielded ("restart").
AllLiberties == {"pipe", "text", "restart"}

ExchangeParams ==
    /\ Pieces \in Nat /\ MaxData \in Nat /\ Liberties \subseteq AllLiberties
    /\ BodyCapacity \in Nat \ {0} /\ OutCapacity \in Nat \ {0}

VARIABLES
    gone,        \* the client has left
    left,        \* pieces of the body not yet read from it
    handler,     \* "head", "recv", "drain", "ending" (for the thread), "sorry"
                 \* (in the drain of a last answer) or "over"
    next,        \* where the handler goes from "drain" or "ending"
    sent, active,   \* headers_sent and its event; STARTs behind the head
    chunked,     \* the answer has no content-length
    wire,        \* what was written
    feeder,      \* "none", "read", "send", "last" (b"" and close) or "over"
    fcancel,     \* it was cancelled
    body, out,   \* the channels: [q, shut]; 0 is b""
    thread,      \* "none", "queued", "app", "recv" (in the body channel),
                 \* "put" (todo, into the other) or "over"
    todo, starts,   \* messages to send; calls of start_response (headers_set)
    end,         \* how the application ended: "none", "ok", "error", "pipe"
    ahead, got, eof,   \* pieces the reader was given at once, pieces read, _eof
    said,        \* what the application yielded
    cut          \* the feeder gave up before the end of the body

loopvars == <<handler, next, sent, active, chunked, wire>>
feedvars == <<left, feeder, fcancel, cut>>
appvars == <<thread, todo, starts, end, ahead, got, eof, said>>
vars == <<gone, loopvars, feedvars, body, out, appvars>>

TypeOK ==
    /\ handler \in {"head", "recv", "drain", "ending", "sorry", "over"}
    /\ feeder \in {"none", "read", "send", "last", "over"}
    /\ thread \in {"none", "queued", "app", "recv", "put", "over"}
    /\ end \in {"none", "ok", "error", "pipe"} /\ next \in {"recv", "ending", "sorry", "over"}
    /\ gone \in BOOLEAN /\ sent \in BOOLEAN /\ chunked \in BOOLEAN
    /\ fcancel \in BOOLEAN /\ eof \in BOOLEAN /\ cut \in BOOLEAN
    /\ Len(body.q) <= BodyCapacity /\ Len(out.q) <= OutCapacity

Empty == [q |-> <<>>, shut |-> FALSE]

Init ==
    /\ gone = FALSE /\ left = Pieces /\ handler = "head" /\ next = "over"
    /\ sent = FALSE /\ active = 0 /\ chunked \in BOOLEAN /\ wire = <<>>
    /\ feeder = "none" /\ fcancel = FALSE /\ body = Empty /\ out = Empty
    /\ thread = "none" /\ todo = <<>> /\ starts = 0 /\ end = "none"
    /\ ahead = 0 /\ got = 0 /\ eof = FALSE /\ said = 0 /\ cut = FALSE

Leave == ~gone /\ gone' = TRUE /\ UNCHANGED <<loopvars, feedvars, body, out, appvars>>

Goto(where, then) == handler' = where /\ next' = then

-----------------------------------------------------------------------------
(* _handle_connection until the application starts *)

\* The head does not come, in time or at all, or is refused (400, 413, 431).
HeadFails ==
    /\ handler = "head"
    /\ \/ gone /\ Goto("over", "over") /\ UNCHANGED wire
       \/ Goto("sorry", "over") /\ wire' = Append(wire, "500")
       \/ Goto("sorry", "over") /\ wire' = Append(wire, "refused")
    /\ UNCHANGED <<gone, sent, active, chunked, feedvars, body, out, appvars>>

\* A chunked body is read at once; of another one, the feeder brings what did
\* not come along with the head.
HeadRead ==
    /\ handler = "head" /\ Goto("recv", "over")
    /\ thread' = "queued"
    /\ \E n \in 0..Pieces :
         /\ ahead' = n /\ left' = Pieces - n
         /\ feeder' = IF n < Pieces THEN "read" ELSE "none"
         /\ eof' = (n = Pieces)
    /\ UNCHANGED <<gone, sent, active, chunked, wire, fcancel, cut, body, out, todo, starts, end, got, said>>

-----------------------------------------------------------------------------
(* _feed_body *)

\* A piece, the end of the stream, a time-out, or a cancellation.
FeedRead ==
    /\ feeder = "read"
    /\ \/ left > 0 /\ feeder' = "send" /\ left' = left - 1 /\ UNCHANGED cut
       \/ left = 0 /\ feeder' = "last" /\ UNCHANGED <<left, cut>>
       \/ left > 0 /\ feeder' = "last" /\ cut' = TRUE /\ UNCHANGED left
    /\ UNCHANGED <<gone, loopvars, fcancel, body, out, appvars>>

FeedSend ==
    /\ feeder = "send"
    /\ \/ /\ ~body.shut /\ Len(body.q) < BodyCapacity
          /\ body' = [body EXCEPT !.q = Append(@, Pieces - left)]
          /\ feeder' = "read" /\ UNCHANGED cut
       \/ /\ body.shut \/ fcancel
          /\ feeder' = "last" /\ cut' = TRUE /\ UNCHANGED body
    /\ UNCHANGED <<gone, loopvars, left, fcancel, out, appvars>>

\* The finally block; a cancellation in its send() leaves the closing to others.
FeedEnd ==
    /\ feeder = "last" /\ feeder' = "over"
    /\ \/ ~body.shut /\ Len(body.q) < BodyCapacity
          /\ body' = [q |-> Append(body.q, 0), shut |-> TRUE]
       \/ body.shut /\ UNCHANGED body
       \/ fcancel /\ UNCHANGED body
    /\ UNCHANGED <<gone, loopvars, left, fcancel, cut, out, appvars>>

-----------------------------------------------------------------------------
(* _run_wsgi_sync, start_response and SyncStreamReader *)

Say(messages) == thread' = "put" /\ todo' = messages

Begin ==
    /\ thread = "queued" /\ thread' = "app"
    /\ UNCHANGED <<gone, loopvars, feedvars, body, out, todo, starts, end, ahead, got, eof, said>>

Read ==
    /\ thread = "app" /\ ~(eof /\ got >= ahead)
    /\ IF got < ahead THEN got' = got + 1 /\ UNCHANGED thread
       ELSE thread' = "recv" /\ UNCHANGED got
    /\ UNCHANGED <<gone, loopvars, feedvars, body, out, todo, starts, end, ahead, eof, said>>

\* recv_sync(): a piece, b"", or the end of a closed channel.
Received ==
    /\ thread = "recv" /\ (body.q # <<>> \/ body.shut)
    /\ thread' = "app"
    /\ IF body.q # <<>> /\ Head(body.q) # 0 THEN got' = got + 1 /\ UNCHANGED eof
       ELSE eof' = TRUE /\ UNCHANGED got
    /\ body' = IF body.q = <<>> THEN body ELSE [body EXCEPT !.q = Tail(@)]
    /\ UNCHANGED <<gone, loopvars, feedvars, out, todo, starts, end, ahead, said>>

\* Again only with exc_info and before headers were sent.
start_response ==
    /\ thread = "app"
    /\ \/ starts = 0
       \/ starts = 1 /\ ~sent /\ (said = 0 \/ "restart" \in Liberties)
    /\ starts' = starts + 1 /\ Say(<<"START">>)
    /\ UNCHANGED <<gone, loopvars, feedvars, body, out, end, ahead, got, eof, said>>

Yield ==
    /\ thread = "app" /\ starts > 0 /\ said < MaxData
    /\ \/ Say(<<"DATA">>)
       \/ "text" \in Liberties /\ Say(<<"TEXT">>)
    /\ said' = said + 1
    /\ UNCHANGED <<gone, loopvars, feedvars, body, out, starts, end, ahead, got, eof>>

\* The application returns, raises, or raises BrokenPipeError.
AppEnds ==
    /\ thread = "app"
    /\ \/ starts > 0 /\ end' = "ok" /\ Say(<<"END">>)
       \/ end' = "error" /\ Say(<<"ERROR", "END">>)
       \/ "pipe" \in Liberties /\ end' = "pipe" /\ Say(<<"END">>)
    /\ UNCHANGED <<gone, loopvars, feedvars, body, out, starts, ahead, got, eof, said>>

\* send_sync(): on a closed channel the application is made to end.
Put ==
    /\ thread = "put"
    /\ \/ /\ out.shut /\ thread' = "over" /\ todo' = <<>> /\ UNCHANGED out
       \/ /\ ~out.shut /\ Len(out.q) < OutCapacity
          /\ out' = [out EXCEPT !.q = Append(@, Head(todo))]
          /\ todo' = Tail(todo)
          /\ thread' = IF Len(todo) > 1 THEN "put" ELSE IF end = "none" THEN "app" ELSE "over"
    /\ UNCHANGED <<gone, loopvars, feedvars, body, starts, end, ahead, got, eof, said>>

-----------------------------------------------------------------------------
(* _handle_connection while and after the application runs *)

\* Mutant of Teardown: chunk_channel stays open.
TeardownHalf(ch) ==
    /\ body' = [body EXCEPT !.shut = TRUE]
    /\ fcancel' = (feeder \notin {"none", "over"})
    /\ out' = ch

\* The inner finally block, up to its wait; ch is chunk_channel as it is then.
Teardown(ch) ==
    /\ body' = [body EXCEPT !.shut = TRUE]
    /\ fcancel' = (feeder \notin {"none", "over"})
    /\ out' = [ch EXCEPT !.shut = TRUE]

\* Mutant of Answer: headers_sent is not looked at.
AnswerTwice(m) ==
    CASE m = "START" -> <<>>
      [] m = "TEXT"  -> <<"head">>
      [] m = "DATA"  -> <<"head", "data">>
      [] m = "ERROR" -> <<"500">>
      [] m = "END"   -> IF ~sent THEN <<"empty">> ELSE IF chunked THEN <<"last">> ELSE <<>>

\* What a message makes of the response: the first one of substance writes the
\* head, and the last piece of a chunked response is marked.
Answer(m) ==
    CASE m = "START" -> <<>>
      [] m = "TEXT"  -> IF sent THEN <<>> ELSE <<"head">>
      [] m = "DATA"  -> IF sent THEN <<"data">> ELSE <<"head", "data">>
      [] m = "ERROR" -> IF sent THEN <<>> ELSE <<"500">>
      [] m = "END"   -> IF ~sent THEN <<"empty">> ELSE IF chunked THEN <<"last">> ELSE <<>>

\* recv() brings a message.  The loop ends with END or ERROR, by the exception of
\* a write, or when the writer is closing.
Consume ==
    /\ handler = "recv" /\ out.q # <<>>
    /\ LET m == Head(out.q)
           rest == [out EXCEPT !.q = Tail(@)]
           last == m \in {"ERROR", "END"}
       IN  \/ /\ wire' = wire \o Answer(m)
              /\ sent' = (sent \/ m # "START")
              /\ active' = IF m = "START" /\ ~sent THEN active + 1 ELSE active
              /\ \/ m = "START" /\ out' = rest /\ UNCHANGED <<handler, next, body, fcancel>>
                 \/ /\ m = "DATA" \/ (last /\ Answer(m) # <<>>)
                    /\ Goto("drain", IF last THEN "ending" ELSE "recv")
                    /\ out' = rest /\ UNCHANGED <<body, fcancel>>
                 \/ last /\ Answer(m) = <<>> /\ Goto("ending", "over") /\ Teardown(rest)
                 \/ m = "TEXT" /\ Goto("ending", "sorry") /\ Teardown(rest)
           \/ /\ gone /\ Goto("ending", "over") /\ Teardown(rest)
              /\ UNCHANGED <<wire, sent, active>>
    /\ UNCHANGED <<gone, chunked, left, feeder, cut, appvars>>

\* The drain returns, or raises because the client is gone.
Drained ==
    /\ handler = "drain"
    /\ \/ next = "recv" /\ Goto("recv", "over") /\ UNCHANGED <<body, out, fcancel>>
       \/ (next = "ending" \/ gone) /\ Goto("ending", "over") /\ Teardown(out)
    /\ UNCHANGED <<gone, sent, active, chunked, wire, left, feeder, cut, appvars>>

\* The thread has ended, or two seconds have passed; a job that still waits for
\* a thread is then cancelled.
Ended ==
    /\ handler = "ending"
    /\ thread' = IF thread = "queued" THEN "over" ELSE thread
    /\ \/ next = "over" /\ Goto("over", "over") /\ UNCHANGED wire
       \/ next = "sorry" /\ Goto("sorry", "over") /\ wire' = Append(wire, "500")
    /\ UNCHANGED <<gone, sent, active, chunked, feedvars, body, out, todo, starts, end, ahead, got, eof, said>>

Sorry ==
    /\ handler = "sorry" /\ Goto("over", "over")
    /\ UNCHANGED <<gone, sent, active, chunked, wire, feedvars, body, out, appvars>>

\* The server cancels the handler.
Cancelled ==
    /\ \/ /\ handler \in {"head", "ending", "sorry"} /\ Goto("over", "over")
          /\ thread' = IF thread = "queued" THEN "over" ELSE thread
          /\ UNCHANGED <<body, out, fcancel>>
       \/ handler \in {"recv", "drain"} /\ Goto("ending", "over") /\ Teardown(out) /\ UNCHANGED thread
    /\ UNCHANGED <<gone, sent, active, chunked, wire, left, feeder, cut, todo, starts, end, ahead, got, eof, said>>

Feeds == FeedRead \/ FeedSend \/ FeedEnd
Thread == Begin \/ Read \/ Received \/ start_response \/ Yield \/ AppEnds \/ Put
Handles == HeadFails \/ HeadRead \/ Consume \/ Drained \/ Ended \/ Sorry

Next == Leave \/ Feeds \/ Thread \/ Handles \/ Cancelled

Spec == Init /\ [][Next]_vars

-----------------------------------------------------------------------------
(* Properties *)

Count(m) == Cardinality({i \in DOMAIN wire : wire[i] = m})

\* The pieces the application was given, at once or through the channel.
Given == IF got < ahead THEN ahead ELSE got

\* The application reads the pieces of the body in order, and is told that the
\* body is over before the last one only if the feeder or the handler gave up.
BodyHonest ==
    /\ \A i \in DOMAIN body.q : body.q[i] \in {Given + i, 0}
    /\ eof /\ got >= ahead /\ got < Pieces => cut \/ handler \in {"ending", "sorry", "over"}

\* A response has one head, whoever writes it.
HeadOnce == Count("head") + Count("500") + Count("empty") + Count("refused") <= 1

\* A response that looks complete is: the application came to its end, all it
\* yielded was written, and its head is the last one that was accepted.
CompleteHonest ==
    /\ Count("last") + Count("empty") > 0 => end = "ok" /\ Count("data") = said
    /\ sent /\ end = "ok" => active = starts

\* The handler, the feeder and the thread all come to their ends.
AllEnd == <>(handler = "over" /\ feeder \in {"none", "over"} /\ thread \in {"none", "over"})
=============================================================================
