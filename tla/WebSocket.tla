----------------------------- MODULE WebSocket -----------------------------
(***************************************************************************)
(* The WebSocketConnection of _websocket.py: the application, which calls  *)
(* receive() and send() as ASGI allows, the reader task that turns frames  *)
(* of the peer into messages, and run(), which ends both.  All three live  *)
(* on the home loop; the code between two awaits is one step.  A frame is  *)
(* its kind: decoding is left out.                                         *)
(***************************************************************************)
EXTENDS Naturals, Sequences, FiniteSets

CONSTANTS
    Kinds,        \* what the peer may send
    Capacity,     \* maxsize of the inbound channel, 256 in the code
    MaxFrames,    \* bound: frames of the peer that do not end the connection
    MaxTexts      \* bound: messages the application sends

AllKinds == {"text", "garbled", "first", "more", "last", "garbledlast", "toobig", "ping",
             "close", "bad", "eof", "reset"}
Ending == {"close", "reset"}

\* What the constants are.
SocketParams ==
    /\ Kinds \subseteq AllKinds
    /\ Capacity \in Nat \ {0} /\ MaxFrames \in Nat /\ MaxTexts \in Nat

VARIABLES
    state,
    handshake_done, closed_event, connect_sent,
    inbox,       \* the inbound channel: numbered messages, 0 is a disconnect
    app,         \* "running", in receive() ("receiving"), in send(): before
                 \* ("text", "close") or in the drain ("accepting", "refusing",
                 \* "texting", "closing"), or "over" together with run()
    called,      \* "accept" and "close", once the application has sent them
    reader,      \* "shake", "read", "act" (todo), "drain" or "over"
    todo,        \* what the reader does about the frame it has read
    fragmented,
    lock,        \* who holds _send_lock
    wire,        \* what was written to the peer
    gone,        \* the writer was closed
    said, heard, told,    \* messages the peer completed, the application got;
                          \* it got a disconnect
    frames, texts

vars == <<state, handshake_done, closed_event, connect_sent, inbox, app, called, reader,
          todo, fragmented, lock, wire, gone, said, heard, told, frames, texts>>
appvars == <<connect_sent, app, called, heard, told, texts>>
readvars == <<reader, todo, fragmented, said, frames>>
flags == <<state, handshake_done, closed_event>>

TypeOK ==
    /\ state \in {"CONNECTING", "OPEN", "CLOSING", "CLOSED"}
    /\ handshake_done \in BOOLEAN /\ closed_event \in BOOLEAN /\ connect_sent \in BOOLEAN
    /\ fragmented \in BOOLEAN /\ gone \in BOOLEAN /\ told \in BOOLEAN
    /\ inbox \in Seq(Nat) /\ Len(inbox) <= Capacity
    /\ app \in {"running", "receiving", "accepting", "refusing", "text", "texting", "close",
                "closing", "over"}
    /\ called \subseteq {"accept", "close"}
    /\ reader \in {"shake", "read", "act", "drain", "over"}
    /\ todo \in Seq({"close", "pong", "receive", "disconnect", "stop"})
    /\ lock \in {"free", "app", "reader"}
    /\ wire \in Seq({"101", "403", "text", "close", "pong"})
    /\ said \in Nat /\ heard \in Nat
    /\ frames \in 0..MaxFrames /\ texts \in 0..MaxTexts

Init ==
    /\ state = "CONNECTING"
    /\ handshake_done = FALSE /\ closed_event = FALSE /\ connect_sent = FALSE
    /\ inbox = <<>> /\ app = "running" /\ called = {}
    /\ reader = "shake" /\ todo = <<>> /\ fragmented = FALSE
    /\ lock = "free" /\ wire = <<>> /\ gone = FALSE
    /\ said = 0 /\ heard = 0 /\ told = FALSE /\ frames = 0 /\ texts = 0

-----------------------------------------------------------------------------
(* receive *)

ReceiveConnect ==
    /\ app = "running" /\ ~connect_sent
    /\ connect_sent' = TRUE
    /\ UNCHANGED <<flags, inbox, app, called, readvars, lock, wire, gone, heard, told, texts>>

\* A closed connection with nothing left answers at once; otherwise wait.
Receive ==
    /\ app = "running" /\ connect_sent /\ (handshake_done \/ closed_event)
    /\ \/ /\ closed_event /\ inbox = <<>>
          /\ told' = TRUE /\ UNCHANGED app
       \/ /\ ~(closed_event /\ inbox = <<>>)
          /\ app' = "receiving" /\ UNCHANGED told
    /\ UNCHANGED <<flags, connect_sent, inbox, called, readvars, lock, wire, gone, heard,
                   texts>>

Received ==
    /\ app = "receiving" /\ inbox # <<>>
    /\ app' = "running" /\ inbox' = Tail(inbox)
    /\ IF Head(inbox) = 0 THEN told' = TRUE /\ UNCHANGED heard
                          ELSE heard' = Head(inbox) /\ UNCHANGED told
    /\ UNCHANGED <<flags, connect_sent, called, readvars, lock, wire, gone, texts>>

-----------------------------------------------------------------------------
(* send *)

\* websocket.accept: the 101 response, then the drain.
SendAccept ==
    /\ app = "running" /\ called = {}
    /\ called' = {"accept"} /\ app' = "accepting"
    /\ wire' = Append(wire, "101")
    /\ UNCHANGED <<flags, connect_sent, inbox, readvars, lock, gone, heard, told, texts>>

\* A drain that raises is left to the application, which ends.
Accepted ==
    /\ app = "accepting" /\ app' = "running"
    /\ state' = "OPEN" /\ handshake_done' = TRUE
    /\ UNCHANGED <<closed_event, connect_sent, inbox, called, readvars, lock, wire, gone,
                   heard, told, texts>>

\* websocket.close before the handshake: the 403 response, then the drain.
Refuse ==
    /\ app = "running" /\ "close" \notin called /\ ~handshake_done
    /\ called' = called \cup {"close"} /\ app' = "refusing"
    /\ state' = "CLOSED" /\ closed_event' = TRUE
    /\ wire' = Append(wire, "403")
    /\ UNCHANGED <<handshake_done, connect_sent, inbox, readvars, lock, gone, heard, told,
                   texts>>

\* websocket.send and, after the handshake, websocket.close.
SendFrame ==
    /\ app = "running" /\ handshake_done /\ "close" \notin called
    /\ \/ /\ texts < MaxTexts /\ texts' = texts + 1
          /\ app' = "text" /\ UNCHANGED <<called, state>>
       \/ /\ called' = called \cup {"close"}
          /\ app' = "close" /\ state' = "CLOSING" /\ UNCHANGED texts
    /\ UNCHANGED <<handshake_done, closed_event, connect_sent, inbox, readvars, lock, wire,
                   gone, heard, told>>

\* _send_frame takes the lock and writes.
AppWrites ==
    /\ app \in {"text", "close"} /\ lock = "free"
    /\ lock' = "app" /\ wire' = Append(wire, app)
    /\ app' = IF app = "text" THEN "texting" ELSE "closing"
    /\ UNCHANGED <<flags, connect_sent, inbox, called, readvars, gone, heard, told, texts>>

\* The drain ends, well or not.
AppDrained ==
    /\ app \in {"refusing", "texting", "closing"} /\ app' = "running"
    /\ lock' = IF app = "refusing" THEN lock ELSE "free"
    /\ gone' = (gone \/ app # "texting")
    /\ state' = IF app = "closing" THEN "CLOSED" ELSE state
    /\ closed_event' = (closed_event \/ app = "closing")
    /\ UNCHANGED <<handshake_done, connect_sent, inbox, called, readvars, wire, heard, told,
                   texts>>

\* The application returns or raises, or run() is cancelled; the reader is
\* cancelled at its await and waited for.
End ==
    /\ app # "over" /\ app' = "over"
    /\ state' = "CLOSED" /\ closed_event' = TRUE
    /\ reader' = "over" /\ todo' = <<>> /\ lock' = "free"
    /\ UNCHANGED <<handshake_done, connect_sent, inbox, called, fragmented, said, frames,
                   wire, gone, heard, told, texts>>

-----------------------------------------------------------------------------
(* _reader_loop *)

ReaderBegin ==
    /\ reader = "shake" /\ handshake_done
    /\ reader' = IF closed_event THEN "over" ELSE "read"
    /\ UNCHANGED <<flags, inbox, appvars, todo, fragmented, said, frames, lock, wire, gone>>

Error == <<"close", "stop">>
Fatal == <<"close", "disconnect">>

\* What the reader does about a frame.
Script(kind) ==
    CASE kind = "text" -> IF fragmented THEN Error ELSE <<"receive">>
      [] kind = "garbled" -> IF fragmented THEN Error ELSE Fatal
      [] kind = "first" -> IF fragmented THEN Error ELSE <<>>
      [] kind = "more" -> IF fragmented THEN <<>> ELSE Error
      [] kind = "last" -> IF fragmented THEN <<"receive">> ELSE Error
      [] kind \in {"garbledlast", "toobig"} -> IF fragmented THEN Fatal ELSE Error
      [] kind = "ping" -> <<"pong">>
      [] kind = "close" -> IF state = "CLOSING" THEN <<"disconnect">> ELSE Fatal
      [] kind = "bad" -> Error
      [] kind = "eof" -> <<"stop">>
      [] kind = "reset" -> <<"disconnect">>

\* The loop goes on with ops, or with the next frame unless it was closed.
GoOn(ops) ==
    /\ todo' = ops
    /\ reader' = IF ops # <<>> THEN "act" ELSE IF closed_event THEN "over" ELSE "read"

\* A frame, or the end of the stream, is read and examined.
Read(kind) ==
    /\ reader = "read"
    /\ frames' = IF kind \in Ending THEN frames ELSE frames + 1
    /\ frames' <= MaxFrames
    /\ GoOn(Script(kind))
    /\ fragmented' = CASE kind = "first" -> TRUE
                       [] kind \in {"last", "garbledlast"} -> FALSE
                       [] kind \notin {"first", "last", "garbledlast"} -> fragmented
    /\ said' = IF Script(kind) = <<"receive">> THEN said + 1 ELSE said
    /\ state' = IF kind = "close" THEN "CLOSING" ELSE state
    /\ UNCHANGED <<handshake_done, closed_event, inbox, appvars, lock, wire, gone>>

\* _send_frame; a closed writer drops what it is given.
ReaderWrites ==
    /\ reader = "act" /\ Head(todo) \in {"close", "pong"} /\ lock = "free"
    /\ lock' = "reader"
    /\ wire' = IF gone THEN wire ELSE Append(wire, Head(todo))
    /\ reader' = "drain"
    /\ UNCHANGED <<flags, inbox, appvars, todo, fragmented, said, frames, gone>>

ReaderDrained ==
    /\ reader = "drain"
    /\ lock' = "free"
    /\ GoOn(Tail(todo))
    /\ UNCHANGED <<flags, inbox, appvars, fragmented, said, frames, wire, gone>>

\* Mutant of Deliver: a full channel drops the message.
DeliverOver ==
    /\ reader = "act" /\ Head(todo) = "receive"
    /\ inbox' = IF Len(inbox) < Capacity THEN Append(inbox, said) ELSE inbox
    /\ GoOn(Tail(todo))
    /\ UNCHANGED <<flags, appvars, fragmented, said, frames, lock, wire, gone>>

\* A message goes into the inbound channel, when there is room.
Deliver ==
    /\ reader = "act" /\ Head(todo) = "receive" /\ Len(inbox) < Capacity
    /\ inbox' = Append(inbox, said)
    /\ GoOn(Tail(todo))
    /\ UNCHANGED <<flags, appvars, fragmented, said, frames, lock, wire, gone>>

\* The reader ends, with or without a disconnect.
ReaderEnds ==
    /\ reader = "act" /\ reader' = "over" /\ todo' = <<>>
    /\ \/ Head(todo) = "stop" /\ UNCHANGED <<flags, inbox>>
       \/ /\ Head(todo) = "disconnect" /\ Len(inbox) < Capacity
          /\ inbox' = Append(inbox, 0)
          /\ state' = "CLOSED" /\ closed_event' = TRUE /\ UNCHANGED handshake_done
    /\ UNCHANGED <<appvars, fragmented, said, frames, lock, wire, gone>>

Next ==
    \/ ReceiveConnect \/ Receive \/ Received
    \/ SendAccept \/ Accepted \/ Refuse \/ SendFrame \/ AppWrites \/ AppDrained \/ End
    \/ ReaderBegin \/ ReaderWrites \/ ReaderDrained \/ Deliver \/ ReaderEnds
    \/ \E kind \in Kinds : Read(kind)

Spec == Init /\ [][Next]_vars

\* The loop runs what is ready, drains end, and the peer closes or resets the
\* connection in the end.
Fairness ==
    /\ WF_vars(Received) /\ WF_vars(AppWrites) /\ WF_vars(AppDrained)
    /\ WF_vars(ReaderBegin) /\ WF_vars(ReaderWrites) /\ WF_vars(ReaderDrained)
    /\ WF_vars(Deliver) /\ WF_vars(ReaderEnds)
    /\ WF_vars(\E kind \in Ending : Read(kind))

-----------------------------------------------------------------------------
(* Properties *)

\* Nothing is written before the answer to the handshake, and nothing after a
\* refusal.
HandshakeFirst ==
    wire # <<>> => \/ wire = <<"403">>
                   \/ wire[1] = "101" /\ \A i \in 2..Len(wire) : wire[i] \notin {"101", "403"}

\* The application gets the peer's messages in order and without a gap, a
\* disconnect after all of them, and nothing after that.
MessagesInOrder ==
    /\ \A i \in DOMAIN inbox : inbox[i] = 0 \/ inbox[i] = heard + i
    /\ \A i \in DOMAIN inbox : inbox[i] = 0 => i = Len(inbox)
    /\ told /\ "close" \notin called => heard = said /\ inbox = <<>>

\* An application that waits for a message gets one, a disconnect at the last.
ReceiveReturns == app = "receiving" ~> app # "receiving"

\* At most one close frame, and no message after it.  Fails, see the README.
CloseIsLast == \A i \in DOMAIN wire : wire[i] = "close" => \A j \in DOMAIN wire : j > i => wire[j] = "pong"
=============================================================================
