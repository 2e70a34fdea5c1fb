----------------------------- MODULE WebProofs -----------------------------
(***************************************************************************)
(* Proofs about what runs behind the accept loops: the supervisor for any  *)
(* number of modifications and crashes; the admission of WSGI connections  *)
(* for any number of them, any loops and any limit, and an exchange for    *)
(* any body and any channels; and an HTTP/1.1 connection for any number    *)
(* and kinds of pipelined requests and any habits of the application.      *)
(***************************************************************************)
EXTENDS MCWeb, QueueLemmas

-----------------------------------------------------------------------------
(* The supervisor *)

SupScenes == {"watched", "overtaken"}

\* Beside ChildOwned: a child that is being replaced or ended has been started,
\* and the supervisor ends it for good only after a signal.
SupInv(s) ==
    /\ Sup(s)!TypeOK /\ Sup(s)!ChildOwned
    /\ sup = "ending" => stop
    /\ stop \in BOOLEAN /\ reload \in BOOLEAN

\* A new supervisor has no child.
LEMMA SupInit == ASSUME NEW s \in SupScenes, Sup(s)!Init PROVE SupInv(s)
<1>1. Edits \in Nat /\ Deaths \in Nat
  BY WebAssumptions DEF Sup!SupervisorParams, SupScenes
<1>2. stop \in BOOLEAN /\ reload \in BOOLEAN
  BY DEF Sup!Init
<1>3. Sup(s)!TypeOK
  BY <1>1 DEF Sup!Init, Sup!TypeOK, Sup!Versions
<1> QED BY <1>2, <1>3 DEF Sup!Init, SupInv, Sup!ChildOwned, Sup!Alive

\* Every step of the supervisor, its watcher and its child keeps the invariant.
LEMMA SupNext == ASSUME NEW s \in SupScenes, SupInv(s), Sup(s)!Next PROVE SupInv(s)'
<1>1. Edits \in Nat /\ Deaths \in Nat
  BY WebAssumptions DEF Sup!SupervisorParams, SupScenes
<1> USE <1>1 DEF SupInv, Sup!TypeOK, Sup!ChildOwned, Sup!Versions, Sup!Alive,
                 Sup!childvars, Sup!watchvars, Sup!Goto
<1>2. CASE Sup(s)!Edit
  BY <1>2 DEF Sup!Edit
<1>3. CASE Sup(s)!Signal
  BY <1>3 DEF Sup!Signal
<1>4. CASE Sup(s)!Watches
  BY <1>4 DEF Sup!Watches, Sup!FirstScan, Sup!Poll, Sup!Debounce
<1>5. CASE Sup(s)!Imports
  BY <1>5 DEF Sup!Imports
<1>6. CASE Sup(s)!Crashes
  BY <1>6 DEF Sup!Crashes
<1>7. CASE Sup(s)!Top
  BY <1>7 DEF Sup!Top
<1>8. CASE Sup(s)!Spawn
  BY <1>8 DEF Sup!Spawn
<1>9. CASE Sup(s)!Wait
  BY <1>9 DEF Sup!Wait
<1>10. CASE Sup(s)!Crashed
  BY <1>10 DEF Sup!Crashed
<1>11. CASE Sup(s)!Decide
  BY <1>11 DEF Sup!Decide
<1>12. CASE Sup(s)!Reap
  BY <1>12 DEF Sup!Reap
<1> QED BY <1>2, <1>3, <1>4, <1>5, <1>6, <1>7, <1>8, <1>9, <1>10, <1>11, <1>12
        DEF Sup!Next, Sup!Supervises

\* For any number of modifications, crashes and signals, whenever they come and
\* whether or not the watcher's first scan is late: a child is started only when
\* the last one is dead, the supervisor leaves none behind, and ends only after a
\* signal.
THEOREM SupervisorTheorem == MSpec => []SupervisorSound
<1> DEFINE I == \A s \in SupScenes : scene = s => SupInv(s)
<1>1. MInit => I
  <2>1. MInit => \A s \in SupScenes : Sup(s)!Init
    BY DEF MInit, Sup!Init, SupScenes
  <2> QED BY <2>1, SupInit
<1>2. I /\ [MNext]_mvars => I'
  <2> SUFFICES ASSUME I, [MNext]_mvars, NEW s \in SupScenes, scene' = s PROVE SupInv(s)'
    OBVIOUS
  <2>1. CASE UNCHANGED <<scene, supervars>>
    <3>1. SupInv(s)
      BY <2>1
    <3> QED BY <2>1, <3>1 DEF supervars, SupInv, Sup!TypeOK, Sup!ChildOwned, Sup!Alive, Sup!Versions
  <2>2. CASE WatchedRuns \/ OvertakenRuns
    <3>1. SupInv(s) /\ Sup(s)!Next
      BY <2>2 DEF WatchedRuns, OvertakenRuns, SuperRest
    <3> QED BY <3>1, SupNext
  <2> QED BY <2>1, <2>2 DEF MNext, mvars, AttentiveRuns, CarelessRuns, ApartRuns, CrowdedRuns,
                 StrictRuns, LiberalRuns, HttpRest, AdmitRest, WsgiRest
<1>3. I => SupervisorSound
  BY DEF SupScenes, SupInv, SupervisorSound
<1> QED BY <1>1, <1>2, <1>3, PTL DEF MSpec

-----------------------------------------------------------------------------
(* The admission of WSGI connections *)

AdmScenes == {"apart", "crowded"}

\* Whoever holds the lock across an await is refusing, and nobody else is.
AdmInv(s) ==
    /\ Adm(s)!TypeOK /\ Adm(s)!CountExact
    /\ \A c \in Connections : aPc[c] = "refusing" <=> aLock = c

\* The admission counts with the same cardinality.
LEMMA AdmCounts ==
    ASSUME NEW s, NEW S
    PROVE  /\ Adm(s)!Cardinality(S) = Cardinality(S)
           /\ Adm(s)!IsFiniteSet(S) <=> IsFiniteSet(S)
BY DEF Adm!Cardinality, Cardinality, Adm!IsFiniteSet, IsFiniteSet

\* What the constants are, and what an exact count is.
LEMMA AdmExact ==
    ASSUME NEW s \in AdmScenes
    PROVE  /\ IsFiniteSet(Connections) /\ 0 \notin Connections /\ Limits[s] \in Nat
           /\ Adm(s)!CountExact <=>
                /\ count = Cardinality({c \in Connections : aPc[c] \in {"serving", "leaving"}})
                /\ count <= Limits[s]
<1>1. Adm(s)!AdmissionParams
  BY WebAssumptions DEF AdmScenes
<1>2. IsFiniteSet(Connections)
  BY <1>1, AdmCounts DEF Adm!AdmissionParams
<1>3. 0 \notin Connections /\ Limits[s] \in Nat
  BY <1>1 DEF Adm!AdmissionParams, Adm!Nobody
<1>4. Adm(s)!Cardinality({c \in Connections : aPc[c] \in {"serving", "leaving"}})
        = Cardinality({c \in Connections : aPc[c] \in {"serving", "leaving"}})
  BY AdmCounts
<1> QED BY <1>2, <1>3, <1>4 DEF Adm!CountExact

\* No connection has come yet.
LEMMA AdmInit == ASSUME NEW s \in AdmScenes, Adm(s)!Init PROVE AdmInv(s)
<1>1. IsFiniteSet(Connections) /\ 0 \notin Connections /\ Limits[s] \in Nat
  BY AdmExact
<1>2. {c \in Connections : aPc[c] \in {"serving", "leaving"}} = {}
  BY DEF Adm!Init
<1>3. Cardinality({c \in Connections : aPc[c] \in {"serving", "leaving"}}) = 0
  BY <1>2, FS_EmptySet
<1>4. Adm(s)!CountExact
  BY <1>1, <1>3, AdmExact DEF Adm!Init
<1> QED BY <1>1, <1>4 DEF Adm!Init, AdmInv, Adm!TypeOK, Adm!Nobody

\* Every step of a connection keeps the count exact.
LEMMA AdmNext == ASSUME NEW s \in AdmScenes, AdmInv(s), Adm(s)!Next PROVE AdmInv(s)'
<1>1. IsFiniteSet(Connections) /\ 0 \notin Connections /\ Limits[s] \in Nat
  BY AdmExact
<1> DEFINE A == {c \in Connections : aPc[c] \in {"serving", "leaving"}}
<1>2. IsFiniteSet(A) /\ count = Cardinality(A) /\ count <= Limits[s] /\ count \in Nat
  BY <1>1, AdmExact, FS_Subset DEF AdmInv, Adm!TypeOK
<1>0. ASSUME Cardinality(A') = count', count' <= Limits[s] PROVE Adm(s)!CountExact'
  <2>1. Adm(s)!Cardinality(A') = Cardinality(A')
    BY AdmCounts
  <2> QED BY <1>0, <2>1 DEF Adm!CountExact
<1>3. PICK c \in Connections : Adm(s)!Enter(c) \/ Adm(s)!Refused(c) \/ Adm(s)!Leave(c)
  BY DEF Adm!Next
<1>4. ASSUME A' = A, count' = count,
             NEW w \in {"entering", "refusing", "leaving", "over"}, aPc' = [aPc EXCEPT ![c] = w],
             \/ aLock' = aLock /\ w # "refusing" /\ aLock # c
             \/ aLock' = c /\ w = "refusing" /\ aLock = 0
             \/ aLock' = 0 /\ w # "refusing" /\ aLock = c
      PROVE  AdmInv(s)'
  <2>1. Adm(s)!TypeOK'
    BY <1>1, <1>4 DEF AdmInv, Adm!TypeOK, Adm!Nobody
  <2>2. Adm(s)!CountExact'
    BY <1>2, <1>4, <1>0
  <2>3. \A d \in Connections : aPc'[d] = "refusing" <=> aLock' = d
    BY <1>1, <1>4 DEF AdmInv, Adm!TypeOK
  <2> QED BY <2>1, <2>2, <2>3 DEF AdmInv
<1>5. CASE Adm(s)!Enter(c)
  <2>1. aPc[c] \in {"new", "entering"} /\ c \notin A /\ aLock # c
    BY <1>5 DEF Adm!Enter, AdmInv
  <2>2. CASE aLock = 0 /\ count < Limits[s]
    <3>1. aPc' = [aPc EXCEPT ![c] = "serving"] /\ count' = count + 1 /\ aLock' = aLock
      BY <1>5, <2>2, <1>1, <1>2 DEF Adm!Enter, Adm!Goto, Adm!Nobody
    <3>2. A' = A \cup {c}
      BY <2>1, <3>1 DEF AdmInv, Adm!TypeOK
    <3>3. Cardinality(A') = count + 1
      BY <1>2, <2>1, <3>2, CountAdd
    <3>4. Adm(s)!TypeOK' /\ Adm(s)!CountExact'
      BY <1>0, <1>1, <1>2, <2>2, <3>1, <3>3 DEF AdmInv, Adm!TypeOK
    <3>5. \A d \in Connections : aPc'[d] = "refusing" <=> aLock' = d
      BY <2>1, <3>1 DEF AdmInv, Adm!TypeOK
    <3> QED BY <3>4, <3>5 DEF AdmInv
  <2>3. CASE aLock = 0 /\ count >= Limits[s]
    <3>1. aPc' = [aPc EXCEPT ![c] = "refusing"] /\ count' = count /\ aLock' = c
      BY <1>5, <2>3, <1>1, <1>2 DEF Adm!Enter, Adm!Goto, Adm!Nobody
    <3>2. A' = A
      BY <2>1, <3>1 DEF AdmInv, Adm!TypeOK
    <3> QED BY <1>4, <2>3, <3>1, <3>2
  <2>4. CASE aLock # 0
    <3>1. aPc' = [aPc EXCEPT ![c] = "entering"] /\ count' = count /\ aLock' = aLock
      BY <1>5, <2>4 DEF Adm!Enter, Adm!Goto, Adm!Nobody
    <3>2. A' = A
      BY <2>1, <3>1 DEF AdmInv, Adm!TypeOK
    <3> QED BY <1>4, <2>1, <3>1, <3>2
  <2> QED BY <2>2, <2>3, <2>4, <1>1, <1>2
<1>6. CASE Adm(s)!Refused(c)
  <2>1. /\ aPc[c] = "refusing" /\ c \notin A /\ aLock = c
        /\ aPc' = [aPc EXCEPT ![c] = "over"] /\ count' = count /\ aLock' = 0
    BY <1>6 DEF Adm!Refused, Adm!Goto, AdmInv, Adm!Nobody
  <2>2. A' = A
    BY <2>1 DEF AdmInv, Adm!TypeOK
  <2> QED BY <1>4, <2>1, <2>2
<1>7. CASE Adm(s)!Leave(c)
  <2>1. aPc[c] \in {"serving", "leaving"} /\ c \in A /\ aLock # c /\ aLock' = aLock
    BY <1>7 DEF Adm!Leave, AdmInv
  <2>2. CASE aLock = 0
    <3>1. aPc' = [aPc EXCEPT ![c] = "over"] /\ count' = IF count = 0 THEN 0 ELSE count - 1
      BY <1>7, <2>2 DEF Adm!Leave, Adm!Goto, Adm!Nobody
    <3>2. A' = A \ {c}
      BY <2>1, <3>1 DEF AdmInv, Adm!TypeOK
    <3>3. Cardinality(A') = count - 1 /\ count # 0
      BY <1>2, <2>1, <3>2, CountRemove
    <3>4. Adm(s)!TypeOK' /\ Adm(s)!CountExact'
      BY <1>0, <1>1, <1>2, <2>1, <2>2, <3>1, <3>3 DEF AdmInv, Adm!TypeOK
    <3>5. \A d \in Connections : aPc'[d] = "refusing" <=> aLock' = d
      BY <2>1, <3>1 DEF AdmInv, Adm!TypeOK
    <3> QED BY <3>4, <3>5 DEF AdmInv
  <2>3. CASE aLock # 0
    <3>1. aPc' = [aPc EXCEPT ![c] = "leaving"] /\ count' = count
      BY <1>7, <2>3 DEF Adm!Leave, Adm!Goto, Adm!Nobody
    <3>2. A' = A
      BY <2>1, <3>1 DEF AdmInv, Adm!TypeOK
    <3> QED BY <1>4, <2>1, <3>1, <3>2
  <2> QED BY <2>2, <2>3
<1> QED BY <1>3, <1>5, <1>6, <1>7

\* Where no two connections share a loop, whoever holds the lock can go on.
LEMMA HolderGoesOn == ASSUME AdmInv("apart") PROVE Adm("apart")!HolderRuns
<1>1. \A c, d \in Connections : Homes["apart"][c] = Homes["apart"][d] => c = d
  BY WebAssumptions
<1> QED BY <1>1 DEF AdmInv, Adm!TypeOK, Adm!HolderRuns, Adm!Runs, Adm!Blocked, Adm!Nobody

-----------------------------------------------------------------------------
(* The exchange of one request *)

\* The scenes of the exchange, and every message that a thread may put.
XchScenes == {"strict", "liberal"}
AllMsgs == {"START", "TEXT", "DATA", "ERROR", "END"}

\* The handler has given the exchange up, or is done with it.
Torn == handler \in {"ending", "sorry", "over"}

\* What is in the body channel continues what the application was given, up to a
\* b"" that only the feeder's end puts there, and what the feeder has done agrees
\* with it.
Feeding(s) ==
    LET q == body.q
        given == Xch(s)!Given
    IN  /\ \A i \in DOMAIN q :
             \/ q[i] = given + i
             \/ q[i] = 0 /\ i = Len(q) /\ feeder = "over" /\ (xCut \/ given + i = BodyPieces[s] + 1)
        /\ feeder = "none" => q = <<>>
        /\ feeder = "read" => given + Len(q) + left = BodyPieces[s]
        /\ feeder = "send" => given + Len(q) + left + 1 = BodyPieces[s]
        /\ feeder = "last" => xCut \/ given + Len(q) = BodyPieces[s]
        /\ feeder = "over" /\ body.shut => Torn \/ eof \/ (q # <<>> /\ q[Len(q)] = 0)

\* Who may find the channels closed or the body at its end, and in which states.
FeedInv(s) ==
    /\ Xch(s)!TypeOK
    /\ got \in Nat /\ ahead \in Nat /\ left \in Nat
    /\ body \in [q : Seq(Nat), shut : BOOLEAN] /\ out \in [q : Seq(AllMsgs), shut : BOOLEAN]
    /\ xTodo \in Seq(AllMsgs) /\ (thread = "put" => xTodo # <<>>)
    /\ Feeding(s)
    /\ handler = "head" => thread = "none" /\ feeder = "none" /\ got = 0
    /\ thread = "recv" => ~eof /\ got >= ahead
    /\ body.shut => feeder = "over" \/ Torn
    /\ fcancel => Torn
    /\ eof /\ Xch(s)!Given < BodyPieces[s] => xCut \/ Torn

-----------------------------------------------------------------------------
(* The response of an application that keeps to PEP 3333 *)

\* How many of q are m; the messages, the words and the heads of a response to an
\* application that keeps to PEP 3333.
Tally(q, m) == Cardinality({i \in DOMAIN q : q[i] = m})
Msgs == {"START", "DATA", "ERROR", "END"}
Words == {"head", "data", "500", "empty", "last", "refused"}
Heads == Tally(xWire, "head") + Tally(xWire, "500") + Tally(xWire, "empty") + Tally(xWire, "refused")

\* The handler will go on to take messages.
Open == handler = "recv" \/ (handler = "drain" /\ next = "recv")

\* The thread has one call's messages to send, and none elsewhere.
Sending ==
    \/ thread # "put" /\ xTodo = <<>> /\ (end = "none" \/ thread = "over")
    \/ thread = "put" /\ xTodo \in {<<"START">>, <<"DATA">>} /\ end = "none"
    \/ thread = "put" /\ xTodo = <<"END">> /\ end \in {"ok", "error"}
    \/ thread = "put" /\ xTodo = <<"ERROR", "END">> /\ end = "error"

\* The messages under way: END is the last one, an ERROR comes before it if there
\* is one, and no START comes behind anything else.
UnderWay ==
    LET q == out.q
        n == Len(out.q)
    IN  /\ \A i \in 1..n : q[i] = "END" => i = n /\ thread = "over"
        /\ \A i \in 1..n : (q[i] = "END" => end # "none") /\ (q[i] = "ERROR" => end = "error")
        /\ Open /\ end = "error" =>
             /\ \A i \in 1..n : q[i] = "END" => i > 1 /\ q[i - 1] = "ERROR"
             /\ xTodo = <<"END">> => n > 0 /\ q[n] = "ERROR"
        /\ Open => \A i, j \in 1..n : i < j /\ q[j] = "START" => q[i] = "START"
        /\ Open /\ xTodo = <<"START">> => \A i \in 1..n : q[i] = "START"

\* What was written, and what of the application's calls it stands for.
Written ==
    /\ Heads <= 1
    /\ handler = "head" => xWire = <<>> /\ ~sent /\ thread = "none"
    /\ Open => Heads = (IF sent THEN 1 ELSE 0)
    /\ Open => Tally(xWire, "data") + Tally(out.q, "DATA") + Tally(xTodo, "DATA") = xSaid
    /\ Open /\ ~sent => active + Tally(out.q, "START") + Tally(xTodo, "START") = starts
    /\ sent /\ end \in {"none", "ok"} => active = starts /\ starts > 0
    /\ starts = 0 => xSaid = 0 /\ end # "ok"
    /\ Tally(xWire, "last") + Tally(xWire, "empty") > 0 =>
         /\ end = "ok" /\ Tally(xWire, "data") = xSaid
         /\ thread = "over" /\ handler # "head" /\ ~Open

\* The response, with the types of what it is made of.
AnswerInv ==
    /\ xWire \in Seq(Words) /\ out.q \in Seq(Msgs) /\ xTodo \in Seq(Msgs)
    /\ active \in Nat /\ starts \in Nat /\ xSaid \in Nat
    /\ end # "pipe" /\ next # "sorry"
    /\ (handler = "head" => out.q = <<>> /\ xSaid = 0 /\ starts = 0 /\ active = 0)
    /\ (out.shut => Torn)
    /\ Sending /\ UnderWay /\ Written

\* A channel with another queue, or closed.
LEMMA Rechannelled ==
    ASSUME NEW S, NEW c \in [q : Seq(S), shut : BOOLEAN], NEW x \in Seq(S)
    PROVE  /\ [c EXCEPT !.q = x] \in [q : Seq(S), shut : BOOLEAN]
           /\ [c EXCEPT !.q = x].q = x /\ [c EXCEPT !.q = x].shut = c.shut
           /\ [c EXCEPT !.shut = TRUE] \in [q : Seq(S), shut : BOOLEAN]
           /\ [c EXCEPT !.shut = TRUE].q = c.q /\ [c EXCEPT !.shut = TRUE].shut = TRUE
OBVIOUS

\* What the constants are.
LEMMA XchConstants ==
    ASSUME NEW s \in XchScenes
    PROVE  /\ BodyPieces[s] \in Nat /\ DataMax \in Nat
           /\ BodyMax \in Nat \ {0} /\ OutMax \in Nat \ {0}
BY WebAssumptions DEF XchScenes, Xch!ExchangeParams

\* The channels and the counters keep their types, and the channels their capacity.
LEMMA XchShapes ==
    ASSUME NEW s \in XchScenes, FeedInv(s), Xch(s)!Next
    PROVE  /\ got' \in Nat /\ ahead' \in Nat /\ left' \in Nat
           /\ body' \in [q : Seq(Nat), shut : BOOLEAN] /\ out' \in [q : Seq(AllMsgs), shut : BOOLEAN]
           /\ Len(body'.q) <= BodyMax /\ Len(out'.q) <= OutMax
           /\ xTodo' \in Seq(AllMsgs) /\ (thread' = "put" => xTodo' # <<>>)
<1> USE DEF Xch!loopvars, Xch!feedvars, Xch!appvars
<1>1. CASE Xch(s)!Leave
  BY <1>1 DEF FeedInv, Xch!TypeOK, Xch!Leave
<1>2. CASE Xch(s)!FeedRead
  BY <1>2 DEF FeedInv, Xch!TypeOK, Xch!FeedRead
<1>3. CASE Xch(s)!FeedSend
  <2>1. body' \in [q : Seq(Nat), shut : BOOLEAN] /\ Len(body'.q) <= BodyMax
    <3>1. CASE UNCHANGED body
      BY <3>1 DEF FeedInv, Xch!TypeOK
    <3>2. CASE /\ Len(body.q) < BodyMax
               /\ body' = [body EXCEPT !.q = Append(body.q, BodyPieces[s] - left)]
      <4>1. Len(body.q) \in Nat /\ BodyPieces[s] - left \in Nat
        <5>1. Len(body.q) \in Nat
          BY LenProperties DEF FeedInv
        <5>2. feeder = "send" /\ got \in Nat /\ ahead \in Nat /\ left \in Nat
          BY <1>3 DEF FeedInv, Xch!FeedSend
        <5>3. Xch(s)!Given \in Nat
          BY <5>2 DEF Xch!Given
        <5>4. Xch(s)!Given + Len(body.q) + left + 1 = BodyPieces[s]
          BY <5>2 DEF FeedInv, Feeding
        <5>5. BodyPieces[s] \in Nat
          BY XchConstants
        <5>6. BodyPieces[s] - left \in Nat
          <6>1. \A g, n, l, p \in Nat : g + n + l + 1 = p => p - l \in Nat
            OBVIOUS
          <6> QED BY ONLY <5>1, <5>2, <5>3, <5>4, <5>5, <6>1
        <5> QED BY <5>1, <5>6
      <4>2. /\ Append(body.q, BodyPieces[s] - left) \in Seq(Nat)
            /\ Len(Append(body.q, BodyPieces[s] - left)) = Len(body.q) + 1
        BY <4>1, AppendProperties DEF FeedInv
      <4>3. /\ body' \in [q : Seq(Nat), shut : BOOLEAN]
            /\ body'.q = Append(body.q, BodyPieces[s] - left)
        BY <3>2, <4>2, Rechannelled, ZenonT(60) DEF FeedInv
      <4> QED BY <3>2, <4>1, <4>2, <4>3, XchConstants
    <3> QED BY <1>3, <3>1, <3>2 DEF Xch!FeedSend
  <2> QED BY <1>3, <2>1 DEF FeedInv, Xch!TypeOK, Xch!FeedSend
<1>4. CASE Xch(s)!FeedEnd
  <2>1. body' \in [q : Seq(Nat), shut : BOOLEAN] /\ Len(body'.q) <= BodyMax
    <3>1. CASE UNCHANGED body
      BY <3>1 DEF FeedInv, Xch!TypeOK
    <3>2. CASE Len(body.q) < BodyMax /\ body' = [q |-> Append(body.q, 0), shut |-> TRUE]
      <4>1. /\ Append(body.q, 0) \in Seq(Nat) /\ Len(body.q) \in Nat
            /\ Len(Append(body.q, 0)) = Len(body.q) + 1
        BY AppendProperties, LenProperties DEF FeedInv
      <4> QED BY <3>2, <4>1, XchConstants DEF FeedInv
    <3> QED BY <1>4, <3>1, <3>2 DEF Xch!FeedEnd
  <2> QED BY <1>4, <2>1 DEF FeedInv, Xch!TypeOK, Xch!FeedEnd
<1>5. CASE Xch(s)!Begin
  BY <1>5 DEF FeedInv, Xch!TypeOK, Xch!Begin
<1>6. CASE Xch(s)!Read
  BY <1>6 DEF FeedInv, Xch!TypeOK, Xch!Read
<1>7. CASE Xch(s)!Received
  <2>1. body' \in [q : Seq(Nat), shut : BOOLEAN] /\ Len(body'.q) <= BodyMax
    <3>1. CASE UNCHANGED body
      BY <3>1 DEF FeedInv, Xch!TypeOK
    <3>2. CASE body.q # <<>> /\ body' = [body EXCEPT !.q = Tail(body.q)]
      <4>1. Tail(body.q) \in Seq(Nat) /\ Len(Tail(body.q)) = Len(body.q) - 1 /\ Len(body.q) \in Nat
        BY <3>2, HeadTailProperties, LenProperties DEF FeedInv
      <4>2. body' \in [q : Seq(Nat), shut : BOOLEAN] /\ body'.q = Tail(body.q)
        BY <3>2, <4>1, Rechannelled, ZenonT(60) DEF FeedInv
      <4> QED BY <4>1, <4>2, XchConstants DEF FeedInv, Xch!TypeOK
    <3> QED BY <1>7, <3>1, <3>2 DEF Xch!Received
  <2>2. got' \in Nat
    BY <1>7 DEF FeedInv, Xch!Received
  <2> QED BY <1>7, <2>1, <2>2 DEF FeedInv, Xch!TypeOK, Xch!Received
<1>8. CASE Xch(s)!start_response
  <2>1. <<"START">> \in Seq(AllMsgs) /\ <<"START">> # <<>>
    BY DEF AllMsgs
  <2> QED BY <1>8, <2>1 DEF FeedInv, Xch!TypeOK, Xch!start_response, Xch!Say
<1>9. CASE Xch(s)!Yield
  <2>1. /\ <<"DATA">> \in Seq(AllMsgs) /\ <<"DATA">> # <<>>
        /\ <<"TEXT">> \in Seq(AllMsgs) /\ <<"TEXT">> # <<>>
    BY DEF AllMsgs
  <2> QED BY <1>9, <2>1 DEF FeedInv, Xch!TypeOK, Xch!Yield, Xch!Say
<1>10. CASE Xch(s)!AppEnds
  <2>1. /\ <<"END">> \in Seq(AllMsgs) /\ <<"END">> # <<>>
        /\ <<"ERROR", "END">> \in Seq(AllMsgs) /\ <<"ERROR", "END">> # <<>>
    BY DEF AllMsgs
  <2> QED BY <1>10, <2>1 DEF FeedInv, Xch!TypeOK, Xch!AppEnds, Xch!Say
<1>11. CASE Xch(s)!Put
  <2>1. CASE out.shut /\ thread' = "over" /\ xTodo' = <<>> /\ UNCHANGED out
    BY <1>11, <2>1, EmptySeq DEF FeedInv, Xch!TypeOK, Xch!Put
  <2>2. CASE /\ ~out.shut /\ Len(out.q) < OutMax
             /\ out' = [out EXCEPT !.q = Append(out.q, Head(xTodo))] /\ xTodo' = Tail(xTodo)
             /\ thread' = "put" => Len(xTodo) > 1
    <3>1. xTodo \in Seq(AllMsgs) /\ xTodo # <<>> /\ Len(xTodo) \in Nat \ {0}
      BY <1>11, EmptySeq, LenProperties DEF Xch!Put, FeedInv
    <3>2. Head(xTodo) \in AllMsgs /\ Tail(xTodo) \in Seq(AllMsgs) /\ Len(Tail(xTodo)) = Len(xTodo) - 1
      BY <3>1, HeadTailProperties
    <3>3. /\ Append(out.q, Head(xTodo)) \in Seq(AllMsgs) /\ Len(out.q) \in Nat
          /\ Len(Append(out.q, Head(xTodo))) = Len(out.q) + 1
      BY <3>2, AppendProperties, LenProperties DEF FeedInv
    <3>4. out' \in [q : Seq(AllMsgs), shut : BOOLEAN] /\ out'.q = Append(out.q, Head(xTodo))
      BY <2>2, <3>3, Rechannelled, ZenonT(60) DEF FeedInv
    <3>5. Len(out'.q) <= OutMax
      BY <2>2, <3>3, <3>4, XchConstants
    <3>6. xTodo' \in Seq(AllMsgs) /\ (thread' = "put" => xTodo' # <<>>)
      <4>1. xTodo' \in Seq(AllMsgs) /\ (Len(xTodo) > 1 => Len(xTodo') # 0)
        BY <2>2, <3>1, <3>2
      <4> QED BY <2>2, <4>1, EmptySeq
    <3> QED BY <1>11, <3>4, <3>5, <3>6 DEF FeedInv, Xch!TypeOK, Xch!Put
  <2>3. Len(xTodo) > 1 \/ ~(Len(xTodo) > 1)
    OBVIOUS
  <2> QED BY <1>11, <2>1, <2>2, <2>3 DEF Xch!Put
<1>12. CASE Xch(s)!HeadFails
  BY <1>12 DEF FeedInv, Xch!TypeOK, Xch!HeadFails, Xch!Goto
<1>13. CASE Xch(s)!HeadRead
  <2>1. got \in Nat /\ ahead' \in Nat /\ left' \in Nat
    BY <1>13, XchConstants DEF FeedInv, Xch!HeadRead
  <2> QED BY <1>13, <2>1 DEF FeedInv, Xch!TypeOK, Xch!HeadRead, Xch!Goto
<1>14. CASE Xch(s)!Consume
  <2>1. out.q \in Seq(AllMsgs) /\ out.q # <<>>
    BY <1>14 DEF Xch!Consume, FeedInv
  <2>2. /\ Tail(out.q) \in Seq(AllMsgs) /\ Len(out.q) \in Nat /\ Len(Tail(out.q)) = Len(out.q) - 1
    BY <2>1, HeadTailProperties, LenProperties
  <2>3. /\ body' = body \/ body' = [body EXCEPT !.shut = TRUE]
        /\ \/ out' = [out EXCEPT !.q = Tail(out.q)]
           \/ out' = [[out EXCEPT !.q = Tail(out.q)] EXCEPT !.shut = TRUE]
    BY <1>14 DEF Xch!Consume, Xch!Teardown
  <2>4. /\ body' \in [q : Seq(Nat), shut : BOOLEAN] /\ body'.q = body.q
    BY <2>3, Rechannelled, ZenonT(60) DEF FeedInv
  <2>5. out' \in [q : Seq(AllMsgs), shut : BOOLEAN] /\ out'.q = Tail(out.q)
    BY <2>2, <2>3, Rechannelled, ZenonT(60) DEF FeedInv
  <2>6. Len(out'.q) <= OutMax
    BY <2>2, <2>5, XchConstants DEF FeedInv, Xch!TypeOK
  <2> QED BY <1>14, <2>4, <2>5, <2>6 DEF FeedInv, Xch!TypeOK, Xch!Consume
<1>15. CASE Xch(s)!Drained
  <2>1. /\ body' = body \/ body' = [body EXCEPT !.shut = TRUE]
        /\ out' = out \/ out' = [out EXCEPT !.shut = TRUE]
    BY <1>15 DEF Xch!Drained, Xch!Teardown
  <2>2. /\ body' \in [q : Seq(Nat), shut : BOOLEAN] /\ body'.q = body.q
        /\ out' \in [q : Seq(AllMsgs), shut : BOOLEAN] /\ out'.q = out.q
    BY <2>1, Rechannelled, ZenonT(60) DEF FeedInv
  <2> QED BY <1>15, <2>2 DEF FeedInv, Xch!TypeOK, Xch!Drained
<1>16. CASE Xch(s)!Ended
  BY <1>16 DEF FeedInv, Xch!TypeOK, Xch!Ended, Xch!Goto
<1>17. CASE Xch(s)!Sorry
  BY <1>17 DEF FeedInv, Xch!TypeOK, Xch!Sorry, Xch!Goto
<1>18. CASE Xch(s)!Cancelled
  <2>1. /\ body' = body \/ body' = [body EXCEPT !.shut = TRUE]
        /\ out' = out \/ out' = [out EXCEPT !.shut = TRUE]
    BY <1>18 DEF Xch!Cancelled, Xch!Teardown
  <2>2. /\ body' \in [q : Seq(Nat), shut : BOOLEAN] /\ body'.q = body.q
        /\ out' \in [q : Seq(AllMsgs), shut : BOOLEAN] /\ out'.q = out.q
    BY <2>1, Rechannelled, ZenonT(60) DEF FeedInv
  <2> QED BY <1>18, <2>2 DEF FeedInv, Xch!TypeOK, Xch!Cancelled
<1> QED BY <1>1, <1>2, <1>3, <1>4, <1>5, <1>6, <1>7, <1>8, <1>9, <1>10, <1>11, <1>12, <1>13, <1>14, <1>15, <1>16, <1>17, <1>18 DEF Xch!Next, Xch!Feeds, Xch!Thread, Xch!Handles

\* So do the places of the handler, the feeder and the thread.
LEMMA XchControl ==
    ASSUME NEW s \in XchScenes, FeedInv(s), Xch(s)!Next
    PROVE  /\ handler' \in {"head", "recv", "drain", "ending", "sorry", "over"}
           /\ feeder' \in {"none", "read", "send", "last", "over"}
           /\ thread' \in {"none", "queued", "app", "recv", "put", "over"}
           /\ end' \in {"none", "ok", "error", "pipe"} /\ next' \in {"recv", "ending", "sorry", "over"}
<1> USE DEF Xch!loopvars, Xch!feedvars, Xch!appvars
<1>1. CASE Xch(s)!Leave
  BY <1>1 DEF FeedInv, Xch!TypeOK, Xch!Leave
<1>2. CASE Xch(s)!FeedRead
  BY <1>2 DEF FeedInv, Xch!TypeOK, Xch!FeedRead
<1>3. CASE Xch(s)!FeedSend
  BY <1>3 DEF FeedInv, Xch!TypeOK, Xch!FeedSend
<1>4. CASE Xch(s)!FeedEnd
  BY <1>4 DEF FeedInv, Xch!TypeOK, Xch!FeedEnd
<1>5. CASE Xch(s)!Begin
  BY <1>5 DEF FeedInv, Xch!TypeOK, Xch!Begin
<1>6. CASE Xch(s)!Read
  BY <1>6 DEF FeedInv, Xch!TypeOK, Xch!Read
<1>7. CASE Xch(s)!Received
  BY <1>7 DEF FeedInv, Xch!TypeOK, Xch!Received
<1>8. CASE Xch(s)!start_response
  BY <1>8 DEF FeedInv, Xch!TypeOK, Xch!start_response, Xch!Say
<1>9. CASE Xch(s)!Yield
  BY <1>9 DEF FeedInv, Xch!TypeOK, Xch!Yield, Xch!Say
<1>10. CASE Xch(s)!AppEnds
  BY <1>10 DEF FeedInv, Xch!TypeOK, Xch!AppEnds, Xch!Say
<1>11. CASE Xch(s)!Put
  BY <1>11 DEF FeedInv, Xch!TypeOK, Xch!Put
<1>12. CASE Xch(s)!HeadFails
  BY <1>12 DEF FeedInv, Xch!TypeOK, Xch!HeadFails, Xch!Goto
<1>13. CASE Xch(s)!HeadRead
  BY <1>13 DEF FeedInv, Xch!TypeOK, Xch!HeadRead, Xch!Goto
<1>14. CASE Xch(s)!Consume
  BY <1>14 DEF FeedInv, Xch!TypeOK, Xch!Consume, Xch!Goto, Xch!Teardown
<1>15. CASE Xch(s)!Drained
  BY <1>15 DEF FeedInv, Xch!TypeOK, Xch!Drained, Xch!Goto, Xch!Teardown
<1>16. CASE Xch(s)!Ended
  BY <1>16 DEF FeedInv, Xch!TypeOK, Xch!Ended, Xch!Goto
<1>17. CASE Xch(s)!Sorry
  BY <1>17 DEF FeedInv, Xch!TypeOK, Xch!Sorry, Xch!Goto
<1>18. CASE Xch(s)!Cancelled
  BY <1>18 DEF FeedInv, Xch!TypeOK, Xch!Cancelled, Xch!Goto, Xch!Teardown
<1> QED BY <1>1, <1>2, <1>3, <1>4, <1>5, <1>6, <1>7, <1>8, <1>9, <1>10, <1>11, <1>12, <1>13, <1>14, <1>15, <1>16, <1>17, <1>18 DEF Xch!Next, Xch!Feeds, Xch!Thread, Xch!Handles

\* So do the flags.
LEMMA XchFlags ==
    ASSUME NEW s \in XchScenes, FeedInv(s), Xch(s)!Next
    PROVE  /\ xGone' \in BOOLEAN /\ sent' \in BOOLEAN /\ chunked' \in BOOLEAN
           /\ fcancel' \in BOOLEAN /\ eof' \in BOOLEAN /\ xCut' \in BOOLEAN
<1> USE DEF Xch!loopvars, Xch!feedvars, Xch!appvars
<1>1. CASE Xch(s)!Leave
  BY <1>1 DEF FeedInv, Xch!TypeOK, Xch!Leave
<1>2. CASE Xch(s)!FeedRead
  BY <1>2 DEF FeedInv, Xch!TypeOK, Xch!FeedRead
<1>3. CASE Xch(s)!FeedSend
  BY <1>3 DEF FeedInv, Xch!TypeOK, Xch!FeedSend
<1>4. CASE Xch(s)!FeedEnd
  BY <1>4 DEF FeedInv, Xch!TypeOK, Xch!FeedEnd
<1>5. CASE Xch(s)!Begin
  BY <1>5 DEF FeedInv, Xch!TypeOK, Xch!Begin
<1>6. CASE Xch(s)!Read
  BY <1>6 DEF FeedInv, Xch!TypeOK, Xch!Read
<1>7. CASE Xch(s)!Received
  BY <1>7 DEF FeedInv, Xch!TypeOK, Xch!Received
<1>8. CASE Xch(s)!start_response
  BY <1>8 DEF FeedInv, Xch!TypeOK, Xch!start_response, Xch!Say
<1>9. CASE Xch(s)!Yield
  BY <1>9 DEF FeedInv, Xch!TypeOK, Xch!Yield, Xch!Say
<1>10. CASE Xch(s)!AppEnds
  BY <1>10 DEF FeedInv, Xch!TypeOK, Xch!AppEnds, Xch!Say
<1>11. CASE Xch(s)!Put
  BY <1>11 DEF FeedInv, Xch!TypeOK, Xch!Put
<1>12. CASE Xch(s)!HeadFails
  BY <1>12 DEF FeedInv, Xch!TypeOK, Xch!HeadFails, Xch!Goto
<1>13. CASE Xch(s)!HeadRead
  BY <1>13 DEF FeedInv, Xch!TypeOK, Xch!HeadRead, Xch!Goto
<1>14. CASE Xch(s)!Consume
  BY <1>14 DEF FeedInv, Xch!TypeOK, Xch!Consume, Xch!Goto, Xch!Teardown
<1>15. CASE Xch(s)!Drained
  BY <1>15 DEF FeedInv, Xch!TypeOK, Xch!Drained, Xch!Goto, Xch!Teardown
<1>16. CASE Xch(s)!Ended
  BY <1>16 DEF FeedInv, Xch!TypeOK, Xch!Ended, Xch!Goto
<1>17. CASE Xch(s)!Sorry
  BY <1>17 DEF FeedInv, Xch!TypeOK, Xch!Sorry, Xch!Goto
<1>18. CASE Xch(s)!Cancelled
  BY <1>18 DEF FeedInv, Xch!TypeOK, Xch!Cancelled, Xch!Goto, Xch!Teardown
<1> QED BY <1>1, <1>2, <1>3, <1>4, <1>5, <1>6, <1>7, <1>8, <1>9, <1>10, <1>11, <1>12, <1>13, <1>14, <1>15, <1>16, <1>17, <1>18 DEF Xch!Next, Xch!Feeds, Xch!Thread, Xch!Handles

-----------------------------------------------------------------------------
(* The body of a request *)

\* What FeedInv says beyond types.
BodyInv(s) ==
    /\ Feeding(s)
    /\ handler = "head" => thread = "none" /\ feeder = "none" /\ got = 0
    /\ thread = "recv" => ~eof /\ got >= ahead
    /\ body.shut => feeder = "over" \/ Torn
    /\ fcancel => Torn
    /\ eof /\ Xch(s)!Given < BodyPieces[s] => xCut \/ Torn

\* A step that leaves the feeder and the reader alone keeps it, also when it gives
\* the exchange up.
LEMMA BodySame ==
    ASSUME NEW s \in XchScenes, FeedInv(s),
           UNCHANGED <<left, feeder, got, ahead, eof, xCut>>, body'.q = body.q,
           Torn => Torn', body'.shut => body.shut \/ Torn', fcancel' => fcancel \/ Torn',
           handler' = "head" => handler = "head" /\ thread' = thread,
           thread' = "recv" => thread = "recv"
    PROVE  BodyInv(s)'
<1>1. Feeding(s)'
  <2>1. Xch(s)!Given' = Xch(s)!Given
    BY DEF Xch!Given
  <2>2. Feeding(s)
    BY DEF FeedInv
  <2> HIDE DEF Torn
  <2> QED BY <2>1, <2>2 DEF Feeding
<1>2. handler' = "head" => thread' = "none" /\ feeder' = "none" /\ got' = 0
  BY DEF FeedInv
<1>3. thread' = "recv" => ~eof' /\ got' >= ahead'
  BY DEF FeedInv
<1>4. body'.shut => feeder' = "over" \/ Torn'
  <2> HIDE DEF Torn
  <2> QED BY DEF FeedInv
<1>5. fcancel' => Torn'
  <2> HIDE DEF Torn
  <2> QED BY DEF FeedInv
<1>6. eof' /\ Xch(s)!Given' < BodyPieces[s] => xCut' \/ Torn'
  <2>1. Xch(s)!Given' = Xch(s)!Given
    BY DEF Xch!Given
  <2> HIDE DEF Torn
  <2> QED BY <2>1 DEF FeedInv
<1> QED BY <1>1, <1>2, <1>3, <1>4, <1>5, <1>6 DEF BodyInv

\* The body channel as a sequence.
LEMMA BodyQueue ==
    ASSUME NEW s \in XchScenes, FeedInv(s)
    PROVE  /\ body.q \in Seq(Nat) /\ Len(body.q) \in Nat /\ DOMAIN body.q = 1..Len(body.q)
           /\ (body.q = <<>> <=> Len(body.q) = 0)
           /\ got \in Nat /\ ahead \in Nat /\ left \in Nat /\ BodyPieces[s] \in Nat
           /\ Xch(s)!Given \in Nat
<1>1. body.q \in Seq(Nat) /\ got \in Nat /\ ahead \in Nat /\ left \in Nat
  BY DEF FeedInv
<1> QED BY <1>1, LenProperties, EmptySeq, XchConstants DEF Xch!Given

\* The feeder reads a piece, the end of the body, or gives up.
LEMMA BodyFeedRead ==
    ASSUME NEW s \in XchScenes, FeedInv(s), Xch(s)!FeedRead
    PROVE  BodyInv(s)'
<1> USE DEF Xch!loopvars, Xch!feedvars, Xch!appvars
<1>1. Xch(s)!Given' = Xch(s)!Given /\ UNCHANGED <<body, eof, got, ahead, thread, handler, fcancel>>
  BY DEF Xch!FeedRead, Xch!Given
<1>2. Feeding(s)'
  <2>1. CASE left > 0 /\ feeder' = "send" /\ left' = left - 1 /\ UNCHANGED xCut
    BY <1>1, <2>1, BodyQueue DEF Xch!FeedRead, FeedInv, Feeding
  <2>2. CASE left = 0 /\ feeder' = "last" /\ UNCHANGED <<left, xCut>>
    BY <1>1, <2>2, BodyQueue DEF Xch!FeedRead, FeedInv, Feeding
  <2>3. CASE left > 0 /\ feeder' = "last" /\ xCut' = TRUE /\ UNCHANGED left
    BY <1>1, <2>3, BodyQueue DEF Xch!FeedRead, FeedInv, Feeding
  <2> QED BY <2>1, <2>2, <2>3 DEF Xch!FeedRead
<1>3. Torn' = Torn /\ (xCut => xCut') /\ handler # "head" /\ (body.shut => Torn)
  BY <1>1 DEF Torn, Xch!FeedRead, FeedInv
<1> QED BY <1>1, <1>2, <1>3 DEF BodyInv, FeedInv

\* It puts a piece into the channel, or gives up.
LEMMA BodyFeedSend ==
    ASSUME NEW s \in XchScenes, FeedInv(s), Xch(s)!FeedSend
    PROVE  BodyInv(s)'
<1> USE DEF Xch!loopvars, Xch!feedvars, Xch!appvars
<1>1. Xch(s)!Given' = Xch(s)!Given /\ UNCHANGED <<eof, got, ahead, thread, handler, fcancel, left>>
  BY DEF Xch!FeedSend, Xch!Given
<1>2. Feeding(s)' /\ (xCut => xCut') /\ body'.shut = body.shut
  <2>1. CASE /\ ~body.shut /\ Len(body.q) < BodyMax
             /\ body' = [body EXCEPT !.q = Append(body.q, BodyPieces[s] - left)]
             /\ feeder' = "read" /\ UNCHANGED xCut
    <3>1. BodyPieces[s] - left = Xch(s)!Given + Len(body.q) + 1 /\ BodyPieces[s] - left \in Nat
      BY BodyQueue, SMTT(30) DEF Xch!FeedSend, FeedInv, Feeding
    <3> DEFINE x == BodyPieces[s] - left
    <3>2. /\ Append(body.q, x) \in Seq(Nat) /\ Len(Append(body.q, x)) = Len(body.q) + 1
          /\ DOMAIN Append(body.q, x) = 1..(Len(body.q) + 1)
          /\ Append(body.q, x)[Len(body.q) + 1] = x
          /\ \A i \in 1..Len(body.q) : Append(body.q, x)[i] = body.q[i]
      <4>1. x \in Nat /\ body.q \in Seq(Nat)
        BY <3>1, BodyQueue
      <4> HIDE DEF x
      <4> QED BY <4>1, AppendProperties
    <3>3. body'.q = Append(body.q, x) /\ body'.shut = body.shut
      BY <2>1, <3>2, Rechannelled DEF FeedInv
    <3>4. \A i \in 1..Len(body.q) : body.q[i] = Xch(s)!Given + i
      BY BodyQueue DEF FeedInv, Feeding, Xch!FeedSend
    <3>5. /\ DOMAIN body'.q = 1..(Len(body.q) + 1) /\ Len(body'.q) = Len(body.q) + 1
          /\ \A i \in 1..(Len(body.q) + 1) : body'.q[i] = Xch(s)!Given + i
      BY <3>1, <3>2, <3>3, <3>4, BodyQueue, SMTT(30)
    <3>6. Xch(s)!Given' + Len(body'.q) + left' = BodyPieces[s]
      BY <1>1, <3>1, <3>5, BodyQueue, SMTT(30)
    <3> QED BY <1>1, <2>1, <3>3, <3>5, <3>6 DEF Feeding
  <2>2. CASE feeder' = "last" /\ xCut' = TRUE /\ UNCHANGED body
    BY <1>1, <2>2 DEF Xch!FeedSend, FeedInv, Feeding
  <2> QED BY <2>1, <2>2 DEF Xch!FeedSend
<1>3. Torn' = Torn /\ handler # "head" /\ (body.shut => Torn)
  BY <1>1 DEF Torn, Xch!FeedSend, FeedInv
<1> QED BY <1>1, <1>2, <1>3 DEF BodyInv, FeedInv

\* It marks the end of the body and closes the channel, or leaves that to others.
LEMMA BodyFeedEnd ==
    ASSUME NEW s \in XchScenes, FeedInv(s), Xch(s)!FeedEnd
    PROVE  BodyInv(s)'
<1> USE DEF Xch!loopvars, Xch!feedvars, Xch!appvars
<1>1. /\ Xch(s)!Given' = Xch(s)!Given /\ feeder' = "over"
      /\ UNCHANGED <<eof, got, ahead, thread, handler, fcancel, left, xCut>>
  BY DEF Xch!FeedEnd, Xch!Given
<1>3. Torn' = Torn /\ handler # "head" /\ (body.shut \/ fcancel => Torn)
  BY <1>1 DEF Torn, Xch!FeedEnd, FeedInv
<1>2. Feeding(s)'
  <2>1. CASE body' = [q |-> Append(body.q, 0), shut |-> TRUE]
    <3>1. /\ Append(body.q, 0) \in Seq(Nat) /\ Len(Append(body.q, 0)) = Len(body.q) + 1
          /\ DOMAIN Append(body.q, 0) = 1..(Len(body.q) + 1)
          /\ Append(body.q, 0)[Len(body.q) + 1] = 0
          /\ \A i \in 1..Len(body.q) : Append(body.q, 0)[i] = body.q[i]
      BY BodyQueue, AppendProperties
    <3>2. body'.q = Append(body.q, 0)
      BY <2>1
    <3>3. \A i \in 1..Len(body.q) : body.q[i] = Xch(s)!Given + i
      BY BodyQueue DEF FeedInv, Feeding, Xch!FeedEnd
    <3>4. /\ DOMAIN body'.q = 1..(Len(body.q) + 1) /\ Len(body'.q) = Len(body.q) + 1
          /\ body'.q[Len(body.q) + 1] = 0
          /\ \A i \in 1..Len(body.q) : body'.q[i] = Xch(s)!Given + i
      BY <3>1, <3>2, <3>3
    <3>5. xCut \/ Xch(s)!Given + Len(body.q) = BodyPieces[s]
      BY DEF FeedInv, Feeding, Xch!FeedEnd
    <3>6. \A i \in DOMAIN body'.q :
             \/ body'.q[i] = Xch(s)!Given + i
             \/ body'.q[i] = 0 /\ i = Len(body'.q) /\ (xCut \/ Xch(s)!Given + i = BodyPieces[s] + 1)
      <4> SUFFICES ASSUME NEW i \in 1..(Len(body.q) + 1)
                   PROVE  \/ body'.q[i] = Xch(s)!Given + i
                          \/ body'.q[i] = 0 /\ i = Len(body'.q) /\ (xCut \/ Xch(s)!Given + i = BodyPieces[s] + 1)
        BY <3>4
      <4>1. i \in 1..Len(body.q) \/ i = Len(body.q) + 1
        BY BodyQueue
      <4>2. Xch(s)!Given + Len(body.q) = BodyPieces[s]
              => Xch(s)!Given + (Len(body.q) + 1) = BodyPieces[s] + 1
        <5>1. Xch(s)!Given \in Nat /\ Len(body.q) \in Nat /\ BodyPieces[s] \in Nat
          BY BodyQueue
        <5> QED BY <5>1
      <4> QED BY <3>4, <3>5, <4>1, <4>2
    <3>7. body'.q # <<>> /\ body'.q[Len(body'.q)] = 0
      BY <3>1, <3>2, <3>4, BodyQueue, EmptySeq
    <3> QED BY <1>1, <3>6, <3>7 DEF Feeding
  <2>2. CASE UNCHANGED body /\ Torn
    <3> HIDE DEF Torn
    <3>1. \A i \in DOMAIN body.q : body.q[i] = Xch(s)!Given + i
      BY DEF FeedInv, Feeding, Xch!FeedEnd
    <3> QED BY <1>1, <1>3, <2>2, <3>1 DEF Feeding
  <2> QED BY <2>1, <2>2, <1>3 DEF Xch!FeedEnd
<1> QED BY <1>1, <1>2, <1>3 DEF BodyInv, FeedInv

\* The application reads from what it was given at once, or turns to the channel.
LEMMA BodyRead ==
    ASSUME NEW s \in XchScenes, FeedInv(s), Xch(s)!Read
    PROVE  BodyInv(s)'
<1> USE DEF Xch!loopvars, Xch!feedvars, Xch!appvars
<1>1. /\ Xch(s)!Given' = Xch(s)!Given
      /\ UNCHANGED <<eof, ahead, handler, fcancel, left, xCut, feeder, body>>
  BY BodyQueue DEF Xch!Read, Xch!Given
<1>2. Feeding(s)'
  BY <1>1 DEF Feeding, FeedInv, Torn
<1>3. Torn' = Torn /\ handler # "head"
  BY <1>1 DEF Torn, Xch!Read, FeedInv
<1>4. thread' = "recv" => ~eof /\ got' >= ahead
  BY BodyQueue DEF Xch!Read
<1> QED BY <1>1, <1>2, <1>3, <1>4 DEF BodyInv, FeedInv


\* The application takes a piece from the channel, b"", or finds it closed.
LEMMA BodyReceived ==
    ASSUME NEW s \in XchScenes, FeedInv(s), Xch(s)!Received
    PROVE  BodyInv(s)'
<1> USE DEF Xch!loopvars, Xch!feedvars, Xch!appvars
<1> DEFINE q == body.q
           n == Len(body.q)
           g == Xch(s)!Given
<1>1. /\ thread' = "app" /\ UNCHANGED <<ahead, handler, fcancel, left, xCut, feeder>>
      /\ handler # "head" /\ ~eof /\ got >= ahead /\ g = got
  BY BodyQueue DEF Xch!Received, FeedInv, Xch!Given
<1>2. Torn' = Torn
  BY <1>1 DEF Torn
<1>3. CASE q # <<>> /\ Head(q) # 0
  <2>1. /\ q \in Seq(Nat) /\ n \in Nat \ {0} /\ Head(q) = q[1] /\ DOMAIN q = 1..n
        /\ Tail(q) \in Seq(Nat) /\ Len(Tail(q)) = n - 1 /\ DOMAIN Tail(q) = 1..(n - 1)
        /\ \A i \in 1..(n - 1) : Tail(q)[i] = q[i + 1]
    BY <1>3, BodyQueue, HeadTailProperties, LenProperties
  <2>2. /\ got' = got + 1 /\ UNCHANGED eof /\ body'.q = Tail(q) /\ body'.shut = body.shut
    BY <1>3, <2>1, Rechannelled DEF Xch!Received, FeedInv
  <2>3. Xch(s)!Given' = g + 1 /\ g \in Nat
    BY <1>1, <2>2, BodyQueue DEF Xch!Given
  <2>4. Feeding(s)'
    <3> HIDE DEF Torn, q, n, g
    <3>1. \A i \in 1..n :
             \/ q[i] = g + i
             \/ q[i] = 0 /\ i = n /\ feeder = "over" /\ (xCut \/ g + i = BodyPieces[s] + 1)
      BY <2>1 DEF FeedInv, Feeding, q, n, g
    <3>2. \A i \in 1..(n - 1) :
             \/ Tail(q)[i] = (g + 1) + i
             \/ Tail(q)[i] = 0 /\ i = n - 1 /\ feeder = "over" /\ (xCut \/ (g + 1) + i = BodyPieces[s] + 1)
      <4> SUFFICES ASSUME NEW i \in 1..(n - 1)
                   PROVE  \/ Tail(q)[i] = (g + 1) + i
                          \/ Tail(q)[i] = 0 /\ i = n - 1 /\ feeder = "over" /\ (xCut \/ (g + 1) + i = BodyPieces[s] + 1)
        OBVIOUS
      <4>0. n \in Nat /\ g \in Nat
        BY <2>1, <2>3
      <4>1. i + 1 \in 1..n /\ g + (i + 1) = (g + 1) + i
        BY <4>0
      <4>3. Tail(q)[i] = q[i + 1]
        BY <2>1
      <4>2. i + 1 = n => i = n - 1
        BY <2>1
      <4> QED BY <3>1, <4>1, <4>2, <4>3
    <3>3. /\ feeder # "none"
          /\ feeder = "read" => g + n + left = BodyPieces[s]
          /\ feeder = "send" => g + n + left + 1 = BodyPieces[s]
          /\ feeder = "last" => xCut \/ g + n = BodyPieces[s]
      BY <2>1, <1>3 DEF FeedInv, Feeding, q, n, g
    <3>4. /\ feeder = "read" => (g + 1) + (n - 1) + left = BodyPieces[s]
          /\ feeder = "send" => (g + 1) + (n - 1) + left + 1 = BodyPieces[s]
          /\ feeder = "last" => xCut \/ (g + 1) + (n - 1) = BodyPieces[s]
      BY <2>1, <2>3, <3>3, BodyQueue
    <3>5. feeder = "over" /\ body.shut => Torn \/ (Tail(q) # <<>> /\ Tail(q)[n - 1] = 0)
      <4>1. feeder = "over" /\ body.shut => Torn \/ q[n] = 0
        BY <1>1 DEF FeedInv, Feeding, q, n
      <4>2. n # 1 => Tail(q) # <<>> /\ n - 1 \in 1..(n - 1) /\ (n - 1) + 1 = n
        BY <2>1, EmptySeq
      <4> QED BY <1>3, <2>1, <4>1, <4>2
    <3>6. /\ body'.q = Tail(q) /\ Len(body'.q) = n - 1 /\ DOMAIN body'.q = 1..(n - 1)
          /\ Xch(s)!Given' = g + 1 /\ body'.shut = body.shut /\ Torn' = Torn
          /\ UNCHANGED <<left, xCut, feeder>>
      BY <1>1, <1>2, <2>1, <2>2, <2>3
    <3> QED BY <3>2, <3>3, <3>4, <3>5, <3>6 DEF Feeding
  <2> QED BY <1>1, <1>2, <2>2, <2>4 DEF BodyInv, FeedInv
<1>4. CASE ~(q # <<>> /\ Head(q) # 0)
  <2>1. eof' = TRUE /\ got' = got /\ Xch(s)!Given' = g
    BY <1>4, <1>1 DEF Xch!Received, Xch!Given
  <2>2. body'.q = <<>> /\ body'.shut = body.shut /\ (got < BodyPieces[s] => xCut \/ Torn)
    <3>1. CASE q = <<>>
      <4>1. body' = body /\ body.shut
        BY <3>1 DEF Xch!Received
      <4> QED BY <1>1, <3>1, <4>1 DEF FeedInv, Feeding
    <3>2. CASE q # <<>>
      <4>1. /\ n \in Nat \ {0} /\ q[1] = 0 /\ Tail(q) \in Seq(Nat) /\ Len(Tail(q)) = n - 1
            /\ 1 \in DOMAIN q
        BY <1>4, <3>2, BodyQueue, HeadTailProperties
      <4>2. n = 1 /\ (xCut \/ g + 1 = BodyPieces[s] + 1)
        <5>1. g + 1 # 0
          BY BodyQueue
        <5> QED BY <4>1, <5>1 DEF FeedInv, Feeding
      <4>3. body'.q = Tail(q) /\ body'.shut = body.shut
        BY <3>2, <4>1, Rechannelled DEF Xch!Received, FeedInv
      <4>4. Tail(q) = <<>>
        <5>1. Len(Tail(q)) = 0
          BY <4>1, <4>2
        <5> HIDE DEF q
        <5> QED BY <4>1, <5>1, EmptySeq
      <4>5. g + 1 = BodyPieces[s] + 1 => ~(got < BodyPieces[s])
        BY <1>1, BodyQueue
      <4> QED BY <4>2, <4>3, <4>4, <4>5
    <3> QED BY <3>1, <3>2
  <2>3. Feeding(s)'
    <3> HIDE DEF Torn
    <3>1. body'.q = <<>> /\ DOMAIN body'.q = {} /\ Len(body'.q) = 0
      BY <2>2
    <3>2. CASE q = <<>>
      BY <1>1, <1>2, <2>1, <2>2, <3>1, <3>2 DEF FeedInv, Feeding
    <3>3. CASE q # <<>>
      <4>1. 1 \in DOMAIN q /\ q[1] = 0 /\ g + 1 # 0
        BY <1>4, <3>3, BodyQueue, HeadTailProperties
      <4>2. feeder = "over"
        BY <4>1 DEF FeedInv, Feeding
      <4> QED BY <1>1, <1>2, <2>1, <3>1, <4>2 DEF Feeding
    <3> QED BY <3>2, <3>3
  <2> QED BY <1>1, <1>2, <2>1, <2>2, <2>3 DEF BodyInv, FeedInv
<1> QED BY <1>3, <1>4

\* The head of the request is read: what came along is given at once.
LEMMA BodyHeadRead ==
    ASSUME NEW s \in XchScenes, FeedInv(s), Xch(s)!HeadRead
    PROVE  BodyInv(s)'
<1> USE DEF Xch!loopvars, Xch!feedvars, Xch!appvars
<1>1. PICK n \in 0..BodyPieces[s] :
         /\ ahead' = n /\ left' = BodyPieces[s] - n
         /\ feeder' = IF n < BodyPieces[s] THEN "read" ELSE "none"
         /\ eof' = (n = BodyPieces[s])
  BY DEF Xch!HeadRead
<1>2. /\ handler = "head" /\ handler' = "recv" /\ thread' = "queued" /\ got = 0
      /\ body.q = <<>> /\ ~Torn /\ UNCHANGED <<got, body, fcancel, xCut>>
  BY DEF Xch!HeadRead, Xch!Goto, FeedInv, Feeding, Torn
<1>3. Xch(s)!Given' = n /\ BodyPieces[s] \in Nat
  BY <1>1, <1>2, BodyQueue DEF Xch!Given
<1>4. ~body.shut /\ ~fcancel
  BY <1>2 DEF FeedInv
<1>5. Len(body.q) = 0 /\ DOMAIN body.q = {}
  BY <1>2
<1>6. Feeding(s)'
  BY <1>1, <1>2, <1>3, <1>4, <1>5 DEF Feeding
<1>7. handler' # "head" /\ thread' # "recv" /\ ~body'.shut /\ ~fcancel'
  BY <1>2, <1>4
<1>8. eof' => ~(Xch(s)!Given' < BodyPieces[s])
  <2>1. eof' => n = BodyPieces[s]
    BY <1>1, Zenon
  <2> QED BY <1>3, <2>1
<1> QED BY <1>6, <1>7, <1>8 DEF BodyInv

\* Every step of an exchange keeps what is known of its body.
LEMMA BodyNext ==
    ASSUME NEW s \in XchScenes, FeedInv(s), Xch(s)!Next
    PROVE  BodyInv(s)'
<1> USE DEF Xch!loopvars, Xch!feedvars, Xch!appvars
<1>1. CASE Xch(s)!Leave
  <2>1. /\ UNCHANGED <<left, feeder, got, ahead, eof, xCut, body, fcancel>>
        /\ Torn => Torn'
        /\ handler' = "head" => handler = "head" /\ thread' = thread
        /\ thread' = "recv" => thread = "recv"
    BY <1>1 DEF Xch!Leave, Torn
  <2> QED BY <2>1, BodySame
<1>2. CASE Xch(s)!FeedRead
  BY <1>2, BodyFeedRead
<1>3. CASE Xch(s)!FeedSend
  BY <1>3, BodyFeedSend
<1>4. CASE Xch(s)!FeedEnd
  BY <1>4, BodyFeedEnd
<1>5. CASE Xch(s)!Begin
  <2>1. /\ UNCHANGED <<left, feeder, got, ahead, eof, xCut, body, fcancel>>
        /\ Torn => Torn'
        /\ handler' = "head" => handler = "head" /\ thread' = thread
        /\ thread' = "recv" => thread = "recv"
    BY <1>5 DEF Xch!Begin, Torn, FeedInv
  <2> QED BY <2>1, BodySame
<1>6. CASE Xch(s)!Read
  BY <1>6, BodyRead
<1>7. CASE Xch(s)!Received
  BY <1>7, BodyReceived
<1>8. CASE Xch(s)!start_response
  <2>1. /\ UNCHANGED <<left, feeder, got, ahead, eof, xCut, body, fcancel>>
        /\ Torn => Torn'
        /\ handler' = "head" => handler = "head" /\ thread' = thread
        /\ thread' = "recv" => thread = "recv"
    BY <1>8 DEF Xch!start_response, Xch!Say, Torn, FeedInv
  <2> QED BY <2>1, BodySame
<1>9. CASE Xch(s)!Yield
  <2>1. /\ UNCHANGED <<left, feeder, got, ahead, eof, xCut, body, fcancel>>
        /\ Torn => Torn'
        /\ handler' = "head" => handler = "head" /\ thread' = thread
        /\ thread' = "recv" => thread = "recv"
    BY <1>9 DEF Xch!Yield, Xch!Say, Torn, FeedInv
  <2> QED BY <2>1, BodySame
<1>10. CASE Xch(s)!AppEnds
  <2>1. /\ UNCHANGED <<left, feeder, got, ahead, eof, xCut, body, fcancel>>
        /\ Torn => Torn'
        /\ handler' = "head" => handler = "head" /\ thread' = thread
        /\ thread' = "recv" => thread = "recv"
    BY <1>10 DEF Xch!AppEnds, Xch!Say, Torn, FeedInv
  <2> QED BY <2>1, BodySame
<1>11. CASE Xch(s)!Put
  <2>1. /\ UNCHANGED <<left, feeder, got, ahead, eof, xCut, body, fcancel>>
        /\ Torn => Torn'
        /\ handler' = "head" => handler = "head" /\ thread' = thread
        /\ thread' = "recv" => thread = "recv"
    BY <1>11 DEF Xch!Put, Torn, FeedInv
  <2> QED BY <2>1, BodySame
<1>12. CASE Xch(s)!HeadFails
  <2>1. /\ UNCHANGED <<left, feeder, got, ahead, eof, xCut, body, fcancel>>
        /\ Torn => Torn'
        /\ handler' = "head" => handler = "head" /\ thread' = thread
        /\ thread' = "recv" => thread = "recv"
    BY <1>12 DEF Xch!HeadFails, Xch!Goto, Torn
  <2> QED BY <2>1, BodySame
<1>13. CASE Xch(s)!HeadRead
  BY <1>13, BodyHeadRead
<1>14. CASE Xch(s)!Consume
  <2>1. /\ UNCHANGED <<left, feeder, got, ahead, eof, xCut>>
        /\ \/ UNCHANGED <<body, fcancel>>
           \/ body' = [body EXCEPT !.shut = TRUE] /\ Torn'
    BY <1>14 DEF Xch!Consume, Xch!Goto, Xch!Teardown, Torn
  <2>2. /\ Torn => Torn'
        /\ handler' = "head" => handler = "head" /\ thread' = thread
        /\ thread' = "recv" => thread = "recv"
    BY <1>14 DEF Xch!Consume, Xch!Goto, Xch!Teardown, Torn
  <2>3. body'.q = body.q /\ (body'.shut => body.shut \/ Torn') /\ (fcancel' => fcancel \/ Torn')
    BY <2>1, Rechannelled DEF FeedInv
  <2> QED BY <2>1, <2>2, <2>3, BodySame
<1>15. CASE Xch(s)!Drained
  <2>1. /\ UNCHANGED <<left, feeder, got, ahead, eof, xCut>>
        /\ \/ UNCHANGED <<body, fcancel>>
           \/ body' = [body EXCEPT !.shut = TRUE] /\ Torn'
    BY <1>15 DEF Xch!Drained, Xch!Goto, Xch!Teardown, Torn
  <2>2. /\ Torn => Torn'
        /\ handler' = "head" => handler = "head" /\ thread' = thread
        /\ thread' = "recv" => thread = "recv"
    BY <1>15 DEF Xch!Drained, Xch!Goto, Xch!Teardown, Torn
  <2>3. body'.q = body.q /\ (body'.shut => body.shut \/ Torn') /\ (fcancel' => fcancel \/ Torn')
    BY <2>1, Rechannelled DEF FeedInv
  <2> QED BY <2>1, <2>2, <2>3, BodySame
<1>16. CASE Xch(s)!Ended
  <2>1. /\ UNCHANGED <<left, feeder, got, ahead, eof, xCut, body, fcancel>>
        /\ Torn => Torn'
        /\ handler' = "head" => handler = "head" /\ thread' = thread
        /\ thread' = "recv" => thread = "recv"
    BY <1>16 DEF Xch!Ended, Xch!Goto, Torn
  <2> QED BY <2>1, BodySame
<1>17. CASE Xch(s)!Sorry
  <2>1. /\ UNCHANGED <<left, feeder, got, ahead, eof, xCut, body, fcancel>>
        /\ Torn => Torn'
        /\ handler' = "head" => handler = "head" /\ thread' = thread
        /\ thread' = "recv" => thread = "recv"
    BY <1>17 DEF Xch!Sorry, Xch!Goto, Torn
  <2> QED BY <2>1, BodySame
<1>18. CASE Xch(s)!Cancelled
  <2>1. /\ UNCHANGED <<left, feeder, got, ahead, eof, xCut>>
        /\ \/ UNCHANGED <<body, fcancel>>
           \/ body' = [body EXCEPT !.shut = TRUE] /\ Torn'
    BY <1>18 DEF Xch!Cancelled, Xch!Goto, Xch!Teardown, Torn
  <2>2. /\ Torn => Torn'
        /\ handler' = "head" => handler = "head" /\ thread' = thread
        /\ thread' = "recv" => thread = "recv"
    BY <1>18 DEF Xch!Cancelled, Xch!Goto, Xch!Teardown, Torn
  <2>3. body'.q = body.q /\ (body'.shut => body.shut \/ Torn') /\ (fcancel' => fcancel \/ Torn')
    BY <2>1, Rechannelled DEF FeedInv
  <2> QED BY <2>1, <2>2, <2>3, BodySame
<1> QED BY <1>1, <1>2, <1>3, <1>4, <1>5, <1>6, <1>7, <1>8, <1>9, <1>10, <1>11, <1>12, <1>13, <1>14, <1>15, <1>16, <1>17, <1>18 DEF Xch!Next, Xch!Feeds, Xch!Thread, Xch!Handles

\* Nothing has been read.
LEMMA FeedInit == ASSUME NEW s \in XchScenes, Xch(s)!Init PROVE FeedInv(s)
<1>1. body = [q |-> <<>>, shut |-> FALSE] /\ out = [q |-> <<>>, shut |-> FALSE] /\ xTodo = <<>>
  BY DEF Xch!Init, Xch!Empty
<1>2. <<>> \in Seq(Nat) /\ <<>> \in Seq(AllMsgs) /\ Len(<<>>) = 0 /\ DOMAIN body.q = {}
  BY <1>1
<1>3. /\ body \in [q : Seq(Nat), shut : BOOLEAN] /\ out \in [q : Seq(AllMsgs), shut : BOOLEAN]
      /\ xTodo \in Seq(AllMsgs) /\ thread # "put"
  BY <1>1, <1>2 DEF Xch!Init
<1>4. got \in Nat /\ ahead \in Nat /\ left \in Nat
  BY XchConstants DEF Xch!Init
<1>5. /\ handler \in {"head", "recv", "drain", "ending", "sorry", "over"}
      /\ feeder \in {"none", "read", "send", "last", "over"}
      /\ thread \in {"none", "queued", "app", "recv", "put", "over"}
      /\ end \in {"none", "ok", "error", "pipe"} /\ next \in {"recv", "ending", "sorry", "over"}
  BY DEF Xch!Init
<1>6. /\ xGone \in BOOLEAN /\ sent \in BOOLEAN /\ chunked \in BOOLEAN
      /\ fcancel \in BOOLEAN /\ eof \in BOOLEAN /\ xCut \in BOOLEAN
  BY DEF Xch!Init
<1>7. Len(body.q) <= BodyMax /\ Len(out.q) <= OutMax
  BY <1>1, <1>2, XchConstants
<1>8. Xch(s)!TypeOK
  BY <1>5, <1>6, <1>7 DEF Xch!TypeOK
<1>9. Feeding(s)
  BY <1>1, <1>2 DEF Feeding, Xch!Init
<1>10. handler = "head" /\ thread = "none" /\ feeder = "none" /\ got = 0 /\ ~body.shut /\ ~fcancel /\ ~eof
  BY <1>1 DEF Xch!Init
<1> QED BY <1>3, <1>4, <1>8, <1>9, <1>10 DEF FeedInv

\* Every step of an exchange keeps the invariant of its body.
LEMMA FeedNext == ASSUME NEW s \in XchScenes, FeedInv(s), Xch(s)!Next PROVE FeedInv(s)'
<1>1. BodyInv(s)'
  BY BodyNext
<1>2. Xch(s)!TypeOK'
  BY XchShapes, XchControl, XchFlags DEF Xch!TypeOK
<1>3. /\ got' \in Nat /\ ahead' \in Nat /\ left' \in Nat
      /\ body' \in [q : Seq(Nat), shut : BOOLEAN] /\ out' \in [q : Seq(AllMsgs), shut : BOOLEAN]
      /\ xTodo' \in Seq(AllMsgs) /\ (thread' = "put" => xTodo' # <<>>)
  BY XchShapes
<1> QED BY <1>1, <1>2, <1>3 DEF FeedInv, BodyInv

\* What that says of the application's reads.
LEMMA FeedHonest == ASSUME NEW s \in XchScenes, FeedInv(s) PROVE Xch(s)!TypeOK /\ Xch(s)!BodyHonest
<1>1. Xch(s)!TypeOK
  BY DEF FeedInv
<1>2. \A i \in DOMAIN body.q : body.q[i] \in {Xch(s)!Given + i, 0}
  BY DEF FeedInv, Feeding
<1>3. got >= ahead => Xch(s)!Given = got
  BY BodyQueue DEF Xch!Given
<1>4. eof /\ got >= ahead /\ got < BodyPieces[s] => xCut \/ Torn
  BY <1>3 DEF FeedInv
<1> QED BY <1>1, <1>2, <1>4 DEF Xch!BodyHonest, Torn

-----------------------------------------------------------------------------
(* Counting in a sequence *)

\* A tally is a number, zero of what does not occur.
LEMMA TallyType ==
    ASSUME NEW S, NEW q \in Seq(S), NEW m
    PROVE  /\ IsFiniteSet({i \in DOMAIN q : q[i] = m}) /\ Tally(q, m) \in Nat
           /\ (Tally(q, m) = 0 <=> \A i \in 1..Len(q) : q[i] # m)
<1>1. Len(q) \in Nat /\ DOMAIN q = 1..Len(q)
  BY LenProperties
<1>2. IsFiniteSet(1..Len(q))
  BY <1>1, FS_Interval
<1> DEFINE T == {i \in DOMAIN q : q[i] = m}
<1>3. IsFiniteSet(T)
  BY <1>1, <1>2, FS_Subset
<1>4. Cardinality(T) \in Nat /\ (Cardinality(T) = 0 <=> T = {})
  BY <1>3, FS_CardinalityType, FS_EmptySet
<1>5. T = {} <=> \A i \in 1..Len(q) : q[i] # m
  BY <1>1
<1> QED BY <1>3, <1>4, <1>5 DEF Tally

\* Nothing occurs in the empty sequence.
LEMMA TallyEmpty == ASSUME NEW m PROVE Tally(<<>>, m) = 0
<1>1. {i \in DOMAIN <<>> : <<>>[i] = m} = {}
  OBVIOUS
<1> QED BY <1>1, FS_EmptySet DEF Tally

\* What is appended counts once more.
LEMMA TallyAppend ==
    ASSUME NEW S, NEW q \in Seq(S), NEW x \in S
    PROVE  /\ Append(q, x) \in Seq(S) /\ Tally(Append(q, x), x) = Tally(q, x) + 1
           /\ \A m : m # x => Tally(Append(q, x), m) = Tally(q, m)
<1> DEFINE a == Append(q, x)
           n == Len(q)
           T(m) == {i \in DOMAIN q : q[i] = m}
           A(m) == {i \in DOMAIN a : a[i] = m}
<1>1. /\ a \in Seq(S) /\ n \in Nat /\ Len(a) = n + 1 /\ DOMAIN q = 1..n /\ DOMAIN a = 1..(n + 1)
      /\ \A i \in 1..n : a[i] = q[i]
      /\ a[n + 1] = x
  BY AppendProperties, LenProperties
<1> HIDE DEF a, n
<1>2. n + 1 \notin T(x) /\ A(x) = T(x) \cup {n + 1}
  BY <1>1
<1>3. \A m : m # x => A(m) = T(m)
  BY <1>1
<1>4. IsFiniteSet(T(x))
  BY TallyType
<1>5. Cardinality(A(x)) = Cardinality(T(x)) + 1
  <2> HIDE DEF A, T
  <2> QED BY <1>2, <1>4, CountAdd
<1>6. Tally(a, x) = Tally(q, x) + 1
  BY <1>5 DEF Tally
<1>7. \A m : m # x => Tally(a, m) = Tally(q, m)
  BY <1>3 DEF Tally
<1> QED BY <1>1, <1>6, <1>7 DEF a

\* What is taken from the front counts once less.
LEMMA TallyTail ==
    ASSUME NEW S, NEW q \in Seq(S), q # <<>>
    PROVE  /\ Tail(q) \in Seq(S) /\ Tally(Tail(q), Head(q)) = Tally(q, Head(q)) - 1
           /\ \A m : m # Head(q) => Tally(Tail(q), m) = Tally(q, m)
<1> DEFINE t == Tail(q)
           n == Len(q)
           T(m) == {i \in DOMAIN q : q[i] = m}
           R(m) == {i \in DOMAIN t : t[i] = m}
           Up(m) == T(m) \ {1}
<1>1. /\ t \in Seq(S) /\ n \in Nat \ {0} /\ Len(t) = n - 1 /\ DOMAIN q = 1..n /\ DOMAIN t = 1..(n - 1)
      /\ \A i \in 1..(n - 1) : t[i] = q[i + 1]
      /\ Head(q) = q[1]
  BY HeadTailProperties, LenProperties, EmptySeq
<1> HIDE DEF t, n
<1>2. ASSUME NEW m PROVE Cardinality(R(m)) = Cardinality(Up(m))
  <2> DEFINE f == [i \in Up(m) |-> i - 1]
  <2>1. \A i \in Up(m) : i \in 1..n /\ q[i] = m /\ i # 1
    BY <1>1
  <2>2. \A i \in Up(m) : i - 1 \in R(m)
    <3> SUFFICES ASSUME NEW i \in Up(m) PROVE i - 1 \in R(m)
      OBVIOUS
    <3>1. i \in 1..n /\ q[i] = m /\ i # 1
      BY <2>1
    <3>2. i - 1 \in 1..(n - 1) /\ (i - 1) + 1 = i
      BY <1>1, <3>1
    <3> QED BY <1>1, <3>1, <3>2
  <2>3. \A j \in R(m) : j + 1 \in Up(m) /\ (j + 1) - 1 = j
    BY <1>1
  <2>4. \A i, j \in Up(m) : i - 1 = j - 1 => i = j
    BY <2>1
  <2> HIDE DEF R, Up
  <2>5. f \in [Up(m) -> R(m)] /\ \A i \in Up(m) : f[i] = i - 1
    BY <2>2
  <2> HIDE DEF f
  <2>6. f \in Injection(Up(m), R(m))
    BY <2>4, <2>5 DEF Injection, IsInjective
  <2>7. f \in Surjection(Up(m), R(m))
    BY <2>3, <2>5 DEF Surjection
  <2>8. f \in Bijection(Up(m), R(m))
    BY <2>6, <2>7 DEF Bijection
  <2>9. IsFiniteSet(Up(m))
    <3>1. IsFiniteSet(T(m))
      BY TallyType
    <3> QED BY <3>1, FS_RemoveElement, FS_Subset DEF Up
  <2> QED BY <2>8, <2>9, FS_Bijection DEF ExistsBijection
<1>3. Cardinality(Up(q[1])) = Cardinality(T(q[1])) - 1
  <2>1. IsFiniteSet(T(q[1]))
    BY TallyType
  <2>2. 1 \in T(q[1])
    BY <1>1
  <2> HIDE DEF T
  <2> QED BY <2>1, <2>2, CountRemove
<1>4. \A m : m # q[1] => Up(m) = T(m)
  BY <1>1
<1>5. Tally(t, q[1]) = Tally(q, q[1]) - 1
  BY <1>2, <1>3 DEF Tally
<1>6. \A m : m # q[1] => Tally(t, m) = Tally(q, m)
  BY <1>2, <1>4 DEF Tally
<1> QED BY <1>1, <1>5, <1>6 DEF t

\* What the short sequences of a call or an answer hold.
LEMMA TallyOne ==
    ASSUME NEW S, NEW x \in S
    PROVE  <<x>> \in Seq(S) /\ Tally(<<x>>, x) = 1 /\ \A m : m # x => Tally(<<x>>, m) = 0
<1>1. <<>> \in Seq(S) /\ Append(<<>>, x) = <<x>>
  OBVIOUS
<1>2. /\ Append(<<>>, x) \in Seq(S) /\ Tally(Append(<<>>, x), x) = Tally(<<>>, x) + 1
      /\ \A m : m # x => Tally(Append(<<>>, x), m) = Tally(<<>>, m)
  BY <1>1, TallyAppend
<1> QED BY <1>1, <1>2, TallyEmpty

\* Two messages.
LEMMA Pair == ASSUME NEW S, NEW x \in S, NEW y \in S PROVE Append(<<x>>, y) = <<x, y>>
<1>1. /\ Append(<<x>>, y) \in Seq(S) /\ Len(Append(<<x>>, y)) = 2
      /\ Append(<<x>>, y)[1] = x /\ Append(<<x>>, y)[2] = y
  <2>1. <<x>> \in Seq(S) /\ Len(<<x>>) = 1 /\ <<x>>[1] = x
    OBVIOUS
  <2> QED BY <2>1, AppendProperties
<1>2. <<x, y>> \in Seq(S) /\ Len(<<x, y>>) = 2 /\ <<x, y>>[1] = x /\ <<x, y>>[2] = y
  OBVIOUS
<1>3. \A i \in 1..2 : i = 1 \/ i = 2
  OBVIOUS
<1> QED BY <1>1, <1>2, <1>3, SeqEqual

\* An answer is written behind what was written.
LEMMA Writes ==
    ASSUME NEW S, NEW w \in Seq(S), NEW x \in S, NEW y \in S
    PROVE  /\ w \o <<>> = w /\ w \o <<x>> = Append(w, x)
           /\ w \o <<x, y>> = Append(Append(w, x), y)
<1>1. w \o <<>> = w
  BY ConcatEmptySeq
<1>2. w \o <<x>> = Append(w, x) /\ Append(w, x) \in Seq(S)
  BY AppendIsConcat, AppendProperties
<1>3. Append(Append(w, x), y) = Append(w, x) \o <<y>>
  BY <1>2, AppendIsConcat
<1>4. <<x>> \in Seq(S) /\ <<y>> \in Seq(S) /\ <<x>> \o <<y>> = <<x, y>>
  <2>1. <<x>> \in Seq(S) /\ <<y>> \in Seq(S)
    OBVIOUS
  <2>2. Append(<<x>>, y) = <<x>> \o <<y>>
    BY <2>1, AppendIsConcat
  <2>3. Append(<<x>>, y) = <<x, y>>
    BY Pair
  <2> QED BY <2>1, <2>2, <2>3
<1>5. (w \o <<x>>) \o <<y>> = w \o (<<x>> \o <<y>>)
  BY <1>4, ConcatAssociative
<1> QED BY <1>1, <1>2, <1>3, <1>4, <1>5

-----------------------------------------------------------------------------
(* The answer of a strict application *)

\* The queues of an exchange, and what is counted in them.
LEMMA Answering ==
    ASSUME AnswerInv
    PROVE  /\ out.q \in Seq(Msgs) /\ Len(out.q) \in Nat /\ DOMAIN out.q = 1..Len(out.q)
           /\ active \in Nat /\ starts \in Nat /\ xSaid \in Nat
           /\ \A m : Tally(xWire, m) \in Nat /\ Tally(out.q, m) \in Nat /\ Tally(xTodo, m) \in Nat
           /\ \A m : Tally(out.q, m) = 0 <=> \A i \in 1..Len(out.q) : out.q[i] # m
           /\ \A m : Tally(<<>>, m) = 0
           /\ \A i \in 1..Len(out.q) : out.q[i] \in Msgs
<1>1. xWire \in Seq(Words) /\ out.q \in Seq(Msgs) /\ xTodo \in Seq(Msgs)
  BY DEF AnswerInv
<1>2. \A m : Tally(xWire, m) \in Nat /\ Tally(out.q, m) \in Nat /\ Tally(xTodo, m) \in Nat
  BY <1>1, TallyType
<1>3. \A m : Tally(out.q, m) = 0 <=> \A i \in 1..Len(out.q) : out.q[i] # m
  BY <1>1, TallyType
<1>4. Len(out.q) \in Nat /\ DOMAIN out.q = 1..Len(out.q) /\ \A i \in 1..Len(out.q) : out.q[i] \in Msgs
  BY <1>1, LenProperties, ElementOfSeq
<1> QED BY <1>1, <1>2, <1>3, <1>4, TallyEmpty DEF AnswerInv

\* A step that neither sends, takes nor writes keeps the invariant, also when it
\* gives the exchange up.
LEMMA AnswerSame ==
    ASSUME AnswerInv, UNCHANGED <<xWire, xTodo, end, active, starts, xSaid, sent>>, out'.q = out.q,
           Open' => Open, Torn => Torn', out'.shut => out.shut \/ Torn',
           handler' = "head" => handler = "head" /\ thread' = thread, next' # "sorry",
           thread' = thread \/ (thread \notin {"put", "over"} /\ thread' # "put")
    PROVE  AnswerInv'
<1> HIDE DEF Open, Torn
<1>1. Sending'
  BY DEF AnswerInv, Sending
<1>2. UnderWay'
  BY DEF AnswerInv, UnderWay
<1>3. Written'
  BY DEF AnswerInv, Written, Heads
<1>4. (handler' = "head" => out'.q = <<>> /\ xSaid' = 0 /\ starts' = 0 /\ active' = 0) /\ (out'.shut => Torn')
  BY DEF AnswerInv
<1> QED BY <1>1, <1>2, <1>3, <1>4 DEF AnswerInv

\* The head of the request does not come, or is refused.
LEMMA AnswerHeadFails ==
    ASSUME AnswerInv, FeedInv("strict"), Xch("strict")!HeadFails
    PROVE  AnswerInv'
<1> USE DEF Xch!loopvars, Xch!feedvars, Xch!appvars
<1>1. /\ handler = "head" /\ handler' \in {"over", "sorry"} /\ next' = "over"
      /\ UNCHANGED <<xTodo, end, active, starts, xSaid, sent, thread, out>>
  BY DEF Xch!HeadFails, Xch!Goto
<1>2. ~Open' /\ Torn' /\ handler' # "head"
  BY <1>1 DEF Open, Torn
<1>3. CASE UNCHANGED xWire
  BY <1>1, <1>2, <1>3, AnswerSame
<1>4. ASSUME NEW w \in {"500", "refused"}, xWire' = Append(xWire, w) PROVE AnswerInv'
  <2>1. xWire = <<>> /\ ~sent /\ xWire \in Seq(Words) /\ w \in Words
    BY <1>1, <1>4 DEF AnswerInv, Written, Words
  <2>2. /\ xWire' \in Seq(Words) /\ Tally(xWire', w) = Tally(xWire, w) + 1
        /\ \A m : m # w => Tally(xWire', m) = Tally(xWire, m)
    <3> DEFINE a == Append(xWire, w)
    <3>1. /\ a \in Seq(Words) /\ Tally(a, w) = Tally(xWire, w) + 1
          /\ \A m : m # w => Tally(a, m) = Tally(xWire, m)
      <4>1. xWire \in Seq(Words) /\ w \in Words
        BY <2>1
      <4> QED BY <4>1, TallyAppend
    <3>2. xWire' = a
      BY <1>4
    <3> HIDE DEF a
    <3> QED BY <3>1, <3>2
  <2>3. \A m : Tally(xWire, m) = 0
    BY <2>1, TallyEmpty
  <2>4. /\ Tally(xWire', "last") = 0 /\ Tally(xWire', "empty") = 0
        /\ Tally(xWire', "head") = 0 /\ Tally(xWire', "500") + Tally(xWire', "refused") = 1
        /\ Tally(xWire', "500") \in Nat /\ Tally(xWire', "refused") \in Nat
    BY <1>4, <2>2, <2>3
  <2> HIDE DEF Open, Torn
  <2>5. Written'
    BY <1>1, <1>2, <2>1, <2>4 DEF AnswerInv, Written, Heads
  <2>6. Sending' /\ UnderWay'
    BY <1>1, <1>2 DEF AnswerInv, Sending, UnderWay
  <2> QED BY <1>1, <1>2, <2>2, <2>5, <2>6 DEF AnswerInv
<1> QED BY <1>3, <1>4 DEF Xch!HeadFails

\* The head is read, and the application will run.
LEMMA AnswerHeadRead ==
    ASSUME AnswerInv, FeedInv("strict"), Xch("strict")!HeadRead
    PROVE  AnswerInv'
<1> USE DEF Xch!loopvars, Xch!feedvars, Xch!appvars
<1>1. /\ handler = "head" /\ handler' = "recv" /\ next' = "over" /\ thread' = "queued" /\ thread = "none"
      /\ UNCHANGED <<xWire, xTodo, end, active, starts, xSaid, sent, out>>
  BY DEF Xch!HeadRead, Xch!Goto, FeedInv
<1>2. /\ xTodo = <<>> /\ end = "none" /\ xWire = <<>> /\ ~sent /\ out.q = <<>>
      /\ xSaid = 0 /\ starts = 0 /\ active = 0 /\ ~Torn /\ ~out.shut
  BY <1>1 DEF AnswerInv, Sending, Written, Torn
<1>3. \A m : Tally(xWire', m) = 0 /\ Tally(out'.q, m) = 0 /\ Tally(xTodo', m) = 0
  BY <1>1, <1>2, TallyEmpty
<1>4. Written'
  BY <1>1, <1>2, <1>3 DEF Written, Heads, Open
<1>5. Sending' /\ UnderWay'
  BY <1>1, <1>2 DEF Sending, UnderWay
<1> QED BY <1>1, <1>2, <1>4, <1>5 DEF AnswerInv

\* While the application runs nothing is being sent and its end is not under way.
LEMMA Running ==
    ASSUME AnswerInv, FeedInv("strict"), thread = "app"
    PROVE  /\ xTodo = <<>> /\ end = "none" /\ handler # "head" /\ Taken["strict"] = {}
           /\ \A i \in 1..Len(out.q) : out.q[i] \in {"START", "DATA"}
           /\ Tally(xWire, "last") = 0 /\ Tally(xWire, "empty") = 0
           /\ \A m : Tally(xTodo, m) = 0
<1>1. xTodo = <<>> /\ end = "none" /\ handler # "head" /\ Taken["strict"] = {}
  BY WebAssumptions DEF AnswerInv, Sending, FeedInv
<1>2. \A i \in 1..Len(out.q) : out.q[i] \in {"START", "DATA"}
  BY <1>1, Answering DEF AnswerInv, UnderWay, Msgs
<1>3. ~(Tally(xWire, "last") + Tally(xWire, "empty") > 0)
  BY DEF AnswerInv, Written
<1>4. Tally(xWire, "last") = 0 /\ Tally(xWire, "empty") = 0
  BY <1>3, Answering
<1> QED BY <1>1, <1>2, <1>4, TallyEmpty

\* A call of start_response that is accepted.
LEMMA AnswerStart ==
    ASSUME AnswerInv, FeedInv("strict"), Xch("strict")!start_response
    PROVE  AnswerInv'
<1> USE DEF Xch!loopvars, Xch!feedvars, Xch!appvars
<1>1. /\ thread = "app" /\ thread' = "put" /\ xTodo' = <<"START">> /\ starts' = starts + 1
      /\ UNCHANGED <<xWire, end, active, xSaid, sent, out, handler, next>>
  BY DEF Xch!start_response, Xch!Say
<1>2. /\ xTodo = <<>> /\ end = "none" /\ handler # "head" /\ Taken["strict"] = {}
      /\ \A i \in 1..Len(out.q) : out.q[i] \in {"START", "DATA"}
      /\ Tally(xWire, "last") = 0 /\ Tally(xWire, "empty") = 0
      /\ \A m : Tally(xTodo, m) = 0
  BY <1>1, Running
<1>3. /\ starts = 0 \/ (starts = 1 /\ ~sent /\ xSaid = 0)
  BY <1>2 DEF Xch!start_response
<1>4. ~sent /\ xSaid = 0
  BY <1>2, <1>3 DEF AnswerInv, Written
<1>5. Open => \A i \in 1..Len(out.q) : out.q[i] = "START"
  <2>1. Open => Tally(xWire, "data") + Tally(out.q, "DATA") + Tally(xTodo, "DATA") = 0
    BY <1>4 DEF AnswerInv, Written
  <2>2. Open => Tally(out.q, "DATA") = 0
    BY <2>1, Answering
  <2> QED BY <1>2, <2>2, Answering
<1>6. /\ <<"START">> \in Seq(Msgs) /\ Tally(<<"START">>, "START") = 1 /\ Tally(<<"START">>, "DATA") = 0
      /\ <<"START">> # <<"END">>
  BY TallyOne DEF Msgs
<1>7. Torn' = Torn /\ Open' = Open
  BY <1>1 DEF Torn, Open
<1>8. Sending'
  BY <1>1, <1>2 DEF Sending
<1>9. UnderWay'
  <2> HIDE DEF Open
  <2> QED BY <1>1, <1>2, <1>5, <1>6, <1>7 DEF AnswerInv, UnderWay
<1>10. Open /\ ~sent => active + Tally(out.q, "START") + 1 = starts + 1
  <2>1. Open /\ ~sent => active + Tally(out.q, "START") + 0 = starts
    BY <1>2 DEF AnswerInv, Written
  <2> QED BY <2>1, Answering
<1>11. Written'
  <2> HIDE DEF Open
  <2> QED BY <1>1, <1>2, <1>4, <1>6, <1>7, <1>10, Answering DEF AnswerInv, Written, Heads
<1> QED BY <1>1, <1>2, <1>6, <1>7, <1>8, <1>9, <1>11, Answering DEF AnswerInv

\* The application yields.
LEMMA AnswerYield ==
    ASSUME AnswerInv, FeedInv("strict"), Xch("strict")!Yield
    PROVE  AnswerInv'
<1> USE DEF Xch!loopvars, Xch!feedvars, Xch!appvars
<1>1. thread = "app" /\ starts > 0
  BY DEF Xch!Yield
<1>2. /\ xTodo = <<>> /\ end = "none" /\ handler # "head" /\ Taken["strict"] = {}
      /\ \A i \in 1..Len(out.q) : out.q[i] \in {"START", "DATA"}
      /\ Tally(xWire, "last") = 0 /\ Tally(xWire, "empty") = 0
      /\ \A m : Tally(xTodo, m) = 0
  BY <1>1, Running
<1>3. /\ thread' = "put" /\ xTodo' = <<"DATA">> /\ xSaid' = xSaid + 1
      /\ UNCHANGED <<xWire, end, active, starts, sent, out, handler, next>>
  BY <1>2 DEF Xch!Yield, Xch!Say
<1>6. /\ <<"DATA">> \in Seq(Msgs) /\ Tally(<<"DATA">>, "DATA") = 1 /\ Tally(<<"DATA">>, "START") = 0
      /\ <<"DATA">> # <<"END">> /\ <<"DATA">> # <<"START">>
  BY TallyOne DEF Msgs
<1>7. Torn' = Torn /\ Open' = Open
  BY <1>3 DEF Torn, Open
<1>8. Sending'
  BY <1>3, <1>2 DEF Sending
<1>9. UnderWay'
  <2> HIDE DEF Open
  <2> QED BY <1>3, <1>2, <1>6, <1>7 DEF AnswerInv, UnderWay
<1>10. Open => Tally(xWire, "data") + Tally(out.q, "DATA") + 1 = xSaid + 1
  <2>1. Open => Tally(xWire, "data") + Tally(out.q, "DATA") + 0 = xSaid
    BY <1>2 DEF AnswerInv, Written
  <2> QED BY <2>1, Answering
<1>11. Written'
  <2> HIDE DEF Open
  <2>1. starts # 0
    BY <1>1, Answering
  <2> QED BY <2>1, <1>3, <1>2, <1>6, <1>7, <1>10 DEF AnswerInv, Written, Heads
<1> QED BY <1>3, <1>2, <1>6, <1>7, <1>8, <1>9, <1>11, Answering DEF AnswerInv

\* It returns or raises.
LEMMA AnswerAppEnds ==
    ASSUME AnswerInv, FeedInv("strict"), Xch("strict")!AppEnds
    PROVE  AnswerInv'
<1> USE DEF Xch!loopvars, Xch!feedvars, Xch!appvars
<1>1. thread = "app"
  BY DEF Xch!AppEnds
<1>2. /\ xTodo = <<>> /\ end = "none" /\ handler # "head" /\ Taken["strict"] = {}
      /\ \A i \in 1..Len(out.q) : out.q[i] \in {"START", "DATA"}
      /\ Tally(xWire, "last") = 0 /\ Tally(xWire, "empty") = 0
      /\ \A m : Tally(xTodo, m) = 0
  BY <1>1, Running
<1>3. /\ thread' = "put"
      /\ \/ xTodo' = <<"END">> /\ end' = "ok" /\ starts > 0
         \/ xTodo' = <<"ERROR", "END">> /\ end' = "error"
      /\ UNCHANGED <<xWire, xSaid, active, starts, sent, out, handler, next>>
  BY <1>2 DEF Xch!AppEnds, Xch!Say
<1>6. /\ xTodo' \in Seq(Msgs) /\ Tally(xTodo', "DATA") = 0 /\ Tally(xTodo', "START") = 0
      /\ (end' = "error" => xTodo' # <<"END">>) /\ xTodo' # <<"START">>
  <2>1. CASE xTodo' = <<"END">> /\ end' = "ok"
    BY <2>1, TallyOne DEF Msgs
  <2>2. CASE xTodo' = <<"ERROR", "END">> /\ end' = "error"
    <3>1. /\ <<"ERROR">> \in Seq(Msgs) /\ Tally(<<"ERROR">>, "DATA") = 0 /\ Tally(<<"ERROR">>, "START") = 0
          /\ "END" \in Msgs
      BY TallyOne DEF Msgs
    <3>2. Append(<<"ERROR">>, "END") = <<"ERROR", "END">>
      <4>1. "ERROR" \in Msgs /\ "END" \in Msgs
        BY DEF Msgs
      <4> QED BY <4>1, Pair
    <3>3. /\ Append(<<"ERROR">>, "END") \in Seq(Msgs)
          /\ \A m : m # "END" => Tally(Append(<<"ERROR">>, "END"), m) = Tally(<<"ERROR">>, m)
      BY <3>1, TallyAppend
    <3>4. <<"ERROR", "END">> # <<"END">> /\ <<"ERROR", "END">> # <<"START">>
      OBVIOUS
    <3> QED BY <2>2, <3>1, <3>2, <3>3, <3>4
  <2> QED BY <1>3, <2>1, <2>2
<1>7. Torn' = Torn /\ Open' = Open
  BY <1>3 DEF Torn, Open
<1>8. Sending' /\ end' # "pipe" /\ end' # "none"
  BY <1>3, <1>2 DEF Sending
<1>9. UnderWay'
  <2> HIDE DEF Open
  <2> QED BY <1>3, <1>2, <1>6, <1>7 DEF AnswerInv, UnderWay
<1>11. Written'
  <2> HIDE DEF Open
  <2>1. end' = "ok" => starts # 0
    BY <1>3, Answering
  <2> QED BY <2>1, <1>3, <1>2, <1>6, <1>7 DEF AnswerInv, Written, Heads
<1> QED BY <1>3, <1>2, <1>6, <1>7, <1>8, <1>9, <1>11, Answering DEF AnswerInv

\* T is what the thread has left to send behind an m.
OneLess(m, T) == Tally(xTodo, m) = Tally(T, m) + 1 /\ \A x : x # m => Tally(xTodo, x) = Tally(T, x)

\* The thread sends a message m and has T left to send.
LEMMA AnswerSends ==
    ASSUME AnswerInv, NEW m \in Msgs, NEW T \in Seq(Msgs),
           thread = "put", out'.q = Append(out.q, m), out'.shut = out.shut, xTodo' = T,
           UNCHANGED <<xWire, xSaid, active, starts, sent, handler, next, end>>,
           OneLess(m, T),
           T = <<>> => thread' = IF end = "none" THEN "app" ELSE "over",
           T # <<>> => thread' = "put",
           T = <<>> \/ T = <<"END">>,
           m = "END" => T = <<>> /\ end \in {"ok", "error"} /\ xTodo = <<"END">>,
           m = "ERROR" => T = <<"END">> /\ end = "error",
           m \in {"START", "DATA"} => end = "none" /\ T = <<>>,
           m = "START" => xTodo = <<"START">>
    PROVE  AnswerInv'
<1> DEFINE q == out.q
           n == Len(out.q)
           a == Append(out.q, m)
<1>1. /\ q \in Seq(Msgs) /\ n \in Nat /\ a \in Seq(Msgs) /\ Len(a) = n + 1
      /\ a[n + 1] = m
      /\ \A i \in 1..n : a[i] = q[i]
  BY Answering, AppendProperties
<1>2. /\ Tally(a, m) = Tally(q, m) + 1
      /\ \A x : x # m => Tally(a, x) = Tally(q, x)
  BY <1>1, TallyAppend
<1>3. \A i \in 1..(n + 1) : i \in 1..n \/ i = n + 1
  BY <1>1
<1>4. Open' = Open /\ Torn' = Torn
  BY DEF Open, Torn
<1>5. out'.q = a
  OBVIOUS
<1>6. \A i \in 1..n : q[i] # "END"
  BY DEF AnswerInv, UnderWay
<1>7. \A x : Tally(a, x) + Tally(T, x) = Tally(q, x) + Tally(xTodo, x)
  <2> SUFFICES ASSUME NEW x PROVE Tally(a, x) + Tally(T, x) = Tally(q, x) + Tally(xTodo, x)
    OBVIOUS
  <2>1. Tally(q, x) \in Nat /\ Tally(T, x) \in Nat
    BY Answering, TallyType
  <2> QED BY <1>2, <2>1 DEF OneLess
<1>8. Tally(xWire, "last") = 0 /\ Tally(xWire, "empty") = 0 /\ handler # "head"
  <2>1. ~(Tally(xWire, "last") + Tally(xWire, "empty") > 0) /\ handler # "head"
    BY DEF AnswerInv, Written
  <2> QED BY <2>1, Answering
<1> HIDE DEF a, n, q, Open, Torn
<1>9. UnderWay'
  <2>1. \A i \in 1..(n + 1) : a[i] = "END" => i = n + 1 /\ thread' = "over"
    BY <1>1, <1>3, <1>6
  <2>2. \A i \in 1..(n + 1) : (a[i] = "END" => end # "none") /\ (a[i] = "ERROR" => end = "error")
    <3>1. \A i \in 1..n : (q[i] = "END" => end # "none") /\ (q[i] = "ERROR" => end = "error")
      BY DEF AnswerInv, UnderWay, q, n
    <3> QED BY <1>1, <1>3, <3>1
  <2>3. Open /\ end = "error" =>
             /\ \A i \in 1..(n + 1) : a[i] = "END" => i > 1 /\ a[i - 1] = "ERROR"
             /\ T = <<"END">> => n + 1 > 0 /\ a[n + 1] = "ERROR"
    <3> SUFFICES ASSUME Open, end = "error"
                 PROVE  /\ \A i \in 1..(n + 1) : a[i] = "END" => i > 1 /\ a[i - 1] = "ERROR"
                        /\ T = <<"END">> => n + 1 > 0 /\ a[n + 1] = "ERROR"
      OBVIOUS
    <3>1. xTodo = <<"END">> => n > 0 /\ q[n] = "ERROR"
      BY DEF AnswerInv, UnderWay, q, n
    <3>2. m = "END" => n > 0 /\ a[n] = "ERROR"
      <4>1. n > 0 => n \in 1..n
        BY <1>1
      <4> QED BY <1>1, <3>1, <4>1
    <3>3. \A i \in 1..(n + 1) : a[i] = "END" => i = n + 1 /\ m = "END"
      BY <1>1, <1>3, <1>6
    <3>4. n > 0 => n + 1 > 1 /\ (n + 1) - 1 = n
      BY <1>1
    <3>5. T = <<"END">> => m = "ERROR"
      <4>1. <<>> # <<"END">> /\ m \in {"START", "DATA", "ERROR", "END"}
        BY DEF Msgs
      <4> QED BY <4>1
    <3>6. ASSUME NEW i \in 1..(n + 1), a[i] = "END" PROVE i > 1 /\ a[i - 1] = "ERROR"
      <4>1. i = n + 1 /\ n > 0 /\ a[n] = "ERROR"
        BY <3>2, <3>3, <3>6
      <4>2. n + 1 > 1 /\ (n + 1) - 1 = n
        BY <3>4, <4>1
      <4> QED BY <4>1, <4>2
    <3>7. n + 1 > 0
      BY <1>1
    <3> QED BY <1>1, <3>5, <3>6, <3>7
  <2>4. Open => \A i, j \in 1..(n + 1) : i < j /\ a[j] = "START" => a[i] = "START"
    <3> SUFFICES ASSUME Open, NEW i \in 1..(n + 1), NEW j \in 1..(n + 1), i < j, a[j] = "START"
                 PROVE  a[i] = "START"
      OBVIOUS
    <3>1. i \in 1..n
      BY <1>1
    <3>2. CASE j \in 1..n
      BY <1>1, <3>1, <3>2 DEF AnswerInv, UnderWay, q, n
    <3>3. CASE j = n + 1
      BY <1>1, <3>1, <3>3 DEF AnswerInv, UnderWay, q, n
    <3> QED BY <1>3, <3>2, <3>3
  <2>5. T # <<"START">>
    <3>1. <<>> # <<"START">> /\ <<"END">> # <<"START">>
      OBVIOUS
    <3> QED BY <3>1
  <2> QED BY <1>1, <1>4, <1>5, <2>1, <2>2, <2>3, <2>4, <2>5 DEF UnderWay
<1>10. Sending'
  <2>1. CASE T = <<>>
    BY <2>1 DEF Sending
  <2>2. CASE T = <<"END">>
    <3>1. <<>> # <<"END">> /\ m \in {"START", "DATA", "ERROR", "END"}
      BY DEF Msgs
    <3> QED BY <2>2, <3>1 DEF Sending
  <2> QED BY <2>1, <2>2
<1>11. Written'
  <2>1. Open => Tally(xWire, "data") + Tally(a, "DATA") + Tally(T, "DATA") = xSaid
    <3>1. /\ Tally(xWire, "data") \in Nat /\ Tally(a, "DATA") \in Nat /\ Tally(T, "DATA") \in Nat
          /\ Tally(q, "DATA") \in Nat /\ Tally(xTodo, "DATA") \in Nat
      BY <1>1, Answering, TallyType DEF q
    <3>2. Open => Tally(xWire, "data") + Tally(q, "DATA") + Tally(xTodo, "DATA") = xSaid
      BY DEF AnswerInv, Written, q
    <3>3. Tally(a, "DATA") + Tally(T, "DATA") = Tally(q, "DATA") + Tally(xTodo, "DATA")
      BY <1>7
    <3>4. Tally(xWire, "data") + Tally(a, "DATA") + Tally(T, "DATA") = Tally(xWire, "data") + Tally(q, "DATA") + Tally(xTodo, "DATA")
      <4> DEFINE w == Tally(xWire, "data")
                 c == Tally(a, "DATA")
                 d == Tally(T, "DATA")
                 e == Tally(q, "DATA")
                 f == Tally(xTodo, "DATA")
      <4>1. w \in Nat /\ c \in Nat /\ d \in Nat /\ e \in Nat /\ f \in Nat /\ c + d = e + f
        BY <3>1, <3>3
      <4> HIDE DEF w, c, d, e, f
      <4>2. w + c + d = w + e + f
        BY <4>1
      <4> QED BY <4>2 DEF w, c, d, e, f
    <3> QED BY <3>2, <3>4
  <2>2. Open /\ ~sent => active + Tally(a, "START") + Tally(T, "START") = starts
    <3>1. /\ active \in Nat /\ Tally(a, "START") \in Nat /\ Tally(T, "START") \in Nat
          /\ Tally(q, "START") \in Nat /\ Tally(xTodo, "START") \in Nat
      BY <1>1, Answering, TallyType DEF q
    <3>2. Open /\ ~sent => active + Tally(q, "START") + Tally(xTodo, "START") = starts
      BY DEF AnswerInv, Written, q
    <3>3. Tally(a, "START") + Tally(T, "START") = Tally(q, "START") + Tally(xTodo, "START")
      BY <1>7
    <3>4. active + Tally(a, "START") + Tally(T, "START") = active + Tally(q, "START") + Tally(xTodo, "START")
      <4> DEFINE c == Tally(a, "START")
                 d == Tally(T, "START")
                 e == Tally(q, "START")
                 f == Tally(xTodo, "START")
      <4>1. active \in Nat /\ c \in Nat /\ d \in Nat /\ e \in Nat /\ f \in Nat /\ c + d = e + f
        BY <3>1, <3>3
      <4> HIDE DEF c, d, e, f
      <4>2. active + c + d = active + e + f
        BY <4>1
      <4> QED BY <4>2 DEF c, d, e, f
    <3> QED BY <3>2, <3>4
  <2> QED BY <1>4, <1>5, <1>8, <2>1, <2>2 DEF AnswerInv, Written, Heads
<1> QED BY <1>1, <1>4, <1>5, <1>8, <1>9, <1>10, <1>11 DEF AnswerInv

\* The first message of a call is sent, or the channel is found closed.
LEMMA AnswerPut ==
    ASSUME AnswerInv, FeedInv("strict"), Xch("strict")!Put
    PROVE  AnswerInv'
<1> USE DEF Xch!loopvars, Xch!feedvars, Xch!appvars
<1>1. thread = "put" /\ UNCHANGED <<xWire, xSaid, active, starts, sent, handler, next, end>>
  BY DEF Xch!Put
<1>2. CASE out.shut /\ thread' = "over" /\ xTodo' = <<>> /\ UNCHANGED out
  <2>1. Torn /\ Torn' /\ ~Open' /\ handler' # "head"
    BY <1>1, <1>2 DEF AnswerInv, Torn, Open
  <2>2. <<>> \in Seq(Msgs)
    OBVIOUS
  <2> HIDE DEF Torn, Open
  <2>3. Sending' /\ UnderWay'
    BY <1>1, <1>2, <2>1 DEF AnswerInv, Sending, UnderWay
  <2>4. Written'
    BY <1>1, <1>2, <2>1 DEF AnswerInv, Written, Heads
  <2> QED BY <1>1, <1>2, <2>1, <2>2, <2>3, <2>4 DEF AnswerInv
<1>3. CASE ~out.shut
  <2>1. /\ out' = [out EXCEPT !.q = Append(out.q, Head(xTodo))] /\ xTodo' = Tail(xTodo)
        /\ thread' = IF Len(xTodo) > 1 THEN "put" ELSE IF end = "none" THEN "app" ELSE "over"
    BY <1>3 DEF Xch!Put
  <2>2. ASSUME NEW x \in Msgs PROVE out' = [out EXCEPT !.q = Append(out.q, x)]
                                      => out'.q = Append(out.q, x) /\ out'.shut = out.shut
    <3>1. x \in AllMsgs /\ out \in [q : Seq(AllMsgs), shut : BOOLEAN]
      BY <2>2 DEF Msgs, AllMsgs, FeedInv
    <3>2. Append(out.q, x) \in Seq(AllMsgs)
      BY <3>1, AppendProperties
    <3> QED BY <3>1, <3>2, Rechannelled
  <2>3. ASSUME NEW x \in Msgs, xTodo = <<x>> PROVE
           /\ out'.q = Append(out.q, x) /\ out'.shut = out.shut /\ xTodo' = <<>>
           /\ thread' = IF end = "none" THEN "app" ELSE "over"
           /\ OneLess(x, <<>>)
    <3>1. Head(<<x>>) = x /\ Tail(<<x>>) = <<>> /\ Len(<<x>>) = 1
      OBVIOUS
    <3>2. xTodo' = <<>> /\ thread' = (IF end = "none" THEN "app" ELSE "over")
      BY <2>1, <2>3, <3>1
    <3>3. out'.q = Append(out.q, x) /\ out'.shut = out.shut
      BY <2>1, <2>2, <2>3, <3>1
    <3>4. /\ Tally(<<x>>, x) = 1
          /\ \A y : y # x => Tally(<<x>>, y) = 0
          /\ \A y : Tally(<<>>, y) = 0
      BY TallyOne, TallyEmpty
    <3>5. OneLess(x, <<>>)
      BY <2>3, <3>4 DEF OneLess
    <3> QED BY <3>2, <3>3, <3>5
  <2>4. /\ "START" \in Msgs /\ "DATA" \in Msgs /\ "ERROR" \in Msgs /\ "END" \in Msgs
        /\ <<>> \in Seq(Msgs) /\ <<"END">> \in Seq(Msgs) /\ <<>> # <<"END">>
    BY DEF Msgs
  <2>5. CASE xTodo \in {<<"START">>, <<"DATA">>} /\ end = "none"
    <3>1. PICK x \in {"START", "DATA"} : xTodo = <<x>>
      BY <2>5
    <3>2. /\ out'.q = Append(out.q, x) /\ out'.shut = out.shut /\ xTodo' = <<>>
          /\ thread' = IF end = "none" THEN "app" ELSE "over"
          /\ OneLess(x, <<>>) /\ x \in Msgs
      BY <2>3, <2>4, <3>1
    <3>3. x = "START" => xTodo = <<"START">>
      BY <3>1
    <3>4. x # "ERROR" /\ x # "END"
      BY <3>1
    <3> QED BY <1>1, <2>4, <2>5, <3>2, <3>3, <3>4, AnswerSends
  <2>6. CASE xTodo = <<"END">> /\ end \in {"ok", "error"}
    <3>2. /\ out'.q = Append(out.q, "END") /\ out'.shut = out.shut /\ xTodo' = <<>>
          /\ thread' = IF end = "none" THEN "app" ELSE "over"
          /\ OneLess("END", <<>>)
      BY <2>3, <2>4, <2>6
    <3> QED BY <1>1, <2>4, <2>6, <3>2, AnswerSends
  <2>7. CASE xTodo = <<"ERROR", "END">> /\ end = "error"
    <3>1. /\ Head(<<"ERROR", "END">>) = "ERROR" /\ Tail(<<"ERROR", "END">>) = <<"END">>
          /\ Len(<<"ERROR", "END">>) = 2 /\ <<"ERROR", "END">> # <<>>
      OBVIOUS
    <3>2. xTodo' = <<"END">> /\ thread' = "put"
      BY <2>1, <2>7, <3>1
    <3>3. out'.q = Append(out.q, "ERROR") /\ out'.shut = out.shut
      BY <2>1, <2>2, <2>4, <2>7, <3>1
    <3>4. /\ Tally(<<"END">>, "ERROR") = Tally(xTodo, "ERROR") - 1
          /\ \A y : y # "ERROR" => Tally(<<"END">>, y) = Tally(xTodo, y)
      <4>1. xTodo \in Seq(Msgs) /\ xTodo # <<>> /\ Head(xTodo) = "ERROR" /\ Tail(xTodo) = <<"END">>
        BY <2>7, <3>1 DEF AnswerInv
      <4>2. /\ Tally(Tail(xTodo), Head(xTodo)) = Tally(xTodo, Head(xTodo)) - 1
            /\ \A y : y # Head(xTodo) => Tally(Tail(xTodo), y) = Tally(xTodo, y)
        BY <4>1, TallyTail
      <4> QED BY <4>1, <4>2
    <3>5. OneLess("ERROR", <<"END">>)
      BY <3>4, Answering DEF OneLess
    <3> QED BY <1>1, <2>4, <2>7, <3>2, <3>3, <3>5, AnswerSends
  <2> QED BY <1>1, <2>5, <2>6, <2>7 DEF AnswerInv, Sending
<1> QED BY <1>2, <1>3 DEF Xch!Put

\* Taking a message leaves the others in their order.
LEMMA Taking ==
    ASSUME AnswerInv, FeedInv("strict"), Xch("strict")!Consume
    PROVE  /\ handler = "recv" /\ Open /\ Len(out.q) \in Nat \ {0} /\ Head(out.q) = out.q[1]
           /\ out.q[1] \in Msgs /\ out.q \in Seq(Msgs) /\ out.q # <<>>
           /\ Tail(out.q) \in Seq(Msgs) /\ Len(Tail(out.q)) = Len(out.q) - 1
           /\ \A i \in 1..(Len(out.q) - 1) : Tail(out.q)[i] = out.q[i + 1]
           /\ out'.q = Tail(out.q) /\ handler' \in {"recv", "drain", "ending"}
           /\ (out'.shut => handler' = "ending")
           /\ UNCHANGED <<chunked, thread, xTodo, end, starts, xSaid>>
<1> USE DEF Xch!loopvars, Xch!feedvars, Xch!appvars
<1>1. handler = "recv" /\ Open /\ out.q # <<>> /\ ~Torn
  BY DEF Xch!Consume, Open, Torn
<1>2. /\ Len(out.q) \in Nat \ {0} /\ Head(out.q) = out.q[1] /\ out.q[1] \in Msgs /\ out.q \in Seq(Msgs)
      /\ Tail(out.q) \in Seq(Msgs) /\ Len(Tail(out.q)) = Len(out.q) - 1
      /\ \A i \in 1..(Len(out.q) - 1) : Tail(out.q)[i] = out.q[i + 1]
  <2>1. out.q \in Seq(Msgs)
    BY DEF AnswerInv
  <2> QED BY <1>1, <2>1, HeadTailProperties, LenProperties, EmptySeq
<1>3. /\ handler' \in {"recv", "drain", "ending"}
      /\ \/ out' = [out EXCEPT !.q = Tail(out.q)]
         \/ out' = [[out EXCEPT !.q = Tail(out.q)] EXCEPT !.shut = TRUE] /\ handler' = "ending"
      /\ UNCHANGED <<chunked, thread, xTodo, end, starts, xSaid>>
  BY <1>1 DEF Xch!Consume, Xch!Goto, Xch!Teardown
<1>4. out \in [q : Seq(AllMsgs), shut : BOOLEAN] /\ Tail(out.q) \in Seq(AllMsgs)
  BY <1>1, HeadTailProperties DEF FeedInv
<1>5. /\ out'.q = Tail(out.q)
      /\ out'.shut = out.shut \/ handler' = "ending"
  BY <1>3, <1>4, Rechannelled
<1>6. ~out.shut
  BY <1>1 DEF AnswerInv
<1> QED BY <1>1, <1>2, <1>3, <1>5, <1>6

\* What the handler makes of a message, for an application that takes no liberty.
LEMMA TakingMessage ==
    ASSUME AnswerInv, FeedInv("strict"), Xch("strict")!Consume
    PROVE  \/ ~Open' /\ UNCHANGED <<xWire, sent, active>>
           \/ /\ out.q[1] = "START" /\ handler' = "recv" /\ UNCHANGED <<xWire, sent>>
              /\ active' = IF sent THEN active ELSE active + 1
           \/ /\ out.q[1] = "DATA" /\ Open' /\ sent' = TRUE /\ UNCHANGED active
              /\ xWire' = IF sent THEN Append(xWire, "data") ELSE Append(Append(xWire, "head"), "data")
           \/ /\ out.q[1] = "ERROR" /\ ~Open' /\ sent' = TRUE /\ UNCHANGED active
              /\ xWire' = IF sent THEN xWire ELSE Append(xWire, "500")
           \/ /\ out.q[1] = "END" /\ ~Open' /\ sent' = TRUE /\ UNCHANGED active
              /\ xWire' = IF sent THEN (IF chunked THEN Append(xWire, "last") ELSE xWire)
                                  ELSE Append(xWire, "empty")
<1> USE DEF Xch!loopvars, Xch!feedvars, Xch!appvars
<1>1. /\ handler = "recv" /\ Head(out.q) = out.q[1]
      /\ out.q[1] \in {"START", "DATA", "ERROR", "END"}
  BY Taking DEF Msgs
<1>2. /\ "head" \in Words /\ "data" \in Words /\ "500" \in Words /\ "last" \in Words
      /\ "empty" \in Words /\ xWire \in Seq(Words)
  BY DEF Words, AnswerInv
<1>3. /\ xWire \o <<>> = xWire
      /\ xWire \o <<"data">> = Append(xWire, "data") /\ xWire \o <<"500">> = Append(xWire, "500")
      /\ xWire \o <<"last">> = Append(xWire, "last") /\ xWire \o <<"empty">> = Append(xWire, "empty")
      /\ xWire \o <<"head", "data">> = Append(Append(xWire, "head"), "data")
  BY <1>2, Writes
<1>4. sent \in BOOLEAN /\ chunked \in BOOLEAN
  BY DEF FeedInv, Xch!TypeOK
<1>5. CASE handler' = "ending" /\ UNCHANGED <<xWire, sent, active>>
  BY <1>5 DEF Open
<1>6. CASE /\ xWire' = xWire \o Xch("strict")!Answer(out.q[1])
           /\ sent' = (sent \/ out.q[1] # "START")
           /\ active' = IF out.q[1] = "START" /\ ~sent THEN active + 1 ELSE active
           /\ \/ out.q[1] = "START" /\ UNCHANGED <<handler, next>>
              \/ out.q[1] = "DATA" /\ handler' = "drain" /\ next' = "recv"
              \/ out.q[1] \in {"ERROR", "END"} /\ handler' = "drain" /\ next' = "ending"
              \/ out.q[1] \in {"ERROR", "END"} /\ handler' = "ending"
  <2>1. CASE out.q[1] = "START"
    <3>1. Xch("strict")!Answer(out.q[1]) = <<>>
      BY <2>1 DEF Xch!Answer
    <3>2. xWire' = xWire /\ sent' = sent
      BY <1>3, <1>4, <1>6, <2>1, <3>1
    <3>3. active' = (IF sent THEN active ELSE active + 1) /\ handler' = "recv"
      BY <1>1, <1>6, <2>1
    <3> QED BY <2>1, <3>2, <3>3
  <2>2. CASE out.q[1] = "DATA"
    <3>1. Xch("strict")!Answer(out.q[1]) = IF sent THEN <<"data">> ELSE <<"head", "data">>
      BY <2>2 DEF Xch!Answer
    <3>2. xWire' = (IF sent THEN Append(xWire, "data") ELSE Append(Append(xWire, "head"), "data"))
      BY <1>3, <1>6, <3>1
    <3>3. sent' = TRUE /\ active' = active /\ Open'
      BY <1>6, <2>2 DEF Open
    <3> QED BY <2>2, <3>2, <3>3
  <2>3. CASE out.q[1] = "ERROR"
    <3>1. Xch("strict")!Answer(out.q[1]) = IF sent THEN <<>> ELSE <<"500">>
      BY <2>3 DEF Xch!Answer
    <3>2. xWire' = (IF sent THEN xWire ELSE Append(xWire, "500"))
      BY <1>3, <1>6, <3>1
    <3>3. sent' = TRUE /\ active' = active /\ ~Open'
      BY <1>6, <2>3 DEF Open
    <3> QED BY <2>3, <3>2, <3>3
  <2>4. CASE out.q[1] = "END"
    <3>1. Xch("strict")!Answer(out.q[1]) =
            IF ~sent THEN <<"empty">> ELSE IF chunked THEN <<"last">> ELSE <<>>
      BY <2>4 DEF Xch!Answer
    <3>2. xWire' = (IF sent THEN (IF chunked THEN Append(xWire, "last") ELSE xWire)
                            ELSE Append(xWire, "empty"))
      BY <1>3, <1>6, <3>1
    <3>3. sent' = TRUE /\ active' = active /\ ~Open'
      BY <1>6, <2>4 DEF Open
    <3> QED BY <2>4, <3>2, <3>3
  <2> QED BY <1>1, <2>1, <2>2, <2>3, <2>4
<1> QED BY <1>1, <1>5, <1>6 DEF Xch!Consume, Xch!Goto

\* A call's messages hold a START only if it is the only one.
LEMMA NoStart == ASSUME AnswerInv, xTodo # <<"START">> PROVE Tally(xTodo, "START") = 0
<1>1. CASE xTodo = <<>>
  BY <1>1, TallyEmpty
<1>2. CASE xTodo = <<"DATA">> \/ xTodo = <<"END">>
  <2>1. "DATA" \in Msgs /\ "END" \in Msgs
    BY DEF Msgs
  <2> QED BY <1>2, <2>1, TallyOne
<1>3. CASE xTodo = <<"ERROR", "END">>
  <2>1. /\ <<"ERROR", "END">> \in Seq(Msgs) /\ Len(<<"ERROR", "END">>) = 2
        /\ \A i \in 1..2 : <<"ERROR", "END">>[i] # "START"
    BY DEF Msgs
  <2> QED BY <1>3, <2>1, TallyType
<1> QED BY <1>1, <1>2, <1>3 DEF AnswerInv, Sending

\* The handler takes a message and writes what it makes of it.
LEMMA AnswerConsume ==
    ASSUME AnswerInv, FeedInv("strict"), Xch("strict")!Consume
    PROVE  AnswerInv'
<1> DEFINE q == out.q
           n == Len(out.q)
           t == Tail(out.q)
<1>1. /\ handler = "recv" /\ Open /\ n \in Nat \ {0} /\ Head(q) = q[1] /\ q[1] \in Msgs
      /\ q \in Seq(Msgs) /\ q # <<>>
      /\ t \in Seq(Msgs) /\ Len(t) = n - 1
      /\ \A i \in 1..(n - 1) : t[i] = q[i + 1]
      /\ out'.q = t
      /\ UNCHANGED <<chunked, thread, xTodo, end, starts, xSaid>>
  BY Taking
<1>2. /\ handler' # "head"
      /\ (out'.shut => Torn')
  BY Taking DEF Torn
<1>3. next' # "sorry"
  <2>1. Head(out.q) # "TEXT"
    BY <1>1 DEF Msgs
  <2> QED BY <2>1 DEF Xch!Consume, Xch!Goto, AnswerInv
<1>4. /\ Tally(t, q[1]) = Tally(q, q[1]) - 1
      /\ \A m : m # q[1] => Tally(t, m) = Tally(q, m)
  <2>1. q \in Seq(Msgs) /\ q # <<>> /\ Head(q) = q[1]
    BY <1>1
  <2> HIDE DEF q
  <2>2. /\ Tally(Tail(q), Head(q)) = Tally(q, Head(q)) - 1
        /\ \A m : m # Head(q) => Tally(Tail(q), m) = Tally(q, m)
    BY <2>1, TallyTail
  <2> QED BY <2>1, <2>2 DEF q
<1>5. /\ Tally(xWire, "last") = 0 /\ Tally(xWire, "empty") = 0
      /\ Heads = (IF sent THEN 1 ELSE 0)
      /\ Tally(xWire, "data") + Tally(q, "DATA") + Tally(xTodo, "DATA") = xSaid
      /\ ~sent => active + Tally(q, "START") + Tally(xTodo, "START") = starts
  <2>1. ~(Tally(xWire, "last") + Tally(xWire, "empty") > 0)
    BY <1>1 DEF AnswerInv, Written
  <2>2. Tally(xWire, "last") = 0 /\ Tally(xWire, "empty") = 0
    BY <2>1, Answering
  <2> HIDE DEF Open
  <2> QED BY <1>1, <2>2 DEF AnswerInv, Written
<1>6. sent \in BOOLEAN /\ chunked \in BOOLEAN
  BY DEF FeedInv, Xch!TypeOK
<1>7. /\ \A i \in 1..n : q[i] = "END" => i = n /\ thread = "over"
      /\ \A i \in 1..n : (q[i] = "END" => end # "none") /\ (q[i] = "ERROR" => end = "error")
      /\ end = "error" =>
           /\ \A i \in 1..n : q[i] = "END" => i > 1 /\ q[i - 1] = "ERROR"
           /\ xTodo = <<"END">> => n > 0 /\ q[n] = "ERROR"
      /\ \A i, j \in 1..n : i < j /\ q[j] = "START" => q[i] = "START"
      /\ xTodo = <<"START">> => \A i \in 1..n : q[i] = "START"
  BY <1>1 DEF AnswerInv, UnderWay
<1>8. Open' => q[1] \notin {"ERROR", "END"}
  <2>1. CASE q[1] \in {"ERROR", "END"}
    <3>1. ~Open' \/ out.q[1] \in {"START", "DATA"}
      BY TakingMessage
    <3> QED BY <2>1, <3>1
  <2> QED BY <2>1
<1> HIDE DEF Open, Torn, q, n, t
<1>9. UnderWay'
  <2>0. \A i \in 1..(n - 1) : i + 1 \in 1..n /\ i \in 1..n /\ i + 1 > 1 /\ (i + 1) - 1 = i
    <3>1. n \in Nat
      BY <1>1
    <3> SUFFICES ASSUME NEW i \in 1..(n - 1)
                 PROVE  i + 1 \in 1..n /\ i \in 1..n /\ i + 1 > 1 /\ (i + 1) - 1 = i
      OBVIOUS
    <3>2. i \in Int /\ 1 <= i /\ i <= n - 1
      BY <3>1
    <3>3. i + 1 \in 1..n /\ i \in 1..n
      BY <3>1, <3>2
    <3> QED BY <3>2, <3>3
  <2>1. \A i \in 1..(n - 1) : t[i] = "END" => i = n - 1 /\ thread = "over"
    <3>1. \A i \in 1..(n - 1) : i + 1 = n => i = n - 1
      BY <1>1
    <3> QED BY <1>1, <1>7, <2>0, <3>1
  <2>2. \A i \in 1..(n - 1) : (t[i] = "END" => end # "none") /\ (t[i] = "ERROR" => end = "error")
    <3> SUFFICES ASSUME NEW i \in 1..(n - 1)
                 PROVE  (t[i] = "END" => end # "none") /\ (t[i] = "ERROR" => end = "error")
      OBVIOUS
    <3>1. i + 1 \in 1..n /\ t[i] = q[i + 1]
      BY <1>1, <2>0
    <3> QED BY <1>7, <3>1
  <2>3. Open' /\ end = "error" =>
           /\ \A i \in 1..(n - 1) : t[i] = "END" => i > 1 /\ t[i - 1] = "ERROR"
           /\ xTodo = <<"END">> => n - 1 > 0 /\ t[n - 1] = "ERROR"
    <3> SUFFICES ASSUME Open', end = "error"
                 PROVE  /\ \A i \in 1..(n - 1) : t[i] = "END" => i > 1 /\ t[i - 1] = "ERROR"
                        /\ xTodo = <<"END">> => n - 1 > 0 /\ t[n - 1] = "ERROR"
      OBVIOUS
    <3>1. ASSUME NEW i \in 1..(n - 1), t[i] = "END" PROVE i > 1 /\ t[i - 1] = "ERROR"
      <4>1. q[i] = "ERROR"
        <5>1. q[i + 1] = "END" /\ i + 1 \in 1..n
          BY <1>1, <2>0, <3>1
        <5>2. q[(i + 1) - 1] = "ERROR"
          BY <1>7, <5>1
        <5> QED BY <2>0, <5>2
      <4>2. i # 1
        BY <1>8, <4>1
      <4>3. i - 1 \in 1..(n - 1) /\ (i - 1) + 1 = i /\ i > 1
        BY <1>1, <4>2
      <4> QED BY <1>1, <4>1, <4>3
    <3>2. ASSUME xTodo = <<"END">> PROVE n - 1 > 0 /\ t[n - 1] = "ERROR"
      <4>1. q[n] = "ERROR"
        BY <1>7, <3>2
      <4>2. n # 1
        BY <1>8, <4>1
      <4>3. n - 1 \in 1..(n - 1) /\ (n - 1) + 1 = n /\ n - 1 > 0
        BY <1>1, <4>2
      <4> QED BY <1>1, <4>1, <4>3
    <3> QED BY <3>1, <3>2
  <2>4. \A i, j \in 1..(n - 1) : i < j /\ t[j] = "START" => t[i] = "START"
    <3> SUFFICES ASSUME NEW i \in 1..(n - 1), NEW j \in 1..(n - 1), i < j, t[j] = "START"
                 PROVE  t[i] = "START"
      OBVIOUS
    <3>1. i + 1 \in 1..n /\ j + 1 \in 1..n /\ i + 1 < j + 1
      BY <1>1
    <3> QED BY <1>1, <1>7, <3>1
  <2>5. ASSUME xTodo = <<"START">>, NEW i \in 1..(n - 1) PROVE t[i] = "START"
    <3>1. i + 1 \in 1..n
      BY <2>0
    <3>2. q[i + 1] = "START"
      BY <1>7, <2>5, <3>1
    <3> QED BY <1>1, <3>2
  <2>6. Len(out'.q) = n - 1 /\ out'.q = t /\ xTodo' = xTodo /\ end' = end /\ thread' = thread
    BY <1>1
  <2> QED BY <2>1, <2>2, <2>3, <2>4, <2>5, <2>6 DEF UnderWay
<1>10. Sending'
  BY <1>1 DEF AnswerInv, Sending
<1>11. Written' /\ xWire' \in Seq(Words) /\ active' \in Nat
  <2>1. /\ \A m : Tally(xWire, m) \in Nat /\ Tally(q, m) \in Nat /\ Tally(xTodo, m) \in Nat
        /\ active \in Nat /\ starts \in Nat /\ xSaid \in Nat
    BY Answering DEF q
  <2>2. /\ Heads = Tally(xWire, "head") + Tally(xWire, "500") + Tally(xWire, "empty") + Tally(xWire, "refused")
        /\ sent /\ end \in {"none", "ok"} => active = starts /\ starts > 0
        /\ starts = 0 => xSaid = 0 /\ end # "ok"
    BY DEF AnswerInv, Written, Heads
  <2>3. /\ xWire \in Seq(Words) /\ "head" \in Words /\ "data" \in Words /\ "500" \in Words
        /\ "last" \in Words /\ "empty" \in Words
    BY DEF AnswerInv, Words
  <2>4. ASSUME NEW x \in Words
        PROVE  /\ Append(xWire, x) \in Seq(Words) /\ Tally(Append(xWire, x), x) = Tally(xWire, x) + 1
               /\ \A m : m # x => Tally(Append(xWire, x), m) = Tally(xWire, m)
    BY <2>3, TallyAppend
  <2>0. /\ Tally(xWire, "head") \in Nat /\ Tally(xWire, "500") \in Nat /\ Tally(xWire, "refused") \in Nat
        /\ Tally(xWire, "data") \in Nat /\ Tally(q, "DATA") \in Nat /\ Tally(xTodo, "DATA") \in Nat
        /\ Tally(xWire, "head") + Tally(xWire, "500") + Tally(xWire, "refused") = (IF sent THEN 1 ELSE 0)
    <3>1. /\ Tally(xWire, "head") \in Nat /\ Tally(xWire, "500") \in Nat /\ Tally(xWire, "refused") \in Nat
          /\ Tally(xWire, "data") \in Nat /\ Tally(q, "DATA") \in Nat /\ Tally(xTodo, "DATA") \in Nat
      BY <2>1
    <3>2. Tally(xWire, "head") + Tally(xWire, "500") + 0 + Tally(xWire, "refused") = (IF sent THEN 1 ELSE 0)
      BY <1>5, <2>2
    <3>3. Tally(xWire, "head") + Tally(xWire, "500") + 0 + Tally(xWire, "refused")
            = Tally(xWire, "head") + Tally(xWire, "500") + Tally(xWire, "refused")
      BY <3>1
    <3> QED BY <3>1, <3>2, <3>3
  <2>5. CASE ~Open' /\ UNCHANGED <<xWire, sent, active>>
    BY <1>1, <1>2, <1>5, <2>3, <2>1, <2>5 DEF AnswerInv, Written, Heads
  <2>6. CASE /\ q[1] = "START" /\ handler' = "recv" /\ UNCHANGED <<xWire, sent>>
             /\ active' = IF sent THEN active ELSE active + 1
    <3>1. /\ Tally(xWire, "data") + Tally(t, "DATA") + Tally(xTodo, "DATA") = xSaid
          /\ Tally(t, "START") = Tally(q, "START") - 1
      BY <1>4, <1>5, <2>6
    <3>2. ~sent => active' + Tally(t, "START") + Tally(xTodo, "START") = starts
      <4> SUFFICES ASSUME ~sent PROVE active' + Tally(t, "START") + Tally(xTodo, "START") = starts
        OBVIOUS
      <4>1. active' = active + 1 /\ active + Tally(q, "START") + Tally(xTodo, "START") = starts
        BY <1>5, <2>6
      <4> QED BY <2>1, <3>1, <4>1
    <3>3. active' \in Nat /\ (sent /\ end \in {"none", "ok"} => active' = starts /\ starts > 0)
      BY <2>1, <2>2, <2>6
    <3>4. Heads <= 1
      BY <1>5
    <3> QED BY <1>1, <1>2, <1>5, <2>2, <2>3, <2>6, <3>1, <3>2, <3>3, <3>4 DEF Written, Heads
  <2>7. CASE /\ q[1] = "DATA" /\ Open' /\ sent' = TRUE /\ UNCHANGED active
             /\ xWire' = IF sent THEN Append(xWire, "data") ELSE Append(Append(xWire, "head"), "data")
    <3>1. /\ xWire' \in Seq(Words) /\ Tally(xWire', "data") = Tally(xWire, "data") + 1
          /\ Tally(xWire', "head") = (IF sent THEN Tally(xWire, "head") ELSE Tally(xWire, "head") + 1)
          /\ Tally(xWire', "500") = Tally(xWire, "500") /\ Tally(xWire', "refused") = Tally(xWire, "refused")
          /\ Tally(xWire', "last") = 0 /\ Tally(xWire', "empty") = 0
      <4>1. CASE sent
        BY <1>5, <2>3, <2>4, <2>7, <4>1
      <4>2. CASE ~sent
        <5> DEFINE a == Append(xWire, "head")
        <5>1. /\ a \in Seq(Words) /\ Tally(a, "head") = Tally(xWire, "head") + 1
              /\ \A m : m # "head" => Tally(a, m) = Tally(xWire, m)
          BY <2>3, <2>4
        <5> HIDE DEF a
        <5>2. /\ Append(a, "data") \in Seq(Words) /\ Tally(Append(a, "data"), "data") = Tally(a, "data") + 1
              /\ \A m : m # "data" => Tally(Append(a, "data"), m) = Tally(a, m)
          BY <2>3, <5>1, TallyAppend
        <5>3. xWire' = Append(a, "data")
          BY <2>7, <4>2 DEF a
        <5> QED BY <1>5, <4>2, <5>1, <5>2, <5>3
      <4> QED BY <4>1, <4>2
    <3>2. Heads' = 1
      <4>1. Heads' = Tally(xWire', "head") + Tally(xWire', "500") + Tally(xWire', "empty") + Tally(xWire', "refused")
        BY DEF Heads
      <4>2. CASE sent
        BY <2>0, <3>1, <4>1, <4>2
      <4>3. CASE ~sent
        <5>1. Tally(xWire, "head") + Tally(xWire, "500") + Tally(xWire, "refused") = 0
          BY <2>0, <4>3
        <5>2. Tally(xWire, "head") = 0 /\ Tally(xWire, "500") = 0 /\ Tally(xWire, "refused") = 0
          BY <2>0, <5>1
        <5>3. Tally(xWire', "head") = 1 /\ Tally(xWire', "500") = 0 /\ Tally(xWire', "empty") = 0 /\ Tally(xWire', "refused") = 0
          BY <3>1, <4>3, <5>2
        <5> QED BY <4>1, <5>3
      <4> QED BY <4>2, <4>3
    <3>3. Tally(xWire', "data") + Tally(t, "DATA") + Tally(xTodo, "DATA") = xSaid /\ xSaid > 0
      <4>1. Tally(t, "DATA") = Tally(q, "DATA") - 1
        BY <1>4, <2>7
      <4>2. Tally(q, "DATA") # 0
        <5>1. 1 \in 1..n
          BY <1>1
        <5>2. ~(\A i \in 1..Len(q) : q[i] # "DATA")
          BY <2>7, <5>1 DEF n, q
        <5> QED BY <1>1, <5>2, TallyType
      <4>3. Tally(xWire, "data") + Tally(q, "DATA") + Tally(xTodo, "DATA") = xSaid
        BY <1>5
      <4>4. Tally(xWire', "data") = Tally(xWire, "data") + 1
        BY <3>1
      <4> QED BY <2>0, <4>1, <4>2, <4>3, <4>4
    <3>4. starts > 0 /\ starts # 0
      BY <2>1, <2>2, <3>3
    <3>5. ~sent => active = starts
      <4> SUFFICES ASSUME ~sent PROVE active = starts
        OBVIOUS
      <4>1. \A i \in 1..n : q[i] # "START"
        <5>1. \A i \in 1..n : i = 1 \/ 1 < i
          OBVIOUS
        <5>2. 1 \in 1..n
          BY <1>1
        <5> QED BY <1>7, <2>7, <5>1, <5>2
      <4>2. Tally(q, "START") = 0
        <5>1. \A i \in 1..Len(q) : q[i] # "START"
          BY <4>1 DEF n, q
        <5> QED BY <1>1, <5>1, TallyType
      <4>3. xTodo # <<"START">>
        <5>1. 1 \in 1..n
          BY <1>1
        <5> QED BY <1>7, <4>1, <5>1
      <4>4. Tally(xTodo, "START") = 0
        BY <4>3, NoStart
      <4> QED BY <1>5, <2>1, <4>2, <4>4
    <3>6. sent' /\ end' \in {"none", "ok"} => active' = starts' /\ starts' > 0
      BY <1>1, <2>2, <2>7, <3>4, <3>5
    <3>7. Heads' <= 1
      BY <3>2
    <3> QED BY <1>1, <1>2, <2>1, <2>7, <3>1, <3>2, <3>3, <3>4, <3>6, <3>7 DEF Written
  <2>8. CASE /\ q[1] = "ERROR" /\ ~Open' /\ sent' = TRUE /\ UNCHANGED active
             /\ xWire' = IF sent THEN xWire ELSE Append(xWire, "500")
    <3>1. /\ xWire' \in Seq(Words)
          /\ Tally(xWire', "500") = (IF sent THEN Tally(xWire, "500") ELSE Tally(xWire, "500") + 1)
          /\ Tally(xWire', "head") = Tally(xWire, "head") /\ Tally(xWire', "refused") = Tally(xWire, "refused")
          /\ Tally(xWire', "last") = 0 /\ Tally(xWire', "empty") = 0
      BY <1>5, <2>3, <2>4, <2>8
    <3>2. Heads' = 1 /\ Heads' <= 1
      <4>1. Heads' = Tally(xWire', "head") + Tally(xWire', "500") + Tally(xWire', "empty") + Tally(xWire', "refused")
        BY DEF Heads
      <4>2. CASE sent
        BY <2>0, <3>1, <4>1, <4>2
      <4>3. CASE ~sent
        <5>1. Tally(xWire, "head") + Tally(xWire, "500") + Tally(xWire, "refused") = 0
          BY <2>0, <4>3
        <5>2. Tally(xWire, "head") = 0 /\ Tally(xWire, "500") = 0 /\ Tally(xWire, "refused") = 0
          BY <2>0, <5>1
        <5>3. Tally(xWire', "head") = 0 /\ Tally(xWire', "500") = 1 /\ Tally(xWire', "empty") = 0 /\ Tally(xWire', "refused") = 0
          BY <3>1, <4>3, <5>2
        <5> QED BY <4>1, <5>3
      <4> QED BY <4>2, <4>3
    <3>3. 1 \in 1..n
      BY <1>1
    <3>4. end = "error"
      BY <1>7, <2>8, <3>3
    <3> QED BY <1>1, <1>2, <2>1, <2>2, <2>8, <3>1, <3>2, <3>4 DEF Written
  <2>9. CASE /\ q[1] = "END" /\ ~Open' /\ sent' = TRUE /\ UNCHANGED active
             /\ xWire' = IF sent THEN (IF chunked THEN Append(xWire, "last") ELSE xWire)
                                 ELSE Append(xWire, "empty")
    <3>1. /\ xWire' \in Seq(Words) /\ Tally(xWire', "data") = Tally(xWire, "data")
          /\ Tally(xWire', "500") = Tally(xWire, "500") /\ Tally(xWire', "head") = Tally(xWire, "head")
          /\ Tally(xWire', "refused") = Tally(xWire, "refused")
          /\ Tally(xWire', "empty") = (IF sent THEN 0 ELSE 1)
      BY <1>5, <2>3, <2>4, <2>9
    <3>2. Heads' = 1 /\ Heads' <= 1
      <4>1. Heads' = Tally(xWire', "head") + Tally(xWire', "500") + Tally(xWire', "empty") + Tally(xWire', "refused")
        BY DEF Heads
      <4>2. CASE sent
        BY <2>0, <3>1, <4>1, <4>2
      <4>3. CASE ~sent
        <5>1. Tally(xWire, "head") + Tally(xWire, "500") + Tally(xWire, "refused") = 0
          BY <2>0, <4>3
        <5>2. Tally(xWire, "head") = 0 /\ Tally(xWire, "500") = 0 /\ Tally(xWire, "refused") = 0
          BY <2>0, <5>1
        <5>3. Tally(xWire', "head") = 0 /\ Tally(xWire', "500") = 0 /\ Tally(xWire', "empty") = 1 /\ Tally(xWire', "refused") = 0
          BY <3>1, <4>3, <5>2
        <5> QED BY <4>1, <5>3
      <4> QED BY <4>2, <4>3
    <3>3. 1 \in 1..n
      BY <1>1
    <3>4. n = 1 /\ thread = "over" /\ end # "none"
      BY <1>7, <2>9, <3>3
    <3>5. end = "ok"
      <4>1. end # "error"
        BY <1>7, <2>9, <3>3
      <4> QED BY <3>4, <4>1 DEF FeedInv, Xch!TypeOK, AnswerInv
    <3>6. xTodo = <<>>
      BY <3>4 DEF AnswerInv, Sending
    <3>7. Tally(q, "DATA") = 0 /\ Tally(q, "START") = 0
      <4>1. \A i \in 1..n : i = 1
        BY <3>4
      <4>2. \A i \in 1..n : q[i] = "END"
        BY <2>9, <4>1
      <4>3. /\ \A i \in 1..Len(q) : q[i] # "START"
            /\ \A i \in 1..Len(q) : q[i] # "DATA"
        BY <4>2 DEF n, q
      <4>4. Tally(q, "DATA") = 0
        BY <1>1, <4>3, TallyType
      <4>5. Tally(q, "START") = 0
        BY <1>1, <4>3, TallyType
      <4> QED BY <4>4, <4>5
    <3>8. Tally(xTodo, "DATA") = 0 /\ Tally(xTodo, "START") = 0
      BY <3>6, TallyEmpty
    <3>9. Tally(xWire', "data") = xSaid
      BY <1>5, <2>1, <3>1, <3>7, <3>8
    <3>10. starts # 0 /\ starts > 0
      BY <2>1, <2>2, <3>5
    <3>11. active = starts
      BY <1>5, <2>1, <2>2, <3>5, <3>7, <3>8
    <3> QED BY <1>1, <1>2, <2>1, <2>9, <3>1, <3>2, <3>4, <3>5, <3>9, <3>10, <3>11 DEF Written
  <2>10. \/ ~Open' /\ UNCHANGED <<xWire, sent, active>>
         \/ /\ q[1] = "START" /\ handler' = "recv" /\ UNCHANGED <<xWire, sent>>
            /\ active' = IF sent THEN active ELSE active + 1
         \/ /\ q[1] = "DATA" /\ Open' /\ sent' = TRUE /\ UNCHANGED active
            /\ xWire' = IF sent THEN Append(xWire, "data") ELSE Append(Append(xWire, "head"), "data")
         \/ /\ q[1] = "ERROR" /\ ~Open' /\ sent' = TRUE /\ UNCHANGED active
            /\ xWire' = IF sent THEN xWire ELSE Append(xWire, "500")
         \/ /\ q[1] = "END" /\ ~Open' /\ sent' = TRUE /\ UNCHANGED active
            /\ xWire' = IF sent THEN (IF chunked THEN Append(xWire, "last") ELSE xWire)
                                ELSE Append(xWire, "empty")
    BY TakingMessage DEF q
  <2> QED BY <2>10, <2>5, <2>6, <2>7, <2>8, <2>9
<1> QED BY <1>1, <1>2, <1>3, <1>9, <1>10, <1>11 DEF AnswerInv

\* Every step of an exchange keeps the invariant of its answer.
LEMMA AnswerNext ==
    ASSUME AnswerInv, FeedInv("strict"), Xch("strict")!Next
    PROVE  AnswerInv'
<1> USE DEF Xch!loopvars, Xch!feedvars, Xch!appvars
<1>1. CASE Xch("strict")!Leave
  <2>1. /\ UNCHANGED <<xWire, xTodo, end, active, starts, xSaid, sent>>
        /\ (Open' => Open) /\ (Torn => Torn')
        /\ handler' = "head" => handler = "head" /\ thread' = thread
        /\ thread' = thread \/ (thread \notin {"put", "over"} /\ thread' # "put")
        /\ next' # "sorry"
    BY <1>1 DEF Xch!Leave, Open, Torn, AnswerInv
  <2>2. out' = out
    BY <1>1 DEF Xch!Leave
  <2> QED BY <2>1, <2>2, AnswerSame
<1>2. CASE Xch("strict")!FeedRead
  <2>1. /\ UNCHANGED <<xWire, xTodo, end, active, starts, xSaid, sent>>
        /\ (Open' => Open) /\ (Torn => Torn')
        /\ handler' = "head" => handler = "head" /\ thread' = thread
        /\ thread' = thread \/ (thread \notin {"put", "over"} /\ thread' # "put")
        /\ next' # "sorry"
    BY <1>2 DEF Xch!FeedRead, Open, Torn, AnswerInv
  <2>2. out' = out
    BY <1>2 DEF Xch!FeedRead
  <2> QED BY <2>1, <2>2, AnswerSame
<1>3. CASE Xch("strict")!FeedSend
  <2>1. /\ UNCHANGED <<xWire, xTodo, end, active, starts, xSaid, sent>>
        /\ (Open' => Open) /\ (Torn => Torn')
        /\ handler' = "head" => handler = "head" /\ thread' = thread
        /\ thread' = thread \/ (thread \notin {"put", "over"} /\ thread' # "put")
        /\ next' # "sorry"
    BY <1>3 DEF Xch!FeedSend, Open, Torn, AnswerInv
  <2>2. out' = out
    BY <1>3 DEF Xch!FeedSend
  <2> QED BY <2>1, <2>2, AnswerSame
<1>4. CASE Xch("strict")!FeedEnd
  <2>1. /\ UNCHANGED <<xWire, xTodo, end, active, starts, xSaid, sent>>
        /\ (Open' => Open) /\ (Torn => Torn')
        /\ handler' = "head" => handler = "head" /\ thread' = thread
        /\ thread' = thread \/ (thread \notin {"put", "over"} /\ thread' # "put")
        /\ next' # "sorry"
    BY <1>4 DEF Xch!FeedEnd, Open, Torn, AnswerInv
  <2>2. out' = out
    BY <1>4 DEF Xch!FeedEnd
  <2> QED BY <2>1, <2>2, AnswerSame
<1>5. CASE Xch("strict")!Begin
  <2>1. /\ UNCHANGED <<xWire, xTodo, end, active, starts, xSaid, sent>>
        /\ (Open' => Open) /\ (Torn => Torn')
        /\ handler' = "head" => handler = "head" /\ thread' = thread
        /\ thread' = thread \/ (thread \notin {"put", "over"} /\ thread' # "put")
        /\ next' # "sorry"
    BY <1>5 DEF Xch!Begin, Open, Torn, AnswerInv, FeedInv
  <2>2. out' = out
    BY <1>5 DEF Xch!Begin
  <2> QED BY <2>1, <2>2, AnswerSame
<1>6. CASE Xch("strict")!Read
  <2>1. /\ UNCHANGED <<xWire, xTodo, end, active, starts, xSaid, sent>>
        /\ (Open' => Open) /\ (Torn => Torn')
        /\ handler' = "head" => handler = "head" /\ thread' = thread
        /\ thread' = thread \/ (thread \notin {"put", "over"} /\ thread' # "put")
        /\ next' # "sorry"
    BY <1>6 DEF Xch!Read, Open, Torn, AnswerInv, FeedInv
  <2>2. out' = out
    BY <1>6 DEF Xch!Read
  <2> QED BY <2>1, <2>2, AnswerSame
<1>7. CASE Xch("strict")!Received
  <2>1. /\ UNCHANGED <<xWire, xTodo, end, active, starts, xSaid, sent>>
        /\ (Open' => Open) /\ (Torn => Torn')
        /\ handler' = "head" => handler = "head" /\ thread' = thread
        /\ thread' = thread \/ (thread \notin {"put", "over"} /\ thread' # "put")
        /\ next' # "sorry"
    BY <1>7 DEF Xch!Received, Open, Torn, AnswerInv, FeedInv
  <2>2. out' = out
    BY <1>7 DEF Xch!Received
  <2> QED BY <2>1, <2>2, AnswerSame
<1>8. CASE Xch("strict")!start_response
  BY <1>8, AnswerStart
<1>9. CASE Xch("strict")!Yield
  BY <1>9, AnswerYield
<1>10. CASE Xch("strict")!AppEnds
  BY <1>10, AnswerAppEnds
<1>11. CASE Xch("strict")!Put
  BY <1>11, AnswerPut
<1>12. CASE Xch("strict")!HeadFails
  BY <1>12, AnswerHeadFails
<1>13. CASE Xch("strict")!HeadRead
  BY <1>13, AnswerHeadRead
<1>14. CASE Xch("strict")!Consume
  BY <1>14, AnswerConsume
<1>15. CASE Xch("strict")!Drained
  <2>1. /\ UNCHANGED <<xWire, xTodo, end, active, starts, xSaid, sent>>
        /\ (Open' => Open) /\ (Torn => Torn')
        /\ handler' = "head" => handler = "head" /\ thread' = thread
        /\ thread' = thread \/ (thread \notin {"put", "over"} /\ thread' # "put")
        /\ next' # "sorry"
    BY <1>15 DEF Xch!Drained, Xch!Goto, Xch!Teardown, Open, Torn, AnswerInv
  <2>2. out' = out \/ (out' = [out EXCEPT !.shut = TRUE] /\ Torn')
    BY <1>15 DEF Xch!Drained, Xch!Goto, Xch!Teardown, Torn
  <2>3. out'.q = out.q /\ (out'.shut => out.shut \/ Torn')
    BY <2>2, Rechannelled DEF FeedInv
  <2> QED BY <2>1, <2>3, AnswerSame
<1>16. CASE Xch("strict")!Ended
  <2>1. /\ UNCHANGED <<xWire, xTodo, end, active, starts, xSaid, sent>>
        /\ (Open' => Open) /\ (Torn => Torn')
        /\ handler' = "head" => handler = "head" /\ thread' = thread
        /\ thread' = thread \/ (thread \notin {"put", "over"} /\ thread' # "put")
        /\ next' # "sorry"
    BY <1>16 DEF Xch!Ended, Xch!Goto, Open, Torn, AnswerInv
  <2>2. out' = out
    BY <1>16 DEF Xch!Ended, Xch!Goto
  <2> QED BY <2>1, <2>2, AnswerSame
<1>17. CASE Xch("strict")!Sorry
  <2>1. /\ UNCHANGED <<xWire, xTodo, end, active, starts, xSaid, sent>>
        /\ (Open' => Open) /\ (Torn => Torn')
        /\ handler' = "head" => handler = "head" /\ thread' = thread
        /\ thread' = thread \/ (thread \notin {"put", "over"} /\ thread' # "put")
        /\ next' # "sorry"
    BY <1>17 DEF Xch!Sorry, Xch!Goto, Open, Torn, AnswerInv
  <2>2. out' = out
    BY <1>17 DEF Xch!Sorry, Xch!Goto
  <2> QED BY <2>1, <2>2, AnswerSame
<1>18. CASE Xch("strict")!Cancelled
  <2>1. /\ UNCHANGED <<xWire, xTodo, end, active, starts, xSaid, sent>>
        /\ (Open' => Open) /\ (Torn => Torn')
        /\ handler' = "head" => handler = "head" /\ thread' = thread
        /\ thread' = thread \/ (thread \notin {"put", "over"} /\ thread' # "put")
        /\ next' # "sorry"
    BY <1>18 DEF Xch!Cancelled, Xch!Goto, Xch!Teardown, Open, Torn, AnswerInv
  <2>2. out' = out \/ (out' = [out EXCEPT !.shut = TRUE] /\ Torn')
    BY <1>18 DEF Xch!Cancelled, Xch!Goto, Xch!Teardown, Torn
  <2>3. out'.q = out.q /\ (out'.shut => out.shut \/ Torn')
    BY <2>2, Rechannelled DEF FeedInv
  <2> QED BY <2>1, <2>3, AnswerSame
<1> QED BY <1>1, <1>2, <1>3, <1>4, <1>5, <1>6, <1>7, <1>8, <1>9, <1>10, <1>11, <1>12, <1>13, <1>14, <1>15, <1>16, <1>17, <1>18 DEF Xch!Next, Xch!Feeds, Xch!Thread, Xch!Handles

\* Nothing was said and nothing written.
LEMMA AnswerInit == ASSUME Xch("strict")!Init PROVE AnswerInv
<1>1. /\ xWire = <<>> /\ xTodo = <<>> /\ out = [q |-> <<>>, shut |-> FALSE] /\ handler = "head"
      /\ active = 0 /\ starts = 0 /\ xSaid = 0 /\ ~sent /\ end = "none" /\ next = "over" /\ thread = "none"
  BY DEF Xch!Init, Xch!Empty
<1>2. out.q = <<>> /\ ~out.shut /\ Len(out.q) = 0
  BY <1>1
<1>3. <<>> \in Seq(Words) /\ <<>> \in Seq(Msgs)
  OBVIOUS
<1>4. \A m : Tally(xWire, m) = 0
  BY <1>1, TallyEmpty
<1>5. ~Open
  BY <1>1 DEF Open
<1>6. Sending /\ UnderWay
  BY <1>1, <1>2 DEF Sending, UnderWay
<1>7. Written
  BY <1>1, <1>4, <1>5 DEF Written, Heads
<1> QED BY <1>1, <1>2, <1>3, <1>6, <1>7 DEF AnswerInv

\* What that says of a response.
LEMMA AnswerHonest == ASSUME AnswerInv PROVE Xch("strict")!HeadOnce /\ Xch("strict")!CompleteHonest
<1>1. \A m : Xch("strict")!Count(m) = Tally(xWire, m)
  BY DEF Xch!Count, Tally, Xch!Cardinality, Cardinality
<1>2. Xch("strict")!HeadOnce
  BY <1>1 DEF AnswerInv, Written, Heads, Xch!HeadOnce
<1>3. Xch("strict")!CompleteHonest
  BY <1>1 DEF AnswerInv, Written, Xch!CompleteHonest
<1> QED BY <1>2, <1>3

\* For any number of connections, any loops and any limit the admission's count is
\* exact, and where no two connections share a loop the holder of the lock can go
\* on; for a body of any length, channels of any capacity and whatever client,
\* time-outs and cancellations do, the application reads the body in order and is
\* told of an early end only after an abort; and a strict application's response
\* has one head, the last one accepted, and looks complete only if it is.
THEOREM WsgiTheorem == MSpec => []WsgiSound
<1> DEFINE I == /\ \A s \in AdmScenes : scene = s => AdmInv(s)
                /\ \A s \in XchScenes : scene = s => FeedInv(s)
                /\ scene = "strict" => AnswerInv
<1>1. MInit => I
  <2> SUFFICES ASSUME MInit PROVE I
    OBVIOUS
  <2>1. \A s \in AdmScenes : Adm(s)!Init
    <3>1. Adm("apart")!Init
      BY DEF MInit
    <3> QED BY <3>1 DEF Adm!Init, Adm!Nobody
  <2>2. ASSUME NEW s \in XchScenes, scene = s PROVE FeedInv(s)
    <3>1. Xch(s)!Init
      BY <2>2 DEF MInit, XchScenes
    <3> QED BY <3>1, FeedInit
  <2>3. scene = "strict" => AnswerInv
    BY AnswerInit DEF MInit
  <2> QED BY <2>1, <2>2, <2>3, AdmInit
<1>2. I /\ [MNext]_mvars => I'
  <2> SUFFICES ASSUME I, [MNext]_mvars PROVE I'
    OBVIOUS
  <2>0. UNCHANGED scene
    BY DEF MNext, mvars, AttentiveRuns, CarelessRuns, ApartRuns, CrowdedRuns, StrictRuns, LiberalRuns,
           WatchedRuns, OvertakenRuns, HttpRest, AdmitRest, WsgiRest, SuperRest
  <2>1. ASSUME NEW s \in AdmScenes, scene = s PROVE AdmInv(s)'
    <3>1. AdmInv(s)
      BY <2>1
    <3>2. CASE UNCHANGED admitvars
      <4>1. UNCHANGED <<aPc, aLock, count>>
        BY <3>2 DEF admitvars
      <4> QED BY <3>1, <4>1 DEF AdmInv, Adm!TypeOK, Adm!CountExact, Adm!Nobody
    <3>3. CASE ApartRuns \/ CrowdedRuns
      <4>1. Adm(s)!Next
        BY <2>1, <3>3 DEF ApartRuns, CrowdedRuns
      <4> QED BY <3>1, <4>1, AdmNext
    <3> QED BY <3>2, <3>3 DEF MNext, mvars, AttentiveRuns, CarelessRuns, StrictRuns, LiberalRuns,
                   WatchedRuns, OvertakenRuns, HttpRest, WsgiRest, SuperRest
  <2>2. \/ UNCHANGED wsgivars
        \/ \E s \in XchScenes : scene = s /\ Xch(s)!Next
    BY DEF MNext, mvars, AttentiveRuns, CarelessRuns, ApartRuns, CrowdedRuns, StrictRuns, LiberalRuns,
           WatchedRuns, OvertakenRuns, HttpRest, AdmitRest, SuperRest, XchScenes
  <2>3. ASSUME NEW s \in XchScenes, scene = s PROVE FeedInv(s)'
    <3>1. FeedInv(s)
      BY <2>3
    <3>2. CASE UNCHANGED wsgivars
      BY <3>1, <3>2 DEF wsgivars, FeedInv, Xch!TypeOK, Feeding, Xch!Given, Torn
    <3>3. CASE Xch(s)!Next
      BY <3>1, <3>3, FeedNext
    <3> QED BY <2>2, <2>3, <3>2, <3>3
  <2>4. ASSUME scene = "strict" PROVE AnswerInv'
    <3>1. AnswerInv /\ FeedInv("strict")
      BY <2>4 DEF XchScenes
    <3>2. CASE UNCHANGED wsgivars
      BY <3>1, <3>2 DEF wsgivars, AnswerInv, Sending, UnderWay, Written, Heads, Open, Torn
    <3>3. CASE Xch("strict")!Next
      BY <3>1, <3>3, AnswerNext
    <3> QED BY <2>2, <2>4, <3>2, <3>3
  <2> QED BY <2>0, <2>1, <2>3, <2>4
<1>3. I => WsgiSound
  <2> SUFFICES ASSUME I PROVE WsgiSound
    OBVIOUS
  <2>1. ASSUME NEW s \in AdmScenes, scene = s PROVE Adm(s)!TypeOK /\ Adm(s)!CountExact
    BY <2>1 DEF AdmInv
  <2>2. scene = "apart" => Adm("apart")!HolderRuns
    BY HolderGoesOn DEF AdmScenes
  <2>3. ASSUME NEW s \in XchScenes, scene = s PROVE Xch(s)!TypeOK /\ Xch(s)!BodyHonest
    BY <2>3, FeedHonest
  <2>4. scene = "strict" => Xch("strict")!HeadOnce /\ Xch("strict")!CompleteHonest
    BY AnswerHonest
  <2> QED BY <2>1, <2>2, <2>3, <2>4 DEF WsgiSound, AdmScenes, XchScenes
<1> QED BY <1>1, <1>2, <1>3, PTL DEF MSpec

-----------------------------------------------------------------------------
(* An HTTP/1.1 connection *)

\* The scenes of a connection, the requests sent on it, and what one parses as.
HttpScenes == {"attentive", "careless"}
Asked == 1..Pipelined

HttpUnit ==
    {u \in [tag : {"start"}, r : Asked, body : BOOLEAN, keep : BOOLEAN, ws : BOOLEAN] : u.ws => ~u.body}
        \cup [tag : {"chunk"}, r : Asked, i : Nat, more : BOOLEAN]
        \cup [tag : {"error"}, r : Asked]

\* What stands for the last unit before the first one.
Nothing == [tag |-> "error", r |-> 0]

\* A unit that hands the connection over, one behind which the parser stops, and
\* what may follow one.
Upgrades(u) == u.tag = "start" /\ u.ws
Ends(u) ==
    \/ u.tag = "error"
    \/ u.tag = "start" /\ (u.ws \/ ~u.body)
    \/ u.tag = "chunk" /\ ~u.more
Follows(u, v) ==
    \/ Upgrades(u)
    \/ Ends(u) /\ v.tag # "chunk" /\ v.r = u.r + 1
    \/ ~Ends(u) /\ v.r = u.r /\ v.tag = "error"
    \/ ~Ends(u) /\ v.r = u.r /\ v.tag = "chunk" /\ v.i = IF u.tag = "start" THEN 1 ELSE u.i + 1
Chained(u, q) ==
    /\ q # <<>> => Follows(u, q[1])
    /\ \A i \in 1..(Len(q) - 1) : Follows(q[i], q[i + 1])

\* What is written, what may be the last that is written of a response, the state
\* of a cycle and that of a connection.
HttpWords == {"head", "full", "part", "end", "500", "refused"}
HttpWhole == {"full", "end", "500", "refused"}
CycleType ==
    [at : {"none", "new", "app", "get", "gone", "drain", "ws", "over"}, body : BOOLEAN,
     keep : BOOLEAN, ws : BOOLEAN, resp : 0..3, then : {0, 2, 3}, wrote : BOOLEAN,
     given : Nat, hit : BOOLEAN]
ConnType ==
    [parser : [state : {"waiting", "body", "serving", "closed"}, keep : BOOLEAN,
               count : Nat, buffer : Seq(HttpUnit)],
     state : {"WAITING_HEADER", "SERVING_APP", "KEEP_ALIVE_WAIT", "CLOSED"},
     has_queue : BOOLEAN, queue : Seq(HttpUnit), disconnect : BOOLEAN, drain : BOOLEAN,
     closed : BOOLEAN, pending : {<<>>}, upgraded : BOOLEAN,
     current : 0..Pipelined, closing : BOOLEAN, paused : BOOLEAN, lost : BOOLEAN,
     wire : Seq(Asked \X HttpWords), cycle : [Asked -> CycleType]]

\* The application of r has not returned; it has a body of which not all was taken.
AtWork(c, r) == c.cycle[r].at \notin {"none", "over"}
Unread(c, r) == c.cycle[r].body /\ c.has_queue

\* The one application that lives serves the last request that was parsed.
OneLives(c, u, rests) ==
    /\ \A r \in Asked : AtWork(c, r) => ~rests /\ r = u.r /\ (c.cycle[r].ws <=> Upgrades(u))
    /\ rests => c.state # "SERVING_APP" /\ Ends(u) /\ ~Upgrades(u)
    /\ c.upgraded => Upgrades(u)

\* Where an application is tells whether it upgraded and whether its response began.
CyclesOK(c) ==
    /\ c.state = "CLOSED" => c.closing
    /\ \A r \in Asked :
       LET y == c.cycle[r]
       IN
        /\ y.at \in {"app", "get", "gone", "drain"} => ~y.ws
        /\ y.at = "ws" => y.ws
        /\ y.at = "drain" => y.then # 0
        /\ AtWork(c, r) /\ y.at # "drain" /\ y.resp <= 1 => ~y.wrote
        /\ y.hit => c.closing

\* The queue holds what the living application has still to read.
QueueGood(c, u) == \A r \in Asked : AtWork(c, r) =>
    /\ ~Ends(u) \/ c.cycle[r].at = "get" => Unread(c, r)
    /\ Unread(c, r) =>
         /\ \A i \in DOMAIN c.queue :
               /\ c.queue[i].tag = "chunk" /\ c.queue[i].r = r
               /\ c.queue[i].i = c.cycle[r].given + i
               /\ i < Len(c.queue) => c.queue[i].more
         /\ u.tag = "start" => c.cycle[r].given + Len(c.queue) = 0
         /\ u.tag = "chunk" => /\ c.cycle[r].given + Len(c.queue) = u.i
                               /\ c.queue # <<>> => (c.queue[Len(c.queue)].more <=> u.more)

\* Responses are in the order of their requests, each with one head.
Ordered(w) ==
    \A i, j \in DOMAIN w : i < j =>
        /\ w[i][1] <= w[j][1]
        /\ w[i][1] = w[j][1] => w[j][2] \notin {"head", "full", "500"}

\* What was written is in order, and nothing of a response that has not begun.
WireGood(c, u) ==
    /\ \A i \in DOMAIN c.wire : c.wire[i][1] <= u.r
    /\ Ordered(c.wire)
    /\ \A r \in Asked : AtWork(c, r) /\ ~c.closing /\ ~c.cycle[r].wrote =>
        \A i \in DOMAIN c.wire : c.wire[i][1] # r

\* A response begins when the one before it is whole.
Apart(w) ==
    \A i \in 2..Len(w) :
        w[i][2] \in {"head", "full", "500", "refused"} => w[i - 1][2] \in HttpWhole

\* With an application that has no bad habits.
NeatGood(c, u) ==
    /\ Apart(c.wire)
    /\ ~c.closing =>
         /\ ~Ends(u) => AtWork(c, u.r)
         /\ c.paused => \E r \in Asked : AtWork(c, r) /\ Unread(c, r) /\ Len(c.queue) > QueueLow
         /\ \A r \in Asked : AtWork(c, r) /\ Unread(c, r) =>
              c.cycle[r].resp = 0 /\ ~c.cycle[r].wrote /\ c.cycle[r].at # "drain"
         /\ c.wire # <<>> /\ c.wire[Len(c.wire)][2] \notin HttpWhole =>
              \E r \in Asked : AtWork(c, r) /\ c.cycle[r].wrote
                  /\ IF c.cycle[r].at = "drain" THEN c.cycle[r].then = 2 ELSE c.cycle[r].resp = 2

\* A connection whose last unit parsed is u and which, if it rests, serves no one.
ConnGood(s, c, u, rests) ==
    /\ c \in ConnType
    /\ OneLives(c, u, rests) /\ CyclesOK(c) /\ QueueGood(c, u) /\ WireGood(c, u)
    /\ s = "attentive" => NeatGood(c, u)

\* What the parser has buffered, and after it what is to arrive, follows u.
ParserGood(p, u, q) ==
    /\ p.state = "body" => ~Ends(u)
    /\ p.state = "serving" => Ends(u) /\ u.tag # "error"
    /\ q \in Seq(HttpUnit)
    /\ Upgrades(u) \/ Chained(u, p.buffer \o q)

\* A connection c and what the client has still to send, q: the last unit parsed is u.
HttpGood(s, c, q) == \E u \in HttpUnit \cup {Nothing} :
    /\ ConnGood(s, c, u, c.parser.state = "waiting")
    /\ ParserGood(c.parser, u, q)
HttpInv(s) == HttpGood(s, h, stream)

\* What the constants are.
LEMMA HttpSizes ==
    ASSUME NEW s \in HttpScenes
    PROVE  /\ Pipelined \in Nat /\ QueueSize \in Nat /\ QueueLow \in Nat
           /\ 1 <= QueueLow /\ QueueLow < QueueSize
           /\ Kinds[s] \subseteq [chunks : Nat, keep : BOOLEAN, ws : BOOLEAN, bad : BOOLEAN]
           /\ s = "attentive" => Habits[s] = {}
           /\ Htp(s)!Reqs = Asked
<1>1. Htp(s)!HttpParams
  BY WebAssumptions DEF HttpScenes
<1>2. QueueSize \in Nat /\ QueueLow \in 1..(QueueSize - 1) /\ Pipelined \in Nat
  BY <1>1 DEF Htp!HttpParams
<1>3. Kinds[s] \subseteq [chunks : Nat, keep : BOOLEAN, ws : BOOLEAN, bad : BOOLEAN]
  BY <1>1 DEF Htp!HttpParams, Htp!Kind
<1>4. Htp(s)!Reqs = Asked
  BY DEF Htp!Reqs, Asked
<1> QED BY <1>2, <1>3, <1>4, WebAssumptions

\* A unit and its fields.
LEMMA UnitFields ==
    ASSUME NEW u \in HttpUnit
    PROVE  /\ u.tag \in {"start", "chunk", "error"} /\ u.r \in Asked /\ u # Nothing
           /\ u.tag = "start" => u.body \in BOOLEAN /\ u.keep \in BOOLEAN /\ u.ws \in BOOLEAN
           /\ u.tag = "start" => (u.ws => ~u.body)
           /\ u.tag = "chunk" => u.i \in Nat /\ u.more \in BOOLEAN
BY DEF HttpUnit, Nothing, Asked

\* What a response writes goes to the end of the wire, unless the transport closes.
LEMMA WriteIs ==
    ASSUME NEW s \in HttpScenes, NEW c \in ConnType, NEW r \in Asked, NEW what \in HttpWords
    PROVE  LET w == Htp(s)!Write(c, r, what)
           IN  /\ w \in ConnType /\ w = [c EXCEPT !.wire = w.wire]
               /\ w.wire = IF c.closing THEN c.wire ELSE Append(c.wire, <<r, what>>)
<1> DEFINE w == Htp(s)!Write(c, r, what)
<1>1. w = IF c.closing THEN c ELSE [c EXCEPT !.wire = Append(c.wire, <<r, what>>)]
  BY DEF Htp!Write
<1>2. c.wire \in Seq(Asked \X HttpWords)
  BY DEF ConnType
<1>3. Append(c.wire, <<r, what>>) \in Seq(Asked \X HttpWords)
  BY <1>2
<1> HIDE DEF w
<1>4. w \in ConnType
  BY <1>1, <1>3 DEF ConnType
<1>5. w.wire = IF c.closing THEN c.wire ELSE Append(c.wire, <<r, what>>)
  BY <1>1 DEF ConnType
<1>6. w = [c EXCEPT !.wire = w.wire]
  BY <1>1, <1>5 DEF ConnType
<1> QED BY <1>4, <1>5, <1>6 DEF w

\* Closing marks the application that lives.
LEMMA CloseIs ==
    ASSUME NEW s \in HttpScenes, NEW c \in ConnType
    PROVE  LET d == Htp(s)!close(c)
           IN  /\ d \in ConnType
               /\ \/ d = c /\ c.state = "CLOSED"
                  \/ /\ d.state = "CLOSED" /\ d.closing
                     /\ \A r \in Asked : \/ d.cycle[r] = c.cycle[r]
                                         \/ d.cycle[r] = [c.cycle[r] EXCEPT !.hit = TRUE]
               /\ d.queue = c.queue /\ d.has_queue = c.has_queue /\ d.wire = c.wire
               /\ d.paused = c.paused /\ d.upgraded = c.upgraded /\ d.parser = c.parser
<1> DEFINE y == [r \in Asked |-> IF r = c.current /\ Htp(s)!Live(c, r)
                               THEN [c.cycle[r] EXCEPT !.hit = TRUE] ELSE c.cycle[r]]
<1>1. c.cycle \in [Asked -> CycleType]
  BY DEF ConnType
<1>2. \A r \in Asked : [c.cycle[r] EXCEPT !.hit = TRUE] \in CycleType
  BY <1>1, ZenonT(60) DEF CycleType
<1>3. y \in [Asked -> CycleType]
  BY <1>1, <1>2
<1> HIDE DEF y
<1>4. Htp(s)!close(c) = IF c.state = "CLOSED" THEN c ELSE
        [c EXCEPT !.state = "CLOSED", !.closed = TRUE, !.disconnect = TRUE,
                  !.closing = TRUE, !.drain = TRUE, !.current = 0, !.cycle = y]
  BY HttpSizes DEF Htp!close, y
<1>5. Pipelined \in Nat
  BY HttpSizes
<1>6. \A r \in Asked : y[r] = c.cycle[r] \/ y[r] = [c.cycle[r] EXCEPT !.hit = TRUE]
  BY DEF y
<1> DEFINE d == Htp(s)!close(c)
<1>7. CASE c.state = "CLOSED"
  BY <1>4, <1>7
<1>8. CASE c.state # "CLOSED"
  <2>1. d = [c EXCEPT !.state = "CLOSED", !.closed = TRUE, !.disconnect = TRUE,
                      !.closing = TRUE, !.drain = TRUE, !.current = 0, !.cycle = y]
    BY <1>4, <1>8
  <2>5. 0 \in 0..Pipelined
    BY <1>5
  <2> HIDE DEF d
  <2>2. d \in ConnType
    BY ONLY <1>3, <2>1, <2>5, c \in ConnType DEF ConnType
  <2>3. d.state = "CLOSED" /\ d.closing /\ d.cycle = y
    BY <2>1 DEF ConnType
  <2>4. /\ d.queue = c.queue /\ d.has_queue = c.has_queue /\ d.wire = c.wire
        /\ d.paused = c.paused /\ d.upgraded = c.upgraded /\ d.parser = c.parser
    BY <2>1 DEF ConnType
  <2> QED BY <1>6, <2>2, <2>3, <2>4 DEF d
<1> QED BY <1>7, <1>8

\* The cycle of a request that has just been parsed.
FreshCycle(y, u) ==
    /\ y \in CycleType /\ y.at = "new" /\ y.body = u.body /\ y.ws = u.ws /\ y.resp = 0
    /\ ~y.wrote /\ y.given = 0 /\ ~y.hit

\* What a record d of the connection owes to c when the application of u begins.
Begun(c, u, d) ==
    /\ d \in ConnType /\ d.state = "SERVING_APP"
    /\ FreshCycle(d.cycle[u.r], u)
    /\ \A r \in Asked : r # u.r => d.cycle[r] = c.cycle[r]
    /\ d.wire = c.wire /\ d.closing = c.closing
    /\ d.paused = c.paused /\ d.upgraded = c.upgraded /\ d.parser = c.parser

\* The protocol begins the application of a request.
LEMMA CreateIs ==
    ASSUME NEW s \in HttpScenes, NEW c \in ConnType, NEW u \in HttpUnit, u.tag = "start"
    PROVE  LET d == Htp(s)!Create(c, u)
           IN  Begun(c, u, d) /\ d.queue = c.queue /\ d.has_queue = c.has_queue
<1> DEFINE x == Htp(s)!NoCycle
           y == [x EXCEPT !.at = "new", !.body = u.body, !.keep = u.keep, !.ws = u.ws]
           d == Htp(s)!Create(c, u)
<1>1. x \in CycleType /\ x.resp = 0 /\ ~x.wrote /\ x.given = 0 /\ ~x.hit
  BY DEF Htp!NoCycle, CycleType
<1>2. d = [c EXCEPT !.state = "SERVING_APP", !.current = u.r, !.cycle[u.r] = y]
  BY Zenon DEF Htp!Create
<1>3. u.body \in BOOLEAN /\ u.keep \in BOOLEAN /\ u.ws \in BOOLEAN
  BY UnitFields
<1> HIDE DEF x, d
<1>4. FreshCycle(y, u)
  BY <1>1, <1>3 DEF FreshCycle, CycleType
<1> HIDE DEF y
<1>5. d = [c EXCEPT !.state = "SERVING_APP", !.current = u.r, !.cycle = [c.cycle EXCEPT ![u.r] = y]]
  BY <1>2
<1> DEFINE f == [c.cycle EXCEPT ![u.r] = y]
<1>6. f \in [Asked -> CycleType] /\ f[u.r] = y /\ \A r \in Asked : r # u.r => f[r] = c.cycle[r]
  BY <1>4, UnitFields DEF ConnType, FreshCycle
<1>7. u.r \in 0..Pipelined
  BY UnitFields, HttpSizes DEF Asked
<1> HIDE DEF f
<1>8. d = [c EXCEPT !.state = "SERVING_APP", !.current = u.r, !.cycle = f]
  BY <1>5 DEF f
<1>9. d \in ConnType /\ d.state = "SERVING_APP" /\ d.cycle = f
  BY <1>6, <1>7, <1>8 DEF ConnType
<1>10. /\ d.wire = c.wire /\ d.closing = c.closing
       /\ d.paused = c.paused /\ d.upgraded = c.upgraded /\ d.parser = c.parser
       /\ d.queue = c.queue /\ d.has_queue = c.has_queue
  BY <1>8 DEF ConnType
<1>11. Begun(c, u, d)
  BY <1>4, <1>6, <1>9, <1>10 DEF Begun
<1> QED BY <1>10, <1>11 DEF d

\* A request is begun with a new queue, for the body it has.
LEMMA ServeIs ==
    ASSUME NEW s \in HttpScenes, NEW c \in ConnType, NEW u \in HttpUnit, u.tag = "start"
    PROVE  LET d == Htp(s)!Serve(c, u)
           IN  Begun(c, u, d) /\ d.queue = <<>> /\ d.has_queue = u.body
<1> DEFINE a == Htp(s)!Create(c, u)
           d == Htp(s)!Serve(c, u)
<1>1. Begun(c, u, a)
  BY CreateIs
<1>2. d = [a EXCEPT !.has_queue = u.body, !.queue = <<>>, !.disconnect = FALSE]
  BY DEF Htp!Serve
<1>3. u.body \in BOOLEAN
  BY UnitFields
<1>4. <<>> \in Seq(HttpUnit)
  OBVIOUS
<1> HIDE DEF a, d
<1>5. d \in ConnType
  BY <1>1, <1>2, <1>3, <1>4 DEF ConnType, Begun
<1>6. /\ d.state = a.state /\ d.cycle = a.cycle
      /\ d.queue = <<>> /\ d.has_queue = u.body /\ d.wire = a.wire
      /\ d.closing = a.closing
      /\ d.paused = a.paused /\ d.upgraded = a.upgraded /\ d.parser = a.parser
  BY <1>1, <1>2 DEF ConnType, Begun
<1>7. Begun(c, u, d)
  BY <1>1, <1>5, <1>6 DEF Begun
<1> QED BY <1>6, <1>7 DEF d

\* The number of the request of a unit.
LEMMA UnitNumber ==
    ASSUME NEW s \in HttpScenes, NEW u \in HttpUnit \cup {Nothing}
    PROVE  u.r \in Nat /\ (u = Nothing \/ u \in HttpUnit) /\ (u = Nothing => u.r = 0 /\ u.tag = "error")
BY UnitFields, HttpSizes DEF Nothing, Asked

\* An application that begins on an rests connection keeps the invariant.
LEMMA BegunKept ==
    ASSUME NEW s \in HttpScenes, NEW c, NEW u \in HttpUnit \cup {Nothing}, NEW v \in HttpUnit, NEW d,
           ConnGood(s, c, u, TRUE), v.tag = "start", v.r = u.r + 1, Begun(c, v, d),
           v.ws \/ (d.queue = <<>> /\ d.has_queue = v.body)
    PROVE  ConnGood(s, d, v, FALSE)
<1>1. /\ v.r \in Asked /\ v.body \in BOOLEAN /\ v.ws \in BOOLEAN /\ (v.ws => ~v.body)
      /\ u.r \in Nat /\ v.r \in Nat
  BY UnitFields, UnitNumber, HttpSizes DEF Asked
<1>2. /\ c \in ConnType /\ d \in ConnType /\ FreshCycle(d.cycle[v.r], v)
      /\ \A r \in Asked : r # v.r => d.cycle[r] = c.cycle[r]
      /\ \A r \in Asked : ~AtWork(c, r)
  BY DEF ConnGood, Begun, OneLives
<1>3. /\ AtWork(d, v.r) /\ \A r \in Asked : AtWork(d, r) => r = v.r
      /\ d.cycle[v.r].at = "new" /\ d.cycle[v.r].resp = 0 /\ ~d.cycle[v.r].wrote
      /\ d.cycle[v.r].body = v.body /\ d.cycle[v.r].ws = v.ws
      /\ ~d.cycle[v.r].hit /\ d.cycle[v.r].given = 0
  BY <1>1, <1>2 DEF AtWork, FreshCycle
<1>4. d.wire = c.wire /\ d.closing = c.closing /\ d.paused = c.paused /\ d.upgraded = c.upgraded
  BY DEF Begun
<1>5. OneLives(d, v, FALSE)
  <2>1. ~c.upgraded
    BY DEF ConnGood, OneLives
  <2> QED BY <1>3, <1>4, <2>1 DEF OneLives, Upgrades
<1>6. CyclesOK(d)
  <2> SUFFICES ASSUME NEW r \in Asked
               PROVE  LET y == d.cycle[r]
                      IN  /\ y.at \in {"app", "get", "gone", "drain"} => ~y.ws
                          /\ y.at = "ws" => y.ws
                          /\ y.at = "drain" => y.then # 0
                          /\ AtWork(d, r) /\ y.at # "drain" /\ y.resp <= 1 => ~y.wrote
                          /\ y.hit => d.closing
    BY DEF CyclesOK, Begun
  <2>1. CASE r = v.r
    BY <1>3, <2>1
  <2>2. CASE r # v.r
    BY <1>2, <1>3, <1>4, <2>2 DEF ConnGood, CyclesOK
  <2> QED BY <2>1, <2>2
<1>7. QueueGood(d, v)
  <2>1. CASE v.ws
    BY <1>1, <1>3, <2>1 DEF QueueGood, Unread, Ends
  <2>2. CASE ~v.ws /\ d.queue = <<>> /\ d.has_queue = v.body
    BY <1>1, <1>3, <2>2 DEF QueueGood, Unread, Ends
  <2> QED BY <2>1, <2>2
<1>8. WireGood(d, v)
  <2>1. c.wire \in Seq(Asked \X HttpWords)
    BY <1>2 DEF ConnType
  <2>2. \A i \in DOMAIN c.wire : c.wire[i][1] \in Nat /\ c.wire[i][1] <= u.r
    BY <2>1, HttpSizes DEF ConnGood, WireGood, Asked
  <2>3. \A i \in DOMAIN c.wire : c.wire[i][1] <= v.r /\ c.wire[i][1] # v.r
    BY <1>1, <2>2
  <2> QED BY <1>3, <1>4, <2>3 DEF ConnGood, WireGood
<1>9. ASSUME s = "attentive" PROVE NeatGood(d, v)
  <2>1. NeatGood(c, u)
    BY <1>9 DEF ConnGood
  <2>2. ~c.closing => ~c.paused /\ ~(c.wire # <<>> /\ c.wire[Len(c.wire)][2] \notin HttpWhole)
    BY <1>2, <2>1 DEF NeatGood
  <2> QED BY <1>3, <1>4, <2>1, <2>2 DEF NeatGood
<1> QED BY <1>2, <1>5, <1>6, <1>7, <1>8, <1>9 DEF ConnGood

\* What goes to the end of the wire keeps the responses in order and apart.
LEMMA WireGrows ==
    ASSUME NEW s \in HttpScenes, NEW w \in Seq(Asked \X HttpWords), NEW r \in Asked, NEW what \in HttpWords,
           \A i \in DOMAIN w : w[i][1] <= r, Ordered(w),
           what \in {"head", "full", "500"} => \A i \in DOMAIN w : w[i][1] # r
    PROVE  LET x == Append(w, <<r, what>>)
           IN  /\ Ordered(x) /\ x # <<>> /\ x[Len(x)] = <<r, what>>
               /\ \A i \in DOMAIN x : x[i][1] <= r
               /\ \A i \in DOMAIN x : x[i][1] = r \/ (i \in DOMAIN w /\ x[i][1] = w[i][1])
               /\ /\ Apart(w)
                  /\ what \in {"head", "full", "500", "refused"} => w = <<>> \/ w[Len(w)][2] \in HttpWhole
                  => Apart(x)
<1> DEFINE x == Append(w, <<r, what>>)
           n == Len(w)
<1>1. n \in Nat /\ DOMAIN w = 1..n /\ r \in Nat /\ (n = 0 => w = <<>>)
  BY HttpSizes DEF Asked
<1>2. /\ x \in Seq(Asked \X HttpWords) /\ Len(x) = n + 1 /\ DOMAIN x = 1..(n + 1) /\ x # <<>>
      /\ x[n + 1] = <<r, what>> /\ \A i \in 1..n : x[i] = w[i]
  BY <1>1
<1>3. x[n + 1][1] = r /\ x[n + 1][2] = what
  BY <1>2
<1>4. \A i \in 1..n : w[i][1] \in Nat /\ w[i][1] <= r
  <2>1. \A i \in DOMAIN w : w[i][1] \in Nat
    BY HttpSizes DEF Asked
  <2> QED BY <1>1, <2>1
<1> HIDE DEF x, n
<1>5. Ordered(x)
  <2> SUFFICES ASSUME NEW i \in 1..(n + 1), NEW j \in 1..(n + 1), i < j
               PROVE  /\ x[i][1] <= x[j][1]
                      /\ x[i][1] = x[j][1] => x[j][2] \notin {"head", "full", "500"}
    BY <1>2 DEF Ordered
  <2>1. i \in 1..n
    BY <1>1
  <2>2. CASE j \in 1..n
    <3>1. i \in DOMAIN w /\ j \in DOMAIN w /\ x[i] = w[i] /\ x[j] = w[j]
      BY <1>1, <1>2, <2>1, <2>2
    <3> QED BY <3>1 DEF Ordered
  <2>3. CASE j = n + 1
    BY <1>1, <1>2, <1>3, <1>4, <2>1, <2>3
  <2>4. j \in 1..n \/ j = n + 1
    BY <1>1, SMTT(30)
  <2> QED BY <2>2, <2>3, <2>4
<1>6. \A i \in DOMAIN x : x[i][1] <= r /\ (x[i][1] = r \/ (i \in DOMAIN w /\ x[i][1] = w[i][1]))
  BY <1>1, <1>2, <1>3, <1>4
<1>7. ASSUME Apart(w),
             what \in {"head", "full", "500", "refused"} => w = <<>> \/ w[n][2] \in HttpWhole
      PROVE  Apart(x)
  <2> SUFFICES ASSUME NEW i \in 2..(n + 1), x[i][2] \in {"head", "full", "500", "refused"}
               PROVE  x[i - 1][2] \in HttpWhole
    BY <1>2 DEF Apart
  <2>1. CASE i \in 2..n
    <3>1. i \in 1..n /\ i - 1 \in 1..n /\ i \in 2..Len(w)
      BY <1>1, <2>1 DEF n
    <3> QED BY <1>2, <1>7, <3>1 DEF Apart
  <2>2. CASE i = n + 1
    <3>1. i - 1 = n /\ n \in 1..n /\ w # <<>>
      BY <1>1, <2>2 DEF n
    <3> QED BY <1>2, <1>3, <1>7, <2>2, <3>1
  <2> QED BY <1>1, <2>1, <2>2
<1> QED BY <1>2, <1>5, <1>6, <1>7 DEF x, n

\* Closing keeps the invariant.
LEMMA ClosedKept ==
    ASSUME NEW s \in HttpScenes, NEW c, NEW u, NEW rests \in BOOLEAN, ConnGood(s, c, u, rests)
    PROVE  ConnGood(s, Htp(s)!close(c), u, rests)
<1> DEFINE d == Htp(s)!close(c)
<1>1. c \in ConnType
  BY DEF ConnGood
<1>2. /\ d \in ConnType
      /\ d.queue = c.queue /\ d.has_queue = c.has_queue /\ d.wire = c.wire
      /\ d.upgraded = c.upgraded
  BY <1>1, CloseIs
<1>3. CASE d = c
  BY <1>3
<1>4. CASE /\ d.state = "CLOSED" /\ d.closing
           /\ \A r \in Asked : \/ d.cycle[r] = c.cycle[r]
                               \/ d.cycle[r] = [c.cycle[r] EXCEPT !.hit = TRUE]
  <2> HIDE DEF d
  <2>1. \A r \in Asked : LET y == d.cycle[r]  x == c.cycle[r]
                         IN  /\ y.at = x.at /\ y.body = x.body /\ y.ws = x.ws /\ y.resp = x.resp
                             /\ y.then = x.then /\ y.wrote = x.wrote /\ y.given = x.given
    <3> SUFFICES ASSUME NEW r \in Asked
                 PROVE  LET y == d.cycle[r]  x == c.cycle[r]
                        IN  /\ y.at = x.at /\ y.body = x.body /\ y.ws = x.ws /\ y.resp = x.resp
                            /\ y.then = x.then /\ y.wrote = x.wrote /\ y.given = x.given
      OBVIOUS
    <3>1. c.cycle[r] \in CycleType
      BY <1>1 DEF ConnType
    <3>2. CASE d.cycle[r] = [c.cycle[r] EXCEPT !.hit = TRUE]
      BY <3>1, <3>2 DEF CycleType
    <3> QED BY <1>4, <3>2
  <2>2. OneLives(d, u, rests)
    BY <1>2, <1>4, <2>1 DEF ConnGood, OneLives, AtWork
  <2>3. CyclesOK(d)
    BY <1>2, <1>4, <2>1 DEF ConnGood, CyclesOK, AtWork
  <2>4. QueueGood(d, u)
    BY <1>2, <2>1 DEF ConnGood, QueueGood, AtWork, Unread
  <2>5. WireGood(d, u)
    BY <1>2, <1>4, <2>1 DEF ConnGood, WireGood
  <2>6. s = "attentive" => NeatGood(d, u)
    BY <1>2, <1>4, <2>1 DEF ConnGood, NeatGood
  <2> QED BY <1>2, <2>2, <2>3, <2>4, <2>5, <2>6 DEF ConnGood, d
<1> HIDE DEF d
<1>5. \/ d = c
      \/ /\ d.state = "CLOSED" /\ d.closing
         /\ \A r \in Asked : \/ d.cycle[r] = c.cycle[r]
                             \/ d.cycle[r] = [c.cycle[r] EXCEPT !.hit = TRUE]
  BY <1>1, CloseIs DEF d
<1> QED BY <1>3, <1>4, <1>5 DEF d

\* So does a malformed unit, which is refused.
LEMMA RefusedKept ==
    ASSUME NEW s \in HttpScenes, NEW c, NEW u \in HttpUnit \cup {Nothing}, NEW v \in HttpUnit, NEW rests \in BOOLEAN,
           ConnGood(s, c, u, rests), v.tag = "error",
           \/ Ends(u) /\ rests /\ v.r = u.r + 1
           \/ ~Ends(u) /\ v.r = u.r
    PROVE  ConnGood(s, Htp(s)!close([Htp(s)!Write(c, v.r, "refused") EXCEPT !.closing = TRUE]), v, FALSE)
<1> DEFINE w == Htp(s)!Write(c, v.r, "refused")
           d == [w EXCEPT !.closing = TRUE]
<1>1. c \in ConnType /\ v.r \in Asked /\ v.r \in Nat /\ u.r \in Nat /\ "refused" \in HttpWords
  BY UnitFields, UnitNumber, HttpSizes DEF ConnGood, HttpWords
<1>2. /\ w \in ConnType /\ w = [c EXCEPT !.wire = w.wire]
      /\ w.wire = IF c.closing THEN c.wire ELSE Append(c.wire, <<v.r, "refused">>)
  BY <1>1, WriteIs
<1> HIDE DEF w
<1>3. /\ d \in ConnType /\ d.closing /\ d.wire = w.wire /\ d.cycle = c.cycle /\ d.queue = c.queue
      /\ d.has_queue = c.has_queue /\ d.upgraded = c.upgraded
  BY <1>1, <1>2 DEF ConnType
<1> HIDE DEF d
<1>4. ~Upgrades(u) /\ Ends(v) /\ ~Upgrades(v)
  BY DEF ConnGood, OneLives, Upgrades, Ends
<1>5. \A r \in Asked : AtWork(c, r) => r = u.r /\ ~rests /\ ~Ends(u) /\ ~c.cycle[r].ws
  BY <1>4 DEF ConnGood, OneLives
<1>6. OneLives(d, v, FALSE)
  BY <1>3, <1>4, <1>5 DEF ConnGood, OneLives, AtWork
<1>7. CyclesOK(d)
  BY <1>3 DEF ConnGood, CyclesOK, AtWork
<1>8. QueueGood(d, v)
  BY <1>3, <1>4 DEF ConnGood, QueueGood, AtWork, Unread
<1>9. /\ \A i \in DOMAIN c.wire : c.wire[i][1] <= v.r
      /\ Ordered(c.wire) /\ c.wire \in Seq(Asked \X HttpWords)
  <2>1. c.wire \in Seq(Asked \X HttpWords)
    BY <1>1 DEF ConnType
  <2>2. \A i \in DOMAIN c.wire : c.wire[i][1] \in Nat /\ c.wire[i][1] <= u.r
    BY <2>1, HttpSizes DEF ConnGood, WireGood, Asked
  <2>3. \A i \in DOMAIN c.wire : c.wire[i][1] <= v.r
    BY <1>1, <2>2
  <2> QED BY <2>1, <2>3 DEF ConnGood, WireGood
<1>14. "refused" \notin {"head", "full", "500"}
  OBVIOUS
<1>15. LET x == Append(c.wire, <<v.r, "refused">>)
       IN  /\ Ordered(x)
           /\ \A i \in DOMAIN x : x[i][1] <= v.r
           /\ Apart(c.wire) /\ (c.wire = <<>> \/ c.wire[Len(c.wire)][2] \in HttpWhole) => Apart(x)
  BY <1>1, <1>9, <1>14, WireGrows
<1>10. /\ Ordered(d.wire) /\ \A i \in DOMAIN d.wire : d.wire[i][1] <= v.r
  <2>1. CASE c.closing
    BY <1>2, <1>3, <1>9, <2>1
  <2>2. CASE ~c.closing
    <3>1. d.wire = Append(c.wire, <<v.r, "refused">>)
      BY <1>2, <1>3, <2>2
    <3> QED BY <1>15, <3>1
  <2> QED BY <2>1, <2>2
<1>11. WireGood(d, v)
  BY <1>3, <1>10 DEF WireGood
<1>12. ASSUME s = "attentive" PROVE NeatGood(d, v)
  <2>1. NeatGood(c, u) /\ Apart(c.wire)
    BY <1>12 DEF ConnGood, NeatGood
  <2>2. CASE c.closing
    BY <1>2, <1>3, <2>1, <2>2 DEF NeatGood
  <2>3. CASE ~c.closing
    <3>1. c.wire = <<>> \/ c.wire[Len(c.wire)][2] \in HttpWhole
      <4> SUFFICES ASSUME NEW r \in Asked, AtWork(c, r), c.cycle[r].wrote PROVE FALSE
        BY <2>1, <2>3 DEF NeatGood
      <4>1. ~Ends(u)
        BY <1>5
      <4>2. Unread(c, r)
        BY <4>1 DEF ConnGood, QueueGood
      <4> QED BY <2>1, <2>3, <4>2 DEF NeatGood
    <3>2. Apart(d.wire)
      <4>1. d.wire = Append(c.wire, <<v.r, "refused">>)
        BY <1>2, <1>3, <2>3
      <4> QED BY <1>15, <2>1, <3>1, <4>1
    <3> QED BY <1>3, <3>2 DEF NeatGood
  <2> QED BY <2>2, <2>3
<1>13. ConnGood(s, d, v, FALSE)
  BY <1>3, <1>6, <1>7, <1>8, <1>11, <1>12 DEF ConnGood
<1> QED BY <1>13, ClosedKept DEF d, w

\* A piece of the body, which is queued for the application that lives.
LEMMA ChunkKept ==
    ASSUME NEW s \in HttpScenes, NEW c, NEW u \in HttpUnit, NEW v \in HttpUnit,
           ConnGood(s, c, u, FALSE), v.tag = "chunk", ~Ends(u), v.r = u.r,
           v.i = IF u.tag = "start" THEN 1 ELSE u.i + 1
    PROVE  ConnGood(s, IF c.has_queue
                       THEN [c EXCEPT !.queue = Append(@, v),
                                      !.paused = @ \/ (Len(c.queue) + 1 >= QueueSize /\ ~c.closing)]
                       ELSE c, v, FALSE)
<1> DEFINE x == Append(c.queue, v)
           p == c.paused \/ (Len(c.queue) + 1 >= QueueSize /\ ~c.closing)
           n == Len(c.queue)
           d == [c EXCEPT !.queue = x, !.paused = p]
<1>1. /\ c \in ConnType /\ c.queue \in Seq(HttpUnit) /\ v.r \in Asked
      /\ u.tag \in {"start", "chunk"} /\ (u.tag = "chunk" => u.i \in Nat /\ u.more)
      /\ v.i \in Nat /\ v.more \in BOOLEAN /\ ~Upgrades(u) /\ ~Upgrades(v) /\ (Ends(v) <=> ~v.more)
  BY UnitFields DEF ConnGood, ConnType, Ends, Upgrades
<1>2. \A r \in Asked : AtWork(c, r) => r = v.r /\ ~c.cycle[r].ws
  BY <1>1 DEF ConnGood, OneLives
<1>3. \A r \in Asked : AtWork(c, r) => Unread(c, r)
  BY DEF ConnGood, QueueGood
<1>4. OneLives(c, v, FALSE)
  BY <1>1, <1>2 DEF ConnGood, OneLives
<1>5. WireGood(c, v)
  BY DEF ConnGood, WireGood
<1>6. CASE ~c.has_queue
  <2>1. \A r \in Asked : ~AtWork(c, r)
    BY <1>3, <1>6 DEF Unread
  <2>2. QueueGood(c, v)
    BY <2>1 DEF QueueGood
  <2>3. s = "attentive" => NeatGood(c, v)
    BY <1>1, <2>1 DEF ConnGood, NeatGood
  <2> QED BY <1>1, <1>4, <1>5, <1>6, <2>2, <2>3 DEF ConnGood
<1>7. CASE c.has_queue
  <2>1. /\ n \in Nat /\ DOMAIN c.queue = 1..n /\ (n # 0 => c.queue # <<>>)
        /\ x \in Seq(HttpUnit) /\ Len(x) = n + 1 /\ DOMAIN x = 1..(n + 1) /\ x # <<>>
        /\ x[n + 1] = v /\ \A i \in 1..n : x[i] = c.queue[i]
    BY <1>1
  <2>2. p \in BOOLEAN
    BY <1>1 DEF ConnType
  <2>3. p => c.paused \/ n + 1 >= QueueSize
    OBVIOUS
  <2> HIDE DEF x, p, n
  <2>4. d \in ConnType
    BY <1>1, <2>1, <2>2 DEF ConnType
  <2>5. /\ d.queue = x /\ d.paused = p /\ d.cycle = c.cycle /\ d.has_queue = c.has_queue
        /\ d.wire = c.wire /\ d.closing = c.closing /\ d.upgraded = c.upgraded /\ d.state = c.state
    BY <1>1 DEF ConnType
  <2> HIDE DEF d
  <2>6. OneLives(d, v, FALSE) /\ WireGood(d, v) /\ CyclesOK(d)
    BY <1>4, <1>5, <2>5 DEF OneLives, WireGood, AtWork, ConnGood, CyclesOK
  <2>7. QueueGood(d, v)
    <3> SUFFICES ASSUME NEW r \in Asked, AtWork(c, r)
                 PROVE  /\ \A i \in DOMAIN x :
                             /\ x[i].tag = "chunk" /\ x[i].r = r
                             /\ x[i].i = c.cycle[r].given + i
                             /\ i < Len(x) => x[i].more
                        /\ c.cycle[r].given + Len(x) = v.i
                        /\ x[Len(x)].more <=> v.more
      BY <1>1, <1>3, <2>5 DEF QueueGood, AtWork, Unread
    <3>1. Unread(c, r) /\ r = v.r
      BY <1>2, <1>3
    <3>2. /\ \A i \in 1..n : /\ c.queue[i].tag = "chunk" /\ c.queue[i].r = r
                             /\ c.queue[i].i = c.cycle[r].given + i
                             /\ i < n => c.queue[i].more
          /\ u.tag = "start" => c.cycle[r].given + n = 0
          /\ u.tag = "chunk" => /\ c.cycle[r].given + n = u.i
                                /\ n # 0 => (c.queue[n].more <=> u.more)
      BY <2>1, <3>1 DEF ConnGood, QueueGood, n
    <3>3. c.cycle[r].given \in Nat
      BY <1>1 DEF ConnType, CycleType
    <3>4. c.cycle[r].given + (n + 1) = v.i
      <4>1. \A g, m, k \in Nat : g + m = k => g + (m + 1) = k + 1
        OBVIOUS
      <4>2. CASE u.tag = "start"
        <5>1. c.cycle[r].given + n = 0 /\ v.i = 1
          BY <3>2, <4>2
        <5> QED BY <2>1, <3>3, <5>1
      <4>3. CASE u.tag = "chunk"
        <5>1. c.cycle[r].given + n = u.i /\ v.i = u.i + 1 /\ u.i \in Nat
          BY <1>1, <3>2, <4>3
        <5> QED BY <2>1, <3>3, <4>1, <5>1
      <4> QED BY <1>1, <4>2, <4>3
    <3>5. ASSUME NEW i \in 1..n PROVE c.queue[i].more
      <4>1. u.tag = "chunk" /\ n # 0
        BY <1>1, <2>1, <3>2, <3>3
      <4>2. c.queue[n].more
        BY <1>1, <3>2, <4>1
      <4>3. CASE i < n
        BY <3>2, <4>3
      <4>4. CASE i = n
        BY <4>2, <4>4
      <4> QED BY <2>1, <4>3, <4>4
    <3> QED BY <2>1, <3>1, <3>2, <3>4, <3>5
  <2>8. ASSUME s = "attentive" PROVE NeatGood(d, v)
    <3>1. NeatGood(c, u)
      BY <2>8 DEF ConnGood
    <3>2. CASE c.closing
      BY <2>5, <3>1, <3>2 DEF NeatGood
    <3>3. CASE ~c.closing
      <4>1. AtWork(c, v.r) /\ Unread(c, v.r)
        BY <1>1, <1>3, <3>1, <3>3 DEF NeatGood
      <4>2. p => n + 1 > QueueLow
        <5>1. CASE c.paused
          <6>1. n > QueueLow
            BY <3>1, <3>3, <5>1 DEF NeatGood, n
          <6> QED BY <2>1, <6>1, HttpSizes
        <5>2. CASE n + 1 >= QueueSize
          BY <2>1, <5>2, HttpSizes
        <5> QED BY <2>3, <5>1, <5>2
      <4>3. /\ Apart(d.wire)
            /\ ~Ends(v) => AtWork(d, v.r)
            /\ d.paused => \E r \in Asked : AtWork(d, r) /\ Unread(d, r) /\ Len(d.queue) > QueueLow
        BY <1>1, <2>1, <2>5, <3>1, <4>1, <4>2 DEF NeatGood, AtWork, Unread
      <4>4. \A r \in Asked : AtWork(d, r) /\ Unread(d, r) =>
              d.cycle[r].resp = 0 /\ ~d.cycle[r].wrote /\ d.cycle[r].at # "drain"
        BY <2>5, <3>1, <3>3 DEF NeatGood, AtWork, Unread
      <4>5. d.wire # <<>> /\ d.wire[Len(d.wire)][2] \notin HttpWhole =>
              \E r \in Asked : AtWork(d, r) /\ d.cycle[r].wrote
                  /\ IF d.cycle[r].at = "drain" THEN d.cycle[r].then = 2 ELSE d.cycle[r].resp = 2
        BY <2>5, <3>1, <3>3 DEF NeatGood, AtWork
      <4> QED BY <4>3, <4>4, <4>5 DEF NeatGood
    <3> QED BY <3>2, <3>3
  <2>9. ConnGood(s, d, v, FALSE)
    BY <2>4, <2>6, <2>7, <2>8 DEF ConnGood
  <2> QED BY <1>7, <2>9 DEF d, x, p
<1> QED BY <1>1, <1>6, <1>7 DEF ConnType

\* Whatever unit comes next, the protocol keeps the invariant.
LEMMA EventKept ==
    ASSUME NEW s \in HttpScenes, NEW c, NEW u \in HttpUnit \cup {Nothing}, NEW v \in HttpUnit, NEW rests \in BOOLEAN,
           ConnGood(s, c, u, rests), Follows(u, v), rests \/ ~Ends(u)
    PROVE  ConnGood(s, Htp(s)!HandleEvent(c, v), v, FALSE)
<1> DEFINE d == Htp(s)!HandleEvent(c, v)
<1>1. v.tag \in {"start", "chunk", "error"} /\ c \in ConnType /\ ~Upgrades(u)
  BY UnitFields DEF ConnGood, OneLives, Upgrades, Ends
<1>2. CASE v.tag = "start"
  <2>1. rests /\ v.r = u.r + 1 /\ c.state # "SERVING_APP" /\ rests = TRUE
    BY <1>1, <1>2 DEF Follows, ConnGood, OneLives
  <2>2. d = IF v.ws THEN Htp(s)!Create(c, v) ELSE Htp(s)!Serve(c, v)
    BY <1>2, <2>1 DEF Htp!HandleEvent
  <2>3. Begun(c, v, d) /\ (v.ws \/ (d.queue = <<>> /\ d.has_queue = v.body))
    BY <1>1, <1>2, <2>2, CreateIs, ServeIs
  <2> QED BY <1>2, <2>1, <2>3, BegunKept
<1>3. CASE v.tag = "chunk"
  <2>1. ~Ends(u) /\ v.r = u.r /\ v.i = (IF u.tag = "start" THEN 1 ELSE u.i + 1)
    BY <1>1, <1>3 DEF Follows
  <2>2. rests = FALSE /\ u \in HttpUnit
    BY <2>1 DEF ConnGood, OneLives, Ends, Nothing
  <2>3. d = IF c.has_queue
            THEN [c EXCEPT !.queue = Append(@, v),
                           !.paused = @ \/ (Len(c.queue) + 1 >= QueueSize /\ ~c.closing)]
            ELSE c
    BY <1>3 DEF Htp!HandleEvent
  <2>4. ConnGood(s, c, u, FALSE)
    BY <2>2
  <2> HIDE DEF d
  <2>5. ConnGood(s, d, v, FALSE)
    BY <1>3, <2>1, <2>2, <2>3, <2>4, ChunkKept, Zenon
  <2> QED BY <2>5 DEF d
<1>4. CASE v.tag = "error"
  <2>1. \/ Ends(u) /\ rests /\ v.r = u.r + 1
        \/ ~Ends(u) /\ v.r = u.r
    BY <1>1, <1>4 DEF Follows
  <2>2. d = Htp(s)!close([Htp(s)!Write(c, v.r, "refused") EXCEPT !.closing = TRUE])
    BY <1>4 DEF Htp!HandleEvent
  <2> QED BY <1>4, <2>1, <2>2, RefusedKept
<1> QED BY <1>1, <1>2, <1>3, <1>4

\* The rest of a chain of units is a chain.
LEMMA ChainedOn ==
    ASSUME NEW b \in Seq(HttpUnit), NEW q \in Seq(HttpUnit), NEW n \in 1..Len(b), NEW u, Chained(u, b \o q)
    PROVE  /\ Chained(b[n], SubSeq(b, n + 1, Len(b)) \o q)
           /\ SubSeq(b, n + 1, Len(b)) \in Seq(HttpUnit)
           /\ Follows(u, b[1]) /\ \A i \in 1..(n - 1) : Follows(b[i], b[i + 1])
<1> DEFINE x == b \o q
           a == SubSeq(b, n + 1, Len(b))
           y == a \o q
           m == Len(b)
<1>1. /\ x \in Seq(HttpUnit) /\ Len(x) = m + Len(q)
      /\ \A i \in 1..(m + Len(q)) : x[i] = IF i <= m THEN b[i] ELSE q[i - m]
      /\ m \in Nat /\ Len(q) \in Nat /\ n \in Nat
  BY ConcatProperties, LenProperties
<1>2. /\ a \in Seq(HttpUnit) /\ Len(a) = m - n
      /\ \A i \in 1..(m - n) : a[i] = b[i + n]
  <2>1. \A i \in (n + 1)..m : b[i] \in HttpUnit
    BY <1>1
  <2>2. /\ a \in Seq(HttpUnit) /\ Len(a) = (IF n + 1 <= m THEN m - (n + 1) + 1 ELSE 0)
        /\ \A i \in 1..(m - (n + 1) + 1) : a[i] = b[n + 1 + i - 1]
    BY <1>1, <2>1, SubSeqProperties
  <2> QED BY <1>1, <2>2
<1>3. /\ y \in Seq(HttpUnit) /\ Len(y) = m - n + Len(q)
      /\ \A i \in 1..(m - n + Len(q)) : y[i] = IF i <= m - n THEN a[i] ELSE q[i - (m - n)]
  <2>1. /\ y \in Seq(HttpUnit) /\ Len(y) = Len(a) + Len(q)
        /\ \A i \in 1..(Len(a) + Len(q)) : y[i] = IF i <= Len(a) THEN a[i] ELSE q[i - Len(a)]
    BY <1>2, ConcatProperties, Zenon
  <2> HIDE DEF y, a
  <2> QED BY <1>2, <2>1
<1> HIDE DEF x, a, y, m
<1>4. \A i \in 1..Len(y) : y[i] = x[i + n]
  <2> TAKE i \in 1..Len(y)
  <2>1. CASE i <= m - n
    BY <1>1, <1>2, <1>3, <2>1 DEF m
  <2>2. CASE ~(i <= m - n)
    <3>1. y[i] = q[i - (m - n)] /\ i + n \in 1..(m + Len(q)) /\ ~(i + n <= m)
      BY <1>1, <1>3, <2>2 DEF m
    <3>2. x[i + n] = q[i + n - m]
      BY <1>1, <3>1
    <3>3. i + n - m = i - (m - n)
      BY <1>1, <1>3
    <3> QED BY <3>1, <3>2, <3>3
  <2> QED BY <2>1, <2>2
<1>5. Len(x) = Len(y) + n /\ Len(y) \in Nat /\ x[n] = b[n] /\ x[1] = b[1] /\ x # <<>>
  BY <1>1, <1>3 DEF m
<1>6. /\ Follows(u, x[1]) /\ \A i \in 1..(Len(x) - 1) : Follows(x[i], x[i + 1])
  BY <1>5 DEF Chained, x
<1>7. y # <<>> => Follows(b[n], y[1])
  <2> HAVE y # <<>>
  <2>1. Len(y) >= 1 /\ 1 \in 1..Len(y) /\ n \in 1..(Len(x) - 1)
    BY <1>1, <1>3, <1>5 DEF m
  <2>2. y[1] = x[1 + n] /\ 1 + n = n + 1
    BY <1>1, <1>4, <2>1
  <2> QED BY <1>5, <1>6, <2>1, <2>2
<1>8. ASSUME NEW i \in 1..(Len(y) - 1) PROVE Follows(y[i], y[i + 1])
  <2>1. /\ i \in 1..Len(y) /\ i + 1 \in 1..Len(y) /\ i + n \in 1..(Len(x) - 1)
        /\ (i + 1) + n = (i + n) + 1
    BY <1>1, <1>5
  <2> QED BY <1>4, <1>6, <2>1
<1>9. ASSUME NEW i \in 1..(n - 1) PROVE Follows(b[i], b[i + 1])
  <2>1. i \in 1..(Len(x) - 1) /\ x[i] = b[i] /\ x[i + 1] = b[i + 1]
    BY <1>1, <1>5 DEF m
  <2> QED BY <1>6, <2>1
<1> QED BY <1>2, <1>5, <1>6, <1>7, <1>8, <1>9 DEF Chained, a, y

\* What does not depend on the parser.
LEMMA ParserSwap ==
    ASSUME NEW s \in HttpScenes, NEW c, NEW u, NEW rests, ConnGood(s, c, u, rests), NEW d, d \in ConnType,
           d.cycle = c.cycle, d.queue = c.queue, d.has_queue = c.has_queue, d.wire = c.wire,
           d.closing = c.closing, d.paused = c.paused, d.upgraded = c.upgraded, d.state = c.state
    PROVE  ConnGood(s, d, u, rests)
<1>1. OneLives(d, u, rests) /\ CyclesOK(d)
  BY DEF ConnGood, OneLives, CyclesOK, AtWork
<1>2. QueueGood(d, u) /\ WireGood(d, u)
  BY DEF ConnGood, QueueGood, WireGood, AtWork, Unread
<1>3. s = "attentive" => NeatGood(d, u)
  BY DEF ConnGood, NeatGood, AtWork, Unread
<1> QED BY <1>1, <1>2, <1>3 DEF ConnGood

\* An event leaves the parser alone.
LEMMA EventParser ==
    ASSUME NEW s \in HttpScenes, NEW c \in ConnType, NEW v \in HttpUnit
    PROVE  Htp(s)!HandleEvent(c, v).parser = c.parser
<1> DEFINE d == Htp(s)!HandleEvent(c, v)
<1>1. v.tag \in {"start", "chunk", "error"} /\ v.r \in Asked
  BY UnitFields
<1>2. CASE v.tag = "start"
  <2>1. \/ d = Htp(s)!Create(c, v) \/ d = Htp(s)!Serve(c, v) \/ d = [c EXCEPT !.pending = Append(@, v)]
    BY <1>2 DEF Htp!HandleEvent
  <2>2. [c EXCEPT !.pending = Append(@, v)].parser = c.parser
    BY DEF ConnType
  <2>3. Begun(c, v, Htp(s)!Create(c, v)) /\ Begun(c, v, Htp(s)!Serve(c, v))
    BY <1>2, CreateIs, ServeIs
  <2> QED BY <2>1, <2>2, <2>3 DEF Begun
<1>3. CASE v.tag = "chunk"
  <2>1. \/ d = c
        \/ d = [c EXCEPT !.queue = Append(@, v),
                         !.paused = @ \/ (Len(c.queue) + 1 >= QueueSize /\ ~c.closing)]
    BY <1>3 DEF Htp!HandleEvent
  <2>2. [c EXCEPT !.queue = Append(@, v),
                  !.paused = @ \/ (Len(c.queue) + 1 >= QueueSize /\ ~c.closing)].parser = c.parser
    BY DEF ConnType
  <2> QED BY <2>1, <2>2
<1>4. CASE v.tag = "error"
  <2> DEFINE w == Htp(s)!Write(c, v.r, "refused")
             x == [w EXCEPT !.closing = TRUE]
  <2>1. d = Htp(s)!close(x)
    BY <1>4 DEF Htp!HandleEvent
  <2>2. w \in ConnType /\ w.parser = c.parser
    <3>1. w = IF c.closing THEN c ELSE [c EXCEPT !.wire = Append(c.wire, <<v.r, "refused">>)]
      BY DEF Htp!Write
    <3>2. c.wire \in Seq(Asked \X HttpWords) /\ "refused" \in HttpWords
      BY DEF ConnType, HttpWords
    <3>3. Append(c.wire, <<v.r, "refused">>) \in Seq(Asked \X HttpWords)
      BY <1>1, <3>2
    <3> HIDE DEF w
    <3> QED BY <3>1, <3>3 DEF ConnType
  <2> HIDE DEF w
  <2>3. x \in ConnType /\ x.parser = c.parser
    BY <2>2 DEF ConnType
  <2> HIDE DEF x
  <2> QED BY <2>1, <2>3, CloseIs
<1> QED BY <1>1, <1>2, <1>3, <1>4

\* The greatest number of a set that is bounded.
LEMMA GreatestNatural ==
    ASSUME NEW n \in Nat, NEW T, T \subseteq 1..n, T # {}
    PROVE  \E x \in T : \A y \in T : y <= x
<1> DEFINE U == {n - x : x \in T}
<1>1. U \subseteq Nat /\ U # {}
  <2>1. \A x \in T : n - x \in Nat
    OBVIOUS
  <2> QED BY <2>1
<1>2. PICK a \in U : \A b \in U : a <= b
  BY <1>1, LeastNatural
<1>3. PICK x \in T : a = n - x
  BY <1>2
<1>4. \A y \in T : n - y \in U
  OBVIOUS
<1> HIDE DEF U
<1>5. \A y \in T : n - x <= n - y /\ x \in Nat /\ y \in Nat
  BY <1>2, <1>3, <1>4
<1> QED BY <1>5

\* The parser, as ConnType has it.
ParserType == [state : {"waiting", "body", "serving", "closed"}, keep : BOOLEAN,
               count : Nat, buffer : Seq(HttpUnit)]

\* How far one call of the parser reads.
LEMMA ConsumedIs ==
    ASSUME NEW s \in HttpScenes, NEW p \in ParserType
    PROVE  LET n == Htp(s)!Consumed(p)
           IN  /\ n \in 0..Len(p.buffer)
               /\ n # 0 => p.state \in {"waiting", "body"}
               /\ \A i \in 1..(n - 1) : ~Ends(p.buffer[i])
<1> DEFINE n == Htp(s)!Consumed(p)
           b == p.buffer
           ends == {i \in DOMAIN b : Htp(s)!Completes(b[i]) \/ Htp(s)!Refused(b[i])}
<1>1. b \in Seq(HttpUnit) /\ p.state \in {"waiting", "body", "serving", "closed"}
  BY DEF ParserType
<1>2. Len(b) \in Nat /\ DOMAIN b = 1..Len(b)
  BY <1>1
<1>3. \A i \in DOMAIN b : Ends(b[i]) <=> i \in ends
  BY DEF Ends, Htp!Completes, Htp!HeadCompletes, Htp!BodyCompletes, Htp!Refused
<1>4. n = IF p.state \in {"serving", "closed"} THEN 0
          ELSE IF ends = {} THEN Len(b) ELSE CHOOSE i \in ends : \A j \in ends : i <= j
  BY DEF Htp!Consumed
<1> HIDE DEF n, b
<1>5. CASE p.state \in {"serving", "closed"}
  BY <1>2, <1>4, <1>5 DEF n, b
<1>6. CASE p.state \notin {"serving", "closed"} /\ ends = {}
  BY <1>1, <1>2, <1>3, <1>4, <1>6 DEF n, b
<1>7. CASE p.state \notin {"serving", "closed"} /\ ends # {}
  <2>1. ends \subseteq Nat
    BY <1>2
  <2>2. \E i \in ends : \A j \in ends : i <= j
    BY <1>7, <2>1, LeastNatural
  <2>3. n \in ends /\ \A j \in ends : n <= j
    BY <1>4, <1>7, <2>2
  <2>4. n \in 1..Len(b)
    BY <1>2, <2>3
  <2>5. \A i \in 1..(n - 1) : i \in DOMAIN b /\ i \notin ends
    BY <1>2, <2>1, <2>3, <2>4
  <2> QED BY <1>1, <1>2, <1>3, <1>7, <2>4, <2>5 DEF n, b
<1> QED BY <1>5, <1>6, <1>7

\* The instance counts with the same cardinality.
LEMMA HttpCounts ==
    ASSUME NEW s, NEW S
    PROVE  Htp(s)!Cardinality(S) = Cardinality(S)
BY DEF Htp!Cardinality, Cardinality

\* What the parser is after a call.
LEMMA ProcessIs ==
    ASSUME NEW s \in HttpScenes, NEW p \in ParserType, NEW n, n = Htp(s)!Consumed(p), n # 0
    PROVE  LET e == Htp(s)!process_events(p)
           IN  /\ e \in ParserType /\ e.buffer = SubSeq(p.buffer, n + 1, Len(p.buffer))
               /\ e.state # "waiting"
               /\ e.state = "body" => ~Ends(p.buffer[n])
               /\ e.state = "serving" => Ends(p.buffer[n]) /\ p.buffer[n].tag # "error"
<1> DEFINE b == p.buffer
           heads == {i \in 1..n : b[i].tag = "start"}
           top == CHOOSE i \in heads : \A j \in heads : j <= i
           k == IF heads = {} THEN p.keep ELSE b[top].keep
           t == IF Htp(s)!Refused(b[n]) THEN "closed"
                ELSE IF Htp(s)!Completes(b[n]) THEN "serving" ELSE "body"
           m == p.count + Cardinality(heads)
           z == SubSeq(b, n + 1, Len(b))
<1>1. /\ b \in Seq(HttpUnit) /\ n \in 1..Len(b) /\ n \in Nat /\ Len(b) \in Nat
      /\ p.keep \in BOOLEAN /\ p.count \in Nat
  BY ConsumedIs DEF ParserType
<1>2. k \in BOOLEAN
  <2>1. CASE heads = {}
    BY <1>1, <2>1
  <2>2. CASE heads # {}
    <3>1. \E i \in heads : \A j \in heads : j <= i
      BY <1>1, <2>2, GreatestNatural
    <3>2. top \in heads
      BY <3>1
    <3> HIDE DEF top
    <3>4. top \in 1..n /\ b[top].tag = "start"
      BY <3>2
    <3>5. top \in 1..Len(b)
      BY <1>1, <3>4
    <3>3. b[top] \in HttpUnit /\ b[top].tag = "start"
      BY <1>1, <3>4, <3>5
    <3> QED BY <2>2, <3>3, UnitFields
  <2> QED BY <2>1, <2>2
<1>3. m \in Nat
  <2>1. IsFiniteSet(1..n)
    BY <1>1, FS_Interval
  <2>2. IsFiniteSet(heads)
    BY <2>1, FS_Subset
  <2> QED BY <1>1, <2>2, FS_CardinalityType
<1>4. z \in Seq(HttpUnit)
  <2>1. \A i \in (n + 1)..Len(b) : b[i] \in HttpUnit
    BY <1>1
  <2> QED BY <1>1, <2>1, SubSeqProperties
<1>5. Htp(s)!process_events(p) = [state |-> t, keep |-> k, count |-> m, buffer |-> z]
  <2>1. Htp(s)!Cardinality(heads) = Cardinality(heads)
    BY HttpCounts
  <2>2. Htp(s)!process_events(p) =
          [state |-> t, keep |-> k, count |-> p.count + Htp(s)!Cardinality(heads), buffer |-> z]
    BY DEF Htp!process_events
  <2> QED BY <2>1, <2>2
<1>6. /\ t \in {"closed", "serving", "body"}
      /\ t = "body" => ~Ends(b[n])
      /\ t = "serving" => Ends(b[n]) /\ b[n].tag # "error"
  BY DEF Ends, Htp!Completes, Htp!HeadCompletes, Htp!BodyCompletes, Htp!Refused
<1> HIDE DEF t, k, m, z
<1>7. [state |-> t, keep |-> k, count |-> m, buffer |-> z] \in ParserType
  BY <1>2, <1>3, <1>4, <1>6 DEF ParserType
<1> DEFINE e == Htp(s)!process_events(p)
<1>8. e.buffer = z /\ e.state = t /\ e \in ParserType
  BY <1>5, <1>7
<1> HIDE DEF e, b
<1> QED BY <1>6, <1>8 DEF z, e, b

\* What pump_events reads is handled one unit after the other.
LEMMA PumpSteps ==
    ASSUME NEW s \in HttpScenes, NEW c, NEW n \in Nat, n = Htp(s)!Consumed(c.parser)
    PROVE  \E f : /\ f[0] = [c EXCEPT !.parser = Htp(s)!process_events(c.parser)]
                  /\ \A i \in 1..n : f[i] = Htp(s)!HandleEvent(f[i - 1], c.parser.buffer[i])
                  /\ Htp(s)!Pump(c) = f[n]
<1> DEFINE base == [c EXCEPT !.parser = Htp(s)!process_events(c.parser)]
           go(x, i) == Htp(s)!HandleEvent(x, c.parser.buffer[i])
           R(f, m) == f = [i \in 0..m |-> IF i = 0 THEN base ELSE go(f[i - 1], i)]
           T == {m \in 0..n : ~\E f : R(f, m)}
           F == CHOOSE f : R(f, n)
<1>1. Htp(s)!Pump(c) = F[n]
  BY Zenon DEF Htp!Pump
<1> HIDE DEF base, go
<1>2. T = {}
  <2> SUFFICES ASSUME T # {} PROVE FALSE
    OBVIOUS
  <2>1. PICK m \in T : \A k \in T : m <= k
    <3>1. T \subseteq Nat
      OBVIOUS
    <3> QED BY <3>1, LeastNatural
  <2>2. m \in 0..n /\ ~\E f : R(f, m)
    BY <2>1
  <2>3. CASE m = 0
    <3> DEFINE g == [i \in 0..0 |-> base]
    <3>1. \A i \in 0..0 : base = IF i = 0 THEN base ELSE go(g[i - 1], i)
      BY SMT
    <3>2. g = [i \in 0..0 |-> IF i = 0 THEN base ELSE go(g[i - 1], i)]
      BY <3>1
    <3>3. R(g, 0)
      BY <3>2
    <3> QED BY <2>2, <2>3, <3>3
  <2>4. CASE m # 0
    <3>0. m \in Nat /\ m - 1 \in 0..n /\ ~(m <= m - 1)
      BY <2>2, <2>4
    <3>1. m - 1 \in 0..n /\ m - 1 \notin T
      <4> HIDE DEF T
      <4> QED BY <2>1, <3>0
    <3>2. PICK g : R(g, m - 1)
      BY <3>1
    <3> DEFINE e == [i \in 0..m |-> IF i = m THEN go(g[m - 1], m) ELSE g[i]]
    <3>3. \A i \in 0..m : e[i] = IF i = 0 THEN base ELSE go(e[i - 1], i)
      <4> TAKE i \in 0..m
      <4>1. CASE i = m
        <5>1. e[m] = go(g[m - 1], m) /\ e[m - 1] = g[m - 1]
          BY <2>2, <2>4
        <5> QED BY <2>4, <4>1, <5>1
      <4>2. CASE i # m
        <5>1. i \in 0..(m - 1) /\ e[i] = g[i] /\ (i # 0 => e[i - 1] = g[i - 1])
          BY <2>2, <4>2
        <5>2. g[i] = IF i = 0 THEN base ELSE go(g[i - 1], i)
          BY <3>2, <5>1
        <5> QED BY <5>1, <5>2
      <4> QED BY <4>1, <4>2
    <3>4. e = [i \in 0..m |-> e[i]]
      OBVIOUS
    <3> HIDE DEF e
    <3>5. R(e, m)
      BY <3>3, <3>4
    <3> QED BY <2>2, <3>5
  <2> QED BY <2>3, <2>4
<1>3. \E f : R(f, n)
  BY <1>2
<1>4. R(F, n)
  BY <1>3, Zenon
<1> HIDE DEF F
<1>5. F[0] = base /\ \A i \in 1..n : F[i] = go(F[i - 1], i)
  BY <1>4
<1> QED BY <1>1, <1>5 DEF base, go

\* pump_events and the handling of what it returns keep the invariant.
LEMMA PumpKept ==
    ASSUME NEW s \in HttpScenes, NEW c, NEW q, NEW u \in HttpUnit \cup {Nothing},
           ConnGood(s, c, u, c.parser.state = "waiting"), ParserGood(c.parser, u, q)
    PROVE  HttpGood(s, Htp(s)!Pump(c), q)
<1> DEFINE p == c.parser
           b == p.buffer
           n == Htp(s)!Consumed(p)
           e == Htp(s)!process_events(p)
           x == [c EXCEPT !.parser = e]
           d == Htp(s)!Pump(c)
           rests == p.state = "waiting"
<1>1. /\ c \in ConnType /\ p \in ParserType /\ b \in Seq(HttpUnit) /\ rests \in BOOLEAN
  BY DEF ConnGood, ConnType, ParserType
<1>2. /\ n \in 0..Len(b) /\ (n # 0 => p.state \in {"waiting", "body"})
      /\ \A i \in 1..(n - 1) : ~Ends(b[i])
  BY <1>1, ConsumedIs
<1>3. PICK f : /\ f[0] = x
               /\ \A i \in 1..n : f[i] = Htp(s)!HandleEvent(f[i - 1], b[i])
               /\ d = f[n]
  BY <1>2, PumpSteps
<1>4. CASE n = 0
  <2>1. e = p
    BY <1>4 DEF Htp!process_events
  <2>2. x = c
    BY <1>1, <2>1 DEF ConnType
  <2> QED BY <1>3, <1>4, <2>2 DEF HttpGood
<1>5. CASE n # 0
  <2>1. /\ e \in ParserType /\ e.buffer = SubSeq(b, n + 1, Len(b)) /\ e.state # "waiting"
        /\ e.state = "body" => ~Ends(b[n])
        /\ e.state = "serving" => Ends(b[n]) /\ b[n].tag # "error"
    BY <1>1, <1>5, ProcessIs
  <2>2. ~Upgrades(u) /\ (rests \/ ~Ends(u))
    BY <1>2, <1>5 DEF ConnGood, OneLives, ParserGood, Upgrades, Ends
  <2>3. q \in Seq(HttpUnit) /\ Chained(u, b \o q)
    BY <2>2 DEF ParserGood
  <2>4. n \in 1..Len(b) /\ n \in Nat
    BY <1>2, <1>5
  <2> HIDE DEF n, e, d, rests
  <2>5. /\ Chained(b[n], SubSeq(b, n + 1, Len(b)) \o q)
        /\ Follows(u, b[1]) /\ \A i \in 1..(n - 1) : Follows(b[i], b[i + 1])
    BY <1>1, <2>3, <2>4, ChainedOn
  <2>6. x \in ConnType /\ x.parser = e /\ ConnGood(s, x, u, rests)
    <3>1. x \in ConnType
      BY <1>1, <2>1 DEF ConnType, ParserType
    <3>2. /\ x.parser = e
          /\ x.cycle = c.cycle /\ x.queue = c.queue /\ x.has_queue = c.has_queue /\ x.wire = c.wire
          /\ x.closing = c.closing /\ x.paused = c.paused /\ x.upgraded = c.upgraded /\ x.state = c.state
      BY <1>1 DEF ConnType
    <3>3. ConnGood(s, c, u, rests)
      BY DEF rests
    <3> HIDE DEF x
    <3> QED BY <3>1, <3>2, <3>3, ParserSwap
  <2> HIDE DEF x
  <2> DEFINE last(i) == IF i = 0 THEN u ELSE b[i]
             G(i) == ConnGood(s, f[i], last(i), IF i = 0 THEN rests ELSE FALSE) /\ f[i].parser = e
             T == {i \in 0..n : ~G(i)}
  <2>7. G(0)
    BY <1>3, <2>6
  <2>8. ASSUME NEW i \in 1..n, G(i - 1) PROVE G(i)
    <3>1. b[i] \in HttpUnit /\ last(i - 1) \in HttpUnit \cup {Nothing}
      BY <1>1, <2>4
    <3>2. Follows(last(i - 1), b[i])
      <4>1. CASE i = 1
        BY <2>5, <4>1
      <4>2. CASE i # 1
        <5>1. i - 1 \in 1..(n - 1) /\ (i - 1) + 1 = i
          BY <2>4, <4>2
        <5>2. Follows(b[i - 1], b[(i - 1) + 1])
          BY <2>5, <5>1
        <5> QED BY <5>1, <5>2
      <4> QED BY <4>1, <4>2
    <3> DEFINE y == IF i - 1 = 0 THEN rests ELSE FALSE
    <3>3. y \in BOOLEAN /\ (y \/ ~Ends(last(i - 1)))
      <4>1. CASE i = 1
        BY <1>1, <2>2, <4>1
      <4>2. CASE i # 1
        <5>1. i - 1 \in 1..(n - 1)
          BY <2>4, <4>2
        <5>2. ~Ends(b[i - 1])
          BY <1>2, <5>1
        <5>3. last(i - 1) = b[i - 1] /\ y = FALSE
          BY <2>4, <4>2
        <5> QED BY <5>2, <5>3
      <4> QED BY <4>1, <4>2
    <3>4. ConnGood(s, f[i - 1], last(i - 1), y) /\ f[i - 1].parser = e
      BY <2>8
    <3>5. f[i] = Htp(s)!HandleEvent(f[i - 1], b[i]) /\ i # 0 /\ last(i) = b[i]
      BY <1>3
    <3> HIDE DEF y, last
    <3>6. ConnGood(s, Htp(s)!HandleEvent(f[i - 1], b[i]), b[i], FALSE)
      BY <3>1, <3>2, <3>3, <3>4, EventKept
    <3>7. Htp(s)!HandleEvent(f[i - 1], b[i]).parser = e
      <4>1. f[i - 1] \in ConnType
        BY <3>4 DEF ConnGood
      <4> QED BY <3>1, <3>4, <4>1, EventParser
    <3> QED BY <3>5, <3>6, <3>7
  <2> HIDE DEF G
  <2>9. T = {}
    <3> SUFFICES ASSUME T # {} PROVE FALSE
      OBVIOUS
    <3>1. PICK i \in T : \A j \in T : i <= j
      <4>1. T \subseteq Nat
        BY <2>4
      <4> QED BY <4>1, LeastNatural
    <3>2. i \in 1..n
      BY <2>4, <2>7, <3>1
    <3>3. i - 1 \in 0..n /\ i - 1 \notin T
      BY <2>4, <3>1, <3>2
    <3> QED BY <2>8, <3>1, <3>2, <3>3
  <2>10. G(n)
    BY <2>4, <2>9
  <2>11. ConnGood(s, d, b[n], FALSE) /\ d.parser = e
    <3>1. ConnGood(s, f[n], last(n), IF n = 0 THEN rests ELSE FALSE) /\ f[n].parser = e
      BY <2>10 DEF G
    <3>2. n # 0 /\ last(n) = b[n] /\ f[n] = d
      BY <1>3, <2>4
    <3> HIDE DEF last
    <3> QED BY <3>1, <3>2
  <2>12. ParserGood(e, b[n], q)
    BY <2>1, <2>3, <2>5 DEF ParserGood
  <2>13. b[n] \in HttpUnit
    BY <1>1, <2>4
  <2>14. (d.parser.state = "waiting") = FALSE
    BY <2>1, <2>11
  <2>15. ConnGood(s, d, b[n], d.parser.state = "waiting") /\ ParserGood(d.parser, b[n], q)
    BY <2>11, <2>12, <2>14
  <2> QED BY <2>13, <2>15 DEF d, HttpGood
<1> QED BY <1>4, <1>5

\* A step of the living application that leaves the queue and the wire alone.
LEMMA CycleMoves ==
    ASSUME NEW s \in HttpScenes, NEW c, NEW u, NEW rests, NEW r \in Asked, NEW d \in ConnType,
           ConnGood(s, c, u, rests), AtWork(c, r),
           \A q \in Asked : q # r => d.cycle[q] = c.cycle[q],
           d.cycle[r].ws = c.cycle[r].ws, d.cycle[r].body = c.cycle[r].body,
           d.queue = c.queue, d.has_queue = c.has_queue, d.wire = c.wire, d.paused = c.paused,
           d.state = c.state, d.upgraded => c.upgraded \/ c.cycle[r].ws, c.closing => d.closing,
           AtWork(d, r) /\ Unread(c, r) => d.cycle[r].given = c.cycle[r].given,
           d.cycle[r].at = "get" => Unread(c, r),
           LET y == d.cycle[r]
           IN  /\ y.at \in {"app", "get", "gone", "drain"} => ~y.ws
               /\ y.at = "ws" => y.ws
               /\ y.at = "drain" => y.then # 0
               /\ AtWork(d, r) /\ y.at # "drain" /\ y.resp <= 1 => ~y.wrote
               /\ y.hit => d.closing,
           d.cycle[r].wrote = c.cycle[r].wrote,
           s = "attentive" /\ ~d.closing =>
             /\ AtWork(d, r)
             /\ Unread(c, r) => d.cycle[r].resp = 0 /\ d.cycle[r].at # "drain"
             /\ (IF c.cycle[r].at = "drain" THEN c.cycle[r].then = 2 ELSE c.cycle[r].resp = 2)
                  => (IF d.cycle[r].at = "drain" THEN d.cycle[r].then = 2 ELSE d.cycle[r].resp = 2)
    PROVE  ConnGood(s, d, u, rests)
<1>1. \A q \in Asked : AtWork(d, q) => AtWork(c, q)
  BY DEF AtWork
<1>2. /\ r = u.r /\ (c.cycle[r].ws <=> Upgrades(u))
      /\ \A q \in Asked : AtWork(c, q) => q = r
  BY DEF ConnGood, OneLives
<1>3. OneLives(d, u, rests)
  BY <1>1, <1>2 DEF ConnGood, OneLives
<1>4. CyclesOK(d)
  BY DEF ConnGood, CyclesOK, AtWork
<1>5. QueueGood(d, u)
  <2>1. Unread(d, r) <=> Unread(c, r)
    BY DEF Unread
  <2> SUFFICES ASSUME AtWork(d, r)
               PROVE  /\ ~Ends(u) \/ d.cycle[r].at = "get" => Unread(d, r)
                      /\ Unread(d, r) =>
                           /\ \A i \in DOMAIN d.queue :
                                 /\ d.queue[i].tag = "chunk" /\ d.queue[i].r = r
                                 /\ d.queue[i].i = d.cycle[r].given + i
                                 /\ i < Len(d.queue) => d.queue[i].more
                           /\ u.tag = "start" => d.cycle[r].given + Len(d.queue) = 0
                           /\ u.tag = "chunk" => /\ d.cycle[r].given + Len(d.queue) = u.i
                                                 /\ d.queue # <<>> => (d.queue[Len(d.queue)].more <=> u.more)
    BY <1>1, <1>2, ZenonT(60) DEF QueueGood
  <2>2. ~Ends(u) => Unread(c, r)
    BY DEF ConnGood, QueueGood
  <2>3. ASSUME Unread(d, r)
        PROVE  /\ \A i \in DOMAIN c.queue :
                     /\ c.queue[i].tag = "chunk" /\ c.queue[i].r = r
                     /\ c.queue[i].i = c.cycle[r].given + i
                     /\ i < Len(c.queue) => c.queue[i].more
               /\ u.tag = "start" => c.cycle[r].given + Len(c.queue) = 0
               /\ u.tag = "chunk" => /\ c.cycle[r].given + Len(c.queue) = u.i
                                     /\ c.queue # <<>> => (c.queue[Len(c.queue)].more <=> u.more)
               /\ d.cycle[r].given = c.cycle[r].given
    BY <2>1, <2>3 DEF ConnGood, QueueGood
  <2> QED BY <2>1, <2>2, <2>3
<1>6. WireGood(d, u)
  BY <1>1 DEF ConnGood, WireGood
<1>7. ASSUME s = "attentive" PROVE NeatGood(d, u)
  <2>1. NeatGood(c, u)
    BY <1>7 DEF ConnGood
  <2>2. CASE d.closing
    BY <2>1, <2>2 DEF NeatGood
  <2>3. CASE ~d.closing
    <3>1. /\ ~c.closing /\ AtWork(d, r)
          /\ Unread(c, r) => d.cycle[r].resp = 0 /\ d.cycle[r].at # "drain"
          /\ (IF c.cycle[r].at = "drain" THEN c.cycle[r].then = 2 ELSE c.cycle[r].resp = 2)
               => (IF d.cycle[r].at = "drain" THEN d.cycle[r].then = 2 ELSE d.cycle[r].resp = 2)
          /\ (Unread(d, r) <=> Unread(c, r))
      BY <1>7, <2>3 DEF Unread
    <3>2. /\ Apart(d.wire)
          /\ ~Ends(u) => AtWork(d, u.r)
          /\ d.paused => \E q \in Asked : AtWork(d, q) /\ Unread(d, q) /\ Len(d.queue) > QueueLow
      BY <1>2, <2>1, <3>1 DEF NeatGood
    <3>3. \A q \in Asked : AtWork(d, q) /\ Unread(d, q) =>
              d.cycle[q].resp = 0 /\ ~d.cycle[q].wrote /\ d.cycle[q].at # "drain"
      BY <1>1, <1>2, <2>1, <3>1 DEF NeatGood
    <3>4. d.wire # <<>> /\ d.wire[Len(d.wire)][2] \notin HttpWhole =>
              \E q \in Asked : AtWork(d, q) /\ d.cycle[q].wrote
                  /\ IF d.cycle[q].at = "drain" THEN d.cycle[q].then = 2 ELSE d.cycle[q].resp = 2
      BY <1>2, <2>1, <3>1 DEF NeatGood
    <3> QED BY <3>2, <3>3, <3>4 DEF NeatGood
  <2> QED BY <2>2, <2>3
<1> QED BY <1>3, <1>4, <1>5, <1>6, <1>7 DEF ConnGood

\* What a connection d owes to c when the cycle of r becomes y and little else changes.
Put(c, r, y, d) ==
    /\ d \in ConnType /\ d.cycle[r] = y /\ \A q \in Asked : q # r => d.cycle[q] = c.cycle[q]
    /\ d.queue = c.queue /\ d.has_queue = c.has_queue /\ d.wire = c.wire /\ d.paused = c.paused
    /\ d.state = c.state /\ d.parser = c.parser

\* To change a cycle is to owe that.
LEMMA PutCycle ==
    ASSUME NEW c \in ConnType, NEW r \in Asked, NEW y \in CycleType,
           NEW d, d = [c EXCEPT !.cycle = [c.cycle EXCEPT ![r] = y]]
    PROVE  Put(c, r, y, d) /\ d.upgraded = c.upgraded /\ d.closing = c.closing
<1> DEFINE f == [c.cycle EXCEPT ![r] = y]
<1>1. f \in [Asked -> CycleType] /\ f[r] = y /\ \A q \in Asked : q # r => f[q] = c.cycle[q]
  BY DEF ConnType
<1> HIDE DEF f
<1>2. d = [c EXCEPT !.cycle = f]
  BY DEF f
<1>3. d \in ConnType /\ d.cycle = f
  BY <1>1, <1>2 DEF ConnType
<1>4. /\ d.queue = c.queue /\ d.has_queue = c.has_queue /\ d.wire = c.wire /\ d.paused = c.paused
      /\ d.state = c.state /\ d.parser = c.parser /\ d.upgraded = c.upgraded /\ d.closing = c.closing
  BY <1>2 DEF ConnType
<1> QED BY <1>1, <1>3, <1>4 DEF Put

\* What every step of an application may assume.
LEMMA AtPlace ==
    ASSUME NEW s \in HttpScenes, HttpInv(s), NEW r \in Asked, NEW places, NEW d,
           Htp(s)!Step(r, places, d), "none" \notin places, "over" \notin places
    PROVE  /\ h \in ConnType /\ h.cycle[r] \in CycleType /\ h.cycle[r].at \in places /\ AtWork(h, r)
           /\ h' = d /\ stream' = stream
           /\ \E u \in HttpUnit \cup {Nothing} :
                /\ ConnGood(s, h, u, h.parser.state = "waiting")
                /\ ParserGood(h.parser, u, stream) /\ u.r = r
                /\ h.parser.state # "waiting" /\ (h.cycle[r].ws <=> Upgrades(u))
<1>1. PICK u \in HttpUnit \cup {Nothing} :
        ConnGood(s, h, u, h.parser.state = "waiting") /\ ParserGood(h.parser, u, stream)
  BY DEF HttpInv, HttpGood
<1>2. h.cycle[r].at \in places /\ h' = d /\ stream' = stream
  BY DEF Htp!Step
<1>3. h \in ConnType /\ h.cycle[r] \in CycleType /\ AtWork(h, r)
  BY <1>1, <1>2 DEF ConnGood, ConnType, AtWork
<1>4. u.r = r /\ h.parser.state # "waiting" /\ (h.cycle[r].ws <=> Upgrades(u))
  BY <1>1, <1>3 DEF ConnGood, OneLives
<1> QED BY <1>1, <1>2, <1>3, <1>4

\* The step is a move of the cycle.
LEMMA Moved ==
    ASSUME NEW s \in HttpScenes, NEW c, NEW q, NEW r \in Asked, NEW u \in HttpUnit \cup {Nothing},
           ConnGood(s, c, u, c.parser.state = "waiting"), ParserGood(c.parser, u, q), AtWork(c, r),
           NEW y, NEW d, Put(c, r, y, d),
           y.ws = c.cycle[r].ws, y.body = c.cycle[r].body, y.wrote = c.cycle[r].wrote,
           d.upgraded => c.upgraded \/ c.cycle[r].ws, c.closing => d.closing,
           AtWork(d, r) /\ Unread(c, r) => y.given = c.cycle[r].given,
           y.at = "get" => Unread(c, r),
           y.at \in {"app", "get", "gone", "drain"} => ~y.ws,
           y.at = "ws" => y.ws,
           y.at = "drain" => y.then # 0,
           AtWork(d, r) /\ y.at # "drain" /\ y.resp <= 1 => ~y.wrote,
           y.hit => d.closing,
           s = "attentive" /\ ~d.closing =>
             /\ AtWork(d, r)
             /\ Unread(c, r) => y.resp = 0 /\ y.at # "drain"
             /\ (IF c.cycle[r].at = "drain" THEN c.cycle[r].then = 2 ELSE c.cycle[r].resp = 2)
                  => (IF y.at = "drain" THEN y.then = 2 ELSE y.resp = 2)
    PROVE  HttpGood(s, d, q)
<1>1. ConnGood(s, d, u, c.parser.state = "waiting")
  BY CycleMoves DEF Put
<1>2. d.parser = c.parser
  BY DEF Put
<1> QED BY <1>1, <1>2 DEF HttpGood

\* What the invariant says of one cycle.
LEMMA CycleIs ==
    ASSUME NEW s \in HttpScenes, NEW c, NEW u, NEW rests, ConnGood(s, c, u, rests), NEW r \in Asked, AtWork(c, r)
    PROVE  LET y == c.cycle[r]
           IN  /\ y \in CycleType /\ y.resp \in 0..3 /\ y.then \in {0, 2, 3}
               /\ y.at \in {"app", "get", "gone", "drain"} => ~y.ws
               /\ y.at = "ws" => y.ws
               /\ y.at = "drain" => y.then # 0
               /\ y.at # "drain" /\ y.resp <= 1 => ~y.wrote
               /\ y.hit => c.closing
               /\ s = "attentive" /\ ~c.closing /\ Unread(c, r) => y.resp = 0 /\ ~y.wrote /\ y.at # "drain"
<1>1. c.cycle[r] \in CycleType
  BY DEF ConnGood, ConnType
<1>2. c.cycle[r].resp \in 0..3 /\ c.cycle[r].then \in {0, 2, 3}
  BY <1>1 DEF CycleType
<1>3. s = "attentive" => NeatGood(c, u)
  BY DEF ConnGood
<1> QED BY <1>1, <1>2, <1>3 DEF ConnGood, CyclesOK, NeatGood

\* A task begins, or was cancelled before it did.
LEMMA BeginKept ==
    ASSUME NEW s \in HttpScenes, HttpInv(s), NEW r \in Asked, Htp(s)!Begin(r)
    PROVE  HttpInv(s)'
<1> DEFINE c == h.cycle[r]
           a == IF c.hit THEN "over" ELSE IF c.ws THEN "ws" ELSE "app"
           y == [c EXCEPT !.at = a]
           d == [h EXCEPT !.cycle[r].at = a, !.upgraded = @ \/ (c.ws /\ ~c.hit)]
<1>1. Htp(s)!Step(r, {"new"}, d)
  BY DEF Htp!Begin
<1>2. /\ h \in ConnType /\ c \in CycleType /\ c.at = "new" /\ AtWork(h, r)
      /\ h' = d /\ stream' = stream
  BY <1>1, AtPlace
<1>3. PICK u \in HttpUnit \cup {Nothing} :
        /\ ConnGood(s, h, u, h.parser.state = "waiting") /\ ParserGood(h.parser, u, stream) /\ u.r = r
  BY <1>1, AtPlace
<1>4. /\ y \in CycleType /\ y.at = a /\ y.ws = c.ws /\ y.body = c.body /\ y.wrote = c.wrote
      /\ y.given = c.given /\ y.hit = c.hit /\ y.resp = c.resp /\ y.then = c.then
  BY <1>2 DEF CycleType
<1>5. /\ Put(h, r, y, d) /\ (d.upgraded => h.upgraded \/ c.ws) /\ d.closing = h.closing
  <2>1. d = [h EXCEPT !.cycle = [h.cycle EXCEPT ![r] = y], !.upgraded = h.upgraded \/ (c.ws /\ ~c.hit)]
    OBVIOUS
  <2> HIDE DEF y
  <2>2. [h.cycle EXCEPT ![r] = y] \in [Asked -> CycleType]
    BY <1>2, <1>4 DEF ConnType
  <2>3. (h.upgraded \/ (c.ws /\ ~c.hit)) \in BOOLEAN
    BY <1>2, <1>4 DEF ConnType, CycleType
  <2> HIDE DEF d
  <2> QED BY <1>2, <2>1, <2>2, <2>3 DEF ConnType, Put
<1>6. /\ c.resp <= 1 => ~c.wrote
      /\ c.hit => h.closing
      /\ s = "attentive" /\ ~h.closing /\ Unread(h, r) => c.resp = 0
  BY <1>2, <1>3, CycleIs
<1> HIDE DEF d, y
<1>7. AtWork(d, r) <=> a # "over"
  BY <1>4, <1>5 DEF AtWork, Put
<1>8. HttpGood(s, d, stream)
  BY <1>2, <1>3, <1>4, <1>5, <1>6, <1>7, Moved
<1> QED BY <1>2, <1>8 DEF HttpInv

\* receive(): the application waits for what it is given, or is given nothing.
LEMMA AskKept ==
    ASSUME NEW s \in HttpScenes, HttpInv(s), NEW r \in Asked, Htp(s)!Receive(r)
    PROVE  HttpInv(s)'
<1> DEFINE c == h.cycle[r]
           y == IF c.body /\ h.has_queue THEN [c EXCEPT !.at = "get"]
                ELSE IF ~c.body /\ c.given = 0 THEN [c EXCEPT !.given = 1]
                ELSE [c EXCEPT !.at = "gone"]
           d == IF c.body /\ h.has_queue THEN [h EXCEPT !.cycle[r].at = "get"]
                ELSE IF ~c.body /\ c.given = 0 THEN [h EXCEPT !.cycle[r].given = 1]
                ELSE [h EXCEPT !.cycle[r].at = "gone"]
<1>1. Htp(s)!Step(r, {"app"}, d)
  BY DEF Htp!Receive
<1>2. /\ h \in ConnType /\ c \in CycleType /\ c.at = "app" /\ AtWork(h, r)
      /\ h' = d /\ stream' = stream
  BY <1>1, AtPlace
<1>3. PICK u \in HttpUnit \cup {Nothing} :
        /\ ConnGood(s, h, u, h.parser.state = "waiting") /\ ParserGood(h.parser, u, stream) /\ u.r = r
  BY <1>1, AtPlace
<1>4. /\ y \in CycleType /\ y.at \in {"get", "app", "gone"} /\ y.ws = c.ws /\ y.body = c.body
      /\ y.wrote = c.wrote /\ y.hit = c.hit /\ y.resp = c.resp /\ y.then = c.then
      /\ (y.at = "get" => Unread(h, r)) /\ (Unread(h, r) => y.given = c.given)
  BY <1>2 DEF CycleType, Unread
<1>5. Put(h, r, y, d) /\ d.upgraded = h.upgraded /\ d.closing = h.closing
  <2>1. d = [h EXCEPT !.cycle = [h.cycle EXCEPT ![r] = y]]
    OBVIOUS
  <2> HIDE DEF y, d
  <2> QED BY <1>2, <1>4, <2>1, PutCycle
<1>6. /\ ~c.ws /\ (c.resp <= 1 => ~c.wrote) /\ (c.hit => h.closing)
      /\ s = "attentive" /\ ~h.closing /\ Unread(h, r) => c.resp = 0
  BY <1>2, <1>3, CycleIs
<1> HIDE DEF d, y
<1>7. AtWork(d, r)
  BY <1>4, <1>5 DEF AtWork, Put
<1>8. HttpGood(s, d, stream)
  <2>1. /\ y.at # "drain" /\ ~y.ws /\ (y.resp <= 1 => ~y.wrote) /\ (y.hit => d.closing)
        /\ s = "attentive" /\ ~d.closing =>
             (Unread(h, r) => y.resp = 0) /\ (c.resp = 2 => y.resp = 2) /\ c.at # "drain"
    BY <1>2, <1>4, <1>5, <1>6
  <2> QED BY <1>2, <1>3, <1>4, <1>5, <1>7, <2>1, Moved, ZenonT(60)
<1> QED BY <1>2, <1>8 DEF HttpInv

\* The disconnect that an application waited for.
LEMMA DisconnectedKept ==
    ASSUME NEW s \in HttpScenes, HttpInv(s), NEW r \in Asked, Htp(s)!Disconnected(r)
    PROVE  HttpInv(s)'
<1> DEFINE c == h.cycle[r]
           y == [c EXCEPT !.at = "app"]
           d == [h EXCEPT !.cycle[r].at = "app"]
<1>1. Htp(s)!Step(r, {"gone"}, d)
  BY DEF Htp!Disconnected
<1>2. /\ h \in ConnType /\ c \in CycleType /\ c.at = "gone" /\ AtWork(h, r)
      /\ h' = d /\ stream' = stream
  BY <1>1, AtPlace
<1>3. PICK u \in HttpUnit \cup {Nothing} :
        /\ ConnGood(s, h, u, h.parser.state = "waiting") /\ ParserGood(h.parser, u, stream) /\ u.r = r
  BY <1>1, AtPlace
<1>4. /\ y \in CycleType /\ y.at = "app" /\ y.ws = c.ws /\ y.body = c.body /\ y.given = c.given
      /\ y.wrote = c.wrote /\ y.hit = c.hit /\ y.resp = c.resp /\ y.then = c.then
  BY <1>2 DEF CycleType
<1>5. Put(h, r, y, d) /\ d.upgraded = h.upgraded /\ d.closing = h.closing
  <2>1. d = [h EXCEPT !.cycle = [h.cycle EXCEPT ![r] = y]]
    OBVIOUS
  <2> HIDE DEF y, d
  <2> QED BY <1>2, <1>4, <2>1, PutCycle
<1>6. /\ ~c.ws /\ (c.resp <= 1 => ~c.wrote) /\ (c.hit => h.closing)
      /\ s = "attentive" /\ ~h.closing /\ Unread(h, r) => c.resp = 0
  BY <1>2, <1>3, CycleIs
<1> HIDE DEF d, y
<1>7. AtWork(d, r)
  BY <1>4, <1>5 DEF AtWork, Put
<1>8. HttpGood(s, d, stream)
  BY <1>2, <1>3, <1>4, <1>5, <1>6, <1>7, Moved
<1> QED BY <1>2, <1>8 DEF HttpInv

\* The head of a response is kept until its first body message.
LEMMA SendStartKept ==
    ASSUME NEW s \in HttpScenes, HttpInv(s), NEW r \in Asked, Htp(s)!SendStart(r)
    PROVE  HttpInv(s)'
<1> DEFINE c == h.cycle[r]
           y == [c EXCEPT !.resp = 1]
           d == [h EXCEPT !.cycle[r].resp = 1]
<1>1. Htp(s)!Step(r, {"app"}, d) /\ c.resp = 0 /\ Htp(s)!Ready(r)
  BY DEF Htp!SendStart
<1>2. /\ h \in ConnType /\ c \in CycleType /\ c.at = "app" /\ AtWork(h, r)
      /\ h' = d /\ stream' = stream
  BY <1>1, AtPlace
<1>3. PICK u \in HttpUnit \cup {Nothing} :
        /\ ConnGood(s, h, u, h.parser.state = "waiting") /\ ParserGood(h.parser, u, stream) /\ u.r = r
  BY <1>1, AtPlace
<1>4. /\ y \in CycleType /\ y.at = "app" /\ y.ws = c.ws /\ y.body = c.body /\ y.given = c.given
      /\ y.wrote = c.wrote /\ y.hit = c.hit /\ y.resp = 1 /\ y.then = c.then
  BY <1>2 DEF CycleType
<1>5. Put(h, r, y, d) /\ d.upgraded = h.upgraded /\ d.closing = h.closing
  <2>1. d = [h EXCEPT !.cycle = [h.cycle EXCEPT ![r] = y]]
    OBVIOUS
  <2> HIDE DEF y, d
  <2> QED BY <1>2, <1>4, <2>1, PutCycle
<1>6. ~c.ws /\ ~c.wrote /\ (c.hit => h.closing)
  BY <1>1, <1>2, <1>3, CycleIs
<1>9. s = "attentive" => ~Unread(h, r)
  BY <1>1, HttpSizes DEF Htp!Ready, Htp!AllRead, Unread
<1> HIDE DEF d, y
<1>7. AtWork(d, r)
  BY <1>4, <1>5 DEF AtWork, Put
<1>8. HttpGood(s, d, stream)
  <2>1. /\ y.at # "drain" /\ y.at # "get" /\ ~y.ws /\ (y.resp <= 1 => ~y.wrote) /\ (y.hit => d.closing)
        /\ s = "attentive" => ~Unread(h, r)
        /\ c.resp # 2 /\ c.at # "drain"
    BY <1>1, <1>2, <1>4, <1>5, <1>6, <1>9
  <2> QED BY <1>3, <1>4, <1>5, <1>2, <1>7, <2>1, Moved, ZenonT(60)
<1> QED BY <1>2, <1>8 DEF HttpInv

\* A send whose drain has come.
LEMMA DrainedKept ==
    ASSUME NEW s \in HttpScenes, HttpInv(s), NEW r \in Asked, Htp(s)!Drained(r)
    PROVE  HttpInv(s)'
<1> DEFINE c == h.cycle[r]
           k == h.closing \/ (c.resp = 1 /\ c.then = 3 /\ ~c.keep)
           y == [c EXCEPT !.at = "app", !.resp = c.then]
           d == Htp(s)!Sent(h, r)
<1>1. Htp(s)!Step(r, {"drain"}, d)
  BY DEF Htp!Drained
<1>2. /\ h \in ConnType /\ c \in CycleType /\ c.at = "drain" /\ AtWork(h, r)
      /\ h' = d /\ stream' = stream
  BY <1>1, AtPlace
<1>3. PICK u \in HttpUnit \cup {Nothing} :
        /\ ConnGood(s, h, u, h.parser.state = "waiting") /\ ParserGood(h.parser, u, stream) /\ u.r = r
  BY <1>1, AtPlace
<1>6. /\ ~c.ws /\ c.then \in {2, 3} /\ (c.hit => h.closing)
      /\ s = "attentive" /\ ~h.closing => ~Unread(h, r)
  BY <1>2, <1>3, CycleIs
<1>4. /\ y \in CycleType /\ y.at = "app" /\ y.ws = c.ws /\ y.body = c.body /\ y.given = c.given
      /\ y.wrote = c.wrote /\ y.hit = c.hit /\ y.resp = c.then /\ y.then = c.then
  <2>1. c.then \in 0..3 /\ c.then \in {0, 2, 3}
    BY <1>6
  <2> QED BY <1>2, <2>1 DEF CycleType
<1>5. Put(h, r, y, d) /\ d.upgraded = h.upgraded /\ (h.closing => d.closing)
  <2>1. d = [h EXCEPT !.cycle = [h.cycle EXCEPT ![r] = y], !.closing = k]
    BY DEF Htp!Sent
  <2>2. [h.cycle EXCEPT ![r] = y] \in [Asked -> CycleType]
    BY <1>2, <1>4 DEF ConnType
  <2>3. k \in BOOLEAN /\ (h.closing => k)
    BY <1>2 DEF ConnType
  <2> HIDE DEF d, k, y
  <2> QED BY <1>2, <2>1, <2>2, <2>3 DEF ConnType, Put
<1> HIDE DEF d, y
<1>7. AtWork(d, r)
  BY <1>4, <1>5 DEF AtWork, Put
<1>9. c.then # 0 /\ ~(c.then <= 1) /\ c.at = "drain"
  BY <1>2, <1>6
<1>8. HttpGood(s, d, stream)
  BY <1>2, <1>3, <1>4, <1>5, <1>6, <1>7, <1>9, Moved
<1> QED BY <1>2, <1>8 DEF HttpInv

\* The application that lived is over; the protocol did not hear of it.
Over(c, r) == [c EXCEPT !.cycle[r].at = "over"]

\* Nothing is lost with it once the connection closes or was handed over.
LEMMA DiesKept ==
    ASSUME NEW s \in HttpScenes, NEW c, NEW q, NEW r \in Asked, NEW u \in HttpUnit \cup {Nothing},
           ConnGood(s, c, u, c.parser.state = "waiting"), ParserGood(c.parser, u, q), AtWork(c, r),
           c.closing \/ c.cycle[r].ws
    PROVE  LET d == Over(c, r)
           IN  /\ ConnGood("careless", d, u, d.parser.state = "waiting") /\ ParserGood(d.parser, u, q)
               /\ (c.closing => HttpGood(s, d, q)) /\ d \in ConnType
               /\ (s = "attentive" => Apart(d.wire)) /\ (d.state = "CLOSED" => d.closing)
<1> DEFINE y == [c.cycle[r] EXCEPT !.at = "over"]
           d == Over(c, r)
<1>1. c \in ConnType /\ c.cycle[r] \in CycleType
  BY DEF ConnGood, ConnType
<1>2. /\ y \in CycleType /\ y.at = "over" /\ y.ws = c.cycle[r].ws /\ y.body = c.cycle[r].body
      /\ y.given = c.cycle[r].given /\ y.wrote = c.cycle[r].wrote /\ y.hit = c.cycle[r].hit
  BY <1>1 DEF CycleType
<1>3. Put(c, r, y, d) /\ d.upgraded = c.upgraded /\ d.closing = c.closing
  <2>1. d = [c EXCEPT !.cycle = [c.cycle EXCEPT ![r] = y]]
    BY DEF Over
  <2> HIDE DEF y, d
  <2> QED BY <1>1, <1>2, <2>1, PutCycle
<1>4. c.cycle[r].hit => c.closing
  BY CycleIs
<1> HIDE DEF y, d
<1>5. ~AtWork(d, r)
  BY <1>2, <1>3 DEF AtWork, Put
<1>6. ConnGood("careless", c, u, c.parser.state = "waiting") /\ "careless" \in HttpScenes
  BY DEF ConnGood, HttpScenes
<1>7. ConnGood("careless", d, u, c.parser.state = "waiting")
  <2>1. /\ d \in ConnType /\ d.cycle[r] = y /\ \A o \in Asked : o # r => d.cycle[o] = c.cycle[o]
        /\ d.queue = c.queue /\ d.has_queue = c.has_queue /\ d.wire = c.wire /\ d.paused = c.paused
        /\ d.state = c.state
    BY <1>3 DEF Put
  <2>2. /\ d.cycle[r].ws = c.cycle[r].ws /\ d.cycle[r].body = c.cycle[r].body
        /\ d.cycle[r].wrote = c.cycle[r].wrote
        /\ d.cycle[r].at = "over" /\ (d.cycle[r].hit => d.closing)
    BY <1>2, <1>3, <1>4, <2>1
  <2> DEFINE rests == c.parser.state = "waiting"
  <2>3. PICK k \in HttpScenes : k # "attentive" /\ ConnGood(k, c, u, rests)
    BY <1>6
  <2> HIDE DEF rests
  <2>4. ConnGood(k, d, u, rests)
    <3>1. d.upgraded = c.upgraded /\ d.closing = c.closing /\ AtWork(c, r) /\ r \in Asked
      BY <1>3
    <3> QED BY ONLY <1>5, <2>1, <2>2, <2>3, <3>1, CycleMoves
  <2> QED BY <2>3, <2>4 DEF ConnGood, rests
<1>8. d.parser = c.parser /\ d.wire = c.wire /\ d.state = c.state
  BY <1>3 DEF Put
<1>9. ASSUME c.closing PROVE HttpGood(s, d, q)
  BY <1>2, <1>3, <1>4, <1>5, <1>9, Moved
<1>10. (s = "attentive" => Apart(d.wire)) /\ (d.state = "CLOSED" => d.closing)
  BY <1>3, <1>8 DEF ConnGood, NeatGood, CyclesOK
<1> QED BY <1>3, <1>7, <1>8, <1>9, <1>10 DEF Put, d

\* The handler of a WebSocket ends and the connection is closed.
LEMMA SocketEndsKept ==
    ASSUME NEW s \in HttpScenes, HttpInv(s), NEW r \in Asked, Htp(s)!WebSocketEnds(r)
    PROVE  HttpInv(s)'
<1> DEFINE a == Over(h, r)
           d == Htp(s)!close(a)
<1>1. Htp(s)!Step(r, {"ws"}, d)
  BY DEF Htp!WebSocketEnds, Over
<1>2. /\ h \in ConnType /\ h.cycle[r].at = "ws" /\ AtWork(h, r) /\ h' = d /\ stream' = stream
  BY <1>1, AtPlace
<1>3. PICK u \in HttpUnit \cup {Nothing} :
        /\ ConnGood(s, h, u, h.parser.state = "waiting") /\ ParserGood(h.parser, u, stream) /\ u.r = r
        /\ (h.cycle[r].ws <=> Upgrades(u))
  BY <1>1, AtPlace
<1>4. CASE h.cycle[r].ws \/ h.closing
  <2>1. /\ ConnGood("careless", a, u, a.parser.state = "waiting") /\ ParserGood(a.parser, u, stream)
        /\ a \in ConnType /\ (s = "attentive" => Apart(a.wire)) /\ (a.state = "CLOSED" => a.closing)
    BY <1>2, <1>3, <1>4, DiesKept
  <2> HIDE DEF a
  <2>2. "careless" \in HttpScenes /\ (a.parser.state = "waiting") \in BOOLEAN
    BY DEF HttpScenes
  <2>3. ConnGood("careless", Htp("careless")!close(a), u, a.parser.state = "waiting")
    BY <2>1, <2>2, ClosedKept
  <2>4. Htp("careless")!close(a) = d
    BY DEF Htp!close, Htp!Reqs, Htp!Live
  <2>5. d.closing /\ d.wire = a.wire /\ d.parser = a.parser
    BY <2>1, CloseIs
  <2>6. s = "attentive" => NeatGood(d, u)
    BY <2>1, <2>5 DEF NeatGood
  <2>7. ConnGood(s, d, u, a.parser.state = "waiting")
    BY <2>3, <2>4, <2>6 DEF ConnGood
  <2>8. HttpGood(s, d, stream)
    BY <2>1, <2>5, <2>7 DEF HttpGood
  <2> QED BY <1>2, <2>8 DEF HttpInv
<1>5. h.cycle[r].ws
  BY <1>2, <1>3 DEF ConnGood, CyclesOK
<1> QED BY <1>4, <1>5

\* Nobody is left when the application that lived is over.
LEMMA LeftAlone ==
    ASSUME NEW s \in HttpScenes, NEW c, NEW u, NEW before, NEW rests, NEW r \in Asked, NEW d \in ConnType,
           ConnGood(s, c, u, before), AtWork(c, r),
           \A o \in Asked : o # r => d.cycle[o] = c.cycle[o],
           d.cycle[r].at = "over", d.cycle[r].hit = c.cycle[r].hit,
           d.wire = c.wire, d.paused = c.paused, d.upgraded = c.upgraded,
           c.closing => d.closing, d.state = "CLOSED" => d.closing,
           rests => d.state # "SERVING_APP" /\ Ends(u) /\ ~Upgrades(u),
           s = "attentive" /\ ~d.closing =>
             ~Unread(c, r) /\ c.cycle[r].at # "drain" /\ ~(c.cycle[r].wrote /\ c.cycle[r].resp = 2)
    PROVE  ConnGood(s, d, u, rests)
<1>1. \A o \in Asked : AtWork(c, o) => o = r
  BY DEF ConnGood, OneLives
<1>2. \A o \in Asked : ~AtWork(d, o)
  BY <1>1 DEF AtWork
<1>3. OneLives(d, u, rests)
  BY <1>2 DEF ConnGood, OneLives
<1>4. CyclesOK(d)
  BY <1>2 DEF ConnGood, CyclesOK
<1>5. QueueGood(d, u) /\ WireGood(d, u)
  BY <1>2 DEF ConnGood, QueueGood, WireGood
<1>6. ASSUME s = "attentive" PROVE NeatGood(d, u)
  <2>1. NeatGood(c, u)
    BY <1>6 DEF ConnGood
  <2>2. CASE d.closing
    BY <2>1, <2>2 DEF NeatGood
  <2>3. CASE ~d.closing
    <3>1. ~c.closing /\ ~Unread(c, r) /\ c.cycle[r].at # "drain" /\ ~(c.cycle[r].wrote /\ c.cycle[r].resp = 2)
      BY <1>6, <2>3
    <3>2. Ends(u)
      BY <1>1, <2>1, <3>1 DEF ConnGood, QueueGood, NeatGood
    <3>3. ~c.paused
      BY <1>1, <2>1, <3>1 DEF NeatGood
    <3>4. ~(c.wire # <<>> /\ c.wire[Len(c.wire)][2] \notin HttpWhole)
      BY <1>1, <2>1, <3>1 DEF NeatGood
    <3> QED BY <1>2, <2>1, <3>2, <3>3, <3>4 DEF NeatGood
  <2> QED BY <2>2, <2>3
<1> QED BY <1>3, <1>4, <1>5, <1>6 DEF ConnGood

\* Only a request that was received in full is finished.
LEMMA ResetIs ==
    ASSUME NEW s \in HttpScenes, NEW p \in ParserType
    PROVE  LET e == Htp(s)!reset_for_next_request(p)
           IN  /\ e \in ParserType /\ e.buffer = p.buffer
               /\ p.state # "serving" => e.state = p.state
               /\ p.state = "serving" => e.state \in {"waiting", "closed"}
BY DEF Htp!reset_for_next_request, ParserType

\* The finally block of a cycle keeps the invariant.
LEMMA FinishKept ==
    ASSUME NEW s \in HttpScenes, NEW c, NEW q, NEW r \in Asked, NEW u \in HttpUnit \cup {Nothing},
           ConnGood(s, c, u, c.parser.state = "waiting"), ParserGood(c.parser, u, q), AtWork(c, r),
           ~c.cycle[r].ws,
           s = "attentive" /\ ~c.closing =>
             ~Unread(c, r) /\ c.cycle[r].at # "drain" /\ ~(c.cycle[r].wrote /\ c.cycle[r].resp = 2)
    PROVE  HttpGood(s, Htp(s)!Finish(c, r), q)
<1> DEFINE y == [c.cycle[r] EXCEPT !.at = "over"]
           e == Htp(s)!reset_for_next_request(c.parser)
           f == [c.cycle EXCEPT ![r] = y]
           a == [c EXCEPT !.disconnect = TRUE, !.cycle[r].at = "over",
                          !.parser = Htp(s)!reset_for_next_request(@)]
           b == [a EXCEPT !.state = "KEEP_ALIVE_WAIT"]
           z == [a EXCEPT !.closing = TRUE]
           d == Htp(s)!Finish(c, r)
<1>1. c \in ConnType /\ c.cycle[r] \in CycleType /\ c.parser \in ParserType
  BY DEF ConnGood, ConnType, ParserType
<1>2. c.parser.state # "waiting" /\ ~Upgrades(u)
  BY DEF ConnGood, OneLives
<1>3. /\ e \in ParserType /\ e.buffer = c.parser.buffer
      /\ c.parser.state # "serving" => e.state = c.parser.state
      /\ c.parser.state = "serving" => e.state \in {"waiting", "closed"}
  BY <1>1, ResetIs
<1>4. f \in [Asked -> CycleType] /\ f[r].at = "over" /\ f[r].hit = c.cycle[r].hit
      /\ \A o \in Asked : o # r => f[o] = c.cycle[o]
  <2>1. y \in CycleType /\ y.at = "over" /\ y.hit = c.cycle[r].hit
    BY <1>1 DEF CycleType
  <2> HIDE DEF y
  <2> QED BY <1>1, <2>1 DEF ConnType
<1>5. d = IF a.parser.state = "closed" THEN z
          ELSE IF b.pending # <<>>
               THEN Htp(s)!Serve([b EXCEPT !.pending = Tail(@)], Head(b.pending))
               ELSE Htp(s)!Pump(b)
  BY DEF Htp!Finish
<1>11. a = [c EXCEPT !.disconnect = TRUE, !.cycle = f, !.parser = e]
  OBVIOUS
<1> HIDE DEF d, e, f, a
<1>6. /\ a \in ConnType /\ a.parser = e /\ a.cycle = f /\ a.wire = c.wire /\ a.paused = c.paused
      /\ a.upgraded = c.upgraded /\ a.closing = c.closing /\ a.state = c.state
  BY <1>1, <1>3, <1>4, <1>11 DEF ConnType, ParserType
<1>7. e.state = "waiting" => Ends(u)
  BY <1>2, <1>3 DEF ParserGood
<1>8. ParserGood(e, u, q)
  BY <1>2, <1>3 DEF ParserGood
<1>9. CASE a.parser.state = "closed"
  <2>1. /\ z \in ConnType /\ z.parser = e /\ z.cycle = f /\ z.wire = c.wire /\ z.paused = c.paused
        /\ z.upgraded = c.upgraded /\ z.closing = TRUE
    BY <1>6 DEF ConnType
  <2> HIDE DEF z
  <2> DEFINE before == c.parser.state = "waiting"
  <2>2. ConnGood(s, c, u, before)
    OBVIOUS
  <2> HIDE DEF before
  <2>3. /\ \A o \in Asked : o # r => z.cycle[o] = c.cycle[o]
        /\ z.cycle[r].at = "over" /\ z.cycle[r].hit = c.cycle[r].hit
    BY <1>4, <2>1
  <2> DEFINE after == z.parser.state = "waiting"
  <2>5. ~after /\ d = z
    BY <1>5, <1>6, <1>9, <2>1
  <2> HIDE DEF after
  <2>4. ConnGood(s, z, u, after)
    BY ONLY <2>1, <2>2, <2>3, <2>5, LeftAlone, s \in HttpScenes, r \in Asked, AtWork(c, r)
  <2>6. ConnGood(s, d, u, d.parser.state = "waiting") /\ ParserGood(d.parser, u, q)
    BY <1>8, <2>1, <2>4, <2>5 DEF after
  <2> QED BY <2>6 DEF HttpGood, d
<1>10. CASE a.parser.state # "closed"
  <2>1. /\ b \in ConnType /\ b.parser = e /\ b.cycle = f /\ b.wire = c.wire /\ b.paused = c.paused
        /\ b.upgraded = c.upgraded /\ b.closing = c.closing /\ b.state = "KEEP_ALIVE_WAIT"
        /\ b.pending = <<>>
    BY <1>6 DEF ConnType
  <2> HIDE DEF b
  <2>2. d = Htp(s)!Pump(b)
    BY <1>5, <1>10, <2>1
  <2> DEFINE rests == b.parser.state = "waiting"
  <2>3. rests => Ends(u) /\ ~Upgrades(u)
    BY <1>2, <1>7, <2>1
  <2> HIDE DEF rests
  <2>4. ConnGood(s, b, u, rests)
    BY <1>4, <2>1, <2>3, LeftAlone
  <2>5. ConnGood(s, b, u, b.parser.state = "waiting") /\ ParserGood(b.parser, u, q)
    BY <1>8, <2>1, <2>4 DEF rests
  <2>6. HttpGood(s, Htp(s)!Pump(b), q)
    BY <2>5, PumpKept
  <2> QED BY <2>2, <2>6 DEF d
<1> QED BY <1>9, <1>10

\* The application returns.
LEMMA ReturnKept ==
    ASSUME NEW s \in HttpScenes, HttpInv(s), NEW r \in Asked, Htp(s)!Return(r)
    PROVE  HttpInv(s)'
<1>1. /\ Htp(s)!Step(r, {"app"}, Htp(s)!Finish(h, r)) /\ Htp(s)!Ready(r)
      /\ h.cycle[r].resp = 3 \/ "short" \in Habits[s]
  BY DEF Htp!Return
<1>2. /\ h.cycle[r].at = "app" /\ AtWork(h, r) /\ h' = Htp(s)!Finish(h, r) /\ stream' = stream
  BY <1>1, AtPlace
<1>3. PICK u \in HttpUnit \cup {Nothing} :
        ConnGood(s, h, u, h.parser.state = "waiting") /\ ParserGood(h.parser, u, stream)
  BY <1>1, AtPlace
<1>4. ~h.cycle[r].ws
  BY <1>2, <1>3, CycleIs
<1>5. s = "attentive" => ~Unread(h, r) /\ h.cycle[r].resp = 3
  BY <1>1, HttpSizes DEF Htp!Ready, Htp!AllRead, Unread
<1>6. HttpGood(s, Htp(s)!Finish(h, r), stream)
  BY <1>2, <1>3, <1>4, <1>5, FinishKept
<1> QED BY <1>2, <1>6 DEF HttpInv

\* A cancelled application ends without an answer.
LEMMA CancelledKept ==
    ASSUME NEW s \in HttpScenes, HttpInv(s), NEW r \in Asked, Htp(s)!Cancelled(r)
    PROVE  HttpInv(s)'
<1> DEFINE places == {"app", "get", "gone", "drain", "ws"}
           d == IF h.cycle[r].ws THEN Over(h, r) ELSE Htp(s)!Finish(h, r)
<1>1. Htp(s)!Step(r, places, d) /\ h.cycle[r].hit
  BY DEF Htp!Cancelled, Over
<1>2. AtWork(h, r) /\ h' = d /\ stream' = stream
  BY <1>1, AtPlace
<1>3. PICK u \in HttpUnit \cup {Nothing} :
        ConnGood(s, h, u, h.parser.state = "waiting") /\ ParserGood(h.parser, u, stream)
  <2>1. "none" \notin places /\ "over" \notin places
    OBVIOUS
  <2> HIDE DEF places, d
  <2> QED BY <1>1, <2>1, AtPlace
<1>4. h.closing
  BY <1>1, <1>2, <1>3, CycleIs
<1>5. CASE h.cycle[r].ws
  <2>1. HttpGood(s, Over(h, r), stream)
    BY <1>2, <1>3, <1>4, DiesKept
  <2> QED BY <1>2, <1>5, <2>1 DEF HttpInv
<1>6. CASE ~h.cycle[r].ws
  <2>1. HttpGood(s, Htp(s)!Finish(h, r), stream)
    BY <1>2, <1>3, <1>4, <1>6, FinishKept
  <2> QED BY <1>2, <1>6, <2>1 DEF HttpInv
<1> QED BY <1>5, <1>6

\* What a connection w owes to c when the application that lives has written.
Wrote(s, c, u, what, w) ==
    /\ w \in ConnType
    /\ w.cycle = c.cycle /\ w.queue = c.queue /\ w.has_queue = c.has_queue
    /\ w.closing = c.closing /\ w.paused = c.paused /\ w.upgraded = c.upgraded
    /\ w.state = c.state /\ w.parser = c.parser
    /\ \A i \in DOMAIN w.wire : w.wire[i][1] <= u.r
    /\ Ordered(w.wire) /\ (s = "attentive" => Apart(w.wire))
    /\ ~c.closing => w.wire[Len(w.wire)][2] = what

\* What it writes goes where it belongs.
LEMMA WrittenIs ==
    ASSUME NEW s \in HttpScenes, NEW c, NEW u \in HttpUnit \cup {Nothing}, NEW rests, NEW r \in Asked,
           NEW what \in HttpWords,
           ConnGood(s, c, u, rests), AtWork(c, r), what # "refused",
           what \in {"head", "full", "500"} => ~c.cycle[r].wrote
    PROVE  Wrote(s, c, u, what, Htp(s)!Write(c, r, what))
<1> DEFINE w == Htp(s)!Write(c, r, what)
           x == Append(c.wire, <<r, what>>)
<1>1. c \in ConnType /\ c.wire \in Seq(Asked \X HttpWords) /\ u.r = r
  BY DEF ConnGood, ConnType, OneLives
<1>2. w = IF c.closing THEN c ELSE [c EXCEPT !.wire = x]
  BY DEF Htp!Write
<1>3. (\A i \in DOMAIN c.wire : c.wire[i][1] <= r) /\ Ordered(c.wire)
  BY <1>1 DEF ConnGood, WireGood
<1>4. s = "attentive" => NeatGood(c, u) /\ Apart(c.wire)
  BY DEF ConnGood, NeatGood
<1> HIDE DEF w, x
<1>5. CASE c.closing
  BY <1>1, <1>2, <1>3, <1>4, <1>5 DEF Wrote, w
<1>6. CASE ~c.closing
  <2>1. what \in {"head", "full", "500"} => \A i \in DOMAIN c.wire : c.wire[i][1] # r
    BY <1>6 DEF ConnGood, WireGood
  <2>2. /\ Ordered(x) /\ x[Len(x)] = <<r, what>>
        /\ \A i \in DOMAIN x : x[i][1] <= r
        /\ /\ Apart(c.wire)
           /\ what \in {"head", "full", "500", "refused"} => c.wire = <<>> \/ c.wire[Len(c.wire)][2] \in HttpWhole
           => Apart(x)
    BY <1>1, <1>3, <2>1, WireGrows DEF x
  <2>3. ASSUME s = "attentive" PROVE Apart(x)
    <3>1. SUFFICES ASSUME what \in {"head", "full", "500"}
                   PROVE  c.wire = <<>> \/ c.wire[Len(c.wire)][2] \in HttpWhole
      BY <1>4, <2>2, <2>3
    <3>2. ~c.cycle[r].wrote /\ \A o \in Asked : AtWork(c, o) => o = r
      BY <3>1 DEF ConnGood, OneLives
    <3> QED BY <1>4, <1>6, <2>3, <3>2 DEF NeatGood
  <2>4. x \in Seq(Asked \X HttpWords)
    BY <1>1 DEF x
  <2>5. /\ w \in ConnType /\ w.wire = x
        /\ w.cycle = c.cycle /\ w.queue = c.queue /\ w.has_queue = c.has_queue
        /\ w.closing = c.closing /\ w.paused = c.paused /\ w.upgraded = c.upgraded
        /\ w.state = c.state /\ w.parser = c.parser
    BY <1>1, <1>2, <1>6, <2>4 DEF ConnType
  <2>6. x[Len(x)][2] = what
    BY <2>2
  <2> QED BY <1>1, <1>6, <2>2, <2>3, <2>5, <2>6 DEF Wrote, w
<1> QED BY <1>5, <1>6

\* The application raises, which is answered with a 500 when nothing was written.
LEMMA FailKept ==
    ASSUME NEW s \in HttpScenes, HttpInv(s), NEW r \in Asked, Htp(s)!Fail(r)
    PROVE  HttpInv(s)'
<1> DEFINE w == Htp(s)!Write(h, r, "500")
           z == [w EXCEPT !.closing = TRUE]
           c == IF h.cycle[r].wrote \/ h.closing THEN h ELSE z
           rests == h.parser.state = "waiting"
<1>1. /\ Htp(s)!Step(r, {"app"}, Htp(s)!Finish(c, r))
      /\ h.cycle[r].wrote => "raise" \in Habits[s]
  BY DEF Htp!Fail
<1> HIDE DEF c
<1>2. /\ h \in ConnType /\ h.cycle[r].at = "app" /\ AtWork(h, r)
      /\ h' = Htp(s)!Finish(c, r) /\ stream' = stream
  BY <1>1, AtPlace
<1>3. PICK u \in HttpUnit \cup {Nothing} :
        ConnGood(s, h, u, h.parser.state = "waiting") /\ ParserGood(h.parser, u, stream)
  BY <1>1, AtPlace
<1>4. ~h.cycle[r].ws
  BY <1>2, <1>3, CycleIs
<1>5. s = "attentive" => ~h.cycle[r].wrote
  BY <1>1, HttpSizes
<1>6. CASE h.cycle[r].wrote \/ h.closing
  <2>1. c = h
    BY <1>6 DEF c
  <2>2. HttpGood(s, Htp(s)!Finish(c, r), stream)
    BY <1>2, <1>3, <1>4, <1>5, <1>6, <2>1, FinishKept
  <2> QED BY <1>2, <2>2 DEF HttpInv
<1>7. CASE ~(h.cycle[r].wrote \/ h.closing)
  <2>1. c = z
    BY <1>7 DEF c
  <2>2. ConnGood(s, h, u, rests)
    BY <1>3
  <2>13. PICK what \in HttpWords : what = "500" /\ what # "refused"
    BY DEF HttpWords
  <2>14. w = Htp(s)!Write(h, r, what)
    BY <2>13
  <2> HIDE DEF rests, w
  <2>3. /\ w \in ConnType
        /\ w.cycle = h.cycle /\ w.queue = h.queue /\ w.has_queue = h.has_queue
        /\ w.closing = h.closing /\ w.paused = h.paused /\ w.upgraded = h.upgraded
        /\ w.state = h.state /\ w.parser = h.parser
        /\ \A i \in DOMAIN w.wire : w.wire[i][1] <= u.r
        /\ Ordered(w.wire) /\ (s = "attentive" => Apart(w.wire))
    <3>1. Wrote(s, h, u, what, w)
      BY <1>2, <1>7, <2>2, <2>13, <2>14, WrittenIs
    <3> QED BY <3>1 DEF Wrote
  <2>4. /\ z \in ConnType /\ z.closing
        /\ z.cycle = h.cycle /\ z.queue = h.queue /\ z.has_queue = h.has_queue
        /\ z.paused = h.paused /\ z.upgraded = h.upgraded
        /\ z.state = h.state /\ z.parser = h.parser /\ z.wire = w.wire
    BY <2>3 DEF ConnType
  <2> HIDE DEF z
  <2>5. OneLives(z, u, rests) /\ CyclesOK(z)
    BY <2>2, <2>4 DEF ConnGood, OneLives, CyclesOK, AtWork
  <2>6. QueueGood(z, u)
    BY <2>2, <2>4 DEF ConnGood, QueueGood, AtWork, Unread
  <2>7. WireGood(z, u)
    BY <2>3, <2>4 DEF WireGood
  <2>8. s = "attentive" => NeatGood(z, u)
    BY <2>3, <2>4 DEF NeatGood
  <2>9. ConnGood(s, z, u, rests)
    BY <2>4, <2>5, <2>6, <2>7, <2>8 DEF ConnGood
  <2>10. ConnGood(s, z, u, z.parser.state = "waiting") /\ ParserGood(z.parser, u, stream)
    BY <1>3, <2>4, <2>9 DEF rests
  <2>11. AtWork(z, r) /\ ~z.cycle[r].ws
    BY <1>2, <1>4, <2>4 DEF AtWork
  <2>12. HttpGood(s, Htp(s)!Finish(z, r), stream)
    BY <2>4, <2>10, <2>11, FinishKept
  <2> QED BY <1>2, <2>1, <2>12 DEF HttpInv
<1> QED BY <1>6, <1>7

\* A body message is written, and its sender goes on or waits for the drain.
LEMMA BodyKept ==
    ASSUME NEW s \in HttpScenes, NEW c, NEW u \in HttpUnit \cup {Nothing}, NEW rests, NEW r \in Asked,
           ConnGood(s, c, u, rests), AtWork(c, r), c.cycle[r].at = "app", c.cycle[r].resp \in {1, 2},
           NEW what \in HttpWords, NEW d \in ConnType, NEW n \in {2, 3},
           what # "refused", what \in {"head", "full", "500"} => c.cycle[r].resp = 1,
           what \in HttpWhole <=> n = 3,
           \A o \in Asked : o # r => d.cycle[o] = c.cycle[o],
           LET y == d.cycle[r]
           IN  /\ y.at \in {"app", "drain"} /\ y.ws = c.cycle[r].ws /\ y.body = c.cycle[r].body
               /\ y.given = c.cycle[r].given /\ y.hit = c.cycle[r].hit /\ y.wrote
               /\ IF y.at = "drain" THEN y.then = n ELSE y.resp = n,
           d.queue = c.queue, d.has_queue = c.has_queue, d.paused = c.paused, d.upgraded = c.upgraded,
           d.state = c.state, c.closing => d.closing, d.wire = Htp(s)!Write(c, r, what).wire
    PROVE  ConnGood(s, d, u, rests)
<1> DEFINE w == Htp(s)!Write(c, r, what)
           y == d.cycle[r]
<1>1. ~c.cycle[r].ws /\ (c.cycle[r].resp <= 1 => ~c.cycle[r].wrote) /\ (c.cycle[r].hit => c.closing)
      /\ (s = "attentive" /\ ~c.closing => ~Unread(c, r))
  BY CycleIs
<1>2. what \in {"head", "full", "500"} => ~c.cycle[r].wrote
  BY <1>1
<1>3. /\ \A i \in DOMAIN w.wire : w.wire[i][1] <= u.r
      /\ Ordered(w.wire) /\ (s = "attentive" => Apart(w.wire))
      /\ ~c.closing => w.wire[Len(w.wire)][2] = what
  <2>1. Wrote(s, c, u, what, w)
    BY <1>2, WrittenIs
  <2> QED BY <2>1 DEF Wrote
<1>4. /\ AtWork(d, r) /\ y.wrote /\ y.at \in {"app", "drain"} /\ ~y.ws
      /\ (y.hit => d.closing) /\ (y.at = "drain" => y.then # 0) /\ (y.at # "drain" => ~(y.resp <= 1))
  BY <1>1 DEF AtWork
<1>5. /\ r = u.r /\ (c.cycle[r].ws <=> Upgrades(u)) /\ ~rests
      /\ \A o \in Asked : AtWork(c, o) => o = r
  BY DEF ConnGood, OneLives
<1>6. \A o \in Asked : AtWork(d, o) => o = r
  BY <1>5 DEF AtWork
<1> HIDE DEF w
<1>7. OneLives(d, u, rests)
  BY <1>4, <1>5, <1>6 DEF ConnGood, OneLives
<1>8. CyclesOK(d)
  <2>1. d.state = "CLOSED" => d.closing
    BY DEF ConnGood, CyclesOK
  <2> SUFFICES ASSUME NEW o \in Asked
               PROVE  LET x == d.cycle[o]
                      IN  /\ x.at \in {"app", "get", "gone", "drain"} => ~x.ws
                          /\ x.at = "ws" => x.ws
                          /\ x.at = "drain" => x.then # 0
                          /\ AtWork(d, o) /\ x.at # "drain" /\ x.resp <= 1 => ~x.wrote
                          /\ x.hit => d.closing
    BY <2>1 DEF CyclesOK
  <2>2. CASE o = r
    BY <1>4, <2>2
  <2>3. CASE o # r
    BY <1>6, <2>3 DEF ConnGood, CyclesOK
  <2> QED BY <2>2, <2>3
<1>9. QueueGood(d, u)
  <2>1. Unread(d, r) <=> Unread(c, r)
    BY DEF Unread
  <2>2. /\ ~Ends(u) => Unread(c, r)
        /\ Unread(c, r) =>
             /\ \A i \in DOMAIN d.queue :
                   /\ d.queue[i].tag = "chunk" /\ d.queue[i].r = r
                   /\ d.queue[i].i = y.given + i
                   /\ i < Len(d.queue) => d.queue[i].more
             /\ u.tag = "start" => y.given + Len(d.queue) = 0
             /\ u.tag = "chunk" => /\ y.given + Len(d.queue) = u.i
                                   /\ d.queue # <<>> => (d.queue[Len(d.queue)].more <=> u.more)
    BY DEF ConnGood, QueueGood
  <2>3. y.at # "get"
    BY <1>4
  <2> QED BY <1>6, <2>1, <2>2, <2>3, ZenonT(60) DEF QueueGood
<1>10. WireGood(d, u)
  <2>1. d.wire = w.wire
    BY DEF w
  <2>2. \A o \in Asked : AtWork(d, o) => d.cycle[o].wrote
    BY <1>4, <1>6
  <2> QED BY <1>3, <2>1, <2>2 DEF WireGood
<1>11. ASSUME s = "attentive" PROVE NeatGood(d, u)
  <2>1. NeatGood(c, u) /\ d.wire = w.wire
    BY <1>11 DEF ConnGood, w
  <2>2. CASE d.closing
    BY <1>3, <1>11, <2>1, <2>2 DEF NeatGood
  <2>3. CASE ~d.closing
    <3>1. ~c.closing /\ ~Unread(c, r) /\ ~Unread(d, r)
      BY <1>1, <1>11, <2>3 DEF Unread
    <3>2. ~d.paused
      BY <1>5, <2>1, <3>1 DEF NeatGood
    <3>3. d.wire[Len(d.wire)][2] \notin HttpWhole => IF y.at = "drain" THEN y.then = 2 ELSE y.resp = 2
      <4>1. d.wire[Len(d.wire)][2] = what
        BY <1>3, <2>1, <3>1
      <4> QED BY <4>1
    <3> QED BY <1>3, <1>4, <1>5, <1>6, <1>11, <2>1, <3>1, <3>2, <3>3 DEF NeatGood
  <2> QED BY <2>2, <2>3
<1> QED BY <1>7, <1>8, <1>9, <1>10, <1>11 DEF ConnGood

\* send(): what a body message leaves behind.
LEMMA SendBodyKept ==
    ASSUME NEW s \in HttpScenes, HttpInv(s), NEW r \in Asked, Htp(s)!SendBody(r)
    PROVE  HttpInv(s)'
<1> DEFINE x == h.cycle[r]
           Word(more) == IF x.resp = 1 THEN (IF more THEN "head" ELSE "full")
                         ELSE IF more THEN "part" ELSE "end"
           After(v) == IF v.drain THEN Htp(s)!Sent(v, r) ELSE [v EXCEPT !.cycle[r].at = "drain"]
<1>1. \E more, full, stay \in BOOLEAN :
        x.resp \in {1, 2} /\ Htp(s)!Step(r, {"app"}, After(Htp(s)!Answer(r, more, full, stay)))
  BY ZenonT(60) DEF Htp!SendBody
<1> HIDE DEF After
<1>15. PICK more \in BOOLEAN, full \in BOOLEAN, stay \in BOOLEAN :
        x.resp \in {1, 2} /\ Htp(s)!Step(r, {"app"}, After(Htp(s)!Answer(r, more, full, stay)))
  BY <1>1
<1> DEFINE what == Word(more)
           n == IF more THEN 2 ELSE 3
           w == Htp(s)!Write(h, r, what)
           c == Htp(s)!Answer(r, more, full, stay)
           d == After(c)
           rests == h.parser.state = "waiting"
<1>2. x.resp \in {1, 2} /\ Htp(s)!Step(r, {"app"}, d)
  BY <1>15
<1> HIDE DEF d
<1>3. /\ h \in ConnType /\ x \in CycleType /\ x.at = "app" /\ AtWork(h, r)
      /\ h' = d /\ stream' = stream
  BY <1>2, AtPlace
<1>4. PICK u \in HttpUnit \cup {Nothing} :
        /\ ConnGood(s, h, u, rests) /\ ParserGood(h.parser, u, stream)
  BY <1>2, AtPlace
<1>5. /\ n \in {2, 3} /\ what \in HttpWords /\ what # "refused"
      /\ (what \in {"head", "full", "500"} => x.resp = 1) /\ (what \in HttpWhole <=> n = 3)
  BY <1>2 DEF HttpWords, HttpWhole
<1>6. x.resp <= 1 => ~x.wrote
  BY <1>3, <1>4, CycleIs
<1> DEFINE y == [x EXCEPT !.wrote = TRUE, !.keep = @ /\ stay, !.then = n]
<1>16. c = [w EXCEPT !.cycle = [w.cycle EXCEPT ![r] = y], !.drain = w.drain /\ ~full]
  BY DEF Htp!Answer
<1> HIDE DEF what, rests, n, w, c, Word
<1>7. /\ w \in ConnType
      /\ w.cycle = h.cycle /\ w.queue = h.queue /\ w.has_queue = h.has_queue
      /\ w.closing = h.closing /\ w.paused = h.paused /\ w.upgraded = h.upgraded
      /\ w.state = h.state /\ w.parser = h.parser
  <2>1. what \in {"head", "full", "500"} => ~x.wrote
    BY <1>5, <1>6
  <2>2. Wrote(s, h, u, what, w)
    BY <1>3, <1>4, <1>5, <2>1, WrittenIs DEF w
  <2> QED BY <2>2 DEF Wrote
<1> DEFINE z == IF c.drain THEN [y EXCEPT !.at = "app", !.resp = n] ELSE [y EXCEPT !.at = "drain"]
<1>8. /\ y \in CycleType /\ y.wrote /\ y.then = n /\ y.ws = x.ws /\ y.body = x.body
      /\ y.given = x.given /\ y.hit = x.hit
  BY <1>3, <1>5 DEF CycleType
<1>9. /\ c \in ConnType /\ c.cycle[r] = y /\ \A o \in Asked : o # r => c.cycle[o] = h.cycle[o]
      /\ c.queue = h.queue /\ c.has_queue = h.has_queue /\ c.closing = h.closing
      /\ c.paused = h.paused /\ c.upgraded = h.upgraded /\ c.state = h.state
      /\ c.parser = h.parser /\ c.wire = w.wire
  <2> DEFINE f == [w.cycle EXCEPT ![r] = y]
             v == w.drain /\ ~full
  <2>1. c = [w EXCEPT !.cycle = f, !.drain = v]
    BY <1>16
  <2>2. f = [h.cycle EXCEPT ![r] = y]
    BY <1>7
  <2> HIDE DEF y
  <2>3. f \in [Asked -> CycleType] /\ f[r] = y /\ \A o \in Asked : o # r => f[o] = h.cycle[o]
    BY <1>3, <1>8, <2>2 DEF ConnType
  <2>4. v \in BOOLEAN
    BY <1>7 DEF ConnType
  <2> HIDE DEF c, f, v
  <2>5. c \in ConnType /\ c.cycle = f
    BY <1>7, <2>1, <2>3, <2>4 DEF ConnType
  <2>6. /\ c.queue = w.queue /\ c.has_queue = w.has_queue /\ c.closing = w.closing
        /\ c.paused = w.paused /\ c.upgraded = w.upgraded /\ c.state = w.state
        /\ c.parser = w.parser /\ c.wire = w.wire
    BY <1>7, <2>1 DEF ConnType
  <2> QED BY <1>7, <2>3, <2>5, <2>6
<1> HIDE DEF c, y
<1>10. /\ z \in CycleType /\ z.at \in {"app", "drain"} /\ z.ws = x.ws /\ z.body = x.body
       /\ z.given = x.given /\ z.hit = x.hit /\ z.wrote
       /\ IF z.at = "drain" THEN z.then = n ELSE z.resp = n
  <2>1. n \in 0..3 /\ n \in {0, 2, 3}
    BY <1>5
  <2> QED BY <1>8, <2>1 DEF CycleType
<1>11. Put(c, r, z, d) /\ d.upgraded = c.upgraded /\ (c.closing => d.closing)
  <2>1. CASE c.drain
    <3> DEFINE k == c.closing \/ (y.resp = 1 /\ y.then = 3 /\ ~y.keep)
               f == [c.cycle EXCEPT ![r] = z]
    <3>1. z = [y EXCEPT !.at = "app", !.resp = y.then]
      BY <1>8, <2>1
    <3>2. d = [c EXCEPT !.cycle[r].at = "app", !.cycle[r].resp = y.then, !.closing = k]
      BY <1>9, <2>1 DEF Htp!Sent, d, After
    <3>3. d = [c EXCEPT !.cycle = f, !.closing = k]
      <4>1. z = [c.cycle[r] EXCEPT !.at = "app", !.resp = y.then]
        BY <1>9, <3>1
      <4> HIDE DEF z, k
      <4> QED BY <3>2, <4>1
    <3>4. k \in BOOLEAN /\ (c.closing => k)
      BY <1>9 DEF ConnType
    <3> HIDE DEF z, k
    <3>5. f \in [Asked -> CycleType] /\ f[r] = z /\ \A o \in Asked : o # r => f[o] = c.cycle[o]
      BY <1>9, <1>10 DEF ConnType
    <3> HIDE DEF f
    <3>6. d \in ConnType /\ d.cycle = f /\ d.closing = k
      BY <1>9, <3>3, <3>4, <3>5 DEF ConnType
    <3>7. /\ d.queue = c.queue /\ d.has_queue = c.has_queue /\ d.wire = c.wire /\ d.paused = c.paused
          /\ d.state = c.state /\ d.parser = c.parser /\ d.upgraded = c.upgraded
      BY <1>9, <3>3 DEF ConnType
    <3> QED BY <3>4, <3>5, <3>6, <3>7 DEF Put
  <2>2. CASE ~c.drain
    <3>1. d = [c EXCEPT !.cycle = [c.cycle EXCEPT ![r] = z]]
      BY <1>9, <2>2 DEF d, After
    <3> HIDE DEF z
    <3> QED BY <1>9, <1>10, <3>1, PutCycle
  <2> QED BY <2>1, <2>2
<1> HIDE DEF z
<1>12. /\ d \in ConnType /\ d.cycle[r] = z /\ \A o \in Asked : o # r => d.cycle[o] = h.cycle[o]
       /\ d.queue = h.queue /\ d.has_queue = h.has_queue /\ d.paused = h.paused
       /\ d.upgraded = h.upgraded /\ d.state = h.state /\ d.parser = h.parser
       /\ (h.closing => d.closing) /\ d.wire = Htp(s)!Write(h, r, what).wire
  BY <1>9, <1>11 DEF Put, w
<1>13. ConnGood(s, d, u, rests)
  <2>1. /\ d.cycle[r].at \in {"app", "drain"} /\ d.cycle[r].ws = x.ws /\ d.cycle[r].body = x.body
        /\ d.cycle[r].given = x.given /\ d.cycle[r].hit = x.hit /\ d.cycle[r].wrote
        /\ IF d.cycle[r].at = "drain" THEN d.cycle[r].then = n ELSE d.cycle[r].resp = n
    BY <1>10, <1>12
  <2> QED BY <1>2, <1>3, <1>4, <1>5, <1>12, <2>1, BodyKept
<1>14. ConnGood(s, d, u, d.parser.state = "waiting") /\ ParserGood(d.parser, u, stream)
  BY <1>4, <1>12, <1>13 DEF rests
<1> QED BY <1>3, <1>14 DEF HttpInv, HttpGood

\* A piece of the body that is given to the application that lives.
LEMMA PieceKept ==
    ASSUME NEW s \in HttpScenes, NEW c, NEW u \in HttpUnit \cup {Nothing}, NEW rests, NEW r \in Asked,
           ConnGood(s, c, u, rests), AtWork(c, r), c.cycle[r].at = "get", c.queue # <<>>,
           NEW d \in ConnType, \A o \in Asked : o # r => d.cycle[o] = c.cycle[o],
           LET y == d.cycle[r]  x == c.cycle[r]
           IN  /\ y.at = "app" /\ y.ws = x.ws /\ y.body = x.body /\ y.given = x.given + 1
               /\ y.hit = x.hit /\ y.wrote = x.wrote /\ y.resp = x.resp,
           d.queue = Tail(c.queue), d.has_queue = c.queue[1].more, d.wire = c.wire,
           d.upgraded = c.upgraded, d.state = c.state, d.closing = c.closing,
           d.paused => c.paused /\ (c.queue[1].more => Len(Tail(c.queue)) > QueueLow)
    PROVE  ConnGood(s, d, u, rests)
<1> DEFINE t == Tail(c.queue)
           n == Len(c.queue)
           x == c.cycle[r]
           y == d.cycle[r]
           more == c.queue[1].more
<1>1. /\ c \in ConnType /\ c.queue \in Seq(HttpUnit) /\ x \in CycleType /\ x.given \in Nat
      /\ x.body \in BOOLEAN /\ c.has_queue \in BOOLEAN
  BY DEF ConnGood, ConnType, CycleType
<1>2. /\ n \in Nat /\ n >= 1 /\ DOMAIN c.queue = 1..n
      /\ Len(t) = n - 1 /\ DOMAIN t = 1..(n - 1) /\ \A i \in 1..(n - 1) : t[i] = c.queue[i + 1]
  <2>1. n \in Nat /\ DOMAIN c.queue = 1..n /\ n # 0
    BY <1>1, EmptySeq
  <2>2. t \in Seq(HttpUnit) /\ Len(t) = n - 1 /\ \A i \in 1..Len(t) : t[i] = c.queue[i + 1]
    BY <1>1, HeadTailProperties
  <2>3. DOMAIN t = 1..Len(t)
    BY <2>2
  <2> HIDE DEF t, n
  <2> QED BY <2>1, <2>2, <2>3
<1>3. /\ r = u.r /\ (x.ws <=> Upgrades(u)) /\ ~rests /\ ~x.ws
      /\ \A o \in Asked : AtWork(c, o) => o = r
  BY DEF ConnGood, OneLives, CyclesOK
<1>4. Unread(c, r)
  BY DEF ConnGood, QueueGood
<1>5. /\ \A i \in 1..n : /\ c.queue[i].tag = "chunk" /\ c.queue[i].r = r
                         /\ c.queue[i].i = x.given + i
                         /\ i < n => c.queue[i].more
      /\ u.tag = "start" => x.given + n = 0
      /\ u.tag = "chunk" => x.given + n = u.i /\ (c.queue[n].more <=> u.more)
  <2>1. c.queue # <<>>
    OBVIOUS
  <2> QED BY <1>2, <1>4, <2>1 DEF ConnGood, QueueGood
<1>6. u.tag # "start"
  BY <1>1, <1>2, <1>5
<1>7. \A o \in Asked : AtWork(d, o) => o = r
  BY <1>3 DEF AtWork
<1>8. AtWork(d, r)
  BY DEF AtWork
<1>9. ~more => n = 1
  <2> HIDE DEF n
  <2>1. 1 \in 1..n /\ (1 < n => more)
    BY <1>2, <1>5
  <2> QED BY <1>2, <2>1
<1>10. ~Ends(u) => more
  <2> SUFFICES ASSUME ~Ends(u), n = 1 PROVE more
    BY <1>9
  <2>1. u.tag = "chunk" /\ u.more
    BY <1>6, UnitFields DEF Ends, Nothing
  <2> QED BY <1>5, <2>1
<1>11. Unread(d, r) => more
  BY DEF Unread
<1>12. more => Unread(d, r)
  BY <1>4 DEF Unread
<1> HIDE DEF t, n
<1>13. OneLives(d, u, rests)
  BY <1>3, <1>7 DEF ConnGood, OneLives
<1>14. CyclesOK(d)
  <2>1. d.state = "CLOSED" => d.closing
    BY DEF ConnGood, CyclesOK
  <2> SUFFICES ASSUME NEW o \in Asked
               PROVE  LET v == d.cycle[o]
                      IN  /\ v.at \in {"app", "get", "gone", "drain"} => ~v.ws
                          /\ v.at = "ws" => v.ws
                          /\ v.at = "drain" => v.then # 0
                          /\ AtWork(d, o) /\ v.at # "drain" /\ v.resp <= 1 => ~v.wrote
                          /\ v.hit => d.closing
    BY <2>1 DEF CyclesOK
  <2>2. CASE o = r
    BY <1>3, <2>2 DEF ConnGood, CyclesOK
  <2>3. CASE o # r
    BY <1>7, <2>3 DEF ConnGood, CyclesOK
  <2> QED BY <2>2, <2>3
<1>15. QueueGood(d, u)
  <2>1. /\ d.queue = t
        /\ \A i \in DOMAIN t : /\ t[i].tag = "chunk" /\ t[i].r = r
                               /\ t[i].i = y.given + i
                               /\ i < Len(t) => t[i].more
    <3> SUFFICES ASSUME NEW i \in 1..(n - 1)
                 PROVE  /\ t[i].tag = "chunk" /\ t[i].r = r
                        /\ t[i].i = y.given + i
                        /\ i < n - 1 => t[i].more
      BY <1>2 DEF t
    <3>1. i + 1 \in 1..n /\ t[i] = c.queue[i + 1] /\ (i < n - 1 => i + 1 < n)
      BY <1>2
    <3>2. x.given + (i + 1) = y.given + i
      <4>1. y.given = x.given + 1
        OBVIOUS
      <4>2. \A g \in Nat : g + (i + 1) = (g + 1) + i
        OBVIOUS
      <4> HIDE DEF y, x
      <4> QED BY <1>1, <4>1, <4>2
    <3> HIDE DEF y
    <3> QED BY <1>5, <3>1, <3>2
  <2>2. u.tag = "chunk" => /\ y.given + Len(t) = u.i
                           /\ t # <<>> => (t[Len(t)].more <=> u.more)
    <3> SUFFICES ASSUME u.tag = "chunk"
                 PROVE  /\ y.given + Len(t) = u.i
                        /\ t # <<>> => (t[Len(t)].more <=> u.more)
      OBVIOUS
    <3>1. x.given + n = u.i /\ (c.queue[n].more <=> u.more)
      BY <1>5
    <3>2. y.given + Len(t) = u.i
      BY <1>1, <1>2, <3>1, SMTT(30)
    <3>3. ASSUME t # <<>> PROVE t[Len(t)] = c.queue[n]
      <4>1. t = Tail(c.queue) /\ t \in Seq(HttpUnit)
        BY <1>1, <1>2, HeadTailProperties DEF t, n
      <4>2. Len(t) # 0
        BY <3>3, <4>1, EmptySeq
      <4>3. n - 1 \in 1..(n - 1) /\ (n - 1) + 1 = n
        BY <1>2, <4>2
      <4> QED BY <1>2, <4>3
    <3> QED BY <3>1, <3>2, <3>3
  <2>3. y.at # "get"
    OBVIOUS
  <2> HIDE DEF y
  <2>4. d.cycle[r] = y
    BY DEF y
  <2> QED BY <1>6, <1>7, <1>10, <1>12, <2>1, <2>2, <2>3, <2>4, ZenonT(60) DEF QueueGood
<1>16. WireGood(d, u)
  BY <1>3, <1>7 DEF ConnGood, WireGood, AtWork
<1>17. ASSUME s = "attentive" PROVE NeatGood(d, u)
  <2>1. NeatGood(c, u)
    BY <1>17 DEF ConnGood
  <2>2. CASE d.closing
    BY <2>1, <2>2 DEF NeatGood
  <2>3. CASE ~d.closing
    <3>1. x.resp = 0 /\ ~x.wrote
      BY <1>4, <2>1, <2>3 DEF NeatGood
    <3>2. ~(c.wire # <<>> /\ c.wire[Len(c.wire)][2] \notin HttpWhole)
      BY <1>3, <2>1, <2>3, <3>1 DEF NeatGood
    <3>3. ASSUME d.paused PROVE Unread(d, r) /\ Len(d.queue) > QueueLow
      <4>1. n > QueueLow
        BY <2>1, <2>3, <3>3 DEF NeatGood, n
      <4>2. more
        BY <1>2, <1>9, <4>1, HttpSizes
      <4> QED BY <1>12, <3>3, <4>2 DEF t
    <3>4. ~Ends(u) => AtWork(d, u.r)
      BY <1>3, <1>8
    <3> QED BY <1>7, <1>8, <2>1, <3>1, <3>2, <3>3, <3>4 DEF NeatGood
  <2> QED BY <2>2, <2>3
<1> QED BY <1>13, <1>14, <1>15, <1>16, <1>17 DEF ConnGood

\* receive(): a piece comes; reading is resumed when few are left.
LEMMA GotKept ==
    ASSUME NEW s \in HttpScenes, HttpInv(s), NEW r \in Asked, Htp(s)!Got(r)
    PROVE  HttpInv(s)'
<1> DEFINE x == h.cycle[r]
           y == [x EXCEPT !.at = "app", !.given = @ + 1]
           more == Head(h.queue).more
           t == Tail(h.queue)
           a == [h EXCEPT !.cycle[r] = y, !.queue = Tail(@), !.has_queue = more]
           b == [a EXCEPT !.paused = FALSE]
           low == more /\ Len(a.queue) <= QueueLow
           d == IF low THEN Htp(s)!Pump(b) ELSE a
           rests == h.parser.state = "waiting"
<1>1. Htp(s)!Step(r, {"get"}, d) /\ h.queue # <<>>
  BY DEF Htp!Got
<1> HIDE DEF d
<1>2. /\ h \in ConnType /\ x \in CycleType /\ x.at = "get" /\ AtWork(h, r)
      /\ h' = d /\ stream' = stream
  BY <1>1, AtPlace
<1>3. PICK u \in HttpUnit \cup {Nothing} :
        /\ ConnGood(s, h, u, rests) /\ ParserGood(h.parser, u, stream)
  BY <1>1, AtPlace
<1>4. Unread(h, r) /\ h.queue[1].tag = "chunk"
  <2>1. Unread(h, r)
    BY <1>2, <1>3 DEF ConnGood, QueueGood
  <2>2. 1 \in DOMAIN h.queue
    BY <1>1, <1>2, EmptySeq DEF ConnType
  <2> QED BY <1>2, <1>3, <2>1, <2>2 DEF ConnGood, QueueGood
<1>5. /\ h.queue \in Seq(HttpUnit) /\ t \in Seq(HttpUnit) /\ more = h.queue[1].more /\ more \in BOOLEAN
  <2>1. h.queue \in Seq(HttpUnit) /\ Head(h.queue) = h.queue[1] /\ Head(h.queue) \in HttpUnit
    BY <1>1, <1>2, HeadTailProperties DEF ConnType
  <2>2. t \in Seq(HttpUnit)
    BY <1>1, <2>1, HeadTailProperties
  <2> QED BY <1>4, <2>1, <2>2, UnitFields
<1>6. /\ y \in CycleType /\ y.at = "app" /\ y.ws = x.ws /\ y.body = x.body /\ y.given = x.given + 1
      /\ y.hit = x.hit /\ y.wrote = x.wrote /\ y.resp = x.resp
  <2>1. x.given \in Nat /\ x.given + 1 \in Nat
    BY <1>2 DEF CycleType
  <2> DEFINE k == x.given + 1
  <2>2. y = [x EXCEPT !.at = "app", !.given = k] /\ k \in Nat
    BY <2>1
  <2> HIDE DEF k, y
  <2>3. /\ y \in CycleType /\ y.at = "app" /\ y.ws = x.ws /\ y.body = x.body /\ y.given = k
        /\ y.hit = x.hit /\ y.wrote = x.wrote /\ y.resp = x.resp
    BY <1>2, <2>2 DEF CycleType
  <2> QED BY <2>3 DEF k
<1>7. a = [h EXCEPT !.cycle = [h.cycle EXCEPT ![r] = y], !.queue = t, !.has_queue = more]
  OBVIOUS
<1> HIDE DEF a, y, t, more, rests
<1>8. /\ a \in ConnType /\ a.cycle[r] = y /\ \A o \in Asked : o # r => a.cycle[o] = h.cycle[o]
      /\ a.queue = t /\ a.has_queue = more /\ a.wire = h.wire /\ a.upgraded = h.upgraded
      /\ a.state = h.state /\ a.closing = h.closing /\ a.paused = h.paused /\ a.parser = h.parser
  <2> DEFINE f == [h.cycle EXCEPT ![r] = y]
  <2>1. f \in [Asked -> CycleType] /\ f[r] = y /\ \A o \in Asked : o # r => f[o] = h.cycle[o]
    BY <1>2, <1>6 DEF ConnType
  <2>2. a = [h EXCEPT !.cycle = f, !.queue = t, !.has_queue = more]
    BY <1>7
  <2> HIDE DEF f
  <2>3. a \in ConnType /\ a.cycle = f
    BY <1>2, <1>5, <2>1, <2>2 DEF ConnType
  <2>4. /\ a.queue = t /\ a.has_queue = more /\ a.wire = h.wire /\ a.upgraded = h.upgraded
        /\ a.state = h.state /\ a.closing = h.closing /\ a.paused = h.paused /\ a.parser = h.parser
    BY <1>2, <2>2 DEF ConnType
  <2> QED BY <2>1, <2>3, <2>4
<1>9. CASE low
  <2>1. /\ b \in ConnType /\ b.cycle = a.cycle
        /\ b.queue = t /\ b.has_queue = more /\ b.wire = h.wire /\ b.upgraded = h.upgraded
        /\ b.state = h.state /\ b.closing = h.closing /\ ~b.paused /\ b.parser = h.parser
    BY <1>8 DEF ConnType
  <2> HIDE DEF b
  <2>2. ConnGood(s, b, u, rests)
    <3>1. LET v == b.cycle[r]  z == h.cycle[r]
          IN  /\ v.at = "app" /\ v.ws = z.ws /\ v.body = z.body /\ v.given = z.given + 1
              /\ v.hit = z.hit /\ v.wrote = z.wrote /\ v.resp = z.resp
      BY <1>6, <1>8, <2>1
    <3>2. /\ b.queue = Tail(h.queue) /\ b.has_queue = h.queue[1].more
          /\ \A o \in Asked : o # r => b.cycle[o] = h.cycle[o]
      BY <1>5, <1>8, <2>1 DEF t
    <3> QED BY <1>1, <1>2, <1>3, <2>1, <3>1, <3>2, PieceKept
  <2>3. ConnGood(s, b, u, b.parser.state = "waiting") /\ ParserGood(b.parser, u, stream)
    BY <1>3, <2>1, <2>2 DEF rests
  <2>4. HttpGood(s, Htp(s)!Pump(b), stream)
    BY <2>3, PumpKept
  <2> QED BY <1>2, <1>9, <2>4 DEF HttpInv, d
<1>10. CASE ~low
  <2>1. more => Len(t) > QueueLow
    <3>1. Len(t) \in Nat /\ QueueLow \in Nat
      BY <1>5, HttpSizes
    <3> QED BY <1>8, <1>10, <3>1
  <2>2. LET v == a.cycle[r]  z == h.cycle[r]
        IN  /\ v.at = "app" /\ v.ws = z.ws /\ v.body = z.body /\ v.given = z.given + 1
            /\ v.hit = z.hit /\ v.wrote = z.wrote /\ v.resp = z.resp
    BY <1>6, <1>8
  <2>3. /\ a.queue = Tail(h.queue) /\ a.has_queue = h.queue[1].more
        /\ a.paused => h.paused /\ (h.queue[1].more => Len(Tail(h.queue)) > QueueLow)
    BY <1>5, <1>8, <2>1 DEF t
  <2>4. ConnGood(s, a, u, rests)
    BY <1>1, <1>2, <1>3, <1>8, <2>2, <2>3, PieceKept
  <2>5. ConnGood(s, a, u, a.parser.state = "waiting") /\ ParserGood(a.parser, u, stream)
    BY <1>3, <1>8, <2>4 DEF rests
  <2> QED BY <1>2, <1>10, <2>5 DEF HttpInv, HttpGood, d
<1> QED BY <1>9, <1>10

\* Bytes that arrive go from what the client sends to what the parser holds.
LEMMA ReceivedKept ==
    ASSUME NEW s \in HttpScenes, HttpInv(s), Htp(s)!data_received
    PROVE  HttpInv(s)'
<1> DEFINE b == h.parser.buffer
           g(n) == SubSeq(stream, 1, n)
           t(n) == SubSeq(stream, n + 1, Len(stream))
           c(n) == [h EXCEPT !.parser.buffer = b \o g(n)]
           rests == h.parser.state = "waiting"
<1>1. PICK n \in 1..Len(stream) :
        stream' = t(n) /\ h' = IF h.upgraded THEN h ELSE Htp(s)!Pump(c(n))
  BY DEF Htp!data_received
<1>2. PICK u \in HttpUnit \cup {Nothing} :
        ConnGood(s, h, u, rests) /\ ParserGood(h.parser, u, stream)
  BY DEF HttpInv, HttpGood
<1>3. h \in ConnType /\ h.parser \in ParserType /\ b \in Seq(HttpUnit) /\ stream \in Seq(HttpUnit)
  BY <1>2 DEF ConnGood, ConnType, ParserType, ParserGood
<1>4. /\ g(n) \in Seq(HttpUnit) /\ t(n) \in Seq(HttpUnit) /\ g(n) \o t(n) = stream
      /\ b \o g(n) \in Seq(HttpUnit) /\ (b \o g(n)) \o t(n) = b \o stream
    <2>1. PICK b0 : b0 = b
    OBVIOUS
  <2>2. PICK q0 : q0 = stream
    OBVIOUS
  <2>3. /\ SubSeq(q0, 1, n) \in Seq(HttpUnit) /\ SubSeq(q0, n + 1, Len(q0)) \in Seq(HttpUnit)
        /\ SubSeq(q0, 1, n) \o SubSeq(q0, n + 1, Len(q0)) = q0
        /\ b0 \o SubSeq(q0, 1, n) \in Seq(HttpUnit)
        /\ (b0 \o SubSeq(q0, 1, n)) \o SubSeq(q0, n + 1, Len(q0)) = b0 \o q0
    <3>1. b0 \in Seq(HttpUnit) /\ q0 \in Seq(HttpUnit) /\ n \in 1..Len(q0)
      BY <1>3, <2>1, <2>2
    <3>2. \A d, e \in Seq(HttpUnit) : \A m \in 1..Len(e) :
            /\ SubSeq(e, 1, m) \in Seq(HttpUnit) /\ SubSeq(e, m + 1, Len(e)) \in Seq(HttpUnit)
            /\ SubSeq(e, 1, m) \o SubSeq(e, m + 1, Len(e)) = e
            /\ d \o SubSeq(e, 1, m) \in Seq(HttpUnit)
            /\ (d \o SubSeq(e, 1, m)) \o SubSeq(e, m + 1, Len(e)) = d \o e
      BY Arrives
    <3> QED BY <3>1, <3>2, Zenon
  <2> QED BY <2>1, <2>2, <2>3, Zenon
<1> HIDE DEF g, t, rests
<1>5. CASE h.upgraded
  <2>1. Upgrades(u)
    BY <1>2, <1>5 DEF ConnGood, OneLives
  <2>2. ParserGood(h.parser, u, t(n))
    BY <1>2, <1>4, <2>1 DEF ParserGood
  <2>3. HttpGood(s, h, t(n))
    BY <1>2, <2>2 DEF HttpGood, rests
  <2> QED BY <1>1, <1>5, <2>3 DEF HttpInv
<1>6. CASE ~h.upgraded
  <2> DEFINE d == c(n)
             p == [h.parser EXCEPT !.buffer = b \o g(n)]
  <2>1. p \in ParserType /\ p.state = h.parser.state /\ p.buffer = b \o g(n)
    BY <1>3, <1>4 DEF ParserType
  <2>2. d = [h EXCEPT !.parser = p]
    OBVIOUS
  <2> HIDE DEF p, d
  <2>3. /\ d \in ConnType /\ d.parser = p
        /\ d.cycle = h.cycle /\ d.queue = h.queue /\ d.has_queue = h.has_queue /\ d.wire = h.wire
        /\ d.closing = h.closing /\ d.paused = h.paused /\ d.upgraded = h.upgraded /\ d.state = h.state
    BY <1>3, <2>1, <2>2 DEF ConnType, ParserType
  <2>4. ConnGood(s, d, u, rests)
    BY <1>2, <2>3, ParserSwap
  <2>5. ParserGood(d.parser, u, t(n))
    BY <1>2, <1>4, <2>1, <2>3 DEF ParserGood
  <2>6. ConnGood(s, d, u, d.parser.state = "waiting")
    BY <2>1, <2>3, <2>4 DEF rests
  <2>7. HttpGood(s, Htp(s)!Pump(d), t(n))
    BY <2>5, <2>6, PumpKept
  <2> QED BY <1>1, <1>6, <2>7 DEF HttpInv, d
<1> QED BY <1>5, <1>6

\* The transport ends, or is ready to write again.
LEMMA TransportKept ==
    ASSUME NEW s \in HttpScenes, HttpInv(s),
           Htp(s)!connection_lost \/ Htp(s)!resume_writing \/ Htp(s)!Leave
    PROVE  HttpInv(s)'
<1> DEFINE rests == h.parser.state = "waiting"
<1>1. PICK u \in HttpUnit \cup {Nothing} :
        ConnGood(s, h, u, rests) /\ ParserGood(h.parser, u, stream)
  BY DEF HttpInv, HttpGood
<1>2. h \in ConnType /\ rests \in BOOLEAN
  BY <1>1 DEF ConnGood
<1>3. CASE Htp(s)!connection_lost
  <2> DEFINE c == Htp(s)!close(h)
             d == [c EXCEPT !.lost = TRUE]
  <2>1. h' = d /\ stream' = stream
    BY <1>3 DEF Htp!connection_lost
  <2> HIDE DEF rests
  <2>2. ConnGood(s, c, u, rests) /\ c \in ConnType
    BY <1>1, <1>2, ClosedKept DEF ConnGood
  <2>3. c.parser = h.parser
    BY <1>2, CloseIs
  <2> HIDE DEF c
  <2>4. /\ d \in ConnType /\ d.parser = c.parser
        /\ d.cycle = c.cycle /\ d.queue = c.queue /\ d.has_queue = c.has_queue /\ d.wire = c.wire
        /\ d.closing = c.closing /\ d.paused = c.paused /\ d.upgraded = c.upgraded /\ d.state = c.state
    BY <2>2 DEF ConnType
  <2> HIDE DEF d
  <2>5. ConnGood(s, d, u, rests)
    BY <2>2, <2>4, ParserSwap
  <2>6. ConnGood(s, d, u, d.parser.state = "waiting") /\ ParserGood(d.parser, u, stream)
    BY <1>1, <2>3, <2>4, <2>5 DEF rests
  <2> QED BY <2>1, <2>6 DEF HttpInv, HttpGood
<1>4. CASE Htp(s)!resume_writing
  <2> DEFINE d == [h EXCEPT !.drain = TRUE]
  <2>1. h' = d /\ stream' = stream
    BY <1>4 DEF Htp!resume_writing
  <2>4. /\ d \in ConnType /\ d.parser = h.parser
        /\ d.cycle = h.cycle /\ d.queue = h.queue /\ d.has_queue = h.has_queue /\ d.wire = h.wire
        /\ d.closing = h.closing /\ d.paused = h.paused /\ d.upgraded = h.upgraded /\ d.state = h.state
    BY <1>2 DEF ConnType
  <2> HIDE DEF d, rests
  <2>5. ConnGood(s, d, u, rests)
    BY <1>1, <2>4, ParserSwap
  <2>6. ConnGood(s, d, u, d.parser.state = "waiting") /\ ParserGood(d.parser, u, stream)
    BY <1>1, <2>4, <2>5 DEF rests
  <2> QED BY <2>1, <2>6 DEF HttpInv, HttpGood
<1>5. CASE Htp(s)!Leave
  BY <1>5 DEF Htp!Leave, HttpInv
<1> QED BY <1>3, <1>4, <1>5

\* Every step keeps the invariant.
LEMMA HttpNext ==
    ASSUME NEW s \in HttpScenes, HttpInv(s), Htp(s)!Next
    PROVE  HttpInv(s)'
<1>1. \/ Htp(s)!data_received \/ Htp(s)!connection_lost \/ Htp(s)!Leave \/ Htp(s)!resume_writing
      \/ \E r \in Asked : Htp(s)!AppStep(r) \/ Htp(s)!Cancelled(r) \/ Htp(s)!WebSocketEnds(r)
  BY HttpSizes DEF Htp!Next
<1>2. ASSUME NEW r \in Asked, Htp(s)!AppStep(r) PROVE HttpInv(s)'
  <2>1. \/ Htp(s)!Begin(r) \/ Htp(s)!Receive(r) \/ Htp(s)!Got(r) \/ Htp(s)!Disconnected(r)
        \/ Htp(s)!SendStart(r) \/ Htp(s)!SendBody(r) \/ Htp(s)!Drained(r) \/ Htp(s)!Return(r)
        \/ Htp(s)!Fail(r)
    BY <1>2 DEF Htp!AppStep
  <2> QED BY <2>1, BeginKept, AskKept, GotKept, DisconnectedKept, SendStartKept, SendBodyKept,
             DrainedKept, ReturnKept, FailKept
<1> QED BY <1>1, <1>2, ReceivedKept, TransportKept, CancelledKept, SocketEndsKept

\* A chain that begins with the head of request a, or its refusal, and ends with request b.
Ended(q, a, b) ==
    /\ q \in Seq(HttpUnit) /\ q # <<>>
    /\ q[1].tag # "chunk" /\ q[1].r = a
    /\ \A i \in 1..(Len(q) - 1) : Follows(q[i], q[i + 1])
    /\ Ends(q[Len(q)]) /\ q[Len(q)].r = b

\* What a request is cut into.
LEMMA UnitsIs ==
    ASSUME NEW s \in HttpScenes, NEW r \in Asked,
           NEW k \in [chunks : Nat, keep : BOOLEAN, ws : BOOLEAN, bad : BOOLEAN]
    PROVE  Ended(Htp(s)!Units(r, k), r, r)
<1> DEFINE n == k.chunks
           first == [tag |-> "start", r |-> r, body |-> n > 0 /\ ~k.ws, keep |-> k.keep, ws |-> k.ws]
           piece(i) == [tag |-> "chunk", r |-> r, i |-> i, more |-> i < n]
           pieces == [i \in 1..n |-> piece(i)]
           all == <<first>> \o pieces
           bad == [tag |-> "error", r |-> r]
           x == Htp(s)!Units(r, k)
<1>1. n \in Nat /\ k.keep \in BOOLEAN /\ k.ws \in BOOLEAN /\ k.bad \in BOOLEAN
  OBVIOUS
<1>2. x = IF k.bad THEN Append(SubSeq(all, 1, n), bad) ELSE all
  BY DEF Htp!Units
<1>3. first \in HttpUnit /\ bad \in HttpUnit /\ \A i \in 1..n : piece(i) \in HttpUnit
  <2>1. first \in HttpUnit
    BY <1>1 DEF HttpUnit
  <2>2. \A i \in 1..n : piece(i) \in HttpUnit
    BY <1>1 DEF HttpUnit
  <2>3. bad \in HttpUnit
    BY DEF HttpUnit
  <2> QED BY <2>1, <2>2, <2>3
<1>4. /\ first.tag = "start" /\ first.r = r /\ first.body = (n > 0 /\ ~k.ws) /\ first.ws = k.ws
      /\ bad.tag = "error" /\ bad.r = r
      /\ \A i \in 1..n : piece(i).tag = "chunk" /\ piece(i).r = r /\ piece(i).i = i /\ piece(i).more = (i < n)
  OBVIOUS
<1> HIDE DEF first, piece, bad
<1>5. /\ pieces \in Seq(HttpUnit) /\ Len(pieces) = n
      /\ \A i \in 1..n : pieces[i] = piece(i)
  BY <1>1, <1>3, SeqDef
<1> HIDE DEF pieces
<1>6. /\ all \in Seq(HttpUnit) /\ Len(all) = n + 1
      /\ all[1] = first /\ \A i \in 2..(n + 1) : all[i] = piece(i - 1)
  <2>1. <<first>> \in Seq(HttpUnit) /\ Len(<<first>>) = 1 /\ <<first>>[1] = first
    BY <1>3
  <2>2. /\ all \in Seq(HttpUnit) /\ Len(all) = 1 + n
        /\ \A i \in 1..(1 + n) : all[i] = IF i <= 1 THEN <<first>>[i] ELSE pieces[i - 1]
    BY <1>5, <2>1, ConcatProperties
  <2> HIDE DEF all
  <2>3. \A i \in 2..(n + 1) : all[i] = pieces[i - 1] /\ i - 1 \in 1..n
    BY <1>1, <2>2
  <2> QED BY <1>1, <1>5, <2>1, <2>2, <2>3
<1> HIDE DEF all
<1>7. /\ x \in Seq(HttpUnit) /\ Len(x) = n + 1
      /\ \A i \in 1..(n + 1) : x[i] = IF i = n + 1 /\ k.bad THEN bad
                                      ELSE IF i = 1 THEN first ELSE piece(i - 1)
  <2>1. CASE ~k.bad
    <3>1. x = all
      BY <1>2, <2>1
    <3> HIDE DEF x
    <3> QED BY <1>1, <1>6, <2>1, <3>1
  <2>2. CASE k.bad
    <3> DEFINE y == SubSeq(all, 1, n)
    <3>1. \A i \in 1..n : all[i] \in HttpUnit
      BY <1>1, <1>6
    <3>2. y \in Seq(HttpUnit) /\ Len(y) = n /\ \A i \in 1..n : y[i] = all[i]
      BY <1>1, <1>6, <3>1, SubSeqProperties
    <3>3. x = Append(y, bad)
      BY <1>2, <2>2
    <3> HIDE DEF x, y
    <3>4. /\ x \in Seq(HttpUnit) /\ Len(x) = n + 1 /\ x[n + 1] = bad
          /\ \A i \in 1..n : x[i] = y[i]
      BY <1>1, <1>3, <3>2, <3>3, AppendProperties
    <3>5. x[1] = IF n = 0 THEN bad ELSE first
      BY <1>1, <1>6, <3>2, <3>4
    <3>6. \A i \in 2..n : x[i] = piece(i - 1)
      BY <1>1, <1>6, <3>2, <3>4
    <3> HIDE DEF n
    <3> QED BY <1>1, <2>2, <3>4, <3>5, <3>6
  <2> QED BY <2>1, <2>2
<1> HIDE DEF x
<1>8. x # <<>> /\ x[1].tag # "chunk" /\ x[1].r = r
  BY <1>1, <1>4, <1>7
<1>9. Ends(x[Len(x)]) /\ x[Len(x)].r = r
  <2>1. x[Len(x)] = IF k.bad THEN bad ELSE IF n = 0 THEN first ELSE piece(n)
    BY <1>1, <1>7
  <2> HIDE DEF n
  <2> QED BY <1>1, <1>4, <2>1 DEF Ends
<1>10. ASSUME NEW i \in 1..(Len(x) - 1) PROVE Follows(x[i], x[i + 1])
  <2>1. i \in 1..n /\ n > 0
    BY <1>1, <1>7
  <2>2. x[i] = (IF i = 1 THEN first ELSE piece(i - 1))
        /\ x[i + 1] = IF i = n /\ k.bad THEN bad ELSE piece(i)
    BY <1>1, <1>7, <2>1
  <2> HIDE DEF n
  <2>3. CASE i = 1
    <3>1. first.tag = "start" /\ first.r = r /\ (first.ws \/ (first.body /\ ~first.ws))
      BY <1>1, <1>4, <2>1
    <3>2. CASE first.ws
      BY <2>2, <2>3, <3>1, <3>2 DEF Follows, Upgrades
    <3>3. CASE first.body /\ ~first.ws
      <4>1. ~Ends(first)
        BY <3>1, <3>3 DEF Ends
      <4>2. piece(1).tag = "chunk" /\ piece(1).r = r /\ piece(1).i = 1
        BY <1>4, <2>1, <2>3
      <4>3. Follows(first, piece(1)) /\ Follows(first, bad)
        BY <1>4, <3>1, <4>1, <4>2 DEF Follows
      <4> QED BY <2>2, <2>3, <4>3
    <3> QED BY <3>1, <3>2, <3>3
  <2>4. CASE i # 1
    <3>1. i - 1 \in 1..n /\ i - 1 < n /\ (i - 1) + 1 = i
      BY <1>1, <2>1, <2>4
    <3>2. /\ piece(i - 1).tag = "chunk" /\ piece(i - 1).r = r /\ piece(i - 1).i = i - 1
          /\ piece(i - 1).more
      BY <1>4, <3>1
    <3>3. piece(i).tag = "chunk" /\ piece(i).r = r /\ piece(i).i = i
      BY <1>4, <2>1
    <3>4. ~Ends(piece(i - 1))
      BY <3>2 DEF Ends
    <3>5. Follows(piece(i - 1), piece(i)) /\ Follows(piece(i - 1), bad)
      BY <1>4, <3>1, <3>2, <3>3, <3>4 DEF Follows
    <3> QED BY <2>2, <2>4, <3>5
  <2> QED BY <2>3, <2>4
<1> QED BY <1>7, <1>8, <1>9, <1>10 DEF Ended, x

\* Two such chains, one behind the other.
LEMMA Joined ==
    ASSUME NEW p, NEW q, NEW a \in Nat, NEW b \in Nat, NEW c \in Nat,
           Ended(p, a, b), Ended(q, b + 1, c)
    PROVE  Ended(p \o q, a, c)
<1> DEFINE x == p \o q
<1>1. /\ p \in Seq(HttpUnit) /\ q \in Seq(HttpUnit) /\ Len(p) \in Nat /\ Len(q) \in Nat
      /\ Len(p) >= 1 /\ Len(q) >= 1
  <2>1. p \in Seq(HttpUnit) /\ p # <<>> /\ q \in Seq(HttpUnit) /\ q # <<>>
    BY DEF Ended
  <2> QED BY <2>1
<1>2. /\ x \in Seq(HttpUnit) /\ Len(x) = Len(p) + Len(q)
      /\ \A i \in 1..(Len(p) + Len(q)) : x[i] = IF i <= Len(p) THEN p[i] ELSE q[i - Len(p)]
  BY <1>1, ConcatProperties
<1> HIDE DEF x
<1>3. x # <<>> /\ x[1] = p[1] /\ x[Len(x)] = q[Len(q)]
  <2>1. 1 \in 1..(Len(p) + Len(q)) /\ Len(x) \in 1..(Len(p) + Len(q)) /\ ~(Len(x) <= Len(p))
        /\ Len(x) - Len(p) = Len(q)
    BY <1>1, <1>2
  <2> QED BY <1>1, <1>2, <2>1
<1>4. ASSUME NEW i \in 1..(Len(x) - 1) PROVE Follows(x[i], x[i + 1])
  <2>0. i \in 1..(Len(p) + Len(q)) /\ i + 1 \in 1..(Len(p) + Len(q))
    BY <1>1, <1>2
  <2>1. CASE i < Len(p)
    <3>1. x[i] = p[i] /\ x[i + 1] = p[i + 1] /\ i \in 1..(Len(p) - 1)
      BY <1>1, <1>2, <2>0, <2>1
    <3> QED BY <3>1 DEF Ended
  <2>2. CASE i = Len(p)
    <3>1. x[i] = p[Len(p)] /\ x[i + 1] = q[1]
      BY <1>1, <1>2, <2>0, <2>2
    <3>2. Ends(p[Len(p)]) /\ p[Len(p)].r = b /\ q[1].tag # "chunk" /\ q[1].r = b + 1
      BY DEF Ended
    <3> QED BY <3>1, <3>2 DEF Follows
  <2>3. CASE i > Len(p)
    <3> DEFINE j == i - Len(p)
    <3>1. j \in 1..(Len(q) - 1) /\ i + 1 - Len(p) = j + 1 /\ ~(i <= Len(p)) /\ ~(i + 1 <= Len(p))
      BY <1>1, <1>2, <2>3
    <3>2. x[i] = q[j]
      BY <1>2, <2>0, <3>1
    <3>3. x[i + 1] = q[i + 1 - Len(p)]
      BY <1>2, <2>0, <3>1
    <3> HIDE DEF j
    <3> QED BY <3>1, <3>2, <3>3 DEF Ended
  <2> QED BY <1>1, <2>1, <2>2, <2>3
<1> QED BY <1>2, <1>3, <1>4 DEF Ended, x

\* What the client sends is built one request after the other.
LEMMA SendsSteps ==
    ASSUME NEW s \in HttpScenes, NEW kind
    PROVE  \E f : /\ f[0] = <<>>
                  /\ \A r \in 1..Pipelined : f[r] = f[r - 1] \o Htp(s)!Units(r, kind[r])
                  /\ Htp(s)!Sends(kind) = f[Pipelined]
<1> DEFINE n == Pipelined
           go(x, i) == x \o Htp(s)!Units(i, kind[i])
           R(f, m) == f = [i \in 0..m |-> IF i = 0 THEN <<>> ELSE go(f[i - 1], i)]
           T == {m \in 0..n : ~\E f : R(f, m)}
           F == CHOOSE f : R(f, n)
<1>0. n \in Nat
  BY HttpSizes
<1>1. Htp(s)!Sends(kind) = F[n]
  BY Zenon DEF Htp!Sends
<1> HIDE DEF go
<1>2. T = {}
  <2> SUFFICES ASSUME T # {} PROVE FALSE
    OBVIOUS
  <2>1. PICK m \in T : \A k \in T : m <= k
    <3>1. T \subseteq Nat
      OBVIOUS
    <3> QED BY <3>1, LeastNatural
  <2>2. m \in 0..n /\ ~\E f : R(f, m)
    BY <2>1
  <2>3. CASE m = 0
    <3> DEFINE g == [i \in 0..0 |-> <<>>]
    <3>1. \A i \in 0..0 : <<>> = IF i = 0 THEN <<>> ELSE go(g[i - 1], i)
      BY SMT
    <3>2. g = [i \in 0..0 |-> IF i = 0 THEN <<>> ELSE go(g[i - 1], i)]
      BY <3>1
    <3>3. R(g, 0)
      BY <3>2
    <3> QED BY <2>2, <2>3, <3>3
  <2>4. CASE m # 0
    <3>0. m \in Nat /\ m - 1 \in 0..n /\ ~(m <= m - 1)
      BY <1>0, <2>2, <2>4
    <3>1. m - 1 \in 0..n /\ m - 1 \notin T
      <4> HIDE DEF T
      <4> QED BY <2>1, <3>0
    <3>2. PICK g : R(g, m - 1)
      BY <3>1
    <3> DEFINE e == [i \in 0..m |-> IF i = m THEN go(g[m - 1], m) ELSE g[i]]
    <3>3. \A i \in 0..m : e[i] = IF i = 0 THEN <<>> ELSE go(e[i - 1], i)
      <4> TAKE i \in 0..m
      <4>1. CASE i = m
        <5>1. e[m] = go(g[m - 1], m) /\ e[m - 1] = g[m - 1]
          BY <3>0, <2>4
        <5> QED BY <2>4, <4>1, <5>1
      <4>2. CASE i # m
        <5>1. i \in 0..(m - 1) /\ e[i] = g[i] /\ (i # 0 => e[i - 1] = g[i - 1])
          BY <3>0, <4>2
        <5>2. g[i] = IF i = 0 THEN <<>> ELSE go(g[i - 1], i)
          BY <3>2, <5>1
        <5> QED BY <5>1, <5>2
      <4> QED BY <4>1, <4>2
    <3>4. e = [i \in 0..m |-> e[i]]
      OBVIOUS
    <3> HIDE DEF e
    <3>5. R(e, m)
      BY <3>3, <3>4
    <3> QED BY <2>2, <3>5
  <2> QED BY <2>3, <2>4
<1>3. \E f : R(f, n)
  <2>1. n \in 0..n /\ n \notin T
    BY <1>0, <1>2, SMTT(30)
  <2> QED BY <2>1
<1>4. R(F, n)
  BY <1>3, Zenon
<1> HIDE DEF F
<1>5. F[0] = <<>> /\ \A i \in 1..n : F[i] = go(F[i - 1], i)
  BY <1>0, <1>4
<1> QED BY <1>1, <1>5 DEF go

\* All of it is such a chain, from the first request to the last.
LEMMA SendsIs ==
    ASSUME NEW s \in HttpScenes, NEW kind \in [Asked -> Kinds[s]]
    PROVE  Htp(s)!Sends(kind) = <<>> \/ Ended(Htp(s)!Sends(kind), 1, Pipelined)
<1>1. PICK f : /\ f[0] = <<>>
               /\ \A r \in 1..Pipelined : f[r] = f[r - 1] \o Htp(s)!Units(r, kind[r])
               /\ Htp(s)!Sends(kind) = f[Pipelined]
  BY SendsSteps
<1>2. Pipelined \in Nat /\ Kinds[s] \subseteq [chunks : Nat, keep : BOOLEAN, ws : BOOLEAN, bad : BOOLEAN]
  BY HttpSizes
<1> DEFINE U(r) == Htp(s)!Units(r, kind[r])
<1>3. \A r \in Asked : Ended(U(r), r, r)
  <2> TAKE r \in Asked
  <2>1. PICK k \in [chunks : Nat, keep : BOOLEAN, ws : BOOLEAN, bad : BOOLEAN] : k = kind[r]
    BY <1>2
  <2>2. Ended(Htp(s)!Units(r, k), r, r)
    BY UnitsIs
  <2> QED BY <2>1, <2>2
<1>4. \A r \in 1..Pipelined : f[r] = f[r - 1] \o U(r)
  BY <1>1
<1> HIDE DEF U
<1> DEFINE T == {m \in 1..Pipelined : ~Ended(f[m], 1, m)}
<1>5. T = {}
  <2> SUFFICES ASSUME T # {} PROVE FALSE
    OBVIOUS
  <2>1. PICK m \in T : \A k \in T : m <= k
    <3>1. T \subseteq Nat
      OBVIOUS
    <3> QED BY <3>1, LeastNatural
  <2>2. m \in 1..Pipelined /\ ~Ended(f[m], 1, m) /\ m \in Asked /\ m \in Nat
    BY <2>1 DEF Asked
  <2>3. CASE m = 1
    <3>0. 1 \in 1..Pipelined /\ 1 \in Asked /\ 1 - 1 = 0
      BY <2>2, <2>3
    <3>1. f[1] = f[1 - 1] \o U(1) /\ Ended(U(1), 1, 1) /\ f[1 - 1] = <<>>
      BY <1>1, <1>3, <1>4, <3>0
    <3>2. U(1) \in Seq(HttpUnit)
      BY <3>1 DEF Ended
    <3>3. <<>> \o U(1) = U(1)
      BY <3>2, ConcatEmptySeq
    <3> QED BY <2>2, <2>3, <3>1, <3>3
  <2>4. CASE m # 1
    <3>1. m - 1 \in 1..Pipelined /\ ~(m <= m - 1) /\ m - 1 \in Nat /\ (m - 1) + 1 = m
      BY <1>2, <2>2, <2>4
    <3>2. m - 1 \notin T
      <4> HIDE DEF T
      <4> QED BY <2>1, <3>1
    <3>3. Ended(f[m - 1], 1, m - 1)
      BY <3>1, <3>2
    <3>4. Ended(U(m), (m - 1) + 1, m)
      BY <1>3, <2>2, <3>1
    <3>5. Ended(f[m - 1] \o U(m), 1, m)
      BY <2>2, <3>1, <3>3, <3>4, Joined
    <3> QED BY <1>4, <2>2, <3>5
  <2> QED BY <2>3, <2>4
<1>6. CASE Pipelined = 0
  BY <1>1, <1>6
<1>7. CASE Pipelined # 0
  <2>1. Pipelined \in 1..Pipelined
    BY <1>2, <1>7
  <2> QED BY <1>1, <1>5, <2>1
<1> QED BY <1>6, <1>7

\* What stands for a parser that has read nothing may be followed by all of it.
LEMMA SendsChained ==
    ASSUME NEW q, q = <<>> \/ Ended(q, 1, Pipelined)
    PROVE  q \in Seq(HttpUnit) /\ Chained(Nothing, q)
<1>1. CASE q = <<>>
  <2>1. <<>> \in Seq(HttpUnit) /\ \A i \in 1..(Len(<<>>) - 1) : FALSE
    OBVIOUS
  <2> QED BY <1>1, <2>1 DEF Chained
<1>2. CASE Ended(q, 1, Pipelined)
  <2>1. Follows(Nothing, q[1])
    BY <1>2 DEF Ended, Follows, Ends, Nothing
  <2> QED BY <1>2, <2>1 DEF Ended, Chained
<1> QED BY <1>1, <1>2

\* A connection on which nothing has arrived.
LEMMA HttpInit ==
    ASSUME NEW s \in HttpScenes, Htp(s)!Init
    PROVE  HttpInv(s)
<1>0. Pipelined \in Nat /\ Htp(s)!Reqs = Asked
  BY HttpSizes
<1>1. PICK kind \in [Asked -> Kinds[s]] : stream = Htp(s)!Sends(kind)
  BY <1>0 DEF Htp!Init
<1>2. stream \in Seq(HttpUnit) /\ Chained(Nothing, stream)
  <2>1. stream = <<>> \/ Ended(stream, 1, Pipelined)
    BY <1>1, SendsIs
  <2> QED BY <2>1, SendsChained
<1>3. h = [parser |-> [state |-> "waiting", keep |-> TRUE, count |-> 0, buffer |-> <<>>],
           state |-> "WAITING_HEADER", has_queue |-> FALSE, queue |-> <<>>,
           disconnect |-> FALSE, drain |-> TRUE, closed |-> FALSE, pending |-> <<>>,
           upgraded |-> FALSE, current |-> 0, closing |-> FALSE, paused |-> FALSE,
           lost |-> FALSE, wire |-> <<>>, cycle |-> [r \in Asked |-> Htp(s)!NoCycle]]
  BY <1>0 DEF Htp!Init
<1>4. Htp(s)!NoCycle \in CycleType /\ Htp(s)!NoCycle.at = "none" /\ ~Htp(s)!NoCycle.hit
  BY DEF Htp!NoCycle, CycleType
<1> DEFINE none == Htp(s)!NoCycle
           cycles == [r \in Asked |-> none]
<1> HIDE DEF none
<1>5. cycles \in [Asked -> CycleType] /\ \A r \in Asked : cycles[r].at = "none" /\ ~cycles[r].hit
  BY <1>4 DEF none
<1> HIDE DEF cycles
<1>6. h = [parser |-> [state |-> "waiting", keep |-> TRUE, count |-> 0, buffer |-> <<>>],
           state |-> "WAITING_HEADER", has_queue |-> FALSE, queue |-> <<>>,
           disconnect |-> FALSE, drain |-> TRUE, closed |-> FALSE, pending |-> <<>>,
           upgraded |-> FALSE, current |-> 0, closing |-> FALSE, paused |-> FALSE,
           lost |-> FALSE, wire |-> <<>>, cycle |-> cycles]
  BY <1>3 DEF cycles, none
<1>7. /\ h.parser.state = "waiting" /\ h.parser.buffer = <<>> /\ h.state = "WAITING_HEADER"
      /\ h.queue = <<>> /\ ~h.has_queue /\ h.wire = <<>> /\ h.cycle = cycles
      /\ ~h.closing /\ ~h.paused /\ ~h.upgraded
  BY <1>6
<1>8. h \in ConnType
  <2>1. <<>> \in Seq(HttpUnit) /\ <<>> \in Seq(Asked \X HttpWords) /\ 0 \in 0..Pipelined
    BY <1>0
  <2> QED BY <1>5, <1>6, <2>1 DEF ConnType
<1>9. \A r \in Asked : ~AtWork(h, r) /\ ~h.cycle[r].hit
  BY <1>5, <1>7 DEF AtWork
<1>10. Nothing.tag = "error" /\ Nothing.r = 0 /\ Ends(Nothing) /\ ~Upgrades(Nothing)
  BY DEF Nothing, Ends, Upgrades
<1>11. OneLives(h, Nothing, TRUE)
  BY <1>7, <1>9, <1>10 DEF OneLives
<1>12. CyclesOK(h)
  BY <1>5, <1>7, <1>9 DEF CyclesOK
<1>13. QueueGood(h, Nothing)
  BY <1>9 DEF QueueGood
<1>14. DOMAIN h.wire = {} /\ Len(h.wire) = 0
  BY <1>7
<1>15. WireGood(h, Nothing)
  BY <1>9, <1>14 DEF WireGood, Ordered
<1>16. NeatGood(h, Nothing)
  <2>1. Apart(h.wire)
    BY <1>14 DEF Apart
  <2> QED BY <1>7, <1>9, <1>10, <2>1 DEF NeatGood
<1>17. ConnGood(s, h, Nothing, h.parser.state = "waiting")
  <2>1. (h.parser.state = "waiting") = TRUE
    BY <1>7
  <2>2. ConnGood(s, h, Nothing, TRUE)
    BY <1>8, <1>11, <1>12, <1>13, <1>15, <1>16 DEF ConnGood
  <2> QED BY <2>1, <2>2
<1>18. ParserGood(h.parser, Nothing, stream)
  <2>1. <<>> \o stream = stream
    BY <1>2, ConcatEmptySeq
  <2> QED BY <1>2, <1>7, <2>1 DEF ParserGood
<1> QED BY <1>17, <1>18 DEF HttpInv, HttpGood

\* What the invariant says of the client's and the application's view.
LEMMA HttpSays ==
    ASSUME NEW s \in HttpScenes, HttpInv(s)
    PROVE  /\ Htp(s)!TypeOK /\ Htp(s)!OwnBody /\ Htp(s)!InOrder /\ Htp(s)!NeverPending
           /\ s = "attentive" => Htp(s)!NotInterleaved /\ Htp(s)!PauseOwned
<1> DEFINE rests == h.parser.state = "waiting"
<1>1. PICK u \in HttpUnit \cup {Nothing} : ConnGood(s, h, u, rests)
  BY DEF HttpInv, HttpGood
<1> HIDE DEF rests
<1>2. /\ h \in ConnType /\ OneLives(h, u, rests) /\ QueueGood(h, u) /\ WireGood(h, u)
      /\ s = "attentive" => NeatGood(h, u)
  BY <1>1 DEF ConnGood
<1>3. Pipelined \in Nat /\ Htp(s)!Reqs = Asked
  BY HttpSizes
<1>4. \A r \in Asked : Htp(s)!Live(h, r) <=> AtWork(h, r)
  BY DEF Htp!Live, AtWork
<1>5. Htp(s)!TypeOK
  BY <1>2, <1>3 DEF Htp!TypeOK, ConnType, CycleType, Asked
<1>6. Htp(s)!OwnBody
  <2> SUFFICES ASSUME NEW r \in Asked, AtWork(h, r)
               PROVE  /\ \A t \in Asked : AtWork(h, t) => t = r
                      /\ h.cycle[r].body /\ h.has_queue =>
                           \A i \in DOMAIN h.queue :
                              h.queue[i].r = r /\ h.queue[i].i = h.cycle[r].given + i
    BY <1>3, <1>4 DEF Htp!OwnBody
  <2> QED BY <1>2 DEF OneLives, QueueGood, Unread
<1>7. Htp(s)!InOrder
  BY <1>2 DEF Htp!InOrder, WireGood, Ordered
<1>8. Htp(s)!NeverPending
  BY <1>2 DEF Htp!NeverPending, ConnType
<1>9. ASSUME s = "attentive" PROVE Htp(s)!NotInterleaved /\ Htp(s)!PauseOwned
  <2>1. NeatGood(h, u)
    BY <1>2, <1>9
  <2>2. Htp(s)!NotInterleaved
    BY <2>1 DEF NeatGood, Apart, HttpWhole, Htp!NotInterleaved
  <2>3. h.paused /\ ~h.closing => \E r \in Asked : AtWork(h, r) /\ Unread(h, r) /\ Len(h.queue) > QueueLow
    BY <2>1 DEF NeatGood
  <2>4. \A r \in Asked : ~Htp(s)!AllRead(r) <=> Unread(h, r)
    BY DEF Htp!AllRead, Unread
  <2>5. Htp(s)!PauseOwned
    BY <1>3, <1>4, <2>3, <2>4 DEF Htp!PauseOwned
  <2> QED BY <2>2, <2>5
<1> QED BY <1>5, <1>6, <1>7, <1>8, <1>9

\* Http11Protocol: for any number of requests of any kinds, one application at a
\* time serves the connection and is given its own body, responses come in order;
\* with an attentive one, none is begun inside another, and reading is not paused
\* with nobody to resume it.
THEOREM HttpTheorem == MSpec => []HttpSound
<1> DEFINE I == \A s \in HttpScenes : scene = s => HttpInv(s)
<1>1. MInit => I
  <2> SUFFICES ASSUME MInit, NEW s \in HttpScenes, scene = s PROVE HttpInv(s)
    OBVIOUS
  <2>1. Htp(s)!Init
    BY DEF MInit, HttpScenes
  <2> QED BY <2>1, HttpInit
<1>2. I /\ [MNext]_mvars => I'
  <2> SUFFICES ASSUME I, [MNext]_mvars, NEW s \in HttpScenes, scene' = s PROVE HttpInv(s)'
    OBVIOUS
  <2>1. CASE UNCHANGED <<scene, httpvars>>
    <3>1. HttpInv(s) /\ h' = h /\ stream' = stream
      BY <2>1 DEF httpvars
    <3> QED BY <3>1 DEF HttpInv
  <2>2. CASE AttentiveRuns \/ CarelessRuns
    <3>1. HttpInv(s) /\ Htp(s)!Next
      BY <2>2 DEF AttentiveRuns, CarelessRuns, HttpRest
    <3> QED BY <3>1, HttpNext
  <2> QED BY <2>1, <2>2 DEF MNext, mvars, ApartRuns, CrowdedRuns, StrictRuns, LiberalRuns,
                 WatchedRuns, OvertakenRuns, AdmitRest, WsgiRest, SuperRest
<1>3. I => HttpSound
  <2> SUFFICES ASSUME I PROVE HttpSound
    OBVIOUS
  <2>1. ASSUME scene = "attentive" PROVE HttpInv("attentive")
    BY <2>1 DEF HttpScenes
  <2>2. ASSUME scene = "careless" PROVE HttpInv("careless")
    BY <2>2 DEF HttpScenes
  <2>3. "attentive" \in HttpScenes /\ "careless" \in HttpScenes
    BY DEF HttpScenes
  <2>4. CASE scene = "attentive"
    <3>1. PICK s \in HttpScenes : s = "attentive" /\ HttpInv(s)
      BY <2>1, <2>3, <2>4
    <3>2. /\ Htp(s)!TypeOK /\ Htp(s)!OwnBody /\ Htp(s)!InOrder /\ Htp(s)!NeverPending
          /\ Htp(s)!NotInterleaved /\ Htp(s)!PauseOwned
      BY <3>1, HttpSays
    <3> QED BY <2>4, <3>1, <3>2 DEF HttpSound
  <2>5. CASE scene = "careless"
    <3>1. PICK s \in HttpScenes : s = "careless" /\ HttpInv(s)
      BY <2>2, <2>3, <2>5
    <3>2. Htp(s)!TypeOK /\ Htp(s)!OwnBody /\ Htp(s)!InOrder /\ Htp(s)!NeverPending
      BY <3>1, HttpSays
    <3> QED BY <2>5, <3>1, <3>2 DEF HttpSound
  <2> QED BY <2>4, <2>5 DEF HttpSound
<1> QED BY <1>1, <1>2, <1>3, PTL DEF MSpec
=============================================================================
