---------------------------- MODULE ServiceProofs ----------------------------
(***************************************************************************)
(* The daemon as a service.                                                 *)
(*                                                                         *)
(* One streamed request (SseStream), for any number of emitters and any     *)
(* size of the channel and the socket: types, the one answer at the end of  *)
(* the stream, and that a client that stays gets it, whoever dies and       *)
(* whatever is dropped.                                                     *)
(*                                                                         *)
(* The daemons of one home (Home, an instance of Daemon), for any number of *)
(* daemons, starts, stops and requests: what the endpoint file may lead to, *)
(* who may take a record away, and that a failed start leaves no process    *)
(* behind.                                                                  *)
(***************************************************************************)
EXTENDS SseStream, DaemonHome, SequenceTheorems, TLAPS

----------------------------------------------------------------------------
(* Types *)

\* What is sent exists: an event emitted, an answer made, a message taken.
SourceInv ==
  /\ \A e \in Emitters : sending[e] => emitted[e] > 0
  /\ app # "running" => answered \in Answers
  /\ handler = "writing" => message \in Events

TypeInv == TypeOK /\ SourceInv

LEMMA EventTypes ==
  /\ \A e \in Emitters, n \in 1..MaxEvents :
       Progress(e, n) \in Events /\ ~IsFinal(Progress(e, n))
  /\ \A a \in Answers : Final(a) \in Events /\ IsFinal(Final(a))
BY DEF Events, Progress, Final, IsFinal, Answers

LEMMA TypeInit == Init => TypeInv
<1> SUFFICES ASSUME Init PROVE TypeInv
  OBVIOUS
<1>1. <<>> \in Seq(Events) /\ Len(<<>>) = 0
  OBVIOUS
<1>2. emitted \in [Emitters -> 0..MaxEvents] /\ \A e \in Emitters : ~sending[e]
  BY SseAssumption DEF Init
<1>3. sending \in [Emitters -> BOOLEAN] /\ expired \in [Emitters -> BOOLEAN]
  BY DEF Init
<1>4. message \in Events \cup {NoMessage}
  BY DEF Init
<1>5. 0 <= BufferSize /\ 0 <= WireSize
  BY SseAssumption
<1> QED
  BY <1>1, <1>2, <1>3, <1>4, <1>5 DEF Init, TypeInv, TypeOK, SourceInv

LEMMA EnqueueType ==
  ASSUME TypeInv, NEW m \in Events, Enqueue(m)
  PROVE  messages' \in Seq(Events) /\ Len(messages') <= BufferSize
BY SseAssumption DEF TypeInv, TypeOK, Enqueue

\* What an emitter sends is an event.
LEMMA SendsEvent ==
  ASSUME TypeInv, NEW e \in Emitters, sending[e]
  PROVE  Progress(e, emitted[e]) \in Events /\ ~IsFinal(Progress(e, emitted[e]))
<1>1. emitted[e] \in 1..MaxEvents
  BY SseAssumption DEF TypeInv, TypeOK, SourceInv
<1> QED
  BY <1>1, EventTypes

LEMMA TypeStep == TypeInv /\ [Next]_vars => TypeInv'
<1> SUFFICES ASSUME TypeInv, [Next]_vars PROVE TypeInv'
  OBVIOUS
<1> USE SseAssumption DEF TypeInv, TypeOK, SourceInv, senders
<1>1. ASSUME NEW e \in Emitters, Emit(e) PROVE TypeInv'
  <2>1. emitted[e] + 1 \in 0..MaxEvents /\ emitted[e] + 1 > 0
    BY <1>1 DEF Emit
  <2> QED
    BY <1>1, <2>1 DEF Emit
<1>2. ASSUME NEW e \in Emitters, Expire(e) PROVE TypeInv'
  BY <1>2 DEF Expire
<1>3. ASSUME NEW e \in Emitters, SendEvent(e) PROVE TypeInv'
  <2>1. messages' \in Seq(Events) /\ Len(messages') <= BufferSize
    BY <1>3, SendsEvent, EnqueueType DEF SendEvent
  <2> QED
    BY <1>3, <2>1 DEF SendEvent, Enqueue
<1>4. ASSUME NEW e \in Emitters, DropEvent(e) PROVE TypeInv'
  BY <1>4 DEF DropEvent
<1>5. CASE Answer
  BY <1>5 DEF Answer, Answers
<1>6. CASE SendAnswer
  <2>1. answered \in Answers
    BY <1>6 DEF SendAnswer, Answers
  <2>2. messages' \in Seq(Events) /\ Len(messages') <= BufferSize
    BY <1>6, <2>1, EventTypes, EnqueueType DEF SendAnswer
  <2> QED
    BY <1>6, <2>1, <2>2 DEF SendAnswer, Enqueue
<1>7. CASE DropAnswer
  BY <1>7 DEF DropAnswer, Answers
<1>8. CASE Take
  <2>1. messages' \in Seq(Events) /\ Len(messages') <= BufferSize /\ message' \in Events
    BY <1>8 DEF Take
  <2> QED
    BY <1>8, <2>1 DEF Take
<1>9. CASE HandlerGone
  BY <1>9 DEF HandlerGone
<1>10. CASE Write
  <2>1. wire' \in Seq(Events) /\ Len(wire') <= WireSize
    BY <1>10 DEF Write
  <2> QED
    BY <1>10, <2>1 DEF Write
<1>11. CASE WriteToNobody
  BY <1>11 DEF WriteToNobody
<1>12. CASE Notice
  BY <1>12 DEF Notice
<1>13. CASE Read
  <2>1. /\ wire' \in Seq(Events) /\ Len(wire') <= WireSize
        /\ Head(wire) \in Events /\ Append(got, Head(wire)) \in Seq(Events)
    BY <1>13 DEF Read
  <2>2. client' \in {"reading"} \cup Answers
    BY <1>13 DEF Read, IsFinal
  <2>3. got' \in Seq(Events)
    BY <1>13, <2>1 DEF Read
  <2> QED
    BY <1>13, <2>1, <2>2, <2>3 DEF Read
<1>14. CASE ReadEnd \/ ReadTooLong \/ WriteRefused
  BY <1>14 DEF ReadEnd, ReadTooLong, WriteRefused
<1>15. CASE Leave
  BY <1>15 DEF Leave
<1>16. CASE Die
  BY <1>16 DEF Die
<1>17. CASE UNCHANGED vars
  BY <1>17 DEF vars
<1> QED
  BY <1>1, <1>2, <1>3, <1>4, <1>5, <1>6, <1>7, <1>8, <1>9, <1>10, <1>11, <1>12,
     <1>13, <1>14, <1>15, <1>16, <1>17
  DEF Next, AppStep, HandlerStep, ClientStep

\* The channel, the socket and everyone at them keep their types, for any
\* number of emitters and any sizes (streamResult, readStream).
THEOREM TypeCorrect == Spec => []TypeOK
<1>1. TypeInv => TypeOK
  BY DEF TypeInv
<1> QED
  BY <1>1, TypeInit, TypeStep, PTL DEF Spec

----------------------------------------------------------------------------
(* A client that stays is answered *)

\* The server notices only a client that has gone, and a handler that returned
\* left the answer in the socket of one that has not, or could not encode an event.
AnswerWaits ==
  /\ noticed => client # "reading"
  /\ client = "reading" /\ handler = "returned" =>
       message \in Unencodable \/ (wire # <<>> /\ IsFinal(wire[Len(wire)]))

LEMMA AnswerWaitsInit == Init => AnswerWaits
BY DEF Init, AnswerWaits

LEMMA TailKeepsLast ==
  ASSUME NEW S, NEW s \in Seq(S), s # <<>>, Len(s) # 1
  PROVE  Tail(s) # <<>> /\ Tail(s)[Len(Tail(s))] = s[Len(s)]
<1> DEFINE t == Tail(s)
<1>1. Len(s) \in Nat /\ Len(s) > 1
  <2>1. Len(s) \in Nat
    BY LenProperties
  <2>2. Len(s) # 0
    BY EmptySeq
  <2>3. \A n \in Nat : n # 0 /\ n # 1 => n > 1
    OBVIOUS
  <2> QED
    BY <2>1, <2>2, <2>3, Zenon
<1>2. /\ t \in Seq(S)
      /\ Len(t) = Len(s) - 1
      /\ \A i \in 1..Len(t) : t[i] = s[i + 1]
  BY HeadTailProperties
<1> HIDE DEF t
<1>3. t # <<>>
  <2>1. Len(<<>>) = 0
    OBVIOUS
  <2> QED
    BY <1>1, <1>2, <2>1
<1>4. t[Len(t)] = s[Len(s)]
  <2>1. Len(t) \in 1..Len(t) /\ Len(t) + 1 = Len(s)
    BY <1>1, <1>2
  <2> QED
    BY <1>2, <2>1
<1> QED
  BY <1>3, <1>4 DEF t

LEMMA AnswerWaitsStep == TypeInv /\ AnswerWaits /\ [Next]_vars => AnswerWaits'
<1> SUFFICES ASSUME TypeInv, AnswerWaits, [Next]_vars PROVE AnswerWaits'
  OBVIOUS
<1>1. CASE UNCHANGED <<noticed, client, handler, message, wire>>
  BY <1>1 DEF AnswerWaits
<1>2. CASE \/ Take \/ HandlerGone \/ WriteToNobody \/ WriteRefused \/ Notice
           \/ ReadEnd \/ ReadTooLong \/ Leave
  BY <1>2 DEF AnswerWaits, Take, HandlerGone, WriteToNobody, WriteRefused, Notice, ReadEnd,
     ReadTooLong, Leave, Connected
<1>3. CASE Write
  <2>1. wire \in Seq(Events) /\ message \in Events
    BY <1>3 DEF TypeInv, TypeOK, SourceInv, Write
  <2>2. wire' # <<>> /\ wire'[Len(wire')] = message
    BY <1>3, <2>1 DEF Write
  <2> QED
    BY <1>3, <2>2 DEF AnswerWaits, Write
<1>4. CASE Read
  <2>1. wire \in Seq(Events) /\ wire # <<>> /\ wire' = Tail(wire)
    BY <1>4 DEF TypeInv, TypeOK, Read
  <2>2. CASE Len(wire) = 1
    <3>1. wire[Len(wire)] = Head(wire)
      BY <2>1, <2>2
    <3>2. client' = IF IsFinal(Head(wire)) THEN Head(wire).event ELSE "reading"
      BY <1>4 DEF Read
    <3>3. IsFinal(Head(wire)) => Head(wire).event # "reading"
      BY DEF IsFinal, Answers
    <3> QED
      BY <1>4, <3>1, <3>2, <3>3 DEF AnswerWaits, Read
  <2>3. CASE Len(wire) # 1
    <3>1. Tail(wire) # <<>> /\ Tail(wire)[Len(Tail(wire))] = wire[Len(wire)]
      BY <2>1, <2>3, TailKeepsLast
    <3> QED
      BY <1>4, <2>1, <3>1 DEF AnswerWaits, Read
  <2> QED
    BY <2>2, <2>3
<1> QED
  BY <1>1, <1>2, <1>3, <1>4 DEF Next, AppStep, HandlerStep, ClientStep, vars, Emit, Expire,
     SendEvent, DropEvent, Answer, SendAnswer, DropAnswer, Enqueue, Die

\* A client that stays is left without an answer only by a dead daemon or by one
\* event, progress or answer, that is too long for its Scanner or cannot be encoded
\* (streamResult, readStream): once it has stopped at one it never moves on.
THEOREM StayingClientAnswered == Spec => []ClientDecodesAnswer
<1>1. Init => ClientDecodesAnswer
  BY DEF Init, ClientDecodesAnswer
<1>2. AnswerWaits /\ ClientDecodesAnswer /\ [Next]_vars => ClientDecodesAnswer'
  <2> SUFFICES ASSUME AnswerWaits, ClientDecodesAnswer, [Next]_vars
               PROVE  ClientDecodesAnswer'
    OBVIOUS
  <2>1. CASE Read
    BY <2>1 DEF ClientDecodesAnswer, Read, IsFinal, Answers
  <2>2. CASE ReadEnd
    BY <2>2 DEF ClientDecodesAnswer, AnswerWaits, ReadEnd
  <2>3. CASE ReadTooLong \/ Leave \/ Die
    BY <2>3 DEF ClientDecodesAnswer, ReadTooLong, Leave, Die
  <2>4. CASE Take \/ Write
    BY <2>4 DEF ClientDecodesAnswer, Take, Write, Connected
  <2>5. CASE HandlerGone \/ WriteToNobody \/ WriteRefused
    BY <2>5 DEF ClientDecodesAnswer, HandlerGone, WriteToNobody, WriteRefused
  <2>6. CASE UNCHANGED <<client, died, wire, handler, message>>
    BY <2>6 DEF ClientDecodesAnswer
  <2> QED
    BY <2>1, <2>2, <2>3, <2>4, <2>5, <2>6 DEF Next, AppStep, HandlerStep, ClientStep, vars,
       Emit, Expire, SendEvent, DropEvent, Answer, SendAnswer, DropAnswer, Enqueue, Notice
<1> QED
  BY <1>1, <1>2, AnswerWaitsInit, AnswerWaitsStep, TypeInit, TypeStep, PTL DEF Spec

----------------------------------------------------------------------------
(* One answer, at the end *)

Clean(s) == \A k \in 1..Len(s) : ~IsFinal(s[k])

\* An answer in s is its last event, and the answer a.
Ends(s, a) == \A k \in 1..Len(s) : IsFinal(s[k]) => k = Len(s) /\ s[k] = Final(a)

LEMMA CleanEnds == ASSUME NEW s, NEW a, Clean(s) PROVE Ends(s, a)
BY DEF Clean, Ends

LEMMA EmptyClean == Clean(<<>>)
BY DEF Clean

LEMMA AppendEvent ==
  ASSUME NEW s \in Seq(Events), Clean(s), NEW m \in Events
  PROVE  /\ ~IsFinal(m) => Clean(Append(s, m))
         /\ \A a : m = Final(a) => Ends(Append(s, m), a)
<1> DEFINE t == Append(s, m)
<1>1. Len(s) \in Nat /\ Len(t) = Len(s) + 1 /\ t[Len(s) + 1] = m
      /\ \A k \in 1..Len(s) : t[k] = s[k]
  BY AppendProperties, LenProperties
<1> HIDE DEF t
<1>2. \A k \in 1..Len(t) : k = Len(t) \/ k \in 1..Len(s)
  BY <1>1
<1> QED
  BY <1>1, <1>2 DEF Clean, Ends, t

LEMMA TailEvents ==
  ASSUME NEW s \in Seq(Events), s # <<>>
  PROVE  /\ Clean(s) => Clean(Tail(s)) /\ ~IsFinal(Head(s))
         /\ \A a : Ends(s, a) => Ends(Tail(s), a)
         /\ \A a : Ends(s, a) /\ IsFinal(Head(s)) => Tail(s) = <<>> /\ Head(s) = Final(a)
<1> DEFINE t == Tail(s)
<1>1. Len(s) \in Nat /\ Len(s) # 0
  <2>1. Len(s) \in Nat
    BY LenProperties
  <2> QED
    BY <2>1, EmptySeq
<1>2. /\ t \in Seq(Events)
      /\ Len(t) = Len(s) - 1
      /\ \A i \in 1..Len(t) : t[i] = s[i + 1]
  BY HeadTailProperties
<1>3. Head(s) = s[1] /\ (Len(t) = 0 => t = <<>>)
  BY <1>2, EmptySeq
<1> HIDE DEF t
<1>4. 1 \in 1..Len(s) /\ \A i \in 1..Len(t) : i + 1 \in 1..Len(s) /\ (i + 1 = Len(s) => i = Len(t))
  BY <1>1, <1>2
<1>5. 1 = Len(s) => t = <<>>
  BY <1>2, <1>3
<1> QED
  BY <1>2, <1>3, <1>4, <1>5 DEF Clean, Ends, t

LEMMA Joined ==
  ASSUME NEW s \in Seq(Events), NEW t \in Seq(Events)
  PROVE  /\ Clean(s) /\ Clean(t) => Clean(s \o t)
         /\ \A a : Ends(s, a) /\ Ends(t, a) /\ (Clean(s) \/ t = <<>>) => Ends(s \o t, a)
<1> DEFINE u == s \o t
<1>1. Len(s) \in Nat /\ Len(t) \in Nat /\ Len(u) = Len(s) + Len(t)
      /\ \A k \in 1..Len(u) : u[k] = IF k <= Len(s) THEN s[k] ELSE t[k - Len(s)]
  BY ConcatProperties, LenProperties
<1>2. t = <<>> => Len(t) = 0
  OBVIOUS
<1> HIDE DEF u
<1>3. \A k \in 1..Len(u) :
        \/ /\ k \in 1..Len(s) /\ u[k] = s[k]
           /\ (Len(t) = 0 => Len(u) = Len(s))
        \/ /\ k - Len(s) \in 1..Len(t) /\ u[k] = t[k - Len(s)]
           /\ (k - Len(s) = Len(t) => k = Len(u))
  BY <1>1
<1> QED
  BY <1>2, <1>3 DEF Clean, Ends, u

\* What the handler holds between the channel and the socket.
Held == IF handler = "writing" THEN <<message>> ELSE <<>>

\* Nobody sends events once the app method has returned; until it sends its
\* answer there is none on the way; and behind an answer there is nothing.
AnswerInv ==
  /\ app # "running" => \A e \in Emitters : ~sending[e]
  /\ app # "done" => Clean(got) /\ Clean(wire) /\ Clean(Held) /\ Clean(messages)
  /\ Ends(got, answered) /\ Ends(wire, answered)
  /\ Ends(Held, answered) /\ Ends(messages, answered)
  /\ Clean(got) \/ (wire = <<>> /\ Held = <<>> /\ messages = <<>>)
  /\ Clean(wire) \/ (Held = <<>> /\ messages = <<>>)
  /\ Clean(Held) \/ messages = <<>>

LEMMA HeldEvent ==
  ASSUME NEW m, NEW a
  PROVE  /\ <<m>> # <<>>
         /\ Clean(<<m>>) <=> ~IsFinal(m)
         /\ Ends(<<m>>, a) <=> (IsFinal(m) => m = Final(a))
         /\ m \in Events => <<m>> \in Seq(Events)
<1>1. Len(<<m>>) = 1 /\ <<m>>[1] = m
  OBVIOUS
<1>2. \A k : k \in 1..1 <=> k = 1
  OBVIOUS
<1> QED
  BY <1>1, <1>2 DEF Clean, Ends

LEMMA AnswerInit == Init => AnswerInv
<1> SUFFICES ASSUME Init PROVE AnswerInv
  OBVIOUS
<1>1. Held = <<>> /\ got = <<>> /\ wire = <<>> /\ messages = <<>> /\ app = "running"
  BY DEF Init, Held
<1> QED
  BY <1>1, EmptyClean, CleanEnds DEF AnswerInv

LEMMA AnswerMeansOneLast == TypeInv /\ AnswerInv => OneAnswerLast
<1> SUFFICES ASSUME TypeInv, AnswerInv PROVE OneAnswerLast
  OBVIOUS
<1>1. /\ got \in Seq(Events) /\ wire \in Seq(Events)
      /\ Held \in Seq(Events) /\ messages \in Seq(Events)
  <2>1. handler = "writing" => Held \in Seq(Events)
    BY HeldEvent DEF Held, TypeInv, SourceInv
  <2>2. handler # "writing" => Held \in Seq(Events)
    BY EmptySeq DEF Held
  <2> QED
    BY <2>1, <2>2 DEF TypeInv, TypeOK
<1>2. got \o wire \in Seq(Events) /\ (got \o wire) \o Held \in Seq(Events)
  BY <1>1, ConcatProperties
<1>3. /\ Clean(got) /\ Clean(wire) => Clean(got \o wire)
      /\ Ends(got \o wire, answered)
  BY <1>1, Joined DEF AnswerInv
<1>4. /\ Clean(got \o wire) /\ Clean(Held) => Clean((got \o wire) \o Held)
      /\ Ends((got \o wire) \o Held, answered)
  <2>1. Clean(got \o wire) \/ Held = <<>>
    BY <1>3 DEF AnswerInv
  <2> QED
    BY <1>1, <1>2, <1>3, <2>1, Joined DEF AnswerInv
<1>5. Ends(((got \o wire) \o Held) \o messages, answered)
  <2>1. Clean((got \o wire) \o Held) \/ messages = <<>>
    BY <1>3, <1>4 DEF AnswerInv
  <2> QED
    BY <1>1, <1>2, <1>4, <2>1, Joined DEF AnswerInv
<1>6. Stream = ((got \o wire) \o Held) \o messages
  BY DEF Stream, Written, Held
<1>7. ((got \o wire) \o Held) \o messages \in Seq(Events)
  BY <1>1, <1>2, ConcatProperties
<1>8. DOMAIN Stream = 1..Len(Stream)
  BY <1>6, <1>7, LenProperties
<1> QED
  BY <1>5, <1>6, <1>8 DEF OneAnswerLast, Ends

LEMMA AnswerStep == TypeInv /\ TypeInv' /\ AnswerInv /\ [Next]_vars => AnswerInv'
<1> SUFFICES ASSUME TypeInv, TypeInv', AnswerInv, [Next]_vars PROVE AnswerInv'
  OBVIOUS
<1>0. /\ got \in Seq(Events) /\ wire \in Seq(Events)
      /\ messages \in Seq(Events) /\ (handler = "writing" => message \in Events)
  BY DEF TypeInv, TypeOK, SourceInv
<1>1. ASSUME UNCHANGED <<app, answered, handler, message, got, wire, messages>>,
             \A e \in Emitters : sending'[e] => sending[e] \/ app = "running"
      PROVE  AnswerInv'
  BY <1>1 DEF AnswerInv, Held, Clean, Ends
<1>2. ASSUME NEW e \in Emitters, Emit(e) \/ DropEvent(e) PROVE AnswerInv'
  BY <1>2, <1>1 DEF Emit, DropEvent, TypeInv, TypeOK
<1>3. ASSUME NEW e \in Emitters, Expire(e) PROVE AnswerInv'
  BY <1>3, <1>1 DEF Expire
<1>4. ASSUME NEW e \in Emitters, SendEvent(e) PROVE AnswerInv'
  <2>1. app = "running"
    BY <1>4 DEF SendEvent, AnswerInv
  <2>2. Clean(got) /\ Clean(wire) /\ Clean(Held) /\ Clean(messages)
    BY <2>1 DEF AnswerInv
  <2>3. Clean(messages')
    BY <1>0, <1>4, <2>2, SendsEvent, AppendEvent DEF SendEvent, Enqueue
  <2>4. got' = got /\ wire' = wire /\ Held' = Held /\ app' = app
    BY <1>4 DEF SendEvent, Enqueue, Held
  <2> QED
    BY <2>1, <2>2, <2>3, <2>4, CleanEnds DEF AnswerInv
<1>5. CASE Answer
  <2>1. Clean(got) /\ Clean(wire) /\ Clean(Held) /\ Clean(messages)
    BY <1>5 DEF AnswerInv, Answer
  <2>2. got' = got /\ wire' = wire /\ Held' = Held /\ messages' = messages
    BY <1>5 DEF Answer, Held
  <2>3. \A e \in Emitters : ~sending'[e]
    BY <1>5 DEF Answer
  <2>4. /\ Ends(got, answered') /\ Ends(wire, answered')
        /\ Ends(Held, answered') /\ Ends(messages, answered')
    BY <2>1, CleanEnds
  <2> QED
    BY <2>1, <2>2, <2>3, <2>4 DEF AnswerInv
<1>6. CASE SendAnswer
  <2>1. app # "running" /\ app # "done" /\ app' = "done" /\ answered' = answered
    BY <1>6 DEF SendAnswer, Answers
  <2>2. Clean(got) /\ Clean(wire) /\ Clean(Held) /\ Clean(messages)
    BY <2>1 DEF AnswerInv
  <2>3. Final(answered) \in Events
    BY <2>1, EventTypes DEF TypeInv, SourceInv
  <2>4. Ends(messages', answered)
    BY <1>0, <1>6, <2>2, <2>3, AppendEvent DEF SendAnswer, Enqueue
  <2>5. got' = got /\ wire' = wire /\ Held' = Held /\ sending' = sending
    BY <1>6 DEF SendAnswer, Enqueue, Held
  <2>6. Ends(got, answered) /\ Ends(wire, answered) /\ Ends(Held, answered)
    BY DEF AnswerInv
  <2> QED
    BY <2>1, <2>2, <2>4, <2>5, <2>6 DEF AnswerInv
<1>7. CASE DropAnswer
  BY <1>7 DEF DropAnswer, AnswerInv, Held, Answers
<1>8. CASE Take
  <2>1. /\ Held = <<>> /\ messages # <<>> /\ handler' = "writing"
        /\ message' = Head(messages) /\ messages' = Tail(messages)
        /\ UNCHANGED <<app, answered, sending, got, wire>>
    BY <1>8 DEF Take, senders, Held
  <2>2. Clean(got) /\ Clean(wire)
    BY <2>1 DEF AnswerInv
  <2>3. /\ Clean(Held') <=> ~IsFinal(Head(messages))
        /\ Ends(Held', answered) <=> (IsFinal(Head(messages)) => Head(messages) = Final(answered))
    BY <2>1, HeldEvent DEF Held
  <2>4. /\ Clean(messages) => Clean(messages') /\ ~IsFinal(Head(messages))
        /\ Ends(messages', answered)
        /\ IsFinal(Head(messages)) => messages' = <<>> /\ Head(messages) = Final(answered)
    BY <1>0, <2>1, TailEvents DEF AnswerInv
  <2> QED
    BY <2>1, <2>2, <2>3, <2>4 DEF AnswerInv
<1>9. CASE HandlerGone
  <2>1. Held = <<>> /\ Held' = <<>> /\ UNCHANGED <<app, answered, sending, got, wire, messages>>
    BY <1>9 DEF HandlerGone, Held, senders
  <2> QED
    BY <2>1 DEF AnswerInv
<1>10. CASE Write
  <2>1. /\ Held = <<message>> /\ message \in Events
        /\ Held' = <<>> /\ wire' = Append(wire, message)
        /\ UNCHANGED <<app, answered, sending, got, messages>>
    BY <1>0, <1>10 DEF Write, Held, senders
  <2>2. /\ Held # <<>>
        /\ Clean(Held) <=> ~IsFinal(message)
        /\ Ends(Held, answered) <=> (IsFinal(message) => message = Final(answered))
    BY <2>1, HeldEvent
  <2>3. Clean(got) /\ Clean(wire)
    BY <2>2 DEF AnswerInv
  <2>4. /\ ~IsFinal(message) => Clean(wire')
        /\ message = Final(answered) => Ends(wire', answered)
    BY <1>0, <2>1, <2>3, AppendEvent
  <2>5. Ends(wire', answered) /\ (Clean(wire') \/ messages = <<>>)
    BY <2>2, <2>4, CleanEnds DEF AnswerInv
  <2> QED
    BY <2>1, <2>2, <2>3, <2>4, <2>5, EmptyClean, CleanEnds DEF AnswerInv
<1>11. CASE WriteToNobody \/ WriteRefused
  <2>1. Held' = <<>> /\ UNCHANGED <<app, answered, sending, got, wire, messages>>
    BY <1>11 DEF WriteToNobody, WriteRefused, Held, senders
  <2> QED
    BY <2>1, EmptyClean, CleanEnds DEF AnswerInv
<1>12. CASE Read
  <2>1. /\ wire # <<>> /\ wire' = Tail(wire)
        /\ got' = Append(got, Head(wire))
        /\ Held' = Held /\ UNCHANGED <<app, answered, sending, messages>>
    BY <1>12 DEF Read, Held, senders
  <2>2. Clean(got) /\ Head(wire) \in Events
    BY <1>0, <2>1 DEF AnswerInv
  <2>3. /\ Clean(wire) => Clean(wire') /\ ~IsFinal(Head(wire))
        /\ Ends(wire', answered)
        /\ IsFinal(Head(wire)) => wire' = <<>> /\ Head(wire) = Final(answered)
    BY <1>0, <2>1, TailEvents DEF AnswerInv
  <2>4. /\ ~IsFinal(Head(wire)) => Clean(got')
        /\ Head(wire) = Final(answered) => Ends(got', answered)
    BY <1>0, <2>1, <2>2, AppendEvent, CleanEnds
  <2>5. /\ Ends(got', answered)
        /\ Clean(got') \/ (wire' = <<>> /\ Held = <<>> /\ messages = <<>>)
    BY <2>3, <2>4, CleanEnds DEF AnswerInv
  <2>6. Clean(wire') \/ (Held = <<>> /\ messages = <<>>)
    BY <2>3 DEF AnswerInv
  <2> QED
    BY <2>1, <2>3, <2>4, <2>5, <2>6 DEF AnswerInv
<1>13. CASE Notice \/ ReadEnd \/ ReadTooLong \/ Leave \/ Die \/ UNCHANGED vars
  <2>1. UNCHANGED <<app, answered, sending, handler, message, got, wire, messages>>
    BY <1>13 DEF Notice, ReadEnd, ReadTooLong, Leave, Die, vars, senders
  <2> QED
    BY <1>1, <2>1
<1> QED
  BY <1>2, <1>3, <1>4, <1>5, <1>6, <1>7, <1>8, <1>9, <1>10, <1>11, <1>12, <1>13
  DEF Next, AppStep, HandlerStep, ClientStep

\* However the emitters, the handler and the client interleave, whoever dies
\* and whatever is dropped, an answer is the last event of the stream, at most
\* one, and what the app method returned (streamResult, readStream).
THEOREM AnswerIsLast == Spec => []OneAnswerLast
BY TypeInit, TypeStep, AnswerInit, AnswerStep, AnswerMeansOneLast, PTL DEF Spec

----------------------------------------------------------------------------
(* Every event once, in its order *)

LEMMA StreamTypes ==
  ASSUME TypeInv
  PROVE  /\ got \in Seq(Events) /\ wire \in Seq(Events) /\ messages \in Seq(Events)
         /\ Held \in Seq(Events) /\ Stream = ((got \o wire) \o Held) \o messages
         /\ Stream \in Seq(Events)
<1>1. got \in Seq(Events) /\ wire \in Seq(Events) /\ messages \in Seq(Events)
  BY DEF TypeInv, TypeOK
<1>2. Held \in Seq(Events)
  <2>1. CASE handler = "writing"
    BY <2>1, HeldEvent DEF Held, TypeInv, SourceInv
  <2>2. CASE handler # "writing"
    BY <2>2, EmptySeq DEF Held
  <2> QED
    BY <2>1, <2>2
<1>3. Stream = ((got \o wire) \o Held) \o messages
  BY DEF Stream, Written, Held
<1>4. got \o wire \in Seq(Events) /\ (got \o wire) \o Held \in Seq(Events)
  BY <1>1, <1>2, ConcatProperties
<1> QED
  BY <1>1, <1>2, <1>3, <1>4, ConcatProperties

LEMMA AppendToConcat ==
  ASSUME NEW s \in Seq(Events), NEW t \in Seq(Events), NEW m \in Events
  PROVE  s \o Append(t, m) = Append(s \o t, m)
<1>1. <<m>> \in Seq(Events) /\ s \o t \in Seq(Events)
  BY HeldEvent, ConcatProperties
<1>2. Append(t, m) = t \o <<m>> /\ Append(s \o t, m) = (s \o t) \o <<m>>
  BY <1>1, AppendIsConcat
<1> QED
  BY <1>1, <1>2, ConcatAssociative

LEMMA HeadJoinsTail ==
  ASSUME NEW s \in Seq(Events), NEW t \in Seq(Events), t # <<>>
  PROVE  /\ Head(t) \in Events /\ Tail(t) \in Seq(Events)
         /\ Append(s, Head(t)) \o Tail(t) = s \o t
         /\ (s \o <<Head(t)>>) \o Tail(t) = s \o t
<1>1. Head(t) \in Events /\ Tail(t) \in Seq(Events) /\ <<Head(t)>> \in Seq(Events)
  BY HeadTailProperties, HeldEvent
<1>2. <<Head(t)>> \o Tail(t) = t
  <2> DEFINE u == <<Head(t)>> \o Tail(t)
  <2>1. /\ u \in Seq(Events) /\ Len(u) = 1 + Len(Tail(t))
        /\ \A i \in 1..Len(u) : u[i] = IF i <= 1 THEN Head(t) ELSE Tail(t)[i - 1]
    BY <1>1, ConcatProperties
  <2>2. /\ Len(t) \in Nat /\ Len(Tail(t)) = Len(t) - 1 /\ Head(t) = t[1]
        /\ \A i \in 1..Len(Tail(t)) : Tail(t)[i] = t[i + 1]
    BY HeadTailProperties, LenProperties
  <2> HIDE DEF u
  <2>3. Len(u) = Len(t) /\ \A i \in 1..Len(t) : u[i] = t[i]
    BY <2>1, <2>2
  <2>4. u = t
    BY <2>1, <2>3, SeqEqual
  <2> QED
    BY <2>4 DEF u
<1>3. (s \o <<Head(t)>>) \o Tail(t) = s \o t
  BY <1>1, <1>2, ConcatAssociative
<1> QED
  BY <1>1, <1>3, AppendIsConcat

\* To a client that reads on and is refused no event, a step hands the stream over
\* as it is, or with one event more at its end: the one an emitter sent, or the answer.
LEMMA StreamStep ==
  ASSUME TypeInv, [Next]_vars, Connected', ~WriteRefused
  PROVE  \/ Stream' = Stream /\ \A e \in Emitters : ~SendEvent(e)
         \/ \E e \in Emitters :
              SendEvent(e) /\ Stream' = Append(Stream, Progress(e, emitted[e]))
         \/ SendAnswer /\ Stream' = Append(Stream, Final(answered))
<1> DEFINE front == got \o wire
<1>1. /\ got \in Seq(Events) /\ wire \in Seq(Events) /\ messages \in Seq(Events)
      /\ Held \in Seq(Events) /\ Stream = (front \o Held) \o messages
      /\ Stream' = ((got' \o wire') \o Held') \o messages'
  BY StreamTypes DEF Stream, Written, Held
<1>2. front \in Seq(Events) /\ front \o Held \in Seq(Events)
  BY <1>1, ConcatProperties
<1>3. ASSUME NEW m \in Events, Enqueue(m) PROVE Stream' = Append(Stream, m)
  <2>1. UNCHANGED <<got, wire, Held>> /\ messages' = Append(messages, m)
    BY <1>3 DEF Enqueue, Held
  <2> QED
    BY <1>1, <1>2, <2>1, AppendToConcat
<1>4. ASSUME UNCHANGED <<got, wire, Held, messages>> PROVE Stream' = Stream
  BY <1>1, <1>4
<1> HIDE DEF front
<1>5. ASSUME NEW e \in Emitters, SendEvent(e)
      PROVE  Stream' = Append(Stream, Progress(e, emitted[e]))
  BY <1>3, <1>5, SendsEvent DEF SendEvent
<1>6. CASE SendAnswer
  <2>1. Final(answered) \in Events
    BY <1>6, EventTypes DEF SendAnswer, TypeInv, SourceInv, Answers
  <2> QED
    BY <1>3, <1>6, <2>1 DEF SendAnswer
<1>7. ASSUME Take PROVE Stream' = Stream
  <2>1. /\ Held = <<>> /\ messages # <<>> /\ Held' = <<Head(messages)>>
        /\ messages' = Tail(messages) /\ UNCHANGED <<got, wire>>
    BY <1>7 DEF Take, Held
  <2>2. (front \o <<Head(messages)>>) \o Tail(messages) = front \o messages
    BY <1>1, <1>2, <2>1, HeadJoinsTail
  <2>3. front \o <<>> = front
    BY <1>2, ConcatEmptySeq
  <2>4. Stream = front \o messages
    BY <1>1, <2>1, <2>3
  <2>5. Stream' = (front \o <<Head(messages)>>) \o Tail(messages)
    <3>1. got' \o wire' = front
      BY <2>1 DEF front
    <3> QED
      BY <1>1, <2>1, <3>1
  <2> QED
    BY <2>2, <2>4, <2>5
<1>8. ASSUME Write PROVE Stream' = Stream
  <2>1. /\ Held = <<message>> /\ message \in Events /\ Held' = <<>>
        /\ wire' = Append(wire, message) /\ UNCHANGED <<got, messages>>
    BY <1>8 DEF Write, Held, TypeInv, SourceInv
  <2>2. got \o Append(wire, message) = Append(front, message)
    BY <1>1, <2>1, AppendToConcat DEF front
  <2>3. Append(front, message) = front \o <<message>>
    BY <1>2, <2>1, AppendIsConcat
  <2>4. (got' \o wire') \o Held' = front \o Held
    BY <1>2, <2>1, <2>2, <2>3, ConcatEmptySeq
  <2>5. Stream' = (front \o Held) \o messages
    BY <1>1, <2>1, <2>4
  <2> QED
    BY <1>1, <2>5
<1>9. ASSUME Read PROVE Stream' = Stream
  <2>1. /\ wire # <<>> /\ wire' = Tail(wire) /\ got' = Append(got, Head(wire))
        /\ UNCHANGED <<Held, messages>>
    BY <1>9 DEF Read, Held, Connected
  <2>2. got' \o wire' = front
    BY <1>1, <2>1, HeadJoinsTail DEF front
  <2>3. Stream' = (front \o Held) \o messages
    BY <1>1, <2>1, <2>2
  <2> QED
    BY <1>1, <2>3
<1>10. ASSUME HandlerGone PROVE Stream' = Stream
  <2>1. UNCHANGED <<got, wire, Held, messages>>
    BY <1>10 DEF HandlerGone, Held
  <2> QED
    BY <1>4, <2>1
<1>11. ASSUME Notice \/ ReadEnd \/ ReadTooLong \/ Leave \/ Die \/ UNCHANGED vars
       PROVE  Stream' = Stream
  <2>1. UNCHANGED <<got, wire, Held, messages>>
    BY <1>11 DEF Notice, ReadEnd, ReadTooLong, Leave, Die, vars, Held
  <2> QED
    BY <1>4, <2>1
<1>12. ASSUME Answer \/ DropAnswer PROVE Stream' = Stream
  <2>1. UNCHANGED <<got, wire, Held, messages>>
    BY <1>12 DEF Answer, DropAnswer, Held
  <2> QED
    BY <1>4, <2>1
<1>13. ASSUME NEW e \in Emitters, Emit(e) \/ Expire(e) \/ DropEvent(e)
       PROVE  Stream' = Stream
  <2>1. UNCHANGED <<got, wire, Held, messages>>
    BY <1>13 DEF Emit, Expire, DropEvent, Held
  <2> QED
    BY <1>4, <2>1
<1>14. ~WriteToNobody
  BY DEF WriteToNobody, Connected
<1>15. Stream' = Stream \/ (\E e \in Emitters : SendEvent(e)) \/ SendAnswer
  BY <1>7, <1>8, <1>9, <1>10, <1>11, <1>12, <1>13, <1>14
     DEF Next, AppStep, HandlerStep, ClientStep
<1> QED
  BY <1>5, <1>6, <1>15

\* The events of e in s bear numbers up to n.
Numbered(s, e, n) ==
  \A k \in DOMAIN s : OfEmitter(s[k], e) => s[k].number \in Nat /\ s[k].number <= n

Covers(s, e, n) == \A i \in 1..n : \E k \in DOMAIN s : s[k] = Progress(e, i)

\* What a connected client is to read of each emitter is in order and none of it
\* is to come again; it is complete while nothing made the emitter give up.  When
\* the handler has returned, what counts is what it has written.
OrderInv ==
  \A e \in Emitters :
    /\ InOrder(got, e)
    /\ Connected => InOrder(got \o wire, e)
    /\ Connected /\ handler # "returned" =>
         InOrder(Stream, e) /\ Numbered(Stream, e, Sent(e))
    /\ Connected /\ ~expired[e] /\ handler # "returned" => Covers(Stream, e, Sent(e))

LEMMA SentTypes ==
  ASSUME TypeInv, NEW e \in Emitters
  PROVE  /\ Sent(e) \in Nat
         /\ emitted[e] \in Nat
         /\ sending[e] => emitted[e] = Sent(e) + 1
         /\ ~sending[e] => emitted[e] = Sent(e)
BY SseAssumption DEF TypeInv, TypeOK, SourceInv, Sent

LEMMA OrderInit == Init => OrderInv
<1> SUFFICES ASSUME Init, NEW e \in Emitters PROVE OrderInv!(e)
  BY DEF OrderInv
<1>1. got = <<>> /\ wire = <<>> /\ messages = <<>> /\ handler = "selecting"
      /\ emitted[e] = 0 /\ ~sending[e]
  BY DEF Init
<1>2. Stream = <<>> /\ Sent(e) = 0
  <2>1. Held = <<>> /\ Stream = ((<<>> \o <<>>) \o <<>>) \o <<>>
    BY <1>1 DEF Stream, Written, Held
  <2>2. <<>> \o <<>> = <<>>
    BY EmptySeq, ConcatEmptySeq
  <2>3. Sent(e) = 0
    BY <1>1, TypeInit, SentTypes
  <2> QED
    BY <2>1, <2>2, <2>3
<1>3. DOMAIN <<>> = {} /\ 1..0 = {}
  OBVIOUS
<1> QED
  BY <1>1, <1>2, <1>3 DEF InOrder, Numbered, Covers

\* One event more at the end.
LEMMA AppendOrder ==
  ASSUME NEW s \in Seq(Events), NEW m \in Events, NEW e \in Emitters, NEW n \in Nat,
         InOrder(s, e), Numbered(s, e, n)
  PROVE  /\ ~OfEmitter(m, e) => InOrder(Append(s, m), e) /\ Numbered(Append(s, m), e, n)
         /\ m = Progress(e, n + 1) =>
              InOrder(Append(s, m), e) /\ Numbered(Append(s, m), e, n + 1)
         /\ Covers(s, e, n) => Covers(Append(s, m), e, n)
         /\ Covers(s, e, n) /\ m = Progress(e, n + 1) => Covers(Append(s, m), e, n + 1)
<1> DEFINE t == Append(s, m)
           l == Len(s)
<1>1. l \in Nat /\ DOMAIN s = 1..l /\ DOMAIN t = 1..(l + 1)
      /\ t[l + 1] = m /\ \A k \in 1..l : t[k] = s[k]
  BY AppendProperties, LenProperties
<1> HIDE DEF t, l
<1>2. DOMAIN t = DOMAIN s \cup {l + 1} /\ \A k \in DOMAIN s : t[k] = s[k] /\ k < l + 1
      /\ ~(l + 1 < k)
  BY <1>1
<1>3. ASSUME ~OfEmitter(m, e) PROVE InOrder(t, e) /\ Numbered(t, e, n)
  BY <1>1, <1>2, <1>3 DEF InOrder, Numbered
<1>4. ASSUME m = Progress(e, n + 1) PROVE InOrder(t, e) /\ Numbered(t, e, n + 1)
  <2>1. m.number = n + 1
    BY <1>4 DEF Progress
  <2>2. \A k \in DOMAIN s : OfEmitter(s[k], e) =>
          s[k].number \in Nat /\ s[k].number <= n + 1 /\ s[k].number < n + 1
    BY DEF Numbered
  <2>3. Numbered(t, e, n + 1)
    BY <1>1, <1>2, <2>1, <2>2 DEF Numbered
  <2>4. ASSUME NEW j \in DOMAIN t, NEW k \in DOMAIN t, j < k,
               OfEmitter(t[j], e), OfEmitter(t[k], e)
        PROVE  t[j].number < t[k].number
    <3>1. CASE k = l + 1
      <4>1. j \in DOMAIN s
        BY <1>1, <1>2, <2>4, <3>1
      <4> QED
        BY <1>1, <1>2, <2>1, <2>2, <2>4, <3>1, <4>1
    <3>2. CASE k \in DOMAIN s
      <4>1. j \in DOMAIN s
        BY <1>2, <2>4, <3>2
      <4> QED
        BY <1>2, <2>4, <3>2, <4>1 DEF InOrder
    <3> QED
      BY <1>2, <3>1, <3>2
  <2>5. InOrder(t, e)
    BY <2>4 DEF InOrder
  <2> QED
    BY <2>3, <2>5
<1>5. ASSUME Covers(s, e, n) PROVE Covers(t, e, n)
  BY <1>2, <1>5 DEF Covers
<1>6. ASSUME Covers(s, e, n), m = Progress(e, n + 1) PROVE Covers(t, e, n + 1)
  <2> SUFFICES ASSUME NEW i \in 1..(n + 1) PROVE \E k \in DOMAIN t : t[k] = Progress(e, i)
    BY DEF Covers
  <2>1. CASE i \in 1..n
    BY <1>5, <1>6, <2>1 DEF Covers
  <2>2. CASE i = n + 1
    BY <1>1, <1>2, <1>6, <2>2
  <2> QED
    BY <2>1, <2>2
<1> QED
  BY <1>3, <1>4, <1>5, <1>6 DEF t

\* What comes before is in order too.
LEMMA PrefixOrder ==
  ASSUME NEW s \in Seq(Events), NEW t \in Seq(Events), NEW e, InOrder(s \o t, e)
  PROVE  InOrder(s, e)
<1> DEFINE u == s \o t
<1>1. Len(s) \in Nat /\ Len(t) \in Nat /\ u \in Seq(Events) /\ Len(u) = Len(s) + Len(t)
      /\ \A k \in 1..(Len(s) + Len(t)) : u[k] = IF k <= Len(s) THEN s[k] ELSE t[k - Len(s)]
  BY ConcatProperties, LenProperties
<1>2. DOMAIN s = 1..Len(s) /\ DOMAIN u = 1..Len(u)
  BY <1>1, LenProperties
<1> HIDE DEF u
<1>3. \A k \in DOMAIN s : k \in DOMAIN u /\ u[k] = s[k]
  BY <1>1, <1>2
<1>4. InOrder(u, e)
  BY DEF u
<1> QED
  BY <1>3, <1>4 DEF InOrder

\* What has been sent grows by the event a sender puts into the channel or
\* drops; it drops none while its client reads, unless its own deadline passed.
LEMMA SentStep ==
  ASSUME TypeInv, AnswerWaits, [Next]_vars, NEW e \in Emitters
  PROVE  /\ SendEvent(e) => emitted[e] = Sent(e) + 1 /\ Sent(e)' = Sent(e) + 1
         /\ ~SendEvent(e) => Sent(e)' \in {Sent(e), Sent(e) + 1}
         /\ ~SendEvent(e) /\ Connected /\ ~expired[e] /\ handler # "returned" =>
              Sent(e)' = Sent(e)
         /\ expired[e] => expired'[e]
         /\ handler = "returned" => handler' = "returned"
<1>0. Sent(e) = emitted[e] - (IF sending[e] THEN 1 ELSE 0)
      /\ Sent(e)' = emitted'[e] - (IF sending'[e] THEN 1 ELSE 0)
      /\ emitted[e] \in Int
  BY SentTypes DEF Sent
<1>1. ASSUME UNCHANGED <<emitted, sending>> PROVE Sent(e)' = Sent(e)
  BY <1>1 DEF Sent
<1>2. CASE \E d \in Emitters : Emit(d)
  <2>1. PICK d \in Emitters : Emit(d)
    BY <1>2
  <2>2. /\ ~sending[d] /\ emitted'[d] = emitted[d] + 1 /\ sending'[d]
        /\ d # e => emitted'[e] = emitted[e] /\ sending'[e] = sending[e]
        /\ UNCHANGED <<expired, handler>>
    BY <2>1 DEF Emit, TypeInv, TypeOK
  <2>3. Sent(e)' = Sent(e)
    BY <1>0, <2>2
  <2>4. ~SendEvent(e)
    BY <2>2, <2>1 DEF SendEvent, Emit, Enqueue, TypeInv, TypeOK
  <2> QED
    BY <2>2, <2>3, <2>4
<1>3. CASE \E d \in Emitters : SendEvent(d)
  <2>1. PICK d \in Emitters : SendEvent(d)
    BY <1>3
  <2>2. /\ sending[d] /\ ~sending'[d] /\ emitted' = emitted
        /\ d # e => sending'[e] = sending[e]
        /\ UNCHANGED <<expired, handler>>
    BY <2>1 DEF SendEvent, Enqueue, TypeInv, TypeOK
  <2>3. SendEvent(e) => sending[e] /\ ~sending'[e]
    BY DEF SendEvent, TypeInv, TypeOK
  <2> QED
    BY <1>0, <2>1, <2>2, <2>3
<1>4. CASE \E d \in Emitters : DropEvent(d)
  <2>1. PICK d \in Emitters : DropEvent(d)
    BY <1>4
  <2>2. /\ sending[d] /\ ~sending'[d] /\ emitted' = emitted
        /\ d # e => sending'[e] = sending[e]
        /\ UNCHANGED <<expired, handler>> /\ (CtxDone \/ expired[d])
    BY <2>1 DEF DropEvent, TypeInv, TypeOK
  <2>3. SendEvent(e) => sending[e] /\ ~sending'[e]
    BY DEF SendEvent, TypeInv, TypeOK
  <2>4. CtxDone => ~Connected \/ handler = "returned"
    BY DEF CtxDone, AnswerWaits, Connected
  <2> QED
    BY <1>0, <2>2, <2>3, <2>4
<1>5. CASE UNCHANGED <<emitted, sending>>
  <2>1. ~SendEvent(e)
    BY <1>5 DEF SendEvent, TypeInv, TypeOK
  <2>2. expired[e] => expired'[e]
    <3>1. UNCHANGED expired \/ \E d \in Emitters : expired' = [expired EXCEPT ![d] = TRUE]
      BY DEF Next, AppStep, HandlerStep, ClientStep, vars, senders, Emit, Expire, SendEvent,
         DropEvent, Answer, SendAnswer, DropAnswer, Take, HandlerGone, Write,
         WriteToNobody, WriteRefused, Notice, Read, ReadTooLong, ReadEnd, Leave, Die
    <3> QED
      BY <3>1 DEF TypeInv, TypeOK
  <2>3. handler = "returned" => handler' = "returned"
    BY DEF Next, AppStep, HandlerStep, ClientStep, vars, senders, Emit, Expire, SendEvent,
       DropEvent, Answer, SendAnswer, DropAnswer, Enqueue, Take, HandlerGone, Write,
       WriteToNobody, WriteRefused, Notice, Read, ReadTooLong, ReadEnd, Leave, Die
  <2> QED
    BY <1>1, <1>5, <2>1, <2>2, <2>3
<1>6. \/ UNCHANGED <<emitted, sending>>
      \/ \E d \in Emitters : Emit(d) \/ SendEvent(d) \/ DropEvent(d)
  BY DEF Next, AppStep, HandlerStep, ClientStep, vars, senders, Expire, Answer, SendAnswer,
     DropAnswer, Enqueue, Take, HandlerGone, Write, WriteToNobody, WriteRefused, Notice,
     Read, ReadTooLong, ReadEnd, Leave, Die
<1> QED
  BY <1>2, <1>3, <1>4, <1>5, <1>6

\* One step of one emitter's part of the invariant, while the client reads on.
LEMMA OrderKept ==
  ASSUME TypeInv, AnswerWaits, OrderInv, [Next]_vars, Connected, Connected',
         handler # "returned", ~WriteRefused, NEW e \in Emitters
  PROVE  /\ InOrder(Stream', e) /\ Numbered(Stream', e, Sent(e)')
         /\ ~expired'[e] /\ handler' # "returned" => Covers(Stream', e, Sent(e)')
<1>1. /\ InOrder(Stream, e) /\ Numbered(Stream, e, Sent(e)) /\ Sent(e) \in Nat
      /\ ~expired[e] /\ handler # "returned" => Covers(Stream, e, Sent(e))
  BY SentTypes DEF OrderInv
<1>2. Stream \in Seq(Events)
  BY StreamTypes
<1>3. CASE SendEvent(e)
  <2>1. /\ Stream' = Append(Stream, Progress(e, Sent(e) + 1)) /\ Sent(e)' = Sent(e) + 1
        /\ UNCHANGED <<expired, handler>>
    <3>1. \A d \in Emitters : SendEvent(d) => d = e
      BY <1>3 DEF SendEvent, TypeInv, TypeOK
    <3>2. ~SendAnswer
      BY <1>3 DEF SendEvent, SendAnswer, TypeInv, TypeOK
    <3>3. UNCHANGED <<expired, handler>>
      BY <1>3 DEF SendEvent, Enqueue
    <3>4. Stream' = Append(Stream, Progress(e, emitted[e]))
      BY <1>3, <3>1, <3>2, StreamStep
    <3> QED
      BY <1>3, <3>3, <3>4, SentStep
  <2>2. Progress(e, Sent(e) + 1) \in Events
    <3>1. sending[e] /\ emitted[e] = Sent(e) + 1
      BY <1>3, SentStep DEF SendEvent
    <3> QED
      BY <3>1, SendsEvent
  <2> QED
    BY <1>1, <1>2, <2>1, <2>2, AppendOrder
<1>4. CASE ~SendEvent(e)
  <2>1. /\ Sent(e)' = Sent(e) \/ Sent(e)' = Sent(e) + 1
        /\ ~expired'[e] /\ handler' # "returned" =>
             Sent(e)' = Sent(e) /\ ~expired[e] /\ handler # "returned"
    BY <1>4, SentStep
  <2>2. \/ Stream' = Stream
        \/ \E m \in Events : ~OfEmitter(m, e) /\ Stream' = Append(Stream, m)
    <3>1. ASSUME NEW d \in Emitters, SendEvent(d), d # e
          PROVE  Progress(d, emitted[d]) \in Events /\ ~OfEmitter(Progress(d, emitted[d]), e)
      BY <3>1, SendsEvent DEF SendEvent, OfEmitter, Progress
    <3>2. SendAnswer => Final(answered) \in Events /\ ~OfEmitter(Final(answered), e)
      BY EventTypes DEF SendAnswer, TypeInv, SourceInv, Answers, OfEmitter, Final
    <3> QED
      BY <1>4, <3>1, <3>2, StreamStep
  <2>3. /\ InOrder(Stream', e) /\ Numbered(Stream', e, Sent(e))
        /\ Covers(Stream, e, Sent(e)) => Covers(Stream', e, Sent(e))
    BY <1>1, <1>2, <2>2, AppendOrder
  <2>4. Numbered(Stream', e, Sent(e)')
    BY <1>1, <2>1, <2>3 DEF Numbered
  <2> QED
    BY <1>1, <2>1, <2>3, <2>4
<1> QED
  BY <1>3, <1>4

LEMMA OrderStep ==
  TypeInv /\ TypeInv' /\ AnswerWaits /\ OrderInv /\ [Next]_vars => OrderInv'
<1> SUFFICES ASSUME TypeInv, TypeInv', AnswerWaits, OrderInv, [Next]_vars,
                    NEW e \in Emitters
             PROVE  OrderInv!(e)'
  BY DEF OrderInv
<1>1. Connected' => Connected
  BY DEF Connected, Next, AppStep, HandlerStep, ClientStep, vars, Emit, Expire, SendEvent,
     DropEvent, Answer, SendAnswer, DropAnswer, Enqueue, Take, HandlerGone, Write,
     WriteToNobody, WriteRefused, Notice, Read, ReadTooLong, ReadEnd, Leave, Die
<1>2. /\ got' \in Seq(Events) /\ wire' \in Seq(Events) /\ Held' \in Seq(Events)
      /\ messages' \in Seq(Events) /\ got' \o wire' \in Seq(Events)
      /\ (got' \o wire') \o Held' \in Seq(Events)
      /\ Stream' = ((got' \o wire') \o Held') \o messages'
  <2>1. got' \in Seq(Events) /\ wire' \in Seq(Events) /\ messages' \in Seq(Events)
    BY DEF TypeInv, TypeOK
  <2>2. Held' \in Seq(Events)
    <3>1. CASE handler' = "writing"
      <4>1. Held' = <<message'>> /\ message' \in Events
        BY <3>1 DEF Held, TypeInv, SourceInv
      <4> QED
        BY <4>1, HeldEvent
    <3>2. CASE handler' # "writing"
      BY <3>2, EmptySeq DEF Held
    <3> QED
      BY <3>1, <3>2
  <2>3. got' \o wire' \in Seq(Events) /\ (got' \o wire') \o Held' \in Seq(Events)
    BY <2>1, <2>2, ConcatProperties
  <2> QED
    BY <2>1, <2>2, <2>3 DEF Stream, Written, Held
<1>3. ASSUME Connected', handler # "returned", ~WriteRefused
      PROVE  /\ InOrder(Stream', e) /\ Numbered(Stream', e, Sent(e)')
             /\ ~expired'[e] /\ handler' # "returned" => Covers(Stream', e, Sent(e)')
             /\ InOrder(got' \o wire', e)
  <2>1. /\ InOrder(Stream', e) /\ Numbered(Stream', e, Sent(e)')
        /\ ~expired'[e] /\ handler' # "returned" => Covers(Stream', e, Sent(e)')
    BY <1>1, <1>3, OrderKept
  <2>2. InOrder((got' \o wire') \o Held', e)
    BY <1>2, <2>1, PrefixOrder
  <2>3. InOrder(got' \o wire', e)
    BY <1>2, <2>2, PrefixOrder
  <2> QED
    BY <2>1, <2>3
<1>4. ASSUME Connected', handler = "returned" \/ WriteRefused
      PROVE  handler' = "returned" /\ InOrder(got' \o wire', e)
  <2>1. InOrder(got \o wire, e)
    BY <1>1, <1>4 DEF OrderInv
  <2>2. got' \o wire' = got \o wire
    <3>1. CASE Read
      <4>1. /\ wire # <<>> /\ wire' = Tail(wire) /\ got' = Append(got, Head(wire))
            /\ got \in Seq(Events) /\ wire \in Seq(Events)
        BY <3>1, StreamTypes DEF Read
      <4> QED
        BY <4>1, HeadJoinsTail
    <3>2. CASE ~Read
      <4>1. UNCHANGED <<got, wire>>
        BY <1>4, <3>2 DEF Next, AppStep, HandlerStep, ClientStep, vars, Emit, Expire, SendEvent,
           DropEvent, Answer, SendAnswer, DropAnswer, Enqueue, Take, HandlerGone, Write,
           WriteToNobody, WriteRefused, Notice, ReadTooLong, ReadEnd, Leave, Die
      <4> QED
        BY <4>1
    <3> QED
      BY <3>1, <3>2
  <2>3. handler' = "returned"
    BY <1>4, SentStep DEF WriteRefused
  <2> QED
    BY <2>1, <2>2, <2>3
<1>5. InOrder(got', e)
  <2>1. InOrder(got, e)
    BY DEF OrderInv
  <2>2. CASE got' = got
    BY <2>1, <2>2
  <2>3. CASE Read /\ got' # got /\ Connected'
    <3>1. InOrder(got' \o wire', e)
      BY <1>3, <1>4, <2>3
    <3> QED
      BY <1>2, <3>1, PrefixOrder
  <2>4. CASE Read /\ got' # got /\ ~Connected'
    <3>1. /\ wire # <<>> /\ got' = Append(got, Head(wire)) /\ IsFinal(Head(wire))
      BY <2>4 DEF Read, Connected
    <3>2. Head(wire) \in Events /\ got \in Seq(Events)
      BY <3>1, StreamTypes, HeadTailProperties
    <3>3. ~OfEmitter(Head(wire), e)
      BY <3>1 DEF IsFinal, Answers, OfEmitter
    <3>4. /\ Len(got) \in Nat /\ DOMAIN got = 1..Len(got)
          /\ DOMAIN got' = 1..(Len(got) + 1) /\ got'[Len(got) + 1] = Head(wire)
          /\ \A k \in 1..Len(got) : got'[k] = got[k]
      BY <3>1, <3>2, AppendProperties, LenProperties
    <3>5. \A k \in DOMAIN got' : OfEmitter(got'[k], e) => k \in DOMAIN got /\ got'[k] = got[k]
      BY <3>3, <3>4
    <3> QED
      BY <2>1, <3>5 DEF InOrder
  <2>5. got' = got \/ Read
    BY DEF Next, AppStep, HandlerStep, ClientStep, vars, Emit, Expire, SendEvent,
       DropEvent, Answer, SendAnswer, DropAnswer, Enqueue, Take, HandlerGone, Write,
       WriteToNobody, WriteRefused, Notice, ReadTooLong, ReadEnd, Leave, Die
  <2> QED
    BY <2>2, <2>3, <2>4, <2>5
<1> QED
  BY <1>3, <1>4, <1>5

\* However the emitters, the handler and the client interleave: nothing an
\* emitter has sent is lost, repeated or overtaken while the client reads and no
\* deadline has passed, and what was read is in order whatever is dropped.
THEOREM NothingLost == Spec => []NothingLostWhileConnected
<1>1. TypeInv /\ OrderInv => NothingLostWhileConnected
  BY DEF OrderInv, NothingLostWhileConnected, Covers, Numbered
<1> QED
  BY <1>1, TypeInit, TypeStep, AnswerWaitsInit, AnswerWaitsStep, OrderInit, OrderStep,
     PTL DEF Spec

----------------------------------------------------------------------------
(* The daemons of one home *)

Home == INSTANCE Daemon

\* The endpoint file leads to a daemon that has written it and not removed it.
EndpointInv ==
  \A d \in Daemons :
    endpoint = d => proc[d] \in Home!Listening \cup {"closing", "killed"}

\* What a start knows of its child at each of its steps.
StartInv ==
  \A s \in Starters :
    /\ pc[s] \in {"idle", "spawn"} => child[s] = NoDaemon
    /\ pc[s] = "tick" => child[s] # NoDaemon
    /\ reply[s] = "error" => pc[s] = "returned"
    /\ child[s] # NoDaemon => proc[child[s]] # "absent"

IInv == Home!TypeOK /\ EndpointInv /\ StartInv /\ Home!NoLeakedChild

LEMMA InitInv == Home!Init => IInv
BY DaemonAssumption DEF Home!Init, IInv, Home!TypeOK, EndpointInv, StartInv,
       Home!NoLeakedChild, Home!Clients, Home!Calling

----------------------------------------------------------------------------
(* The daemons' steps *)

\* Nobody but a start notices a daemon move on, and a start only that it is gone.
LEMMA ProcessMoves ==
  ASSUME IInv, NEW d \in Daemons, NEW from, NEW to, Home!Process(d, from, to),
         from \notin Home!Gone, to # "absent",
         to \in {"published", "serving", "closing", "returning", "exited", "killed"},
         UNCHANGED <<stopping, overdue, Home!clientVars, deaths>>,
         endpoint' \in Daemons \cup {NoDaemon}
  PROVE  Home!TypeOK' /\ StartInv' /\ Home!NoLeakedChild'
<1>1. proc' = [proc EXCEPT ![d] = to] /\ proc[d] = from
  BY DEF Home!Process
<1>2. Home!TypeOK'
  BY <1>1 DEF IInv, Home!TypeOK, Home!clientVars, Home!Listening, Home!Gone
<1>3. \A e \in Daemons : proc'[e] = IF e = d THEN to ELSE proc[e]
  BY <1>1 DEF IInv, Home!TypeOK
<1>4. \A s \in Starters : child[s] # NoDaemon => child[s] \in Daemons
  BY DEF IInv, Home!TypeOK
<1>5. StartInv'
  BY <1>3, <1>4 DEF IInv, StartInv, Home!clientVars
<1>6. Home!NoLeakedChild'
  BY <1>1, <1>3, <1>4 DEF IInv, StartInv, Home!NoLeakedChild, Home!Alive, Home!Gone, Home!clientVars
<1> QED
  BY <1>2, <1>5, <1>6

LEMMA EndpointTyped == IInv => endpoint \in Daemons \cup {NoDaemon}
BY DEF IInv, Home!TypeOK

LEMMA DaemonInv == ASSUME IInv, NEW d \in Daemons, Home!DaemonStep(d) PROVE IInv'
<1>1. CASE Home!Publish(d)
  <2>1. Home!TypeOK' /\ StartInv' /\ Home!NoLeakedChild'
    BY <1>1, EndpointTyped, ProcessMoves DEF Home!Publish, Home!Gone
  <2>2. EndpointInv'
    BY <1>1, DaemonAssumption DEF Home!Publish, Home!Process, IInv,
           Home!TypeOK, EndpointInv, Home!Listening
  <2> QED
    BY <2>1, <2>2 DEF IInv
<1>2. CASE Home!SetupFails(d)
  <2>1. Home!TypeOK' /\ StartInv' /\ Home!NoLeakedChild'
    BY <1>2, EndpointTyped, ProcessMoves DEF Home!SetupFails, Home!Gone
  <2>2. EndpointInv'
    BY <1>2 DEF Home!SetupFails, Home!Process, IInv, Home!TypeOK, EndpointInv, Home!Listening
  <2> QED
    BY <2>1, <2>2 DEF IInv
<1>3. CASE Home!Serve(d)
  <2>1. Home!TypeOK' /\ StartInv' /\ Home!NoLeakedChild'
    BY <1>3, EndpointTyped, ProcessMoves DEF Home!Serve, Home!Gone
  <2>2. EndpointInv'
    BY <1>3 DEF Home!Serve, Home!Process, IInv, Home!TypeOK, EndpointInv, Home!Listening
  <2> QED
    BY <2>1, <2>2 DEF IInv
<1>4. CASE Home!BeginShutdown(d)
  <2>1. Home!TypeOK' /\ StartInv' /\ Home!NoLeakedChild'
    BY <1>4, EndpointTyped, ProcessMoves DEF Home!BeginShutdown, Home!Gone
  <2>2. EndpointInv'
    BY <1>4 DEF Home!BeginShutdown, Home!Process, IInv, Home!TypeOK, EndpointInv, Home!Listening
  <2> QED
    BY <2>1, <2>2 DEF IInv
<1>5. CASE Home!RemoveEndpoint(d)
  <2>1. Home!TypeOK' /\ StartInv' /\ Home!NoLeakedChild'
    BY <1>5, EndpointTyped, ProcessMoves DEF Home!RemoveEndpoint, Home!Gone
  <2>2. EndpointInv'
    BY <1>5, DaemonAssumption DEF Home!RemoveEndpoint, Home!Process, IInv,
           Home!TypeOK, EndpointInv, Home!Listening
  <2> QED
    BY <2>1, <2>2 DEF IInv
<1>6. CASE Home!Exit(d)
  <2>1. Home!TypeOK' /\ StartInv' /\ Home!NoLeakedChild'
    BY <1>6, EndpointTyped, ProcessMoves DEF Home!Exit, Home!Gone
  <2>2. EndpointInv'
    BY <1>6 DEF Home!Exit, Home!Process, IInv, Home!TypeOK, EndpointInv, Home!Listening
  <2> QED
    BY <2>1, <2>2 DEF IInv
<1> QED
  BY <1>1, <1>2, <1>3, <1>4, <1>5, <1>6 DEF Home!DaemonStep

LEMMA DieInv == ASSUME IInv, NEW d \in Daemons, Home!Die(d) PROVE IInv'
<1>1. \A e \in Daemons : proc'[e] = IF e = d THEN "killed" ELSE proc[e]
  BY DEF IInv, Home!TypeOK, Home!Die
<1>2. \A s \in Starters : child[s] # NoDaemon => child[s] \in Daemons
  BY DEF IInv, Home!TypeOK
<1>3. Home!TypeOK'
  BY DaemonAssumption DEF IInv, Home!TypeOK, Home!Die, Home!Gone, Home!clientVars
<1>4. EndpointInv'
  BY <1>1 DEF IInv, EndpointInv, Home!Die
<1>5. StartInv' /\ Home!NoLeakedChild'
  BY <1>1, <1>2 DEF IInv, StartInv, Home!NoLeakedChild, Home!Alive, Home!Gone, Home!Die,
         Home!clientVars
<1> QED
  BY <1>3, <1>4, <1>5 DEF IInv

----------------------------------------------------------------------------
(* The clients' steps *)

\* A call, wherever it is, concerns neither the processes nor the children; a
\* start goes to its next step with or without a child, as that step wants it.
LEMMA CallMoves ==
  ASSUME IInv, NEW c \in Home!Clients, NEW p, NEW b, NEW r,
         pc' = [pc EXCEPT ![c] = p],
         base' = [base EXCEPT ![c] = b],
         reply' = [reply EXCEPT ![c] = r],
         p \in {"resolve", "spawn", "tick", "returned"} \cup Home!Calling,
         b \in Daemons \cup {NoDaemon}, p \in Home!Calling => b \in Daemons,
         r \in {"none", "ok", "unavailable", "cut", "error", "unreleased"},
         c \in Starters => r # "error",
         c \in Starters /\ p = "spawn" => child[c] = NoDaemon,
         c \in Starters /\ p = "tick" => child[c] # NoDaemon,
         stopping' \in [Daemons -> BOOLEAN],
         UNCHANGED <<endpoint, proc, overdue, child, deaths>>
  PROVE  IInv'
<1>1. /\ \A x \in Home!Clients : pc'[x] = IF x = c THEN p ELSE pc[x]
      /\ \A x \in Home!Clients : base'[x] = IF x = c THEN b ELSE base[x]
      /\ \A x \in Home!Clients : reply'[x] = IF x = c THEN r ELSE reply[x]
  BY DEF IInv, Home!TypeOK
<1>2. Home!TypeOK'
  BY <1>1 DEF IInv, Home!TypeOK, Home!Calling
<1>3. EndpointInv'
  BY DEF IInv, EndpointInv
<1>4. StartInv'
  BY <1>1 DEF IInv, StartInv, Home!Clients, Home!Calling
<1>5. Home!NoLeakedChild'
  BY <1>1 DEF IInv, Home!NoLeakedChild, Home!Clients, Home!Alive
<1> QED
  BY <1>2, <1>3, <1>4, <1>5 DEF IInv

\* What a client that has not returned brings along.
LEMMA CallFacts ==
  ASSUME IInv, NEW c \in Home!Clients, pc[c] # "returned"
  PROVE  /\ base[c] \in Daemons \cup {NoDaemon}
         /\ base = [base EXCEPT ![c] = base[c]]
         /\ reply = [reply EXCEPT ![c] = reply[c]]
         /\ reply[c] \in {"none", "ok", "unavailable", "cut", "error", "unreleased"}
         /\ c \in Starters => reply[c] # "error"
BY DEF IInv, Home!TypeOK, StartInv

LEMMA FailedInv ==
  ASSUME IInv, NEW c \in Home!Clients, pc[c] \in {"resolve"} \cup Home!Calling,
         NEW how \in {"unavailable", "cut"}, Home!Failed(c, how),
         UNCHANGED <<endpoint, Home!daemonVars, base, child, deaths>>
  PROVE  IInv'
<1>1. pc[c] # "returned"
  BY DEF Home!Calling
<1>2. stopping' \in [Daemons -> BOOLEAN]
  BY DEF IInv, Home!TypeOK, Home!daemonVars
<1>3. CASE c \in Starters
  <2> DEFINE p == IF Home!Spawned(c) THEN "tick" ELSE "spawn"
  <2>1. pc' = [pc EXCEPT ![c] = p] /\ UNCHANGED reply
    BY <1>3 DEF Home!Failed
  <2>2. p = "spawn" => child[c] = NoDaemon
    BY <1>3 DEF Home!Spawned
  <2>3. p = "tick" => child[c] # NoDaemon
    BY <1>3 DEF Home!Spawned
  <2>4. p \in {"tick", "spawn"} /\ p \notin Home!Calling
    BY DEF Home!Calling
  <2> HIDE DEF p
  <2> QED
    BY <1>1, <1>2, <2>1, <2>2, <2>3, <2>4, CallFacts, CallMoves DEF Home!daemonVars
<1>4. CASE c \notin Starters
  <2>1. pc' = [pc EXCEPT ![c] = "returned"] /\ reply' = [reply EXCEPT ![c] = how]
    BY <1>4 DEF Home!Failed
  <2> QED
    BY <1>1, <1>2, <1>4, <2>1, CallFacts, CallMoves DEF Home!daemonVars, Home!Calling
<1> QED
  BY <1>3, <1>4

LEMMA CallInv == ASSUME IInv, NEW c \in Home!Clients, Home!CallStep(c) PROVE IInv'
<1> USE DEF Home!daemonVars, Home!Calling
<1>1. stopping \in [Daemons -> BOOLEAN]
  BY DEF IInv, Home!TypeOK
<1>2. CASE Home!Resolve(c)
  <2>1. endpoint \in Daemons
    BY <1>2 DEF Home!Resolve, IInv, Home!TypeOK
  <2>2. /\ pc[c] = "resolve" /\ pc' = [pc EXCEPT ![c] = "call"]
        /\ base' = [base EXCEPT ![c] = endpoint]
        /\ UNCHANGED <<endpoint, proc, overdue, stopping, reply, child, deaths>>
    BY <1>2 DEF Home!Resolve, Home!Step
  <2>3. /\ reply' = [reply EXCEPT ![c] = reply[c]]
        /\ reply[c] \in {"none", "ok", "unavailable", "cut", "error", "unreleased"}
        /\ c \in Starters => reply[c] # "error"
    BY <2>2, CallFacts
  <2> QED
    BY <1>1, <2>1, <2>2, <2>3, CallMoves
<1>3. CASE Home!NotRunning(c)
  BY <1>3, FailedInv DEF Home!NotRunning
<1>4. CASE Home!Connect(c)
  <2>1. base[c] \in Daemons
    BY <1>4 DEF Home!Connect, Home!Step, IInv, Home!TypeOK
  <2>2. /\ pc[c] = "call" /\ pc' = [pc EXCEPT ![c] = "queued"]
        /\ UNCHANGED <<endpoint, proc, overdue, stopping, base, reply, child, deaths>>
    BY <1>4 DEF Home!Connect, Home!Step
  <2>3. /\ base' = [base EXCEPT ![c] = base[c]] /\ reply' = [reply EXCEPT ![c] = reply[c]]
        /\ reply[c] \in {"none", "ok", "unavailable", "cut", "error", "unreleased"}
        /\ c \in Starters => reply[c] # "error"
    BY <2>2, CallFacts
  <2> QED
    BY <1>1, <2>1, <2>2, <2>3, CallMoves
<1>5. CASE Home!Refused(c)
  BY <1>5, FailedInv DEF Home!Refused
<1>6. CASE Home!Accept(c)
  <2>1. base[c] \in Daemons
    BY <1>6 DEF Home!Accept, Home!Step, IInv, Home!TypeOK
  <2>2. /\ pc[c] = "queued" /\ pc' = [pc EXCEPT ![c] = "running"]
        /\ UNCHANGED <<endpoint, proc, overdue, stopping, base, reply, child, deaths>>
    BY <1>6 DEF Home!Accept, Home!Step
  <2>3. /\ base' = [base EXCEPT ![c] = base[c]] /\ reply' = [reply EXCEPT ![c] = reply[c]]
        /\ reply[c] \in {"none", "ok", "unavailable", "cut", "error", "unreleased"}
        /\ c \in Starters => reply[c] # "error"
    BY <2>2, CallFacts
  <2> QED
    BY <1>1, <2>1, <2>2, <2>3, CallMoves
<1>7. CASE Home!HandleStop(c)
  <2>1. base[c] \in Daemons
    BY <1>7 DEF Home!HandleStop, Home!Step, IInv, Home!TypeOK
  <2>2. stopping' \in [Daemons -> BOOLEAN]
    BY <1>1, <1>7, <2>1 DEF Home!HandleStop
  <2>3. /\ pc[c] = "running" /\ pc' = [pc EXCEPT ![c] = "flushing"]
        /\ UNCHANGED <<endpoint, proc, overdue, base, reply, child, deaths>>
    BY <1>7 DEF Home!HandleStop, Home!Step
  <2>4. /\ base' = [base EXCEPT ![c] = base[c]] /\ reply' = [reply EXCEPT ![c] = reply[c]]
        /\ reply[c] \in {"none", "ok", "unavailable", "cut", "error", "unreleased"}
        /\ c \in Starters => reply[c] # "error"
    BY <2>3, CallFacts
  <2> QED
    BY <2>1, <2>2, <2>3, <2>4, CallMoves
<1>8. CASE Home!Reply(c)
  <2>1. pc[c] # "returned"
    BY <1>8 DEF Home!Reply
  <2> QED
    BY <1>1, <1>8, <2>1, CallFacts, CallMoves DEF Home!Reply
<1>9. CASE Home!Cut(c)
  <2>1. PICK how \in {"unavailable", "cut"} : Home!Failed(c, how)
    BY <1>9 DEF Home!Cut
  <2> QED
    BY <1>9, <2>1, FailedInv DEF Home!Cut
<1> QED
  BY <1>2, <1>3, <1>4, <1>5, <1>6, <1>7, <1>8, <1>9 DEF Home!CallStep

LEMMA BeginInv == ASSUME IInv, NEW c \in Home!Clients, Home!Begin(c) PROVE IInv'
<1>1. stopping' \in [Daemons -> BOOLEAN]
  BY DEF Home!Begin, IInv, Home!TypeOK, Home!daemonVars
<1> QED
  BY <1>1, CallFacts, CallMoves DEF Home!Begin, Home!Step, Home!Calling, Home!daemonVars

----------------------------------------------------------------------------
(* The starts' own steps *)

LEMMA SpawnInv == ASSUME IInv, NEW s \in Starters, Home!Spawn(s) PROVE IInv'
<1>1. PICK d \in Daemons : Home!Process(d, "absent", "setup") /\ child' = [child EXCEPT ![s] = d]
  BY DEF Home!Spawn
<1>2. /\ \A e \in Daemons : proc'[e] = IF e = d THEN "setup" ELSE proc[e]
      /\ \A x \in Starters : child'[x] = IF x = s THEN d ELSE child[x]
      /\ \A c \in Home!Clients : pc'[c] = IF c = s THEN "resolve" ELSE pc[c]
      /\ pc[s] = "spawn" /\ proc[d] = "absent"
  BY <1>1 DEF IInv, Home!TypeOK, Home!Spawn, Home!Step, Home!Process
<1>3. \A x \in Starters : child[x] # NoDaemon => child[x] \in Daemons
  BY DEF IInv, Home!TypeOK
<1>4. Home!TypeOK'
  <2>1. child' \in [Starters -> Daemons \cup {NoDaemon}]
    BY <1>1 DEF IInv, Home!TypeOK
  <2>2. proc' \in [Daemons -> {"absent", "setup", "closing", "returning"} \cup Home!Listening \cup Home!Gone]
    BY <1>1 DEF IInv, Home!TypeOK, Home!Process
  <2>3. pc' \in [Home!Clients -> {"idle", "resolve", "spawn", "tick", "returned"} \cup Home!Calling]
    BY DEF IInv, Home!TypeOK, Home!Spawn, Home!Step
  <2>4. \A c \in Home!Clients : pc'[c] \in Home!Calling => base'[c] \in Daemons
    BY <1>2 DEF IInv, Home!TypeOK, Home!Spawn, Home!Calling
  <2> QED
    BY <2>1, <2>2, <2>3, <2>4 DEF IInv, Home!TypeOK, Home!Spawn
<1>5. EndpointInv'
  BY <1>2 DEF IInv, EndpointInv, Home!Spawn, Home!Listening
<1>6. StartInv'
  BY <1>2, <1>3, DaemonAssumption DEF IInv, StartInv, Home!Spawn, Home!Clients
<1>7. Home!NoLeakedChild'
  BY <1>2, <1>3 DEF IInv, StartInv, Home!NoLeakedChild, Home!Alive, Home!Gone, Home!Spawn
<1> QED
  BY <1>4, <1>5, <1>6, <1>7 DEF IInv

LEMMA SpawnFailsInv == ASSUME IInv, NEW s \in Starters, Home!SpawnFails(s) PROVE IInv'
<1>1. /\ \A c \in Home!Clients : pc'[c] = IF c = s THEN "returned" ELSE pc[c]
      /\ \A c \in Home!Clients : reply'[c] = IF c = s THEN "error" ELSE reply[c]
      /\ child[s] = NoDaemon
  BY DEF IInv, Home!TypeOK, StartInv, Home!SpawnFails, Home!Step
<1>2. Home!TypeOK'
  BY <1>1 DEF IInv, Home!TypeOK, Home!SpawnFails, Home!Step, Home!Calling, Home!daemonVars
<1>3. EndpointInv'
  BY DEF IInv, EndpointInv, Home!SpawnFails, Home!daemonVars
<1>4. StartInv'
  BY <1>1 DEF IInv, StartInv, Home!SpawnFails, Home!Clients, Home!daemonVars
<1>5. Home!NoLeakedChild'
  BY <1>1 DEF IInv, Home!NoLeakedChild, Home!Alive, Home!SpawnFails, Home!Clients, Home!daemonVars
<1> QED
  BY <1>2, <1>3, <1>4, <1>5 DEF IInv

LEMMA TickInv == ASSUME IInv, NEW s \in Starters, Home!Tick(s) PROVE IInv'
<1>1. stopping' \in [Daemons -> BOOLEAN] /\ s \in Home!Clients
  BY DEF Home!Tick, IInv, Home!TypeOK, Home!daemonVars, Home!Clients
<1> QED
  BY <1>1, CallFacts, CallMoves DEF Home!Tick, Home!Step, Home!Calling, Home!daemonVars

LEMMA ReleaseFailsInv == ASSUME IInv, NEW s \in Starters, Home!ReleaseFails(s) PROVE IInv'
<1>1. stopping' \in [Daemons -> BOOLEAN] /\ s \in Home!Clients
  BY DEF Home!ReleaseFails, IInv, Home!TypeOK, Home!daemonVars, Home!Clients
<1>2. pc[s] # "returned"
  BY DEF Home!ReleaseFails, Home!Step
<1> QED
  BY <1>1, <1>2, CallFacts, CallMoves DEF Home!ReleaseFails, Home!Step, Home!Calling, Home!daemonVars

LEMMA StartTimeoutInv == ASSUME IInv, NEW s \in Starters, Home!StartTimeout(s) PROVE IInv'
<1>1. child[s] \in Daemons
  BY DEF IInv, Home!TypeOK, Home!StartTimeout, Home!Waiting, Home!Spawned
<1>2. /\ \A e \in Daemons : proc'[e] = IF e = child[s] /\ Home!Alive(e) THEN "killed" ELSE proc[e]
      /\ \A c \in Home!Clients : pc'[c] = IF c = s THEN "returned" ELSE pc[c]
      /\ \A c \in Home!Clients : reply'[c] = IF c = s THEN "error" ELSE reply[c]
  BY <1>1 DEF IInv, Home!TypeOK, Home!StartTimeout
<1>3. \A x \in Starters : child[x] # NoDaemon => child[x] \in Daemons
  BY DEF IInv, Home!TypeOK
<1>4. Home!TypeOK'
  <2>1. reply' \in [Home!Clients -> {"none", "ok", "unavailable", "cut", "error", "unreleased"}]
    BY DEF IInv, Home!TypeOK, Home!StartTimeout
  <2>2. proc' \in [Daemons -> {"absent", "setup", "closing", "returning"} \cup Home!Listening \cup Home!Gone]
    BY <1>1 DEF IInv, Home!TypeOK, Home!StartTimeout, Home!Gone
  <2>3. pc' \in [Home!Clients -> {"idle", "resolve", "spawn", "tick", "returned"} \cup Home!Calling]
    BY DEF IInv, Home!TypeOK, Home!StartTimeout
  <2>4. \A c \in Home!Clients : pc'[c] \in Home!Calling => base'[c] \in Daemons
    BY <1>2 DEF IInv, Home!TypeOK, Home!StartTimeout, Home!Calling
  <2> QED
    BY <2>1, <2>2, <2>3, <2>4 DEF IInv, Home!TypeOK, Home!StartTimeout
<1>5. EndpointInv'
  BY <1>2 DEF IInv, EndpointInv, Home!StartTimeout
<1>6. StartInv'
  BY <1>2, <1>3 DEF IInv, StartInv, Home!StartTimeout, Home!Waiting, Home!Spawned, Home!Clients
<1>7. Home!NoLeakedChild'
  BY <1>1, <1>2, <1>3 DEF IInv, StartInv, Home!NoLeakedChild, Home!Alive, Home!Gone,
         Home!StartTimeout, Home!Clients
<1> QED
  BY <1>4, <1>5, <1>6, <1>7 DEF IInv

----------------------------------------------------------------------------
(* The theorems *)

LEMMA StepInv == IInv /\ [Home!Next]_Home!vars => IInv'
<1> SUFFICES ASSUME IInv, [Home!Next]_Home!vars PROVE IInv'
  OBVIOUS
<1>1. ASSUME NEW d \in Daemons, Home!ShutdownTimeout(d) PROVE IInv'
  BY <1>1 DEF Home!ShutdownTimeout, IInv, Home!TypeOK, EndpointInv, StartInv, Home!NoLeakedChild,
              Home!Alive, Home!clientVars
<1>2. CASE UNCHANGED Home!vars
  BY <1>2 DEF Home!vars, Home!homeVars, Home!daemonVars, Home!clientVars, IInv, Home!TypeOK, EndpointInv, StartInv,
              Home!NoLeakedChild, Home!Alive
<1>3. ASSUME NEW s \in Starters, Home!StartStep(s) \/ Home!StartTimeout(s) PROVE IInv'
  BY <1>3, SpawnInv, SpawnFailsInv, TickInv, ReleaseFailsInv, StartTimeoutInv DEF Home!StartStep
<1> QED
  BY <1>1, <1>2, <1>3, DaemonInv, DieInv, BeginInv, CallInv DEF Home!Next

LEMMA Inductive == Home!Spec => []IInv
BY InitInv, StepInv, PTL DEF Home!Spec

\* The endpoint file, the processes and the clients keep their types.
THEOREM HomeTypeCorrect == Home!Spec => []Home!TypeOK
<1>1. IInv => Home!TypeOK
  BY DEF IInv
<1> QED
  BY <1>1, Inductive, PTL

\* The promises of the home, in its own words.
LEMMA SamePromises ==
  /\ Home!CleanExit <=> CleanExit
  /\ Home!NoLeakedChild <=> NoLeakedChild
BY DEF Home!CleanExit, CleanExit, Home!NoLeakedChild, NoLeakedChild, Home!Alive, Alive, Home!Gone, Gone

\* A daemon that has returned is not in the endpoint file (Serve).
THEOREM ExitsClean == Home!Spec => []CleanExit
<1>1. IInv => CleanExit
  BY SamePromises DEF IInv, EndpointInv, Home!CleanExit, Home!Listening
<1> QED
  BY <1>1, Inductive, PTL

\* A start that failed has left no process of its own (Start).
THEOREM NoChildLeaked == Home!Spec => []NoLeakedChild
<1>1. IInv => NoLeakedChild
  BY SamePromises DEF IInv
<1> QED
  BY <1>1, Inductive, PTL

\* Only another daemon takes the record of one that serves (Write, Remove).
THEOREM RecordsLostToOthers == Home!Spec => RecordLostOnlyToAnother
<1> DEFINE Lost ==
      \A d \in Daemons :
        proc[d] \in Listening /\ endpoint = d /\ endpoint' # d =>
          \E e \in Daemons \ {d} :
            proc'[e] # proc[e] /\ proc'[e] \in {"published", "returning"}
<1>1. IInv /\ [Home!Next]_Home!vars => [Lost]_homeVars
  <2> SUFFICES ASSUME IInv, Home!Next, NEW d \in Daemons,
                      proc[d] \in Listening, endpoint = d, endpoint' # d
               PROVE  \E e \in Daemons \ {d} :
                        proc'[e] # proc[e] /\ proc'[e] \in {"published", "returning"}
    BY DEF Home!vars, Home!homeVars, homeVars, Home!daemonVars, daemonVars, Home!clientVars,
           clientVars
  <2>1. PICK e \in Daemons : Home!Publish(e) \/ Home!RemoveEndpoint(e)
    BY DEF Home!Next, Home!DaemonStep, Home!CallStep, Home!StartStep, Home!SetupFails,
           Home!Serve, Home!BeginShutdown, Home!Exit,
           Home!ShutdownTimeout, Home!Die, Home!Begin, Home!Resolve, Home!NotRunning, Home!Connect, Home!Refused, Home!Accept,
           Home!HandleStop, Home!Reply, Home!Cut, Home!Spawn, Home!SpawnFails, Home!Tick, Home!ReleaseFails, Home!StartTimeout
  <2>2. proc'[e] # proc[e] /\ proc'[e] \in {"published", "returning"}
    BY <2>1 DEF IInv, Home!TypeOK, Home!Publish, Home!RemoveEndpoint, Home!Process
  <2>3. e # d
    BY <2>1 DEF Home!Publish, Home!RemoveEndpoint, Home!Process, Listening
  <2> QED
    BY <2>2, <2>3
<1> QED
  BY <1>1, Inductive, PTL DEF Home!Spec, RecordLostOnlyToAnother
=============================================================================
