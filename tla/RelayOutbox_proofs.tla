------------------------- MODULE RelayOutbox_proofs -------------------------
(***************************************************************************)
(* Proofs about Relay with one line in its configuration: it implements    *)
(* Outbox, so that the endpoint gets messages in the order of acceptance;  *)
(* and, while it has been started once, a message is pending exactly while *)
(* libcoap waits for an answer to it.                                      *)
(***************************************************************************)
EXTENDS Relay_proofs

-----------------------------------------------------------------------------
(* Sequences.                                                              *)

LEMMA FirstOfConcat ==
  ASSUME NEW S, NEW m \in S, NEW t \in Seq(S)
  PROVE  /\ <<m>> \o t \in Seq(S) /\ <<m>> \o t # <<>>
         /\ Head(<<m>> \o t) = m /\ Tail(<<m>> \o t) = t
<1> DEFINE s == <<m>> \o t
<1>1. <<m>> \in Seq(S) /\ Len(<<m>>) = 1
  OBVIOUS
<1>2. /\ s \in Seq(S) /\ Len(s) = 1 + Len(t) /\ Len(t) \in Nat
      /\ \A i \in 1..1 + Len(t) : s[i] = IF i <= 1 THEN <<m>>[i] ELSE t[i - 1]
  BY <1>1, ConcatProperties
<1> HIDE DEF s
<1>3. s # <<>> /\ Head(s) = m
  BY <1>2
<1>4. Tail(s) = t
  <2>1. Tail(s) \in Seq(S) /\ Len(Tail(s)) = Len(t)
    BY <1>2, <1>3
  <2>2. \A i \in 1..Len(t) : Tail(s)[i] = t[i]
    BY <1>2, <1>3
  <2> QED BY <2>1, <2>2, SeqEqual
<1> QED BY <1>2, <1>3, <1>4 DEF s

LEMMA HeadAndTail ==
  ASSUME NEW S, NEW s \in Seq(S), s # <<>>
  PROVE  Head(s) \in S /\ Tail(s) \in Seq(S) /\ <<Head(s)>> \o Tail(s) = s
<1>1. /\ Head(s) \in S /\ Tail(s) \in Seq(S) /\ Len(Tail(s)) = Len(s) - 1
      /\ Head(s) = s[1] /\ Len(s) \in Nat \ {0}
      /\ \A i \in 1..Len(s) - 1 : Tail(s)[i] = s[i + 1]
  OBVIOUS
<1>2. /\ <<Head(s)>> \in Seq(S) /\ Len(<<Head(s)>>) = 1 /\ <<Head(s)>>[1] = Head(s)
  BY <1>1
<1> DEFINE h == <<Head(s)>>  t == Tail(s)  c == h \o t
<1>3. /\ c \in Seq(S) /\ Len(c) = Len(h) + Len(t)
      /\ \A i \in 1..Len(h) + Len(t) : c[i] = IF i <= Len(h) THEN h[i] ELSE t[i - Len(h)]
  BY <1>1, <1>2, ConcatProperties
<1> HIDE DEF h, t, c
<1>4. \A i \in 1..Len(c) : c[i] = s[i]
  BY <1>1, <1>2, <1>3 DEF h, t
<1>5. Len(c) = Len(s)
  BY <1>1, <1>2, <1>3 DEF h, t
<1>6. c = s
  BY <1>3, <1>4, <1>5, SeqEqual
<1> QED BY <1>1, <1>6 DEF c, h, t

\* What two sequences that are put together consist of.
LEMMA SplitConcat ==
  ASSUME NEW S, NEW s \in Seq(S), NEW t \in Seq(S)
  PROVE  /\ SubSeq(s \o t, 1, Len(s)) = s
         /\ SubSeq(s \o t, Len(s) + 1, Len(s \o t)) = t
<1> DEFINE c == s \o t  a == SubSeq(c, 1, Len(s))  b == SubSeq(c, Len(s) + 1, Len(c))
<1>1. /\ c \in Seq(S) /\ Len(c) = Len(s) + Len(t) /\ Len(s) \in Nat /\ Len(t) \in Nat
      /\ \A i \in 1..Len(s) + Len(t) : c[i] = IF i <= Len(s) THEN s[i] ELSE t[i - Len(s)]
  BY ConcatProperties
<1> HIDE DEF c
<1>2. a = s
  <2>1. a \in Seq(S) /\ Len(a) = Len(s) /\ \A i \in 1..Len(s) : a[i] = c[i]
    BY <1>1
  <2>2. \A i \in 1..Len(s) : c[i] = s[i]
    BY <1>1
  <2> QED BY <2>1, <2>2, SeqEqual
<1>3. b = t
  <2>1. b \in Seq(S) /\ Len(b) = Len(t) /\ \A i \in 1..Len(t) : b[i] = c[Len(s) + i]
    BY <1>1
  <2>2. \A i \in 1..Len(t) : c[Len(s) + i] = t[i]
    BY <1>1
  <2> QED BY <2>1, <2>2, SeqEqual
<1> QED BY <1>2, <1>3 DEF c
-----------------------------------------------------------------------------
(* The invariant of the only line.                                         *)

\* Nothing is read from freed memory.
NoJunk ==
  /\ transmit_queue[1] \in Seq(Msg) /\ retransmit_queue[1] \in Seq(Msg)
  /\ pending_message[1] \in Msg \cup {NULL}

\* While there is no Session it has nothing to send.
NothingWithoutSession ==
  /\ thread = "stopped" => sessions = {}
  /\ 1 \notin sessions =>
       transmit_queue[1] = <<>> /\ retransmit_queue[1] = <<>> /\ pending_message[1] = NULL

\* One PDU at most waits for an answer, besides pings; it has the pending message,
\* and goes to the endpoint.
WaitsForPending ==
  \A a \in Addr, p \in Item : pdus[a][p] > 0 =>
    /\ p = pending_message[1] /\ pdus[a][p] = 1 /\ peer[a] = 1
    /\ \A b \in Addr : pdus[b][p] > 0 => b = a

SessionHasPeer == session[1] # NULL => peer[session[1]] = 1

LineInv == NoJunk /\ NothingWithoutSession /\ WaitsForPending /\ SessionHasPeer

FullInv == TypeInv /\ StopAndWait /\ LineInv

Unsent == Backlog(1) \o msg_queue

LEMMA LinesIsOne == NLines = 1 => Lines = {1}
BY DEF Lines

LEMMA BacklogType ==
  ASSUME TypeOK, NoJunk
  PROVE  /\ Pending(1) \in Seq(Msg) /\ Backlog(1) \in Seq(Msg) /\ msg_queue \in Seq(Msg)
         /\ Unsent \in Seq(Msg)
<1>1. Pending(1) \in Seq(Msg)
  <2>1. pending_message[1] \in Msg => <<pending_message[1]>> \in Seq(Msg)
    OBVIOUS
  <2> QED BY <2>1, EmptySeq DEF NoJunk, Pending
<1>2. retransmit_queue[1] \o Pending(1) \in Seq(Msg)
  BY <1>1, ConcatProperties DEF NoJunk
<1>3. Backlog(1) \in Seq(Msg)
  BY <1>2, ConcatProperties DEF NoJunk, Backlog
<1>4. msg_queue \in Seq(Msg)
  BY DEF TypeOK
<1> QED BY <1>1, <1>3, <1>4, ConcatProperties DEF Unsent

\* A pending message is the head of what is unsent.
LEMMA PendingIsHead ==
  ASSUME TypeOK, StopAndWait, NoJunk, 1 \in Lines, pending_message[1] # NULL
  PROVE  /\ Backlog(1) = <<pending_message[1]>> \o transmit_queue[1]
         /\ Unsent = <<pending_message[1]>> \o (transmit_queue[1] \o msg_queue)
         /\ transmit_queue[1] \o msg_queue \in Seq(Msg)
<1> DEFINE p == pending_message[1]
<1>1. /\ retransmit_queue[1] = <<>> /\ Pending(1) = <<p>> /\ p \in Msg
      /\ <<p>> \in Seq(Msg) /\ transmit_queue[1] \in Seq(Msg) /\ msg_queue \in Seq(Msg)
  BY DEF StopAndWait, Pending, NoJunk, TypeOK
<1>2. Backlog(1) = <<p>> \o transmit_queue[1]
  BY <1>1, ConcatEmptySeq DEF Backlog
<1> DEFINE h == <<p>>  T == transmit_queue[1]
<1>3. h \in Seq(Msg) /\ T \in Seq(Msg) /\ msg_queue \in Seq(Msg)
  BY <1>1
<1> HIDE DEF h, T
<1>4. T \o msg_queue \in Seq(Msg) /\ (h \o T) \o msg_queue = h \o (T \o msg_queue)
  BY <1>3, ConcatProperties, ConcatAssociative
<1> QED BY <1>2, <1>4 DEF Unsent, h, T

\* The message to be extracted next is the head as well.
LEMMA ExtractIsHead ==
  ASSUME TypeOK, StopAndWait, NoJunk, 1 \in Lines, ~Idle(1), Extract(1)
  PROVE  /\ NextMessage(1) \in Msg /\ retransmit_queue'[1] = <<>>
         /\ transmit_queue'[1] \in Seq(Msg)
         /\ Backlog(1) = <<NextMessage(1)>> \o transmit_queue'[1]
<1> DEFINE m == NextMessage(1)  R == retransmit_queue[1]  T == transmit_queue[1]
<1>1. /\ R \in Seq(Msg) /\ T \in Seq(Msg) /\ Pending(1) = <<>>
      /\ R # <<>> \/ T # <<>>
  BY DEF Idle, NoJunk, Pending
<1>2. retransmit_queue'[1] = <<>>
  BY ExtractEmpties
<1>3. Backlog(1) = R \o <<>> \o T
  BY <1>1 DEF Backlog
<1>4. R # <<>> => m = Head(R) /\ transmit_queue'[1] = T /\ retransmit_queue'[1] = Tail(R)
  BY DEF NextMessage, Extract, TypeOK
<1>5. R = <<>> => m = Head(T) /\ transmit_queue'[1] = Tail(T)
  BY DEF NextMessage, Extract, TypeOK
<1> HIDE DEF m, R, T
<1>6. Backlog(1) = R \o T
  BY <1>1, <1>3, ConcatEmptySeq
<1>7. CASE R # <<>>
  <2>1. <<m>> \o <<>> = R /\ m \in Msg
    BY <1>1, <1>2, <1>4, <1>7, HeadAndTail
  <2>2. <<m>> \in Seq(Msg)
    BY <2>1
  <2>3. <<m>> = R
    BY <2>1, <2>2, ConcatEmptySeq
  <2> QED BY <1>1, <1>2, <1>4, <1>6, <1>7, <2>1, <2>3 DEF m
<1>8. CASE R = <<>>
  <2>1. <<m>> \o Tail(T) = T /\ m \in Msg /\ Tail(T) \in Seq(Msg)
    BY <1>1, <1>5, <1>8, HeadAndTail
  <2>2. R \o T = T
    BY <1>1, <1>8, ConcatEmptySeq
  <2> QED BY <1>2, <1>5, <1>6, <1>8, <2>1, <2>2 DEF m
<1> QED BY <1>7, <1>8

-----------------------------------------------------------------------------
(* Steps of Outbox.                                                        *)

Dropped(g) == {<<x[2], x[3]>> : x \in g}

\* What Outbox sees does not change.
LEMMA OutboxStutter ==
  ASSUME Unsent' = Unsent, UNCHANGED <<accepted, log, given_up>>
  PROVE  UNCHANGED Endpoint!vars
BY DEF Unsent, Endpoint!vars

\* The first messages leave, and why is recorded.
LEMMA OutboxGiveUp ==
  ASSUME NEW s \in Seq(Msg), s # <<>>, NEW t \in Seq(Msg), NEW why \in Reasons,
         Unsent = s \o t, Unsent' = t, UNCHANGED <<accepted, log>>,
         Dropped(given_up') = Dropped(given_up) \cup (Range(s) \X {why})
  PROVE  Endpoint!Next
<1>1. /\ Len(s) \in Nat /\ Len(t) \in Nat /\ Len(s) >= 1
      /\ Len(Unsent) = Len(s) + Len(t)
  BY EmptySeq, ConcatProperties
<1>2. SubSeq(Unsent, 1, Len(s)) = s /\ SubSeq(Unsent, Len(s) + 1, Len(Unsent)) = t
  BY SplitConcat
<1>3. Endpoint!GiveUp(Len(s), why)
  BY <1>2 DEF Endpoint!GiveUp, Unsent, Dropped, Range, Endpoint!Range
<1>4. Len(s) \in 1..Len(Backlog(1) \o msg_queue)
  BY <1>1 DEF Unsent
<1> QED BY <1>3, <1>4 DEF Endpoint!Next

\* One message leaves.
LEMMA OutboxGiveUpHead ==
  ASSUME NEW m \in Msg, NEW t \in Seq(Msg), NEW why \in Reasons,
         Unsent = <<m>> \o t, Unsent' = t, UNCHANGED <<accepted, log>>,
         given_up' = given_up \cup {<<1, m, why>>}
  PROVE  Endpoint!Next
<1>1. <<m>> \in Seq(Msg) /\ <<m>> # <<>> /\ Range(<<m>>) = {m}
  BY DEF Range
<1>2. Range(<<m>>) \X {why} = {<<m, why>>}
  BY <1>1
<1> DEFINE s == <<m>>
<1>4. Dropped(given_up') = Dropped(given_up) \cup {<<m, why>>}
  <2>1. ASSUME NEW x \in Dropped(given_up') PROVE x \in Dropped(given_up) \cup {<<m, why>>}
    <3>1. PICK y \in given_up' : x = <<y[2], y[3]>>
      BY DEF Dropped
    <3> QED BY <3>1 DEF Dropped
  <2>2. Dropped(given_up) \subseteq Dropped(given_up')
    BY DEF Dropped
  <2>3. <<m, why>> \in Dropped(given_up')
    <3> DEFINE y == <<1, m, why>>
    <3>1. y \in given_up' /\ <<m, why>> = <<y[2], y[3]>>
      OBVIOUS
    <3> QED BY <3>1 DEF Dropped
  <2> QED BY <2>1, <2>2, <2>3
<1>3. s \in Seq(Msg) /\ s # <<>> /\ Range(s) \X {why} = {<<m, why>>} /\ Unsent = s \o t
  BY <1>1, <1>2
<1> HIDE DEF s
<1> QED BY <1>3, <1>4, OutboxGiveUp

LEMMA OutboxSettle ==
  ASSUME NEW m \in Msg, NEW t \in Seq(Msg), Unsent = <<m>> \o t, Unsent' = t,
         m \in Range(log[1]), UNCHANGED <<accepted, log, given_up>>
  PROVE  Endpoint!Next
<1>1. Unsent # <<>> /\ Head(Unsent) = m /\ Tail(Unsent) = t
  BY FirstOfConcat
<1>2. Endpoint!Settle
  BY <1>1 DEF Endpoint!Settle, Unsent, Range, Endpoint!Range
<1> QED BY <1>2 DEF Endpoint!Next
-----------------------------------------------------------------------------
(* One lemma per action: it keeps LineInv and takes a step of Outbox.      *)

OutboxStep == Endpoint!Next \/ UNCHANGED Endpoint!vars

LEMMA InvUnchanged ==
  ASSUME LineInv, UNCHANGED <<queues, pdus, peer, session, sessions>>,
         thread' = "stopped" => thread = "stopped"
  PROVE  LineInv'
BY DEF LineInv, NoJunk, NothingWithoutSession, WaitsForPending, SessionHasPeer, queues

LEMMA UnsentUnchanged ==
  ASSUME UNCHANGED <<queues, msg_queue>>
  PROVE  Unsent' = Unsent
BY DEF Unsent, Backlog, Pending, queues

LEMMA InitLine == NLines = 1 /\ Init => LineInv /\ Endpoint!Init
<1> SUFFICES ASSUME NLines = 1, Init PROVE LineInv /\ Endpoint!Init
  OBVIOUS
<1>1. /\ 1 \in Lines
      /\ transmit_queue[1] = <<>> /\ retransmit_queue[1] = <<>> /\ pending_message[1] = NULL
      /\ session[1] = NULL /\ log[1] = <<>>
  BY LinesIsOne DEF Init
<1>2. \A a \in Addr, p \in Item : pdus[a][p] = 0
  BY DEF Init, Pdu
<1>3. LineInv
  BY <1>1, <1>2 DEF Init, LineInv, NoJunk, NothingWithoutSession, WaitsForPending, SessionHasPeer
<1>4. Backlog(1) \o msg_queue = <<>>
  BY <1>1 DEF Init, Backlog, Pending
<1>5. Endpoint!Init
  BY <1>1, <1>4 DEF Endpoint!Init, Init
<1> QED BY <1>3, <1>5

LEMMA InsertLine ==
  ASSUME FullInv, Insert
  PROVE  LineInv' /\ OutboxStep
<1>1. LineInv'
  BY InvUnchanged DEF FullInv, Insert, libcoap, link, control
<1>2. Backlog(1) \in Seq(Msg) /\ msg_queue \in Seq(Msg) /\ accepted + 1 \in Msg
  BY BacklogType, RelayAssumption DEF FullInv, LineInv, TypeInv, TypeOK, Insert, Msg
<1>3. Backlog(1)' = Backlog(1)
  BY DEF Insert, Backlog, Pending, queues
<1> DEFINE B == Backlog(1)  m == accepted + 1
<1>4. B \o Append(msg_queue, m) = Append(B \o msg_queue, m)
  <2> HIDE DEF B, m
  <2>1. B \in Seq(Msg) /\ m \in Msg /\ msg_queue \in Seq(Msg)
    BY <1>2 DEF B, m
  <2> QED BY <2>1
<1>5. Endpoint!Accept
  BY <1>3, <1>4 DEF Endpoint!Accept, Insert, history
<1> QED BY <1>1, <1>5 DEF OutboxStep, Endpoint!Next

\* The message moves from msg_queue to the Session's queue, or is dropped because
\* there is no Session.
LEMMA DrainLine ==
  ASSUME FullInv, NLines = 1, Drain
  PROVE  LineInv' /\ OutboxStep
<1> DEFINE m == Head(msg_queue)  T == transmit_queue[1]
<1>1. /\ Lines = {1} /\ sessions \subseteq {1}
      /\ m \in Msg /\ Tail(msg_queue) \in Seq(Msg) /\ <<m>> \o Tail(msg_queue) = msg_queue
  BY LinesIsOne, HeadAndTail DEF FullInv, TypeInv, TypeOK, Drain
<1>2. /\ T \in Seq(Msg) /\ Pending(1) \in Seq(Msg) /\ retransmit_queue[1] \in Seq(Msg)
      /\ Backlog(1) \in Seq(Msg) /\ msg_queue \in Seq(Msg) /\ Unsent \in Seq(Msg)
  BY BacklogType DEF FullInv, TypeInv, LineInv, NoJunk
<1>3. CASE 1 \in sessions
  <2>1. sessions = {1}
    BY <1>1, <1>3
  <2>2. transmit_queue'[1] = Append(T, m)
    <3>1. PICK c \in Copies(m) : EnqueueMessage(c)
      BY DEF Drain
    <3>2. c[1] = m
      BY <2>1 DEF Copies, First
    <3> QED BY <1>1, <2>1, <3>1, <3>2 DEF EnqueueMessage
  <2>3. given_up' = given_up
    BY <1>1, <2>1 DEF Drain
  <2>4. Append(T, m) \in Seq(Msg)
    BY <1>1, <1>2
  <2>5. LineInv'
    BY <2>1, <2>2, <2>4 DEF Drain, FullInv, LineInv, NoJunk, NothingWithoutSession,
       WaitsForPending, SessionHasPeer, control, link, libcoap
  <2>6. Unsent' = Unsent
    <3> DEFINE A == retransmit_queue[1] \o Pending(1)  h == <<m>>  u == Tail(msg_queue)
    <3>1. A \in Seq(Msg) /\ h \in Seq(Msg) /\ u \in Seq(Msg) /\ T \in Seq(Msg)
      BY <1>1, <1>2, ConcatProperties
    <3>6. msg_queue = h \o u /\ Append(T, m) = T \o h
      BY <1>1, <1>2
    <3>2. Unsent = (A \o T) \o msg_queue
      BY DEF Unsent, Backlog
    <3>3. Unsent' = (A \o Append(T, m)) \o u
      BY <2>2 DEF Unsent, Backlog, Pending, Drain
    <3> HIDE DEF A, h, u, T, m
    <3>4. A \o T \in Seq(Msg)
      BY <3>1, ConcatProperties
    <3>5. (A \o T) \o h = A \o (T \o h)
      BY <3>1, ConcatAssociative
    <3>7. ((A \o T) \o h) \o u = (A \o T) \o (h \o u)
      <4> DEFINE e == A \o T
      <4>1. e \in Seq(Msg)
        BY <3>4
      <4> HIDE DEF e
      <4>2. (e \o h) \o u = e \o (h \o u)
        BY <3>1, <4>1, ConcatAssociative
      <4> QED BY <4>2 DEF e
    <3> QED BY <3>2, <3>3, <3>5, <3>6, <3>7
  <2>7. UNCHANGED <<accepted, log, given_up>>
    BY <2>3 DEF Drain
  <2> QED BY <2>5, <2>6, <2>7, OutboxStutter DEF OutboxStep
<1>4. CASE 1 \notin sessions
  <2>1. sessions = {} /\ 1 \in Lines
    BY <1>1, <1>4
  <2>2. transmit_queue'[1] = T
    BY <2>1 DEF Drain, EnqueueMessage
  <2>3. /\ retransmit_queue[1] = <<>> /\ Pending(1) = <<>> /\ T = <<>>
        /\ retransmit_queue'[1] = <<>> /\ Pending(1)' = <<>>
    BY <1>4 DEF FullInv, LineInv, NothingWithoutSession, Pending, Drain
  <2>4. LineInv'
    BY <2>1, <2>2 DEF Drain, FullInv, LineInv, NoJunk, NothingWithoutSession,
       WaitsForPending, SessionHasPeer, control, link, libcoap
  <2>5. Unsent = msg_queue /\ Unsent' = Tail(msg_queue)
    <3>1. Backlog(1) = <<>> /\ Backlog(1)' = <<>>
      BY <2>2, <2>3 DEF Backlog
    <3> QED BY <1>1, <1>2, <3>1, ConcatEmptySeq DEF Unsent, Drain
  <2>6. given_up' = given_up \cup {<<1, m, "no_session">>}
    BY <1>1, <2>1 DEF Drain
  <2>7. Endpoint!Next
    <3> HIDE DEF m
    <3>1. Unsent = <<m>> \o Tail(msg_queue) /\ UNCHANGED <<accepted, log>>
      BY <1>1, <2>5 DEF Drain
    <3>2. "no_session" \in Reasons
      BY DEF Reasons
    <3> QED BY <1>1, <2>5, <2>6, <3>1, <3>2, OutboxGiveUpHead
  <2> QED BY <2>4, <2>7 DEF OutboxStep
<1> QED BY <1>3, <1>4

\* Steps that touch neither queues nor PDUs nor sessions.
LEMMA QuietLine ==
  ASSUME FullInv, UNCHANGED <<queues, pdus, peer, session, sessions, msg_queue, accepted,
                              history>>,
         thread' = "stopped" => thread = "stopped"
  PROVE  LineInv' /\ OutboxStep
BY InvUnchanged, UnsentUnchanged, OutboxStutter DEF FullInv, OutboxStep, history

LEMMA CrashLine ==
  ASSUME FullInv, NEW f, Crash(f)
  PROVE  LineInv' /\ OutboxStep
BY QuietLine DEF Crash, libcoap, link

LEMMA RestoreConnectionLine ==
  ASSUME FullInv, NLines = 1, NEW s \in todo, RestoreConnection(s)
  PROVE  LineInv' /\ OutboxStep
<1>1. s = 1 /\ 1 \in Lines
  BY LinesIsOne DEF FullInv, TypeInv, TypeOK
<1> DEFINE r == ReleaseSession(refs, session[s])
<1>2. PICK a \in Addr \cup {NULL} : Connect(s, a, r)
  BY DEF RestoreConnection, Reconnect
<1> HIDE DEF r
<1>3. /\ session'[1] = a
      /\ peer' = IF a = NULL THEN peer ELSE [peer EXCEPT ![a] = 1]
  BY <1>1, <1>2 DEF Connect, FullInv, TypeInv, TypeOK
<1>4. UNCHANGED <<queues, pdus, sessions, msg_queue, accepted, history>> /\ thread' = "transmit"
  BY DEF RestoreConnection
<1>5. /\ a # NULL => peer'[a] = 1
      /\ \A b \in Addr : peer[b] = 1 => peer'[b] = 1
  BY <1>2, <1>3 DEF FullInv, TypeInv, TypeOK
<1>6. LineInv'
  BY <1>3, <1>4, <1>5 DEF FullInv, LineInv, NoJunk, NothingWithoutSession, WaitsForPending,
     SessionHasPeer, queues
<1> QED BY <1>4, <1>6, UnsentUnchanged, OutboxStutter DEF OutboxStep, history

-----------------------------------------------------------------------------
(* Transmit.                                                               *)

LEMMA IdlePduFree ==
  ASSUME FullInv, pending_message[1] = NULL
  PROVE  \A a \in Addr, p \in Item : pdus[a][p] = 0
<1>1. \A a \in Addr, p \in Item : p # NULL /\ pdus[a][p] \in Nat
  BY RelayAssumption DEF FullInv, TypeInv, TypeOK, Pdu
<1> QED BY <1>1 DEF FullInv, LineInv, WaitsForPending

\* Extracting a message moves none past another.
LEMMA ExtractUnsent ==
  ASSUME FullInv, NLines = 1, ~Idle(1), Extract(1)
  PROVE  LET m == NextMessage(1)  t == transmit_queue'[1] \o msg_queue IN
           /\ m \in Msg /\ retransmit_queue'[1] = <<>> /\ transmit_queue'[1] \in Seq(Msg)
           /\ t \in Seq(Msg) /\ Unsent = <<m>> \o t
           /\ (<<m>> \o transmit_queue'[1]) \o msg_queue = <<m>> \o t
<1> DEFINE h == <<NextMessage(1)>>  T == transmit_queue'[1]
<1>1. /\ NextMessage(1) \in Msg /\ retransmit_queue'[1] = <<>> /\ T \in Seq(Msg)
      /\ Backlog(1) = h \o T
  BY LinesIsOne, ExtractIsHead DEF FullInv, TypeInv, LineInv
<1>2. h \in Seq(Msg) /\ msg_queue \in Seq(Msg)
  BY <1>1 DEF FullInv, TypeInv, TypeOK
<1> HIDE DEF h, T
<1>3. (h \o T) \o msg_queue = h \o (T \o msg_queue)
  BY <1>1, <1>2, ConcatAssociative
<1>4. T \o msg_queue \in Seq(Msg)
  BY <1>1, <1>2, ConcatProperties
<1> QED BY <1>1, <1>3, <1>4 DEF Unsent, h, T

LEMMA TransmitSentLine ==
  ASSUME FullInv, NLines = 1, NEW s \in todo, TransmitSent(s)
  PROVE  LineInv' /\ OutboxStep
<1> DEFINE m == NextMessage(1)  a == session[1]  T == transmit_queue'[1]
<1>1. s = 1 /\ 1 \in Lines /\ 1 \in sessions
  BY LinesIsOne DEF FullInv, TypeInv, TypeOK
<1>2. ~Idle(1) /\ Extract(1) /\ a # NULL /\ pending_message[1] = NULL
  BY <1>1 DEF TransmitSent, Idle
<1>3. /\ m \in Msg /\ retransmit_queue'[1] = <<>> /\ T \in Seq(Msg)
      /\ Unsent = <<m>> \o (T \o msg_queue)
      /\ (<<m>> \o T) \o msg_queue = <<m>> \o (T \o msg_queue)
  BY <1>2, ExtractUnsent
<1>4. pending_message'[1] = m
  BY <1>1 DEF TransmitSent, FullInv, TypeInv, TypeOK
<1>5. /\ a \in Addr /\ m \in Pdu /\ m \in Item
      /\ pdus' = [pdus EXCEPT ![a][m] = @ + 1]
      /\ UNCHANGED <<sessions, session, peer, msg_queue, accepted, log, given_up>>
  BY <1>1, <1>2, <1>3 DEF TransmitSent, FullInv, TypeInv, TypeOK, link, history, Pdu, Item
<1>6. m # NULL
  BY <1>5, RelayAssumption
<1>7. \A b \in Addr, p \in Item : pdus[b][p] = 0
  BY <1>2, IdlePduFree
<1> HIDE DEF m, a, T
<1>8. \A b \in Addr, p \in Item : pdus'[b][p] = IF b = a /\ p = m THEN 1 ELSE 0
  BY <1>5, <1>7 DEF FullInv, TypeInv, TypeOK, Pdu
<1>9. LineInv'
  <2>1. NoJunk'
    BY <1>3, <1>4, EmptySeq DEF NoJunk, T
  <2>2. NothingWithoutSession'
    BY <1>1, <1>5 DEF NothingWithoutSession, TransmitSent, NextSession
  <2>3. peer'[a] = 1
    BY <1>2, <1>5 DEF FullInv, LineInv, SessionHasPeer, a
  <2>4. WaitsForPending'
    BY <1>4, <1>8, <2>3 DEF WaitsForPending
  <2>5. SessionHasPeer'
    BY <1>5 DEF FullInv, LineInv, SessionHasPeer
  <2> QED BY <2>1, <2>2, <2>4, <2>5 DEF LineInv
<1>10. Unsent' = Unsent
  <2>1. Pending(1)' = <<m>>
    BY <1>4, <1>6 DEF Pending
  <2>2. <<m>> \in Seq(Msg)
    BY <1>3
  <2>3. <<>> \o <<m>> = <<m>>
    BY <2>2, ConcatEmptySeq
  <2>4. Backlog(1)' = <<m>> \o T
    BY <1>3, <2>1, <2>3 DEF Backlog, T
  <2> QED BY <1>3, <1>5, <2>4 DEF Unsent
<1> QED BY <1>5, <1>9, <1>10, OutboxStutter DEF OutboxStep

LEMMA TransmitFailedLine ==
  ASSUME FullInv, NLines = 1, NEW s \in todo, TransmitFailed(s)
  PROVE  LineInv' /\ OutboxStep
<1> DEFINE m == NextMessage(1)  T == transmit_queue'[1]
<1>1. s = 1 /\ 1 \in Lines /\ 1 \in sessions
  BY LinesIsOne DEF FullInv, TypeInv, TypeOK
<1>2. ~Idle(1) /\ Extract(1) /\ pending_message[1] = NULL
  BY <1>1 DEF TransmitFailed, Idle
<1>3. /\ m \in Msg /\ retransmit_queue'[1] = <<>> /\ T \in Seq(Msg)
      /\ T \o msg_queue \in Seq(Msg) /\ Unsent = <<m>> \o (T \o msg_queue)
  BY <1>2, ExtractUnsent
<1>4. /\ UNCHANGED <<pending_message, pdus, peer, session, sessions, msg_queue, accepted, log>>
      /\ given_up' = given_up \cup {<<1, m, "send_failed">>}
  BY <1>1, <1>3 DEF TransmitFailed, libcoap, link
<1> HIDE DEF m, T
<1>5. LineInv'
  <2>1. NoJunk'
    BY <1>3, <1>4, EmptySeq DEF FullInv, LineInv, NoJunk, T
  <2>2. NothingWithoutSession'
    BY <1>1, <1>4 DEF NothingWithoutSession, TransmitFailed, NextSession
  <2>3. WaitsForPending' /\ SessionHasPeer'
    BY <1>4 DEF FullInv, LineInv, WaitsForPending, SessionHasPeer
  <2> QED BY <2>1, <2>2, <2>3 DEF LineInv
<1>6. Unsent' = T \o msg_queue
  <2>1. Pending(1)' = <<>>
    BY <1>2, <1>4 DEF Pending
  <2>2. <<>> \in Seq(Msg) /\ <<>> \o <<>> = <<>> /\ <<>> \o T = T
    BY <1>3, ConcatEmptySeq, EmptySeq
  <2>3. Backlog(1)' = T
    BY <1>3, <2>1, <2>2 DEF Backlog, T
  <2> QED BY <1>4, <2>3 DEF Unsent
<1>7. Endpoint!Next
  <2>1. "send_failed" \in Reasons
    BY DEF Reasons
  <2> QED BY <1>3, <1>4, <1>6, <2>1, OutboxGiveUpHead
<1> QED BY <1>5, <1>7 DEF OutboxStep

-----------------------------------------------------------------------------
(* The endpoint and the handlers.                                          *)

\* A waiting PDU with a message has the pending message, the first of all unsent.
LEMMA WaitingIsHead ==
  ASSUME FullInv, NLines = 1, NEW a \in Addr, NEW p \in Item, Outstanding(a, p)
  PROVE  LET t == transmit_queue[1] \o msg_queue IN
           /\ p \in Msg /\ p = pending_message[1] /\ pending_message[1] # NULL
           /\ peer[a] = 1 /\ pdus[a][p] = 1
           /\ t \in Seq(Msg) /\ Unsent = <<p>> \o t /\ retransmit_queue[1] = <<>>
<1>1. /\ p = pending_message[1] /\ peer[a] = 1 /\ pdus[a][p] = 1
  BY DEF Outstanding, FullInv, LineInv, WaitsForPending
<1>2. p # NULL /\ p \in Msg
  BY <1>1, RelayAssumption DEF FullInv, LineInv, NoJunk, Pdu
<1>3. 1 \in Lines
  BY LinesIsOne
<1>4. /\ Unsent = <<p>> \o (transmit_queue[1] \o msg_queue)
      /\ transmit_queue[1] \o msg_queue \in Seq(Msg)
  BY <1>1, <1>2, <1>3, PendingIsHead DEF FullInv, TypeInv, LineInv
<1>5. retransmit_queue[1] = <<>>
  BY <1>1, <1>2, <1>3 DEF FullInv, StopAndWait
<1> QED BY <1>1, <1>2, <1>4, <1>5

LEMMA DeliverLine ==
  ASSUME FullInv, NLines = 1, NEW a \in Addr, NEW p \in Pdu, Deliver(a, p)
  PROVE  LineInv' /\ OutboxStep
<1>1. /\ p \in Msg /\ Outstanding(a, p)
      /\ UNCHANGED <<thread, queues, pdus, peer, session, sessions, msg_queue, accepted,
                     given_up>>
  BY DEF Deliver, control, link, libcoap
<1>2. LineInv'
  BY <1>1, InvUnchanged DEF FullInv
<1> DEFINE t == transmit_queue[1] \o msg_queue
<1>3. t \in Seq(Msg) /\ Unsent = <<p>> \o t /\ peer[a] = 1
  BY <1>1, WaitingIsHead DEF Item
<1> HIDE DEF t
<1>4. Unsent # <<>> /\ Head(Unsent) = p
  BY <1>1, <1>3, FirstOfConcat
<1>5. p \notin Range(log[1]) /\ log'[1] = Append(log[1], p)
  BY <1>3, LinesIsOne DEF Deliver, FullInv, TypeInv, TypeOK
<1>6. Unsent' = Unsent
  BY <1>1, UnsentUnchanged
<1>7. Endpoint!Reach
  BY <1>1, <1>4, <1>5, <1>6 DEF Endpoint!Reach, Unsent, Range, Endpoint!Range
<1> QED BY <1>2, <1>7 DEF OutboxStep, Endpoint!Next

\* What libcoap still waits for once p on a has been answered: nothing but pings if
\* p was a message, and the same as before if it was a ping.
LEMMA ForgetPending ==
  ASSUME FullInv, NLines = 1, NEW a \in Addr, NEW p \in Pdu, Outstanding(a, p), Forget(a, p)
  PROVE  \A b \in Addr, q \in Item : pdus'[b][q] = IF p = Ping THEN pdus[b][q] ELSE 0
<1>1. \A b \in Addr, q \in Pdu :
        /\ pdus[b][q] \in Nat
        /\ pdus'[b][q] = IF b = a /\ q = p THEN pdus[b][q] - 1 ELSE pdus[b][q]
  BY DEF Forget, FullInv, TypeInv, TypeOK
<1>2. CASE p = Ping
  BY <1>1, <1>2, RelayAssumption DEF Pdu
<1>3. CASE p # Ping
  <2>1. p \in Item /\ p = pending_message[1] /\ pdus[a][p] = 1
    BY <1>3, WaitingIsHead DEF Pdu
  <2>2. \A b \in Addr, q \in Item : pdus[b][q] > 0 => q = p /\ b = a
    BY <2>1 DEF FullInv, LineInv, WaitsForPending
  <2>3. \A b \in Addr, q \in Item : ~(q = p /\ b = a) => pdus[b][q] = 0
    BY <1>1, <2>2 DEF Pdu
  <2> QED BY <1>1, <1>3, <2>1, <2>3 DEF Pdu
<1> QED BY <1>2, <1>3

\* Nothing is left waiting that could contradict a new pending message.
LEMMA WaitsAfterForget ==
  ASSUME FullInv, NLines = 1, NEW a \in Addr, NEW p \in Pdu, Outstanding(a, p), Forget(a, p),
         UNCHANGED peer, p = Ping => UNCHANGED pending_message
  PROVE  WaitsForPending'
<1>1. \A b \in Addr, q \in Item : pdus'[b][q] = IF p = Ping THEN pdus[b][q] ELSE 0
  BY ForgetPending
<1>2. CASE p = Ping
  BY <1>1, <1>2 DEF FullInv, LineInv, WaitsForPending
<1>3. CASE p # Ping
  BY <1>1, <1>3 DEF WaitsForPending
<1> QED BY <1>2, <1>3

\* The Session a handler works on: the only one, or a deleted one.
LEMMA FoundSession ==
  ASSUME FullInv, NLines = 1, NEW a \in Addr, NEW t \in FindSession(a), t # NULL
  PROVE  t \in {1, Dangling}
BY LinesIsOne DEF FindSession, FullInv, TypeInv, TypeOK

LEMMA AnswerLine ==
  ASSUME FullInv, NLines = 1, NEW a \in Addr, NEW p \in Pdu, NEW accepts \in BOOLEAN,
         Answer(a, p, accepts)
  PROVE  LineInv' /\ OutboxStep
<1>1. /\ Outstanding(a, p) /\ Forget(a, p) /\ p \in Item /\ p # Ping
      /\ accepts /\ p \in Msg => Delivered(a, p)
      /\ thread = "io" /\ thread' = "io"
      /\ UNCHANGED <<peer, session, sessions, msg_queue, accepted, log>>
  BY DEF Answer, Pdu, control, link
<1> DEFINE T == transmit_queue[1]  u == T \o msg_queue
<1>2. /\ p \in Msg /\ p = pending_message[1] /\ pending_message[1] # NULL
      /\ peer[a] = 1 /\ u \in Seq(Msg) /\ Unsent = <<p>> \o u /\ retransmit_queue[1] = <<>>
  BY <1>1, WaitingIsHead
<1>3. \A block1 \in HasBlock1(p) : block1
  <2>1. p # Junk
    BY <1>2, RelayAssumption
  <2> QED BY <1>2, <2>1, Zenon DEF HasBlock1
<1>4. PICK t \in FindSession(a) :
        /\ ~NotifyIsNull(t) /\ NotifySuccess(t)
        /\ given_up' = IF accepts THEN given_up
                       ELSE given_up \cup ((Lines \cap {t}) \X (Msg \cap {p}) \X {"rejected"})
  BY <1>3 DEF Answer
<1>5. t \in {1, Dangling} /\ Lines = {1} /\ Dangling # 1
  BY <1>4, FoundSession, LinesIsOne, RelayAssumption DEF NotifyIsNull
<1>6. UNCHANGED <<transmit_queue, retransmit_queue>>
  BY <1>4 DEF NotifySuccess
<1>7. WaitsForPending'
  BY <1>1, WaitsAfterForget
<1>8. CASE t = 1
  <2>1. pending_message'[1] = NULL
    BY <1>4, <1>5, <1>8 DEF NotifySuccess, FullInv, TypeInv, TypeOK
  <2>2. LineInv'
    BY <1>1, <1>6, <1>7, <2>1 DEF FullInv, LineInv, NoJunk, NothingWithoutSession,
       SessionHasPeer
  <2>3. Unsent' = u
    <3>1. Pending(1)' = <<>>
      BY <2>1 DEF Pending
    <3>2. <<>> \o <<>> = <<>> /\ <<>> \o T = T
      BY ConcatEmptySeq, EmptySeq DEF FullInv, LineInv, NoJunk
    <3>3. Backlog(1)' = T
      BY <1>2, <1>6, <3>1, <3>2 DEF Backlog
    <3> QED BY <1>1, <3>3 DEF Unsent
  <2>4. CASE accepts
    <3>1. p \in Range(log[1])
      BY <1>1, <1>2, <1>5, <2>4 DEF Delivered
    <3>2. UNCHANGED <<accepted, log, given_up>>
      BY <1>1, <1>4, <2>4
    <3> HIDE DEF u
    <3> QED BY <1>2, <2>2, <2>3, <3>1, <3>2, OutboxSettle DEF OutboxStep
  <2>5. CASE ~accepts
    <3>1. given_up' = given_up \cup {<<1, p, "rejected">>}
      BY <1>2, <1>4, <1>5, <1>8, <2>5
    <3>2. "rejected" \in Reasons /\ UNCHANGED <<accepted, log>>
      BY <1>1 DEF Reasons
    <3> HIDE DEF u
    <3> QED BY <1>2, <2>2, <2>3, <3>1, <3>2, OutboxGiveUpHead DEF OutboxStep
  <2> QED BY <2>4, <2>5
<1>9. CASE t = Dangling
  <2>1. UNCHANGED pending_message /\ given_up' = given_up
    BY <1>4, <1>5, <1>9, RelayAssumption DEF NotifySuccess
  <2>2. LineInv'
    BY <1>1, <1>6, <1>7, <2>1 DEF FullInv, LineInv, NoJunk, NothingWithoutSession,
       SessionHasPeer
  <2>3. Unsent' = Unsent
    BY <1>1, <1>6, <2>1, UnsentUnchanged DEF queues
  <2> QED BY <1>1, <2>1, <2>2, <2>3, OutboxStutter DEF OutboxStep
<1> QED BY <1>5, <1>8, <1>9

LEMMA NackLine ==
  ASSUME FullInv, NLines = 1, NEW a \in Addr, NEW p \in Pdu, NEW lost \in BOOLEAN,
         Nack(a, p, lost)
  PROVE  LineInv' /\ OutboxStep
<1>1. /\ Outstanding(a, p) /\ Forget(a, p)
      /\ thread = "io" /\ thread' = "io"
      /\ UNCHANGED <<peer, session, sessions, msg_queue, accepted, log, given_up>>
  BY DEF Nack, control, history
<1>2. PICK t \in FindSession(a), block1 \in HasBlock1(p) :
        /\ block1 => ~NotifyIsNull(t)
        /\ IF block1 THEN NotifyFailure(t) ELSE UNCHANGED queues
  BY DEF Nack
<1>3. CASE UNCHANGED queues
  <2>1. WaitsForPending'
    BY <1>1, <1>3, WaitsAfterForget DEF queues
  <2>2. LineInv'
    BY <1>1, <1>3, <2>1 DEF FullInv, LineInv, NoJunk, NothingWithoutSession,
       SessionHasPeer, queues
  <2> QED BY <1>1, <1>3, <2>2, UnsentUnchanged, OutboxStutter DEF OutboxStep
<1>4. CASE ~UNCHANGED queues
  <2>1. block1 /\ NotifyFailure(t) /\ ~NotifyIsNull(t)
    BY <1>2, <1>4
  <2>2. t = 1 /\ 1 \in Lines /\ pending_message[1] # NULL
    BY <1>4, <2>1, LinesIsOne DEF NotifyFailure
  <2> DEFINE m == pending_message[1]
  <2>3. m \in Msg /\ m # NULL /\ retransmit_queue[1] = <<>>
    BY <2>2 DEF FullInv, LineInv, NoJunk, StopAndWait
  <2>4. /\ retransmit_queue'[1] = <<m>> /\ pending_message'[1] = NULL
        /\ transmit_queue' = transmit_queue
    BY <2>1, <2>2, <2>3 DEF NotifyFailure, FullInv, TypeInv, TypeOK
  <2>5. p \in Item
    <3>1. p # Ping
      <4> SUFFICES ASSUME p = Ping PROVE FALSE
        OBVIOUS
      <4>1. p # Junk /\ p \notin Msg
        BY RelayAssumption DEF Item
      <4>2. ~block1
        BY <4>1, Zenon DEF HasBlock1
      <4> QED BY <2>1, <4>2
    <3> QED BY <3>1 DEF Pdu
  <2>6. WaitsForPending'
    BY <1>1, <2>5, WaitsAfterForget, RelayAssumption
  <2>7. 1 \in sessions
    BY <2>2 DEF FullInv, LineInv, NothingWithoutSession
  <2> HIDE DEF m
  <2>8. LineInv'
    <3>1. <<m>> \in Seq(Msg)
      BY <2>3
    <3>2. NoJunk'
      BY <2>4, <3>1 DEF FullInv, LineInv, NoJunk
    <3>3. NothingWithoutSession' /\ SessionHasPeer'
      BY <1>1, <2>7 DEF FullInv, LineInv, NothingWithoutSession, SessionHasPeer
    <3> QED BY <2>6, <3>2, <3>3 DEF LineInv
  <2>9. Unsent' = Unsent
    <3>1. Pending(1) = <<m>> /\ Pending(1)' = <<>>
      BY <2>3, <2>4 DEF Pending, m
    <3>2. <<m>> \in Seq(Msg)
      BY <2>3
    <3>3. <<m>> \o <<>> = <<m>> /\ <<>> \o <<m>> = <<m>>
      BY <3>2, ConcatEmptySeq
    <3>4. Backlog(1)' = Backlog(1)
      BY <2>3, <2>4, <3>1, <3>3 DEF Backlog
    <3> QED BY <1>1, <3>4 DEF Unsent
  <2> QED BY <1>1, <2>8, <2>9, OutboxStutter DEF OutboxStep
<1> QED BY <1>3, <1>4

LEMMA PingTouchesNoItem ==
  ASSUME FullInv, NEW a \in Addr, SendPing(a) \/ pong_handler(a)
  PROVE  \A b \in Addr, q \in Item : pdus'[b][q] = pdus[b][q]
<1>1. CASE SendPing(a)
  BY <1>1, RelayAssumption DEF SendPing, FullInv, TypeInv, TypeOK, Pdu
<1>2. CASE pong_handler(a)
  BY <1>2, RelayAssumption DEF pong_handler, Forget, FullInv, TypeInv, TypeOK, Pdu
<1> QED BY <1>1, <1>2

LEMMA PingLine ==
  ASSUME FullInv, NLines = 1, NEW a \in Addr, SendPing(a) \/ pong_handler(a)
  PROVE  LineInv' /\ OutboxStep
<1>1. /\ UNCHANGED <<control, msg_queue, accepted, sessions, queues, link, peer, history>>
      /\ \A b \in Addr, q \in Item : pdus'[b][q] = pdus[b][q]
  BY PingTouchesNoItem DEF SendPing, pong_handler
<1>2. LineInv'
  BY <1>1 DEF FullInv, LineInv, NoJunk, NothingWithoutSession, WaitsForPending,
     SessionHasPeer, queues, link, control
<1> QED BY <1>1, <1>2, UnsentUnchanged, OutboxStutter DEF OutboxStep, history

-----------------------------------------------------------------------------
(* The hooks.                                                              *)

LEMMA StartLine ==
  ASSUME FullInv, NLines = 1, Start
  PROVE  LineInv' /\ OutboxStep
<1>1. PICK conn \in [Lines -> Addr \cup {NULL}] :
        /\ session' = conn
        /\ peer' = [a \in Addr |-> IF a \in Range(conn)
                                   THEN CHOOSE l \in Lines : conn[l] = a ELSE NULL]
  BY DEF Start
<1>2. Lines = {1} /\ thread = "stopped" /\ thread' = "loop"
  BY LinesIsOne DEF Start
<1>3. UNCHANGED <<queues, pdus, msg_queue, accepted, log, given_up>>
  BY DEF Start, history
<1>4. transmit_queue[1] = <<>> /\ retransmit_queue[1] = <<>> /\ pending_message[1] = NULL
  BY <1>2 DEF FullInv, LineInv, NothingWithoutSession
<1>5. \A a \in Addr, p \in Item : pdus[a][p] = 0
  BY <1>4, IdlePduFree
<1>6. SessionHasPeer'
  <2> SUFFICES ASSUME session'[1] # NULL PROVE peer'[session'[1]] = 1
    BY DEF SessionHasPeer
  <2>1. conn[1] \in Addr /\ conn[1] \in Range(conn)
    BY <1>1, <1>2 DEF Range
  <2>2. (CHOOSE l \in Lines : conn[l] = conn[1]) = 1
    BY <1>2
  <2> QED BY <1>1, <2>1, <2>2
<1>7. LineInv'
  BY <1>2, <1>3, <1>4, <1>5, <1>6 DEF FullInv, LineInv, NoJunk, NothingWithoutSession,
     WaitsForPending, queues
<1> QED BY <1>3, <1>7, UnsentUnchanged, OutboxStutter DEF OutboxStep

LEMMA StopLine ==
  ASSUME FullInv, NLines = 1, Stop
  PROVE  LineInv' /\ OutboxStep
<1> DEFINE B == Backlog(1)
<1>1. Lines = {1} /\ sessions \subseteq {1} /\ B \in Seq(Msg) /\ msg_queue \in Seq(Msg)
  BY LinesIsOne, BacklogType DEF FullInv, TypeInv, TypeOK, LineInv
<1>2. /\ transmit_queue'[1] = <<>> /\ retransmit_queue'[1] = <<>>
      /\ pending_message'[1] = NULL /\ session'[1] = NULL /\ sessions' = {}
      /\ \A a \in Addr, p \in Item : pdus'[a][p] = 0
      /\ UNCHANGED <<msg_queue, accepted, log>>
  BY <1>1 DEF Stop, Pdu
<1>3. LineInv'
  BY <1>2, EmptySeq DEF LineInv, NoJunk, NothingWithoutSession, WaitsForPending, SessionHasPeer
<1>4. Unsent' = msg_queue
  <2>1. Pending(1)' = <<>> /\ <<>> \o <<>> = <<>>
    BY <1>2 DEF Pending
  <2>2. Backlog(1)' = <<>>
    BY <1>2, <2>1 DEF Backlog
  <2> QED BY <1>1, <1>2, <2>2, ConcatEmptySeq DEF Unsent
<1>5. given_up' = given_up \cup {x \in sessions \X Msg \X {"stopped"} :
                                    x[2] \in Range(Backlog(x[1]))}
  BY DEF Stop
<1>6. CASE B = <<>>
  <2>1. given_up' = given_up
    <3>1. Range(Backlog(1)) = {}
      BY <1>6 DEF Range
    <3> QED BY <1>1, <1>5, <3>1
  <2>2. Unsent' = Unsent
    BY <1>1, <1>4, <1>6, ConcatEmptySeq DEF Unsent
  <2> QED BY <1>2, <1>3, <2>1, <2>2, OutboxStutter DEF OutboxStep
<1>7. CASE B # <<>>
  <2>1. 1 \in sessions
    <3> SUFFICES ASSUME 1 \notin sessions PROVE FALSE
      OBVIOUS
    <3>1. /\ transmit_queue[1] = <<>> /\ retransmit_queue[1] = <<>>
          /\ Pending(1) = <<>> /\ <<>> \o <<>> = <<>>
      BY DEF FullInv, LineInv, NothingWithoutSession, Pending
    <3> QED BY <1>7, <3>1 DEF Backlog
  <2>2. sessions = {1}
    BY <1>1, <2>1
  <2>3. Range(B) \subseteq Msg
    BY <1>1 DEF Range
  <2>4. Dropped(given_up') = Dropped(given_up) \cup (Range(B) \X {"stopped"})
    <3> DEFINE G == {x \in sessions \X Msg \X {"stopped"} : x[2] \in Range(Backlog(x[1]))}
    <3>1. ASSUME NEW x \in Dropped(given_up')
          PROVE  x \in Dropped(given_up) \cup (Range(B) \X {"stopped"})
      <4>1. PICK y \in given_up' : x = <<y[2], y[3]>>
        BY DEF Dropped
      <4>2. CASE y \in given_up
        BY <4>1, <4>2 DEF Dropped
      <4>3. CASE y \in G
        <5>1. y[1] = 1 /\ y[2] \in Range(Backlog(y[1])) /\ y[3] = "stopped"
          BY <2>2, <4>3
        <5>2. Backlog(y[1]) = B
          BY <5>1
        <5> QED BY <4>1, <5>1, <5>2
      <4> QED BY <1>5, <4>1, <4>2, <4>3
    <3>2. Dropped(given_up) \subseteq Dropped(given_up')
      BY <1>5 DEF Dropped
    <3>3. ASSUME NEW m \in Range(B) PROVE <<m, "stopped">> \in Dropped(given_up')
      <4> DEFINE y == <<1, m, "stopped">>
      <4>1. y \in sessions \X Msg \X {"stopped"} /\ y[1] = 1 /\ y[2] = m /\ y[3] = "stopped"
        BY <2>2, <2>3
      <4>2. y \in G
        BY <3>3, <4>1
      <4>3. y \in given_up'
        BY <1>5, <4>2
      <4> HIDE DEF y
      <4> QED BY <4>1, <4>3 DEF Dropped
    <3> QED BY <3>1, <3>2, <3>3
  <2>5. "stopped" \in Reasons /\ Unsent = B \o msg_queue
    BY DEF Reasons, Unsent
  <2> HIDE DEF B
  <2>6. Endpoint!Next
    BY <1>1, <1>2, <1>4, <1>7, <2>4, <2>5, OutboxGiveUp
  <2> QED BY <1>3, <2>6 DEF OutboxStep
<1> QED BY <1>6, <1>7

LEMMA NextLine == NLines = 1 /\ FullInv /\ [Next]_vars => LineInv' /\ OutboxStep
<1> SUFFICES ASSUME NLines = 1, FullInv, [Next]_vars PROVE LineInv' /\ OutboxStep
  OBVIOUS
<1>1. CASE UNCHANGED vars
  BY <1>1, QuietLine DEF vars, control, libcoap, link
<1>2. CASE Insert \/ Drain
  BY <1>2, InsertLine, DrainLine
<1>3. CASE DrainDone \/ RunAgain
  BY <1>3, QuietLine DEF DrainDone, RunAgain, libcoap, link
<1>4. CASE DrainCrash \/ StopCrash
  BY <1>4, CrashLine DEF DrainCrash, StopCrash
<1>5. CASE \E s \in todo : Serve(s)
  <2>1. PICK s \in todo : Serve(s)
    BY <1>5
  <2>2. CASE KeepConnection(s)
    BY <2>2, QuietLine DEF KeepConnection, libcoap, link
  <2>3. CASE TransmitNothing(s)
    BY <2>3, QuietLine DEF TransmitNothing, NextSession, libcoap, link
  <2>4. CASE ReconnectCrash(s) \/ TransmitCrash(s)
    BY <2>4, CrashLine DEF ReconnectCrash, TransmitCrash
  <2> QED BY <2>1, <2>2, <2>3, <2>4, RestoreConnectionLine, TransmitSentLine,
             TransmitFailedLine DEF Serve
<1>6. CASE \E a \in Addr, p \in Pdu : Handle(a, p)
  <2>1. PICK a \in Addr, p \in Pdu : Handle(a, p)
    BY <1>6
  <2>2. CASE HandlerCrash(a, p)
    BY <2>2, CrashLine DEF HandlerCrash
  <2> QED BY <2>1, <2>2, DeliverLine, AnswerLine, NackLine DEF Handle
<1>7. CASE \E a \in Addr : SendPing(a) \/ pong_handler(a)
  BY <1>7, PingLine
<1>8. CASE Start \/ Stop
  BY <1>8, StartLine, StopLine
<1> QED BY <1>1, <1>2, <1>3, <1>4, <1>5, <1>6, <1>7, <1>8 DEF Next

LEMMA InitFull == NLines = 1 /\ Init => FullInv /\ Endpoint!Init
<1>1. Init => StopAndWait
  BY DEF Init, StopAndWait
<1> QED BY <1>1, InitType, InitLine DEF FullInv

LEMMA NextFull ==
  NLines = 1 /\ FullInv /\ [Next]_vars => FullInv' /\ [Endpoint!Next]_(Endpoint!vars)
<1>1. FullInv => TypeOK
  BY DEF FullInv, TypeInv
<1> QED BY <1>1, NextType, NextWaits, NextLine DEF FullInv, OutboxStep

\* With one line in its configuration file the relay keeps what Outbox promises the
\* endpoint, whatever libcoap does to sessions and PDUs, and over restarts: messages
\* are offered in the order of acceptance, none leaves the queues before the endpoint
\* has it or the reason why it is dropped is known.
THEOREM RelayIsOutbox ==
  ASSUME NLines = 1
  PROVE  Spec => ImplementsOutbox
<1>1. Init => FullInv /\ Endpoint!Init
  BY InitFull
<1>2. FullInv /\ [Next]_vars => FullInv' /\ [Endpoint!Next]_(Endpoint!vars)
  BY NextFull
<1> QED BY <1>1, <1>2, PTL DEF Spec, ImplementsOutbox, Endpoint!Spec

-----------------------------------------------------------------------------
(* The order of first receipts.                                            *)

Ascending(s) == \A i, j \in 1..Len(s) : i < j => s[i] < s[j]

\* Of the unsent messages u, the log and the number n of those accepted.
Ordered(u, g, n) ==
  /\ Ascending(u) /\ Ascending(g)
  /\ \A j \in 1..Len(u) : u[j] <= n
  /\ \A i \in 1..Len(g) : g[i] <= n
  /\ \A i \in 1..Len(g), j \in 1..Len(u) : g[i] <= u[j]

LEMMA AcceptKeepsOrder ==
  ASSUME NEW u \in Seq(Nat), NEW g \in Seq(Nat), NEW n \in Nat, Ordered(u, g, n)
  PROVE  Ordered(Append(u, n + 1), g, n + 1)
<1> DEFINE v == Append(u, n + 1)
<1>1. /\ Len(u) \in Nat /\ Len(v) = Len(u) + 1 /\ Len(g) \in Nat
      /\ \A j \in 1..Len(u) : v[j] = u[j] /\ u[j] \in Nat
      /\ v[Len(u) + 1] = n + 1
      /\ \A i \in 1..Len(g) : g[i] \in Nat
  OBVIOUS
<1>2. \A j \in 1..Len(u) : u[j] <= n
  BY DEF Ordered
<1> HIDE DEF v
<1>3. \A j \in 1..Len(v) : \/ j \in 1..Len(u) /\ v[j] = u[j]
                           \/ j = Len(u) + 1 /\ v[j] = n + 1
  BY <1>1
<1>4. Ascending(v)
  <2> SUFFICES ASSUME NEW i \in 1..Len(v), NEW j \in 1..Len(v), i < j PROVE v[i] < v[j]
    BY DEF Ascending
  <2>1. i \in 1..Len(u) /\ v[i] = u[i]
    BY <1>1, <1>3
  <2>2. CASE j \in 1..Len(u) /\ v[j] = u[j]
    BY <2>1, <2>2 DEF Ordered, Ascending
  <2>3. CASE v[j] = n + 1
    BY <1>1, <1>2, <2>1, <2>3
  <2> QED BY <1>3, <2>2, <2>3
<1>5. ASSUME NEW j \in 1..Len(v) PROVE v[j] <= n + 1
  <2>1. CASE j \in 1..Len(u) /\ v[j] = u[j]
    <3>1. u[j] <= n /\ u[j] \in Nat
      BY <1>1, <1>2, <2>1
    <3> QED BY <2>1, <3>1
  <2>2. CASE v[j] = n + 1
    BY <2>2
  <2> QED BY <1>3, <2>1, <2>2
<1>6. \A i \in 1..Len(g) : g[i] <= n /\ g[i] <= n + 1
  BY <1>1 DEF Ordered
<1>7. ASSUME NEW i \in 1..Len(g), NEW j \in 1..Len(v) PROVE g[i] <= v[j]
  <2>1. CASE j \in 1..Len(u) /\ v[j] = u[j]
    BY <2>1 DEF Ordered
  <2>2. CASE v[j] = n + 1
    BY <1>6, <2>2
  <2> QED BY <1>3, <2>1, <2>2
<1> QED BY <1>4, <1>5, <1>6, <1>7 DEF Ordered, v

LEMMA ReachKeepsOrder ==
  ASSUME NEW u \in Seq(Nat), NEW g \in Seq(Nat), NEW n \in Nat, Ordered(u, g, n),
         u # <<>>, Head(u) \notin Range(g)
  PROVE  Ordered(u, Append(g, Head(u)), n)
<1> DEFINE h == Append(g, Head(u))
<1>1. /\ Len(u) \in Nat \ {0} /\ Head(u) = u[1] /\ Len(g) \in Nat /\ Len(h) = Len(g) + 1
      /\ \A j \in 1..Len(u) : u[j] \in Nat
      /\ \A i \in 1..Len(g) : h[i] = g[i] /\ g[i] \in Nat
      /\ h[Len(g) + 1] = u[1]
  OBVIOUS
<1>2. \A i \in 1..Len(g) : g[i] # u[1]
  BY <1>1 DEF Range
<1> HIDE DEF h
<1>3. 1 \in 1..Len(u) /\ \A j \in 1..Len(u) : u[1] <= u[j]
  BY <1>1 DEF Ordered, Ascending
<1>4. \A i \in 1..Len(g) : g[i] < u[1]
  BY <1>1, <1>2, <1>3 DEF Ordered
<1>5. \A i \in 1..Len(h) : \/ i \in 1..Len(g) /\ h[i] = g[i]
                           \/ i = Len(g) + 1 /\ h[i] = u[1]
  BY <1>1
<1>6. Ascending(h)
  <2> SUFFICES ASSUME NEW i \in 1..Len(h), NEW j \in 1..Len(h), i < j PROVE h[i] < h[j]
    BY DEF Ascending
  <2>1. i \in 1..Len(g) /\ h[i] = g[i]
    BY <1>1, <1>5
  <2>2. CASE j \in 1..Len(g) /\ h[j] = g[j]
    BY <2>1, <2>2 DEF Ordered, Ascending
  <2>3. CASE h[j] = u[1]
    BY <1>4, <2>1, <2>3
  <2> QED BY <1>5, <2>2, <2>3
<1>7. u[1] <= n /\ \A i \in 1..Len(g) : g[i] <= n
  BY <1>3 DEF Ordered
<1>8. \A i \in 1..Len(h) : h[i] <= n
  BY <1>5, <1>7
<1>9. ASSUME NEW i \in 1..Len(h), NEW j \in 1..Len(u) PROVE h[i] <= u[j]
  <2>1. CASE i \in 1..Len(g) /\ h[i] = g[i]
    BY <2>1 DEF Ordered
  <2>2. CASE h[i] = u[1]
    BY <1>3, <2>2
  <2> QED BY <1>5, <2>1, <2>2
<1> QED BY <1>6, <1>8, <1>9 DEF Ordered, h

\* Leaving out the first messages.
LEMMA SuffixKeepsOrder ==
  ASSUME NEW u \in Seq(Nat), NEW g \in Seq(Nat), NEW n \in Nat, Ordered(u, g, n),
         NEW k \in 1..Len(u)
  PROVE  Ordered(SubSeq(u, k + 1, Len(u)), g, n)
<1> DEFINE v == SubSeq(u, k + 1, Len(u))
<1>1. /\ Len(u) \in Nat /\ Len(v) = Len(u) - k /\ k \in Nat
      /\ \A j \in 1..Len(u) - k : v[j] = u[k + j]
  OBVIOUS
<1> HIDE DEF v
<1>2. \A j \in 1..Len(v) : k + j \in 1..Len(u) /\ v[j] = u[k + j]
  BY <1>1
<1>3. \A i, j \in 1..Len(v) : i < j => k + i < k + j
  BY <1>1
<1>4. Ascending(v)
  BY <1>2, <1>3 DEF Ordered, Ascending
<1>5. \A j \in 1..Len(v) : v[j] <= n
  BY <1>2 DEF Ordered
<1>6. \A i \in 1..Len(g), j \in 1..Len(v) : g[i] <= v[j]
  BY <1>2 DEF Ordered
<1> QED BY <1>4, <1>5, <1>6 DEF Ordered, v

OrderInv == Ordered(Unsent, log[1], accepted)

LEMMA OrderTypes ==
  ASSUME NLines = 1, FullInv
  PROVE  Unsent \in Seq(Nat) /\ log[1] \in Seq(Nat) /\ accepted \in Nat
<1>1. Msg \subseteq Nat
  BY RelayAssumption DEF Msg
<1>2. Unsent \in Seq(Msg) /\ log[1] \in Seq(Msg)
  BY LinesIsOne, BacklogType DEF FullInv, TypeInv, TypeOK, LineInv
<1>3. \A s \in Seq(Msg) : s \in Seq(Nat)
  BY <1>1, SeqMonotonic
<1> QED BY <1>2, <1>3, RelayAssumption DEF FullInv, TypeInv, TypeOK

LEMMA NextOrder ==
  ASSUME NLines = 1, FullInv, OrderInv, [Endpoint!Next]_(Endpoint!vars)
  PROVE  OrderInv'
<1> DEFINE u == Unsent  g == log[1]
<1>1. u \in Seq(Nat) /\ g \in Seq(Nat) /\ accepted \in Nat /\ Ordered(u, g, accepted)
  BY OrderTypes DEF OrderInv
<1>2. CASE UNCHANGED Endpoint!vars
  <2>1. Unsent' = Unsent /\ log'[1] = log[1] /\ accepted' = accepted
    BY <1>2 DEF Endpoint!vars, Unsent
  <2> QED BY <1>1, <2>1 DEF OrderInv
<1>3. CASE Endpoint!Accept
  <2>1. Unsent' = Append(u, accepted + 1) /\ log'[1] = g /\ accepted' = accepted + 1
    BY <1>3 DEF Endpoint!Accept, Unsent
  <2> HIDE DEF u, g
  <2> QED BY <1>1, <2>1, AcceptKeepsOrder DEF OrderInv
<1>4. CASE Endpoint!Reach
  <2>1. /\ u # <<>> /\ Head(u) \notin Range(g)
        /\ Unsent' = u /\ log'[1] = Append(g, Head(u)) /\ accepted' = accepted
    BY <1>4 DEF Endpoint!Reach, Unsent, Range, Endpoint!Range
  <2> HIDE DEF u, g
  <2> QED BY <1>1, <2>1, ReachKeepsOrder DEF OrderInv
<1>5. CASE Endpoint!Settle
  <2>1. u # <<>> /\ Unsent' = Tail(u) /\ log'[1] = g /\ accepted' = accepted
    BY <1>5 DEF Endpoint!Settle, Unsent
  <2> HIDE DEF u, g
  <2>2. 1 \in 1..Len(u) /\ Tail(u) = SubSeq(u, 1 + 1, Len(u))
    BY <1>1, <2>1
  <2> QED BY <1>1, <2>1, <2>2, SuffixKeepsOrder DEF OrderInv
<1>6. ASSUME NEW k \in 1..Len(u), NEW why \in Reasons, Endpoint!GiveUp(k, why)
      PROVE  OrderInv'
  <2>1. Unsent' = SubSeq(u, k + 1, Len(u)) /\ log'[1] = g /\ accepted' = accepted
    BY <1>6 DEF Endpoint!GiveUp, Unsent
  <2> HIDE DEF u, g
  <2> QED BY <1>1, <2>1, SuffixKeepsOrder DEF OrderInv
<1>7. Endpoint!Next =>
        \/ Endpoint!Accept \/ Endpoint!Reach \/ Endpoint!Settle
        \/ \E k \in 1..Len(u), why \in Reasons : Endpoint!GiveUp(k, why)
  BY DEF Endpoint!Next, Unsent
<1> QED BY <1>2, <1>3, <1>4, <1>5, <1>6, <1>7

\* The endpoint first gets messages in the order in which the server accepted them,
\* however many there are and however often one fails or the relay restarts.
THEOREM InOrder ==
  ASSUME NLines = 1
  PROVE  Spec => []UpstreamInOrder
<1>1. Init => FullInv /\ OrderInv
  <2>1. Init => FullInv /\ Endpoint!Init
    BY InitFull
  <2>2. Endpoint!Init => Unsent = <<>> /\ log[1] = <<>>
    BY DEF Endpoint!Init, Unsent
  <2>3. Ordered(<<>>, <<>>, accepted)
    BY DEF Ordered, Ascending
  <2> QED BY <2>1, <2>2, <2>3 DEF OrderInv
<1>2. FullInv /\ OrderInv /\ [Next]_vars => FullInv' /\ OrderInv'
  BY NextFull, NextOrder
<1>3. FullInv /\ OrderInv => UpstreamInOrder
  <2> SUFFICES ASSUME OrderInv, FullInv, NEW i \in 1..MaxMsg, NEW j \in 1..MaxMsg,
                      i < j, j <= Len(log[1])
               PROVE  log[1][i] < log[1][j]
    BY LinesIsOne DEF UpstreamInOrder
  <2>1. i \in 1..Len(log[1]) /\ j \in 1..Len(log[1])
    BY OrderTypes
  <2> QED BY <2>1 DEF OrderInv, Ordered, Ascending
<1> QED BY <1>1, <1>2, <1>3, PTL DEF Spec

-----------------------------------------------------------------------------
(* A pending message is one that libcoap waits for an answer to.           *)

\* Before its first stop the SessionManager never has an entry of a deleted Session;
\* with one start there is no other time at which messages are sent.
NoDangling ==
  /\ starts = 0 => thread = "stopped"
  /\ starts = 0 \/ thread \notin {"stopped", "crashed"} =>
       \A a \in Addr : coap_session_map[a] # Dangling

\* The PDU that the pending message waits for.
PendingIsWaiting ==
  thread # "crashed" /\ pending_message[1] # NULL =>
    \E a \in Addr : pdus[a][pending_message[1]] > 0

LEMMA NextDangling ==
  ASSUME NLines = 1, MaxStarts = 1, TypeInv, NoDangling, [Next]_vars
  PROVE  NoDangling'
<1>1. CASE UNCHANGED <<starts, coap_session_map>> /\ (starts # 0 \/ thread' = thread)
           /\ (thread' \in {"stopped", "crashed"} \/ thread \notin {"stopped", "crashed"})
  BY <1>1 DEF NoDangling
<1>2. CASE Start
  <2>1. PICK conn \in [Lines -> Addr \cup {NULL}] : ManageSession(conn)
    BY <1>2 DEF Start
  <2>2. starts = 0 /\ starts' = 1 /\ thread' = "loop"
    BY <1>2 DEF Start, TypeInv, TypeOK
  <2>3. ASSUME NEW a \in Addr PROVE coap_session_map'[a] # Dangling
    <3>1. CASE a \in Range(conn)
      <4>1. (CHOOSE l \in Lines : conn[l] = a) \in Lines
        BY <3>1 DEF Range
      <4> QED BY <2>1, <3>1, <4>1, RelayAssumption DEF ManageSession
    <3>2. CASE a \notin Range(conn)
      BY <2>1, <2>2, <3>2 DEF ManageSession, NoDangling
    <3> QED BY <3>1, <3>2
  <2> QED BY <2>2, <2>3 DEF NoDangling
<1>3. CASE Stop
  BY <1>3 DEF Stop, NoDangling
<1>4. thread # "stopped" => starts # 0
  BY DEF NoDangling
<1>5. CASE UNCHANGED vars
  BY <1>1, <1>5, <1>4 DEF vars, control, NoDangling
<1>6. CASE \E f \in Faults : Crash(f) /\ thread # "stopped"
  BY <1>4, <1>6, <1>1 DEF Crash
<1>7. CASE Insert
  BY <1>7 DEF Insert, control, NoDangling
<1>8. CASE Drain \/ DrainDone \/ RunAgain
  BY <1>1, <1>4, <1>8 DEF Drain, DrainDone, RunAgain, control
<1>9. CASE DrainCrash \/ StopCrash
  BY <1>6, <1>9, StopFaultsType DEF DrainCrash, StopCrash, Faults
<1>10. CASE \E s \in todo : Serve(s)
  <2>1. PICK s \in todo : Serve(s)
    BY <1>10
  <2>2. CASE ReconnectCrash(s) \/ TransmitCrash(s)
    BY <1>6, <2>2 DEF ReconnectCrash, TransmitCrash, Faults
  <2>3. CASE KeepConnection(s) \/ RestoreConnection(s)
    BY <1>1, <1>4, <2>3 DEF KeepConnection, RestoreConnection, Reconnect
  <2>4. CASE TransmitNothing(s) \/ TransmitSent(s) \/ TransmitFailed(s)
    BY <1>1, <1>4, <2>4 DEF TransmitNothing, TransmitSent, TransmitFailed, NextSession
  <2> QED BY <2>1, <2>2, <2>3, <2>4 DEF Serve
<1>11. CASE \E a \in Addr, p \in Pdu : Handle(a, p)
  <2>1. PICK a \in Addr, p \in Pdu : Handle(a, p)
    BY <1>11
  <2>2. CASE Deliver(a, p)
    BY <2>2 DEF Deliver, control, NoDangling
  <2>3. CASE \E accepts \in BOOLEAN : Answer(a, p, accepts)
    BY <2>3 DEF Answer, control, NoDangling
  <2>4. CASE \E lost \in BOOLEAN : Nack(a, p, lost)
    BY <2>4 DEF Nack, control, NoDangling
  <2>5. CASE HandlerCrash(a, p)
    BY <1>6, <2>5, HandlerFaultsType DEF HandlerCrash, Faults
  <2> QED BY <2>1, <2>2, <2>3, <2>4, <2>5 DEF Handle
<1>12. CASE \E a \in Addr : SendPing(a) \/ pong_handler(a)
  BY <1>12 DEF SendPing, pong_handler, control, NoDangling
<1> QED BY <1>2, <1>3, <1>5, <1>7, <1>8, <1>9, <1>10, <1>11, <1>12 DEF Next

\* A handler finds the only Session, and resets the pending message whose PDU it forgets.
LEMMA HandledIsNotPending ==
  ASSUME NLines = 1, FullInv, NoDangling, NEW a \in Addr, NEW p \in Item,
         (\E accepts \in BOOLEAN : Answer(a, p, accepts)) \/ (\E lost \in BOOLEAN : Nack(a, p, lost))
  PROVE  pending_message'[1] = NULL
<1>1. thread = "io" /\ Outstanding(a, p)
  BY DEF Answer, Nack
<1>2. p \in Msg /\ pending_message[1] # NULL /\ retransmit_queue[1] = <<>>
  BY <1>1, WaitingIsHead
<1>3. \A block1 \in HasBlock1(p) : block1
  <2>1. p # Junk
    BY <1>2, RelayAssumption
  <2> QED BY <1>2, <2>1, Zenon DEF HasBlock1
<1>4. ASSUME NEW t \in FindSession(a), t # NULL PROVE t = 1
  <2>1. coap_session_map[a] # Dangling
    BY <1>1 DEF NoDangling
  <2> QED BY <1>4, <2>1, LinesIsOne DEF FindSession, FullInv, TypeInv, TypeOK
<1>5. 1 \in Lines
  BY LinesIsOne
<1>6. CASE \E accepts \in BOOLEAN : Answer(a, p, accepts)
  <2>1. PICK t \in FindSession(a) : ~NotifyIsNull(t) /\ NotifySuccess(t)
    BY <1>3, <1>6 DEF Answer
  <2>2. t = 1
    BY <1>4, <2>1 DEF NotifyIsNull
  <2> QED BY <1>5, <2>1, <2>2 DEF NotifySuccess, FullInv, TypeInv, TypeOK
<1>7. CASE \E lost \in BOOLEAN : Nack(a, p, lost)
  <2>1. PICK t \in FindSession(a) : ~NotifyIsNull(t) /\ NotifyFailure(t)
    BY <1>3, <1>7 DEF Nack
  <2>2. t = 1
    BY <1>4, <2>1 DEF NotifyIsNull
  <2> QED BY <1>2, <1>5, <2>1, <2>2 DEF NotifyFailure, FullInv, TypeInv, TypeOK
<1> QED BY <1>6, <1>7

LEMMA PendingKept ==
  ASSUME PendingIsWaiting, UNCHANGED pending_message,
         thread = "crashed" => thread' = "crashed",
         \A a \in Addr : pdus'[a][pending_message[1]] = pdus[a][pending_message[1]]
  PROVE  PendingIsWaiting'
BY DEF PendingIsWaiting

LEMMA NextPending ==
  ASSUME NLines = 1, FullInv, NoDangling, PendingIsWaiting, [Next]_vars
  PROVE  PendingIsWaiting'
<1>1. CASE UNCHANGED vars
  BY <1>1, PendingKept DEF vars, control, queues, libcoap
<1>2. CASE Insert \/ Drain \/ DrainDone \/ RunAgain
  BY <1>2, PendingKept DEF Insert, Drain, DrainDone, RunAgain, control, queues, libcoap
<1>3. CASE \E f \in Faults : Crash(f)
  BY <1>3 DEF Crash, PendingIsWaiting
<1>4. CASE DrainCrash \/ StopCrash
  BY <1>3, <1>4, StopFaultsType DEF DrainCrash, StopCrash, Faults
<1>5. CASE \E s \in todo : Serve(s)
  <2>1. PICK s \in todo : Serve(s)
    BY <1>5
  <2>2. CASE ReconnectCrash(s) \/ TransmitCrash(s)
    BY <1>3, <2>2 DEF ReconnectCrash, TransmitCrash, Faults
  <2>3. CASE KeepConnection(s) \/ RestoreConnection(s) \/ TransmitNothing(s)
    BY <2>3, PendingKept DEF KeepConnection, RestoreConnection, TransmitNothing,
       queues, libcoap
  <2>4. CASE TransmitSent(s)
    <3> DEFINE m == NextMessage(1)  a == session[1]
    <3>1. s = 1 /\ 1 \in Lines
      BY LinesIsOne DEF FullInv, TypeInv, TypeOK
    <3>2. m \in Msg
      BY <2>4, <3>1, ExtractUnsent DEF TransmitSent
    <3>3. /\ a \in Addr /\ m \in Pdu /\ pending_message'[1] = m
          /\ pdus' = [pdus EXCEPT ![a][m] = @ + 1] /\ pdus[a][m] \in Nat
      BY <2>4, <3>1, <3>2 DEF TransmitSent, FullInv, TypeInv, TypeOK, Pdu, Item
    <3> HIDE DEF m, a
    <3>4. pdus'[a][m] > 0
      BY <3>3 DEF FullInv, TypeInv, TypeOK
    <3> QED BY <3>3, <3>4 DEF PendingIsWaiting
  <2>5. CASE TransmitFailed(s)
    BY <2>5, PendingKept DEF TransmitFailed, libcoap
  <2> QED BY <2>1, <2>2, <2>3, <2>4, <2>5 DEF Serve
<1>6. CASE \E a \in Addr, p \in Pdu : Handle(a, p)
  <2>1. PICK a \in Addr, p \in Pdu : Handle(a, p)
    BY <1>6
  <2>2. CASE HandlerCrash(a, p)
    BY <1>3, <2>2, HandlerFaultsType DEF HandlerCrash, Faults
  <2>3. CASE Deliver(a, p)
    BY <2>3, PendingKept DEF Deliver, control, queues, libcoap
  <2>4. CASE /\ p # Ping
             /\ \/ \E accepts \in BOOLEAN : Answer(a, p, accepts)
                \/ \E lost \in BOOLEAN : Nack(a, p, lost)
    BY <2>4, HandledIsNotPending DEF PendingIsWaiting, Pdu
  <2>5. CASE p = Ping /\ \E lost \in BOOLEAN : Nack(a, p, lost)
    <3>1. Outstanding(a, p) /\ Forget(a, p) /\ thread' = thread
      BY <2>5 DEF Nack, control
    <3>2. \A b \in Addr, q \in Item : pdus'[b][q] = pdus[b][q]
      BY <2>5, <3>1, ForgetPending
    <3>3. UNCHANGED pending_message
      <4>1. p # Junk /\ p \notin Msg
        BY <2>5, RelayAssumption DEF Item
      <4>2. \A block1 \in HasBlock1(p) : ~block1
        BY <4>1, Zenon DEF HasBlock1
      <4> QED BY <2>5, <4>2 DEF Nack, queues
    <3>4. pending_message[1] # NULL => pending_message[1] \in Item
      BY DEF FullInv, LineInv, NoJunk, Item
    <3> QED BY <3>1, <3>2, <3>3, <3>4 DEF PendingIsWaiting
  <2>6. CASE p = Ping /\ \E accepts \in BOOLEAN : Answer(a, p, accepts)
    BY <2>6 DEF Answer
  <2> QED BY <2>1, <2>2, <2>3, <2>4, <2>5, <2>6 DEF Handle
<1>7. CASE \E a \in Addr : SendPing(a) \/ pong_handler(a)
  <2>1. PICK a \in Addr : SendPing(a) \/ pong_handler(a)
    BY <1>7
  <2>2. UNCHANGED <<pending_message, thread>>
    BY <2>1 DEF SendPing, pong_handler, queues, control
  <2>3. ASSUME pending_message[1] # NULL, NEW b \in Addr
        PROVE  pdus'[b][pending_message[1]] = pdus[b][pending_message[1]]
    <3>1. pending_message[1] \in Item
      BY <2>3 DEF FullInv, LineInv, NoJunk, Item
    <3> QED BY <2>1, <3>1, PingTouchesNoItem
  <2> QED BY <2>2, <2>3 DEF PendingIsWaiting
<1>8. CASE Start
  <2>1. pending_message'[1] = NULL
    BY <1>8 DEF Start, queues, FullInv, LineInv, NothingWithoutSession
  <2> QED BY <2>1 DEF PendingIsWaiting
<1>9. CASE Stop
  <2>1. pending_message'[1] = NULL
    BY <1>9, LinesIsOne DEF Stop
  <2> QED BY <2>1 DEF PendingIsWaiting
<1> QED BY <1>1, <1>2, <1>4, <1>5, <1>6, <1>7, <1>8, <1>9 DEF Next

\* While the relay has been started once, Transmit never waits for an answer that
\* cannot come, nor can an answer be about another message than the pending one,
\* whatever pings, lost connections and reconnections happen.
THEOREM PendingHasItsPdu ==
  ASSUME NLines = 1, MaxStarts = 1
  PROVE  Spec => []PendingIsOutstanding
<1> DEFINE IInv == FullInv /\ NoDangling /\ PendingIsWaiting
<1>1. Init => IInv
  <2>1. Init => FullInv
    BY InitFull
  <2>2. Init => NoDangling /\ PendingIsWaiting
    BY RelayAssumption, LinesIsOne DEF Init, NoDangling, PendingIsWaiting
  <2> QED BY <2>1, <2>2
<1>2. IInv /\ [Next]_vars => IInv'
  BY NextFull, NextDangling, NextPending DEF FullInv
<1>3. IInv => PendingIsOutstanding
  <2> SUFFICES ASSUME IInv, thread # "crashed" PROVE PendingIsOutstanding
    BY DEF PendingIsOutstanding
  <2> DEFINE waiting == {x \in Addr \X Item : pdus[x[1]][x[2]] > 0}
             m == pending_message[1]
  <2>1. \A x \in waiting : x[2] = m /\ pdus[x[1]][x[2]] = 1
    BY DEF FullInv, LineInv, WaitsForPending
  <2>2. \A x, y \in waiting : x = y
    BY <2>1 DEF FullInv, LineInv, WaitsForPending
  <2>3. ASSUME m # NULL PROVE \E x \in waiting : waiting = {x}
    <3>1. m \in Item
      BY <2>3 DEF FullInv, LineInv, NoJunk, Item
    <3>2. PICK a \in Addr : pdus[a][m] > 0
      BY <2>3 DEF PendingIsWaiting
    <3>3. <<a, m>> \in waiting
      BY <3>1, <3>2
    <3> HIDE DEF waiting
    <3> QED BY <2>2, <3>3
  <2>4. ASSUME NEW x \in waiting PROVE m # NULL
    <3>1. x[2] = m /\ x[2] \in Item
      BY <2>1
    <3> QED BY <3>1, RelayAssumption DEF Pdu
  <2> HIDE DEF waiting
  <2>5. /\ \A x \in waiting : x[2] = m /\ pdus[x[1]][x[2]] = 1
        /\ m # NULL <=> \E x \in waiting : waiting = {x}
    BY <2>1, <2>3, <2>4
  <2> QED BY <2>5, LinesIsOne DEF PendingIsOutstanding, waiting
<1> QED BY <1>1, <1>2, <1>3, PTL DEF Spec
=============================================================================
