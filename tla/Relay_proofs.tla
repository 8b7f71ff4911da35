---------------------------- MODULE Relay_proofs ----------------------------
(***************************************************************************)
(* Proofs about Relay for any number of lines: type correctness, that      *)
(* Transmit stops and waits, and that what a session has still to send     *)
(* stays in order.                                                         *)
(***************************************************************************)
EXTENDS Relay, SequenceTheorems, TLAPS

\* Between two runs of the transmit loop no session is left to visit; needed
\* because Stop and Start replace the set of sessions.
AtRest == thread \in {"stopped", "loop", "drain", "io"} => todo = {}

TypeInv == TypeOK /\ AtRest

\* ReleaseSession keeps the type of the reference counts.
LEMMA ReleaseType ==
  ASSUME NEW r \in [Addr -> Nat], NEW a \in Addr \cup {NULL}
  PROVE  ReleaseSession(r, a) \in [Addr -> Nat]
BY RelayAssumption DEF ReleaseSession, Freed

\* Dropping a PDU that waits keeps the counts of PDUs natural.
LEMMA ForgetType ==
  ASSUME TypeOK, NEW a \in Addr, NEW p \in Pdu, Outstanding(a, p), Forget(a, p)
  PROVE  pdus' \in [Addr -> [Pdu -> Nat]]
BY DEF TypeOK, Outstanding, Forget

\* The message a session sends next comes out of one of its queues.
LEMMA ExtractType ==
  ASSUME TypeOK, NEW s \in Lines, ~Idle(s), Extract(s)
  PROVE  /\ NextMessage(s) \in Item
         /\ transmit_queue' \in [Lines -> Seq(Item)]
         /\ retransmit_queue' \in [Lines -> Seq(Item)]
<1>1. /\ transmit_queue[s] \in Seq(Item)
      /\ retransmit_queue[s] \in Seq(Item)
      /\ retransmit_queue[s] # <<>> \/ transmit_queue[s] # <<>>
  BY DEF TypeOK, Idle
<1>2. NextMessage(s) \in Item
  BY <1>1 DEF NextMessage
<1>3. CASE retransmit_queue[s] # <<>>
  <2>1. Tail(retransmit_queue[s]) \in Seq(Item)
    BY <1>1, <1>3
  <2> QED BY <1>2, <1>3, <2>1 DEF Extract, TypeOK
<1>4. CASE retransmit_queue[s] = <<>>
  <2>1. Tail(transmit_queue[s]) \in Seq(Item)
    BY <1>1, <1>4
  <2> QED BY <1>2, <1>4, <2>1 DEF Extract, TypeOK
<1> QED BY <1>2, <1>3, <1>4

-----------------------------------------------------------------------------
(* Type correctness, action by action.                                     *)

LEMMA InitType == Init => TypeInv
BY RelayAssumption DEF Init, TypeInv, TypeOK, AtRest, Item, Pdu, Faults

LEMMA CrashType ==
  ASSUME TypeInv, NEW f \in Faults, Crash(f)
  PROVE  TypeInv'
BY DEF TypeInv, TypeOK, AtRest, Crash, queues, link, libcoap, history

LEMMA InsertType == TypeInv /\ Insert => TypeInv'
BY RelayAssumption DEF TypeInv, TypeOK, AtRest, Insert, Msg, control, queues, link,
   libcoap, history

LEMMA DrainType == TypeInv /\ Drain => TypeInv'
<1> SUFFICES ASSUME TypeInv, Drain PROVE TypeInv'
  OBVIOUS
<1> DEFINE m == Head(msg_queue)
<1>1. m \in Msg /\ msg_queue' \in Seq(Msg)
  BY DEF TypeInv, TypeOK, Drain
<1>2. transmit_queue' \in [Lines -> Seq(Item)]
  <2>1. PICK c \in Copies(m) : EnqueueMessage(c)
    BY DEF Drain
  <2>2. c \in [sessions -> Item]
    BY <1>1 DEF Copies, Item
  <2> QED BY <2>1, <2>2 DEF EnqueueMessage, TypeInv, TypeOK
<1>3. given_up' \subseteq (Lines \X Msg \X Reasons)
  BY <1>1 DEF Drain, TypeInv, TypeOK, Reasons
<1>4. faults' \subseteq Faults
  BY DEF Drain, Note, Faults, TypeInv, TypeOK
<1> QED BY <1>1, <1>2, <1>3, <1>4 DEF TypeInv, TypeOK, AtRest, Drain, control, link, libcoap

LEMMA DrainDoneType == TypeInv /\ DrainDone => TypeInv'
BY DEF TypeInv, TypeOK, AtRest, DrainDone, queues, link, libcoap, history

LEMMA KeepConnectionType ==
  ASSUME TypeInv, NEW s \in todo, KeepConnection(s)
  PROVE  TypeInv'
BY DEF TypeInv, TypeOK, AtRest, KeepConnection, queues, link, libcoap, history

LEMMA RestoreConnectionType ==
  ASSUME TypeInv, NEW s \in todo, RestoreConnection(s)
  PROVE  TypeInv'
<1>1. s \in Lines /\ session[s] \in Addr \cup {NULL}
  BY DEF TypeInv, TypeOK
<1> DEFINE r == ReleaseSession(refs, session[s])
<1>2. r \in [Addr -> Nat]
  BY <1>1, ReleaseType DEF TypeInv, TypeOK
<1>3. PICK a \in Addr \cup {NULL} : Connect(s, a, r)
  BY DEF RestoreConnection, Reconnect
<1> HIDE DEF r
<1>4. /\ session' \in [Lines -> Addr \cup {NULL}]
      /\ disconnected' \in [Lines -> BOOLEAN]
      /\ refs' \in [Addr -> Nat]
      /\ peer' \in [Addr -> Lines \cup {NULL}]
  BY <1>1, <1>2, <1>3 DEF Connect, TypeInv, TypeOK
<1>5. faults' \subseteq Faults
  BY DEF RestoreConnection, Note, Faults, TypeInv, TypeOK
<1> QED BY <1>4, <1>5 DEF TypeInv, TypeOK, AtRest, RestoreConnection, Reconnect, queues, history

LEMMA NextSessionType ==
  ASSUME TypeInv, NEW s \in todo, NextSession(s)
  PROVE  /\ thread' \in {"connect", "io"}
         /\ todo' \subseteq sessions
         /\ thread' = "io" => todo' = {}
BY DEF NextSession, TypeInv, TypeOK

LEMMA TransmitNothingType ==
  ASSUME TypeInv, NEW s \in todo, TransmitNothing(s)
  PROVE  TypeInv'
BY NextSessionType DEF TypeInv, TypeOK, AtRest, TransmitNothing, queues, link, libcoap, history

LEMMA TransmitSentType ==
  ASSUME TypeInv, NEW s \in todo, TransmitSent(s)
  PROVE  TypeInv'
<1> DEFINE a == session[s]
<1>1. s \in Lines /\ a \in Addr
  BY DEF TypeInv, TypeOK, TransmitSent
<1>2. /\ NextMessage(s) \in Item
      /\ transmit_queue' \in [Lines -> Seq(Item)]
      /\ retransmit_queue' \in [Lines -> Seq(Item)]
  BY <1>1, ExtractType DEF TypeInv, TransmitSent
<1>3. /\ pending_message' \in [Lines -> Item \cup {NULL}]
      /\ refs' \in [Addr -> Nat]
  BY <1>1, <1>2 DEF TypeInv, TypeOK, TransmitSent
<1>4. pdus' \in [Addr -> [Pdu -> Nat]]
  <2>1. NextMessage(s) \in Pdu /\ pdus[a] \in [Pdu -> Nat]
    BY <1>1, <1>2 DEF TypeInv, TypeOK, Pdu
  <2>2. [pdus[a] EXCEPT ![NextMessage(s)] = @ + 1] \in [Pdu -> Nat]
    BY <2>1
  <2> QED BY <1>1, <2>2 DEF TypeInv, TypeOK, TransmitSent
<1>5. faults' \subseteq Faults
  BY DEF TransmitSent, Note, Faults, TypeInv, TypeOK
<1> QED BY <1>2, <1>3, <1>4, <1>5, NextSessionType
        DEF TypeInv, TypeOK, AtRest, TransmitSent, link, history

LEMMA TransmitFailedType ==
  ASSUME TypeInv, NEW s \in todo, TransmitFailed(s)
  PROVE  TypeInv'
<1>1. s \in Lines
  BY DEF TypeInv, TypeOK
<1>2. /\ transmit_queue' \in [Lines -> Seq(Item)]
      /\ retransmit_queue' \in [Lines -> Seq(Item)]
  BY <1>1, ExtractType DEF TypeInv, TransmitFailed
<1>3. given_up' \subseteq (Lines \X Msg \X Reasons)
  BY <1>1 DEF TransmitFailed, TypeInv, TypeOK, Reasons
<1>4. faults' \subseteq Faults
  BY DEF TransmitFailed, Note, Faults, TypeInv, TypeOK
<1> QED BY <1>2, <1>3, <1>4, NextSessionType
        DEF TypeInv, TypeOK, AtRest, TransmitFailed, link, libcoap

LEMMA TransmitCrashType ==
  ASSUME TypeInv, NEW s \in todo, TransmitCrash(s)
  PROVE  TypeInv'
BY CrashType DEF TransmitCrash, Faults

LEMMA DeliverType ==
  ASSUME TypeInv, NEW a \in Addr, NEW p \in Pdu, Deliver(a, p)
  PROVE  TypeInv'
<1>1. log' \in [Lines -> Seq(Msg)]
  BY DEF Deliver, TypeInv, TypeOK
<1> QED BY <1>1 DEF TypeInv, TypeOK, AtRest, Deliver, control, queues, link, libcoap

\* What a handler does to the queues of the Session it found keeps their types.
LEMMA NotifyType ==
  ASSUME TypeOK, NEW t, NotifySuccess(t) \/ NotifyFailure(t) \/ UNCHANGED queues
  PROVE  /\ transmit_queue' \in [Lines -> Seq(Item)]
         /\ retransmit_queue' \in [Lines -> Seq(Item)]
         /\ pending_message' \in [Lines -> Item \cup {NULL}]
<1>1. CASE NotifySuccess(t)
  BY <1>1 DEF NotifySuccess, TypeOK
<1>2. CASE NotifyFailure(t)
  <2>1. CASE t \in Lines /\ pending_message[t] # NULL
    <3>1. pending_message[t] \in Item /\ retransmit_queue[t] \in Seq(Item)
      BY <2>1 DEF TypeOK
    <3>2. Append(retransmit_queue[t], pending_message[t]) \in Seq(Item)
      BY <3>1
    <3> QED BY <1>2, <2>1, <3>2 DEF NotifyFailure, TypeOK
  <2>2. CASE ~(t \in Lines /\ pending_message[t] # NULL)
    BY <1>2, <2>2 DEF NotifyFailure, TypeOK, queues
  <2> QED BY <2>1, <2>2
<1>3. CASE UNCHANGED queues
  BY <1>3 DEF TypeOK, queues
<1> QED BY <1>1, <1>2, <1>3

LEMMA HandlerFaultsType ==
  ASSUME NEW a, NEW block1, NEW t, NEW released
  PROVE  HandlerFaults(a, block1, t, released) \subseteq Faults
BY DEF HandlerFaults, Faults

LEMMA AnswerType ==
  ASSUME TypeInv, NEW a \in Addr, NEW p \in Pdu, NEW accepts \in BOOLEAN,
         Answer(a, p, accepts)
  PROVE  TypeInv'
<1>1. pdus' \in [Addr -> [Pdu -> Nat]]
  BY ForgetType DEF TypeInv, Answer
<1>2. refs' \in [Addr -> Nat]
  BY ReleaseType DEF Answer, TypeInv, TypeOK
<1>3. PICK t \in FindSession(a), block1 \in HasBlock1(p) :
        /\ IF block1 THEN NotifySuccess(t) ELSE UNCHANGED queues
        /\ faults' = faults \cup HandlerFaults(a, block1, t, NULL)
        /\ given_up' = IF accepts THEN given_up
                       ELSE given_up \cup ((Lines \cap {t}) \X (Msg \cap {p}) \X {"rejected"})
  BY DEF Answer
<1>4. /\ transmit_queue' \in [Lines -> Seq(Item)]
      /\ retransmit_queue' \in [Lines -> Seq(Item)]
      /\ pending_message' \in [Lines -> Item \cup {NULL}]
  BY <1>3, NotifyType DEF TypeInv
<1>5. faults' \subseteq Faults /\ given_up' \subseteq (Lines \X Msg \X Reasons)
  BY <1>3, HandlerFaultsType DEF TypeInv, TypeOK, Reasons
<1> QED BY <1>1, <1>2, <1>4, <1>5 DEF TypeInv, TypeOK, AtRest, Answer, control, link

LEMMA NackType ==
  ASSUME TypeInv, NEW a \in Addr, NEW p \in Pdu, NEW lost \in BOOLEAN, Nack(a, p, lost)
  PROVE  TypeInv'
<1>1. pdus' \in [Addr -> [Pdu -> Nat]]
  BY ForgetType DEF TypeInv, Nack
<1>2. PICK t \in FindSession(a), block1 \in HasBlock1(p) :
        /\ disconnected' = IF lost /\ t \in Lines
                             THEN [disconnected EXCEPT ![t] = TRUE] ELSE disconnected
        /\ IF block1 THEN NotifyFailure(t) ELSE UNCHANGED queues
        /\ refs' = ReleaseSession(ReleaseSession(refs, ToRelease(t, lost)), a)
        /\ faults' = faults \cup HandlerFaults(a, block1, t, ToRelease(t, lost))
  BY DEF Nack
<1>3. /\ transmit_queue' \in [Lines -> Seq(Item)]
      /\ retransmit_queue' \in [Lines -> Seq(Item)]
      /\ pending_message' \in [Lines -> Item \cup {NULL}]
  BY <1>2, NotifyType DEF TypeInv
<1>4. refs' \in [Addr -> Nat]
  <2>1. ToRelease(t, lost) \in Addr \cup {NULL}
    BY DEF ToRelease, TypeInv, TypeOK
  <2>2. ReleaseSession(refs, ToRelease(t, lost)) \in [Addr -> Nat]
    BY <2>1, ReleaseType DEF TypeInv, TypeOK
  <2> QED BY <1>2, <2>2, ReleaseType
<1>5. faults' \subseteq Faults /\ disconnected' \in [Lines -> BOOLEAN]
  BY <1>2, HandlerFaultsType DEF TypeInv, TypeOK
<1> QED BY <1>1, <1>3, <1>4, <1>5 DEF TypeInv, TypeOK, AtRest, Nack, control, history

LEMMA HandlerCrashType ==
  ASSUME TypeInv, NEW a \in Addr, NEW p \in Pdu, HandlerCrash(a, p)
  PROVE  TypeInv'
<1>1. PICK f \in Faults : Crash(f)
  BY HandlerFaultsType DEF HandlerCrash, Faults
<1> QED BY <1>1, CrashType

LEMMA SendPingType ==
  ASSUME TypeInv, NEW a \in Addr, SendPing(a)
  PROVE  TypeInv'
<1>1. Ping \in Pdu /\ pdus[a] \in [Pdu -> Nat]
  BY DEF Pdu, TypeInv, TypeOK
<1>2. pdus' \in [Addr -> [Pdu -> Nat]]
  <2>1. [pdus[a] EXCEPT ![Ping] = 1] \in [Pdu -> Nat]
    BY <1>1
  <2> QED BY <2>1 DEF SendPing, TypeInv, TypeOK
<1>3. refs' \in [Addr -> Nat]
  BY DEF SendPing, TypeInv, TypeOK
<1> QED BY <1>2, <1>3
        DEF TypeInv, TypeOK, AtRest, SendPing, control, queues, link, history

LEMMA PongType ==
  ASSUME TypeInv, NEW a \in Addr, pong_handler(a)
  PROVE  TypeInv'
<1>1. pdus' \in [Addr -> [Pdu -> Nat]]
  BY ForgetType DEF pong_handler, TypeInv, Pdu
<1>2. refs' \in [Addr -> Nat]
  BY ReleaseType DEF pong_handler, TypeInv, TypeOK
<1> QED BY <1>1, <1>2
        DEF TypeInv, TypeOK, AtRest, pong_handler, control, queues, link, history

LEMMA RunAgainType == TypeInv /\ RunAgain => TypeInv'
BY DEF TypeInv, TypeOK, AtRest, RunAgain, queues, link, libcoap, history

LEMMA StartType == TypeInv /\ Start => TypeInv'
<1> SUFFICES ASSUME TypeInv, Start PROVE TypeInv'
  OBVIOUS
<1>1. PICK conn \in [Lines -> Addr \cup {NULL}] :
        /\ sessions' = {l \in Lines : conn[l] # NULL}
        /\ session' = conn
        /\ ManageSession(conn)
        /\ refs' = [a \in Addr |-> IF a \in Range(conn) THEN 1 ELSE 0]
        /\ peer' = [a \in Addr |-> IF a \in Range(conn)
                                   THEN CHOOSE l \in Lines : conn[l] = a ELSE NULL]
  BY DEF Start
<1>2. \A a \in Range(conn) : (CHOOSE l \in Lines : conn[l] = a) \in Lines
  BY DEF Range
<1>3. /\ coap_session_map' \in [Addr -> Lines \cup {Dangling, NULL}]
      /\ peer' \in [Addr -> Lines \cup {NULL}]
  BY <1>1, <1>2 DEF ManageSession, TypeInv, TypeOK
<1>4. refs' \in [Addr -> Nat] /\ sessions' \subseteq Lines
  BY <1>1
<1>5. disconnected' \in [Lines -> BOOLEAN] /\ starts' \in 0..MaxStarts
  BY RelayAssumption DEF Start, TypeInv, TypeOK
<1>6. todo' = {} /\ thread' = "loop"
  BY DEF Start, TypeInv, AtRest
<1> QED BY <1>1, <1>3, <1>4, <1>5, <1>6 DEF TypeInv, TypeOK, AtRest, Start, queues, history

LEMMA StopFaultsType == StopFaults \subseteq Faults
BY DEF StopFaults, Faults

LEMMA StopType == TypeInv /\ Stop => TypeInv'
<1> SUFFICES ASSUME TypeInv, Stop PROVE TypeInv'
  OBVIOUS
<1>1. coap_session_map' \in [Addr -> Lines \cup {Dangling, NULL}]
  BY DEF Stop, remove_all_sessions
<1>2. /\ transmit_queue' \in [Lines -> Seq(Item)]
      /\ retransmit_queue' \in [Lines -> Seq(Item)]
      /\ pending_message' \in [Lines -> Item \cup {NULL}]
      /\ session' \in [Lines -> Addr \cup {NULL}]
      /\ disconnected' \in [Lines -> BOOLEAN]
  BY DEF Stop
<1>3. /\ refs' \in [Addr -> Nat]
      /\ pdus' \in [Addr -> [Pdu -> Nat]]
      /\ peer' \in [Addr -> Lines \cup {NULL}]
  BY DEF Stop
<1>4. given_up' \subseteq (Lines \X Msg \X Reasons)
  BY DEF Stop, TypeInv, TypeOK, Reasons
<1>5. faults' \subseteq Faults
  BY StopFaultsType DEF Stop, TypeInv, TypeOK
<1>6. todo' = {} /\ thread' = "stopped"
  BY DEF Stop, TypeInv, AtRest
<1> QED BY <1>1, <1>2, <1>3, <1>4, <1>5, <1>6 DEF TypeInv, TypeOK, AtRest, Stop

\* TypeInv is inductive.
LEMMA NextType == TypeInv /\ [Next]_vars => TypeInv'
<1> SUFFICES ASSUME TypeInv, [Next]_vars PROVE TypeInv'
  OBVIOUS
<1>1. CASE UNCHANGED vars
  BY <1>1 DEF TypeInv, TypeOK, AtRest, vars, control, queues, link, libcoap, history
<1>2. CASE Insert
  BY <1>2, InsertType
<1>3. CASE Drain \/ DrainDone
  BY <1>3, DrainType, DrainDoneType
<1>4. CASE DrainCrash \/ StopCrash
  BY <1>4, CrashType, StopFaultsType DEF DrainCrash, StopCrash, Faults
<1>5. CASE \E s \in todo : Serve(s)
  <2>1. PICK s \in todo : Serve(s)
    BY <1>5
  <2>2. CASE ReconnectCrash(s)
    BY <2>2, CrashType DEF ReconnectCrash, Faults
  <2> QED BY <2>1, <2>2, KeepConnectionType, RestoreConnectionType, TransmitNothingType,
             TransmitSentType, TransmitFailedType, TransmitCrashType DEF Serve
<1>6. CASE \E a \in Addr, p \in Pdu : Handle(a, p)
  BY <1>6, DeliverType, AnswerType, NackType, HandlerCrashType DEF Handle
<1>7. CASE \E a \in Addr : SendPing(a) \/ pong_handler(a)
  BY <1>7, SendPingType, PongType
<1>8. CASE RunAgain
  BY <1>8, RunAgainType
<1>9. CASE Start \/ Stop
  BY <1>9, StartType, StopType
<1> QED BY <1>1, <1>2, <1>3, <1>4, <1>5, <1>6, <1>7, <1>8, <1>9 DEF Next

\* Every variable keeps its type, queues hold messages or freed ones, and the loops
\* of run visit only sessions that exist.
THEOREM TypeCorrect == Spec => []TypeInv
BY InitType, NextType, PTL DEF Spec

THEOREM TypeSafe == Spec => []TypeOK
BY TypeCorrect, PTL DEF TypeInv
-----------------------------------------------------------------------------
(* Stop and wait.                                                          *)

LEMMA StopAndWaitUnchanged ==
  ASSUME StopAndWait, UNCHANGED <<pending_message, retransmit_queue>>
  PROVE  StopAndWait'
BY DEF StopAndWait

\* Extracting with no message pending leaves retransmit_queue empty: it held one
\* message at most, and is served first.
LEMMA ExtractEmpties ==
  ASSUME TypeOK, StopAndWait, NEW s \in Lines, Extract(s)
  PROVE  /\ retransmit_queue'[s] = <<>>
         /\ \A l \in Lines \ {s} : retransmit_queue'[l] = retransmit_queue[l]
<1>1. retransmit_queue[s] \in Seq(Item) /\ Len(retransmit_queue[s]) <= 1
  BY DEF TypeOK, StopAndWait
<1>2. CASE retransmit_queue[s] # <<>>
  <2> DEFINE q == retransmit_queue[s]
  <2>1. q \in Seq(Item) /\ q # <<>> /\ Len(q) <= 1
    BY <1>1, <1>2
  <2> HIDE DEF q
  <2>2. Len(q) \in Nat \ {0}
    BY <2>1, EmptySeq
  <2>3. Tail(q) \in Seq(Item) /\ Len(Tail(q)) = Len(q) - 1
    BY <2>1, HeadTailProperties
  <2>4. Len(Tail(q)) = 0
    BY <2>1, <2>2, <2>3
  <2>5. Tail(q) = <<>>
    BY <2>3, <2>4, EmptySeq
  <2> QED BY <1>2, <2>5 DEF Extract, TypeOK, q
<1>3. CASE retransmit_queue[s] = <<>>
  BY <1>3 DEF Extract
<1> QED BY <1>2, <1>3

LEMMA TransmitWaits ==
  ASSUME TypeOK, StopAndWait, NEW s \in Lines, TransmitSent(s) \/ TransmitFailed(s)
  PROVE  StopAndWait'
<1>1. Extract(s)
  BY DEF TransmitSent, TransmitFailed
<1>2. \A l \in Lines \ {s} : pending_message'[l] = pending_message[l]
  BY DEF TransmitSent, TransmitFailed, TypeOK
<1> QED BY <1>1, <1>2, ExtractEmpties DEF StopAndWait

\* NotifySuccess empties pending_message; NotifyFailure moves it to a
\* retransmit_queue that was empty because there was a pending message.
LEMMA NotifyWaits ==
  ASSUME TypeOK, StopAndWait, NEW t,
         NotifySuccess(t) \/ NotifyFailure(t) \/ UNCHANGED queues
  PROVE  StopAndWait'
<1>1. CASE NotifySuccess(t)
  BY <1>1 DEF NotifySuccess, StopAndWait, TypeOK
<1>2. CASE NotifyFailure(t)
  <2>1. CASE t \in Lines /\ pending_message[t] # NULL
    <3>1. retransmit_queue[t] = <<>> /\ pending_message[t] \in Item
      BY <2>1 DEF StopAndWait, TypeOK
    <3>2. Len(Append(retransmit_queue[t], pending_message[t])) = 1
      BY <3>1
    <3> QED BY <1>2, <2>1, <3>2 DEF NotifyFailure, StopAndWait, TypeOK
  <2>2. CASE ~(t \in Lines /\ pending_message[t] # NULL)
    BY <1>2, <2>2, StopAndWaitUnchanged DEF NotifyFailure, queues
  <2> QED BY <2>1, <2>2
<1>3. CASE UNCHANGED queues
  BY <1>3, StopAndWaitUnchanged DEF queues
<1> QED BY <1>1, <1>2, <1>3

LEMMA NextWaits == TypeOK /\ StopAndWait /\ [Next]_vars => StopAndWait'
<1> SUFFICES ASSUME TypeOK, StopAndWait, [Next]_vars PROVE StopAndWait'
  OBVIOUS
<1> USE StopAndWaitUnchanged DEF queues
<1>1. CASE UNCHANGED vars
  BY <1>1 DEF vars
<1>2. CASE Insert \/ Drain \/ DrainDone \/ RunAgain \/ Start
  BY <1>2 DEF Insert, Drain, DrainDone, RunAgain, Start
<1>3. CASE DrainCrash \/ StopCrash
  BY <1>3 DEF DrainCrash, StopCrash, Crash
<1>4. CASE \E s \in todo : Serve(s)
  <2>1. PICK s \in todo : Serve(s)
    BY <1>4
  <2>2. s \in Lines
    BY DEF TypeOK
  <2>3. CASE KeepConnection(s) \/ RestoreConnection(s) \/ TransmitNothing(s)
    BY <2>3 DEF KeepConnection, RestoreConnection, TransmitNothing
  <2>4. CASE ReconnectCrash(s) \/ TransmitCrash(s)
    BY <2>4 DEF ReconnectCrash, TransmitCrash, Crash
  <2>5. CASE TransmitSent(s) \/ TransmitFailed(s)
    BY <2>2, <2>5, TransmitWaits
  <2> QED BY <2>1, <2>3, <2>4, <2>5 DEF Serve
<1>5. CASE \E a \in Addr, p \in Pdu : Handle(a, p)
  <2>1. PICK a \in Addr, p \in Pdu : Handle(a, p)
    BY <1>5
  <2>2. CASE Deliver(a, p)
    BY <2>2 DEF Deliver
  <2>3. CASE \E accepts \in BOOLEAN : Answer(a, p, accepts)
    BY <2>3, NotifyWaits DEF Answer
  <2>4. CASE \E lost \in BOOLEAN : Nack(a, p, lost)
    BY <2>4, NotifyWaits DEF Nack
  <2>5. CASE HandlerCrash(a, p)
    BY <2>5 DEF HandlerCrash, Crash
  <2> QED BY <2>1, <2>2, <2>3, <2>4, <2>5 DEF Handle
<1>6. CASE \E a \in Addr : SendPing(a) \/ pong_handler(a)
  BY <1>6 DEF SendPing, pong_handler
<1>7. CASE Stop
  BY <1>7 DEF Stop, StopAndWait
<1> QED BY <1>1, <1>2, <1>3, <1>4, <1>5, <1>6, <1>7 DEF Next

\* Whatever the number of lines, and whatever libcoap and freed memory do to the
\* sessions, each keeps to one message at a time and a failed one is next.
THEOREM OneAtATime == Spec => []StopAndWait
<1>1. Init => StopAndWait
  BY DEF Init, StopAndWait
<1> QED BY <1>1, NextWaits, TypeSafe, PTL DEF Spec
-----------------------------------------------------------------------------
(* The order in which each session sends.                                  *)

Ascends(s) ==
  \A i, j \in 1..Len(s) : i < j /\ s[i] \in Msg /\ s[j] \in Msg => s[i] < s[j]

\* m is older than all of s.
Before(m, s) == \A j \in 1..Len(s) : m \in Msg /\ s[j] \in Msg => m < s[j]

\* What Session l sends before its transmit_queue.
Held(l) == {retransmit_queue[l][i] : i \in 1..Len(retransmit_queue[l])}
             \cup {pending_message[l]}

Waiting(l) == {transmit_queue[l][i] : i \in 1..Len(transmit_queue[l])}

\* Each place holds messages older than those of the places behind it.
LineAges(l) ==
  /\ Ascends(transmit_queue[l])
  /\ \A m \in Held(l) : Before(m, transmit_queue[l])
  /\ \A m \in Held(l) \cup Waiting(l) :
       Before(m, msg_queue) /\ (m \in Msg => m <= accepted)

Ages ==
  /\ Ascends(msg_queue) /\ \A i \in 1..Len(msg_queue) : msg_queue[i] <= accepted
  /\ \A l \in Lines : LineAges(l)

LEMMA AppendAscends ==
  ASSUME NEW S, NEW s \in Seq(S), NEW m \in S, Ascends(s),
         \A i \in 1..Len(s) : s[i] \in Msg /\ m \in Msg => s[i] < m
  PROVE  Ascends(Append(s, m))
<1>1. /\ Len(Append(s, m)) = Len(s) + 1 /\ Len(s) \in Nat
      /\ \A i \in 1..Len(s) : Append(s, m)[i] = s[i]
      /\ Append(s, m)[Len(s) + 1] = m
  OBVIOUS
<1> QED BY <1>1 DEF Ascends

LEMMA AppendBefore ==
  ASSUME NEW S, NEW s \in Seq(S), NEW m \in S, NEW n, Before(n, s),
         n \in Msg /\ m \in Msg => n < m
  PROVE  Before(n, Append(s, m))
<1>1. /\ Len(Append(s, m)) = Len(s) + 1 /\ Len(s) \in Nat
      /\ \A i \in 1..Len(s) : Append(s, m)[i] = s[i]
      /\ Append(s, m)[Len(s) + 1] = m
  OBVIOUS
<1> QED BY <1>1 DEF Before

\* What a sequence without its head keeps.
LEMMA TailKeeps ==
  ASSUME NEW S, NEW s \in Seq(S), s # <<>>
  PROVE  /\ Head(s) \in S /\ Tail(s) \in Seq(S)
         /\ Ascends(s) => Ascends(Tail(s)) /\ Before(Head(s), Tail(s))
         /\ \A n : Before(n, s) => Before(n, Tail(s)) /\ (n \in Msg /\ Head(s) \in Msg => n < Head(s))
         /\ \A i \in 1..Len(Tail(s)) : \E j \in 1..Len(s) : Tail(s)[i] = s[j]
         /\ \E j \in 1..Len(s) : Head(s) = s[j]
<1> DEFINE t == Tail(s)
<1>1. /\ Head(s) \in S /\ t \in Seq(S) /\ Len(s) \in Nat \ {0} /\ Len(t) = Len(s) - 1
      /\ Head(s) = s[1] /\ \A i \in 1..Len(t) : t[i] = s[i + 1]
  OBVIOUS
<1> HIDE DEF t
<1>2. ASSUME Ascends(s) PROVE Ascends(t) /\ Before(Head(s), t)
  <2>1. ASSUME NEW i \in 1..Len(t), NEW j \in 1..Len(t), i < j, t[i] \in Msg, t[j] \in Msg
        PROVE  t[i] < t[j]
    <3>1. i + 1 \in 1..Len(s) /\ j + 1 \in 1..Len(s) /\ i + 1 < j + 1
      BY <1>1, <2>1
    <3> QED BY <1>1, <1>2, <2>1, <3>1 DEF Ascends
  <2>2. ASSUME NEW j \in 1..Len(t), Head(s) \in Msg, t[j] \in Msg PROVE Head(s) < t[j]
    <3>1. 1 \in 1..Len(s) /\ j + 1 \in 1..Len(s) /\ 1 < j + 1
      BY <1>1
    <3> QED BY <1>1, <1>2, <2>2, <3>1 DEF Ascends
  <2> QED BY <2>1, <2>2 DEF Ascends, Before
<1>3. \A n : Before(n, s) => Before(n, t) /\ (n \in Msg /\ Head(s) \in Msg => n < Head(s))
  BY <1>1 DEF Before
<1>4. \A i \in 1..Len(t) : \E j \in 1..Len(s) : t[i] = s[j]
  BY <1>1
<1> QED BY <1>1, <1>2, <1>3, <1>4 DEF t

LEMMA ConcatAscends ==
  ASSUME NEW S, NEW s \in Seq(S), NEW t \in Seq(S), Ascends(s), Ascends(t),
         \A i \in 1..Len(s) : Before(s[i], t)
  PROVE  /\ s \o t \in Seq(S) /\ Ascends(s \o t)
         /\ \A i \in 1..Len(s \o t) :
              \/ \E j \in 1..Len(s) : (s \o t)[i] = s[j]
              \/ \E j \in 1..Len(t) : (s \o t)[i] = t[j]
<1> DEFINE c == s \o t
<1>1. /\ c \in Seq(S) /\ Len(c) = Len(s) + Len(t) /\ Len(s) \in Nat /\ Len(t) \in Nat
      /\ \A i \in 1..Len(s) + Len(t) : c[i] = IF i <= Len(s) THEN s[i] ELSE t[i - Len(s)]
  BY ConcatProperties
<1> HIDE DEF c
<1>2. Ascends(c)
  <2> SUFFICES ASSUME NEW i \in 1..Len(c), NEW j \in 1..Len(c), i < j, c[i] \in Msg, c[j] \in Msg
               PROVE  c[i] < c[j]
    BY DEF Ascends
  <2>1. CASE j <= Len(s)
    BY <1>1, <2>1 DEF Ascends
  <2>2. CASE i > Len(s)
    <3>1. i - Len(s) \in 1..Len(t) /\ j - Len(s) \in 1..Len(t) /\ i - Len(s) < j - Len(s)
      BY <1>1, <2>2
    <3>2. c[i] = t[i - Len(s)] /\ c[j] = t[j - Len(s)]
      BY <1>1, <2>2
    <3> QED BY <3>1, <3>2 DEF Ascends
  <2>3. CASE i <= Len(s) /\ j > Len(s)
    <3>1. i \in 1..Len(s) /\ j - Len(s) \in 1..Len(t)
      BY <1>1, <2>3
    <3>2. c[i] = s[i] /\ c[j] = t[j - Len(s)]
      BY <1>1, <2>3
    <3> QED BY <3>1, <3>2 DEF Before
  <2> QED BY <1>1, <2>1, <2>2, <2>3
<1>3. ASSUME NEW i \in 1..Len(c)
      PROVE  (\E j \in 1..Len(s) : c[i] = s[j]) \/ (\E j \in 1..Len(t) : c[i] = t[j])
  <2>1. CASE i <= Len(s)
    BY <1>1, <2>1
  <2>2. CASE i > Len(s)
    <3>1. i - Len(s) \in 1..Len(t) /\ c[i] = t[i - Len(s)]
      BY <1>1, <2>2
    <3> QED BY <3>1
  <2> QED BY <1>1, <2>1, <2>2
<1> QED BY <1>1, <1>2, <1>3 DEF c

\* The ages of the places are what SendsInOrder needs.
LEMMA AgesSuffice == TypeOK /\ StopAndWait /\ Ages => SendsInOrder
<1> SUFFICES ASSUME TypeOK, StopAndWait, Ages, NEW l \in Lines
             PROVE  Ascends(Backlog(l) \o msg_queue)
  BY DEF SendsInOrder, Ascends
<1> DEFINE R == retransmit_queue[l]  P == Pending(l)  T == transmit_queue[l]
           M == Item \cup {NULL}  F == R \o P  B == F \o T
<1>1. /\ R \in Seq(M) /\ T \in Seq(M) /\ msg_queue \in Seq(M) /\ P \in Seq(M)
      /\ Len(R) <= 1 /\ Len(P) <= 1 /\ Len(R) \in Nat /\ Len(P) \in Nat
      /\ P # <<>> => R = <<>> /\ P[1] = pending_message[l]
  <2>1. R \in Seq(Item) /\ T \in Seq(Item) /\ msg_queue \in Seq(Msg)
    BY DEF TypeOK
  <2>2. Msg \subseteq M /\ Item \subseteq M
    BY DEF Item
  <2>3. R \in Seq(M) /\ T \in Seq(M) /\ msg_queue \in Seq(M)
    BY <2>1, <2>2
  <2>4. pending_message[l] \in M
    BY DEF TypeOK
  <2>5. P \in Seq(M) /\ Len(P) <= 1 /\ (P # <<>> => P[1] = pending_message[l])
    BY <2>4 DEF Pending
  <2>6. Len(R) <= 1 /\ (P # <<>> => R = <<>>)
    BY DEF StopAndWait, Pending
  <2> QED BY <2>3, <2>5, <2>6
<1>2. \A i \in 1..Len(R) : R[i] \in Held(l)
  BY DEF Held
<1>3. \A i \in 1..Len(P) : P[i] \in Held(l)
  <2>1. pending_message[l] \in Held(l)
    BY DEF Held
  <2> QED BY <1>1, <2>1
<1>4. \A i \in 1..Len(T) : T[i] \in Waiting(l)
  BY DEF Waiting
<1>5. /\ Ascends(T) /\ Ascends(msg_queue) /\ \A m \in Held(l) : Before(m, T)
      /\ \A m \in Held(l) \cup Waiting(l) : Before(m, msg_queue)
  BY DEF Ages, LineAges
<1>6. Ascends(R) /\ Ascends(P) /\ \A i \in 1..Len(R) : Before(R[i], P)
  <2>1. Len(P) = 0 \/ Len(R) = 0
    BY <1>1
  <2> QED BY <1>1, <2>1 DEF Ascends, Before
<1> HIDE DEF R, P, T, M
<1>7. /\ F \in Seq(M) /\ Ascends(F)
      /\ \A i \in 1..Len(F) : (\E j \in 1..Len(R) : F[i] = R[j]) \/ (\E j \in 1..Len(P) : F[i] = P[j])
  BY <1>1, <1>6, ConcatAscends
<1>8. \A i \in 1..Len(F) : F[i] \in Held(l)
  BY <1>2, <1>3, <1>7
<1> HIDE DEF F
<1>9. /\ B \in Seq(M) /\ Ascends(B)
      /\ \A i \in 1..Len(B) : (\E j \in 1..Len(F) : B[i] = F[j]) \/ (\E j \in 1..Len(T) : B[i] = T[j])
  BY <1>1, <1>5, <1>7, <1>8, ConcatAscends
<1>10. \A i \in 1..Len(B) : B[i] \in Held(l) \cup Waiting(l)
  BY <1>4, <1>8, <1>9
<1> HIDE DEF B
<1>11. Ascends(B \o msg_queue)
  BY <1>1, <1>5, <1>9, <1>10, ConcatAscends
<1> QED BY <1>11 DEF B, F, R, P, T, Backlog

\* What leaves the queues as they are, or takes from what a Session holds.
LEMMA AgesKept ==
  ASSUME TypeOK, Ages, UNCHANGED <<msg_queue, accepted, transmit_queue>>,
         \A l \in Lines : Held(l)' \subseteq Held(l) \cup {NULL}
  PROVE  Ages'
<1>1. NULL \notin Msg
  BY RelayAssumption DEF Pdu, Item
<1>2. ASSUME NEW l \in Lines PROVE LineAges(l)'
  <2>1. Waiting(l)' = Waiting(l)
    BY DEF Waiting
  <2>2. \A m \in Held(l)' : Before(m, transmit_queue[l])
    BY <1>1 DEF Ages, LineAges, Before
  <2>3. \A m \in Held(l)' \cup Waiting(l) : Before(m, msg_queue) /\ (m \in Msg => m <= accepted)
    BY <1>1 DEF Ages, LineAges, Before
  <2>4. /\ transmit_queue'[l] = transmit_queue[l] /\ msg_queue' = msg_queue
        /\ accepted' = accepted /\ Ascends(transmit_queue[l])
    BY DEF Ages, LineAges
  <2>5. Ascends(transmit_queue'[l])
    BY <2>4
  <2>6. \A m \in Held(l)' : Before(m, transmit_queue'[l])
    BY <2>2, <2>4
  <2>7. \A m \in Held(l)' \cup Waiting(l)' : Before(m, msg_queue') /\ (m \in Msg => m <= accepted')
    BY <2>1, <2>3, <2>4
  <2> QED BY <2>5, <2>6, <2>7 DEF LineAges, Ascends, Before
<1> QED BY <1>2 DEF Ages, Ascends

LEMMA AgesUnchanged ==
  ASSUME TypeOK, Ages, UNCHANGED <<msg_queue, accepted, queues>>
  PROVE  Ages'
<1>1. \A l \in Lines : Held(l)' \subseteq Held(l) \cup {NULL}
  BY DEF Held, queues
<1> QED BY <1>1, AgesKept DEF queues

\* The new message is newer than all.
LEMMA InsertAges == TypeOK /\ Ages /\ Insert => Ages'
<1> SUFFICES ASSUME TypeOK, Ages, Insert PROVE Ages'
  OBVIOUS
<1> DEFINE m == accepted + 1
<1>1. /\ msg_queue \in Seq(Msg) /\ m \in Msg /\ accepted \in Nat
      /\ msg_queue' = Append(msg_queue, m) /\ accepted' = m
      /\ UNCHANGED queues
  BY RelayAssumption DEF TypeOK, Insert, Msg
<1>2. \A i \in 1..Len(msg_queue) : msg_queue[i] <= accepted /\ msg_queue[i] \in Int
  <2>1. ASSUME NEW i \in 1..Len(msg_queue) PROVE msg_queue[i] \in Msg
    BY <1>1
  <2>2. Msg \subseteq Int
    BY RelayAssumption DEF Msg
  <2> QED BY <2>1, <2>2 DEF Ages
<1>3. Ascends(Append(msg_queue, m))
  <2>1. \A i \in 1..Len(msg_queue) : msg_queue[i] < m
    BY <1>1, <1>2
  <2> QED BY <1>1, <2>1, AppendAscends DEF Ages
<1>4. \A i \in 1..Len(msg_queue') : msg_queue'[i] <= m
  BY <1>1, <1>2
<1>5. ASSUME NEW l \in Lines PROVE LineAges(l)'
  <2>1. Waiting(l)' = Waiting(l) /\ Held(l)' = Held(l) /\ transmit_queue'[l] = transmit_queue[l]
    BY <1>1 DEF Waiting, Held, queues
  <2>2. ASSUME NEW n \in Held(l) \cup Waiting(l)
        PROVE  Before(n, Append(msg_queue, m)) /\ (n \in Msg => n <= m)
    <3>1. Before(n, msg_queue) /\ (n \in Msg => n <= accepted /\ n \in Int)
      BY DEF Ages, LineAges, Msg
    <3> QED BY <1>1, <3>1, AppendBefore
  <2>3. Ascends(transmit_queue[l]) /\ \A n \in Held(l) : Before(n, transmit_queue[l])
    BY DEF Ages, LineAges
  <2> HIDE DEF m
  <2> QED BY <1>1, <2>1, <2>2, <2>3 DEF LineAges, Ascends, Before
<1> QED BY <1>1, <1>3, <1>4, <1>5 DEF Ages, Ascends

\* The oldest of msg_queue becomes the newest of each Session, or is freed there.
LEMMA DrainAges == TypeOK /\ Ages /\ Drain => Ages'
<1> SUFFICES ASSUME TypeOK, Ages, Drain PROVE Ages'
  OBVIOUS
<1> DEFINE m == Head(msg_queue)  q == Tail(msg_queue)
<1>1. /\ msg_queue \in Seq(Msg) /\ msg_queue # <<>> /\ msg_queue' = q /\ accepted' = accepted
      /\ UNCHANGED <<retransmit_queue, pending_message>>
  BY DEF TypeOK, Drain
<1>2. /\ m \in Msg /\ q \in Seq(Msg) /\ Ascends(q) /\ Before(m, q) /\ m <= accepted
      /\ \A i \in 1..Len(q) : q[i] <= accepted
      /\ \A n : Before(n, msg_queue) => Before(n, q) /\ (n \in Msg => n < m)
  BY <1>1, TailKeeps DEF Ages
<1>3. PICK c \in Copies(m) : EnqueueMessage(c)
  BY DEF Drain
<1> HIDE DEF m, q
<1>4. ASSUME NEW l \in Lines PROVE LineAges(l)'
  <2> DEFINE T == transmit_queue[l]
  <2>1. /\ Held(l)' = Held(l) /\ T \in Seq(Item)
        /\ Ascends(T) /\ \A n \in Held(l) : Before(n, T)
        /\ \A n \in Held(l) \cup Waiting(l) :
             Before(n, q) /\ (n \in Msg => n < m) /\ (n \in Msg => n <= accepted)
    BY <1>1, <1>2 DEF Ages, LineAges, Held, TypeOK
  <2>2. CASE l \in sessions
    <3>1. c[l] \in {m, Junk} /\ transmit_queue'[l] = Append(T, c[l]) /\ c[l] \in Item
      BY <1>2, <1>3, <2>2 DEF Copies, EnqueueMessage, Item
    <3> DEFINE x == c[l]
    <3>2. /\ Before(x, q) /\ (x \in Msg => x <= accepted)
          /\ \A n \in Held(l) \cup Waiting(l) : n \in Msg /\ x \in Msg => n < x
      BY <1>2, <2>1, <3>1, RelayAssumption DEF Before
    <3>3. \A i \in 1..Len(T) : T[i] \in Waiting(l)
      BY DEF Waiting
    <3> HIDE DEF T, x
    <3>4. x \in Item /\ transmit_queue'[l] = Append(T, x)
      BY <3>1 DEF x
    <3>5. Ascends(Append(T, x))
      BY <2>1, <3>2, <3>3, <3>4, AppendAscends
    <3>6. \A n \in Held(l) : Before(n, Append(T, x))
      BY <2>1, <3>2, <3>4, AppendBefore
    <3>7. Waiting(l)' \subseteq Waiting(l) \cup {x}
      BY <2>1, <3>4 DEF Waiting, T
    <3>8. \A n \in Held(l)' \cup Waiting(l)' : Before(n, q) /\ (n \in Msg => n <= accepted)
      BY <2>1, <3>2, <3>7
    <3>9. Ascends(transmit_queue'[l]) /\ \A n \in Held(l)' : Before(n, transmit_queue'[l])
      BY <2>1, <3>4, <3>5, <3>6
    <3> QED BY <1>1, <3>8, <3>9 DEF LineAges, Ascends, Before
  <2>3. CASE l \notin sessions
    <3>1. transmit_queue'[l] = T
      BY <1>3, <2>3 DEF EnqueueMessage
    <3>2. Waiting(l)' = Waiting(l)
      BY <3>1 DEF Waiting
    <3> QED BY <1>1, <2>1, <3>1, <3>2 DEF LineAges, Ascends, Before
  <2> QED BY <2>2, <2>3
<1> QED BY <1>1, <1>2, <1>4 DEF Ages, Ascends

\* A Session takes the oldest message it has.
LEMMA TransmitAges ==
  ASSUME TypeOK, StopAndWait, Ages, NEW s \in Lines, TransmitSent(s) \/ TransmitFailed(s)
  PROVE  Ages'
<1> DEFINE T == transmit_queue[s]  R == retransmit_queue[s]  m == NextMessage(s)
<1>1. /\ Extract(s) /\ ~Idle(s) /\ UNCHANGED <<msg_queue, accepted>>
      /\ T \in Seq(Item) /\ R \in Seq(Item) /\ retransmit_queue'[s] = <<>>
      /\ \A l \in Lines \ {s} : retransmit_queue'[l] = retransmit_queue[l]
      /\ \/ pending_message' = [pending_message EXCEPT ![s] = m]
         \/ UNCHANGED pending_message /\ pending_message[s] = NULL
  BY ExtractEmpties DEF TransmitSent, TransmitFailed, TypeOK, Idle
<1>2. \A l \in Lines \ {s} : transmit_queue'[l] = transmit_queue[l] /\ pending_message'[l] = pending_message[l]
  BY <1>1 DEF Extract, TypeOK
<1>3. Held(s)' \subseteq {m, NULL}
  BY <1>1 DEF Held, TypeOK
<1>4. NULL \notin Msg
  BY RelayAssumption DEF Pdu, Item
<1>5. ASSUME NEW l \in Lines \ {s} PROVE LineAges(l)'
  <2>1. Held(l)' = Held(l) /\ Waiting(l)' = Waiting(l)
    BY <1>1, <1>2 DEF Held, Waiting
  <2> QED BY <1>1, <1>2, <2>1 DEF Ages, LineAges, Ascends, Before
<1>6. LineAges(s)'
  <2>1. /\ Ascends(T) /\ \A n \in Held(s) : Before(n, T)
        /\ \A n \in Held(s) \cup Waiting(s) : Before(n, msg_queue) /\ (n \in Msg => n <= accepted)
    BY DEF Ages, LineAges
  <2>2. CASE R # <<>>
    <3>1. m = Head(R) /\ transmit_queue'[s] = T
      BY <1>1, <2>2 DEF NextMessage, Extract
    <3>2. m \in Held(s) /\ Waiting(s)' = Waiting(s)
      BY <1>1, <2>2, <3>1 DEF Held, Waiting
    <3>3. \A n \in Held(s)' : Before(n, T)
      BY <1>3, <1>4, <2>1, <3>2 DEF Before
    <3>4. \A n \in Held(s)' \cup Waiting(s)' : Before(n, msg_queue) /\ (n \in Msg => n <= accepted)
      BY <1>3, <1>4, <2>1, <3>2 DEF Before
    <3> QED BY <1>1, <2>1, <3>1, <3>3, <3>4 DEF LineAges, Ascends, Before
  <2>3. CASE R = <<>>
    <3>1. T # <<>> /\ m = Head(T) /\ transmit_queue'[s] = Tail(T)
      BY <1>1, <2>3 DEF NextMessage, Extract, Idle, TypeOK
    <3>2. /\ Ascends(Tail(T)) /\ Before(m, Tail(T)) /\ Tail(T) \in Seq(Item)
          /\ \A i \in 1..Len(Tail(T)) : \E j \in 1..Len(T) : Tail(T)[i] = T[j]
          /\ \E j \in 1..Len(T) : m = T[j]
      BY <1>1, <2>1, <3>1, TailKeeps
    <3>3. m \in Waiting(s) /\ Waiting(s)' \subseteq Waiting(s)
      <4> HIDE DEF m
      <4>1. Waiting(s) = {T[i] : i \in 1..Len(T)}
            /\ Waiting(s)' = {Tail(T)[i] : i \in 1..Len(Tail(T))}
        BY <3>1 DEF Waiting
      <4> HIDE DEF T
      <4> QED BY <3>2, <4>1
    <3>4. \A n \in Held(s)' : Before(n, Tail(T))
      BY <1>3, <1>4, <3>2 DEF Before
    <3>5. \A n \in Held(s)' \cup Waiting(s)' : Before(n, msg_queue) /\ (n \in Msg => n <= accepted)
      BY <1>3, <1>4, <2>1, <3>3 DEF Before
    <3> QED BY <1>1, <3>1, <3>2, <3>4, <3>5 DEF LineAges, Ascends, Before
  <2> QED BY <2>2, <2>3
<1> QED BY <1>1, <1>5, <1>6 DEF Ages, Ascends

\* NotifyFailure moves what the Session holds, and NotifySuccess deletes it.
LEMMA NotifyAges ==
  ASSUME TypeOK, StopAndWait, Ages, NEW t,
         NotifySuccess(t) \/ NotifyFailure(t) \/ UNCHANGED queues,
         UNCHANGED <<msg_queue, accepted>>
  PROVE  Ages'
<1>1. CASE NotifySuccess(t)
  <2>1. UNCHANGED <<transmit_queue, retransmit_queue>>
    BY <1>1 DEF NotifySuccess
  <2>2. \A l \in Lines : pending_message'[l] \in {pending_message[l], NULL}
    BY <1>1 DEF NotifySuccess, TypeOK
  <2>3. \A l \in Lines : Held(l)' \subseteq Held(l) \cup {NULL}
    BY <2>1, <2>2 DEF Held
  <2> QED BY <2>1, <2>3, AgesKept
<1>2. CASE NotifyFailure(t)
  <2>1. CASE t \in Lines /\ pending_message[t] # NULL
    <3>1. /\ retransmit_queue[t] = <<>> /\ UNCHANGED transmit_queue
          /\ retransmit_queue'[t] = <<pending_message[t]>> /\ pending_message'[t] = NULL
          /\ \A l \in Lines \ {t} : retransmit_queue'[l] = retransmit_queue[l]
                                    /\ pending_message'[l] = pending_message[l]
      BY <1>2, <2>1 DEF NotifyFailure, StopAndWait, TypeOK
    <3>2. Held(t)' \subseteq Held(t) \cup {NULL}
      BY <3>1 DEF Held
    <3>3. \A l \in Lines \ {t} : Held(l)' = Held(l)
      BY <3>1 DEF Held
    <3>4. \A l \in Lines : Held(l)' \subseteq Held(l) \cup {NULL}
      BY <3>2, <3>3
    <3> QED BY <3>1, <3>4, AgesKept
  <2>2. CASE ~(t \in Lines /\ pending_message[t] # NULL)
    BY <1>2, <2>2, AgesUnchanged DEF NotifyFailure
  <2> QED BY <2>1, <2>2
<1>3. CASE UNCHANGED queues
  BY <1>3, AgesUnchanged
<1> QED BY <1>1, <1>2, <1>3

LEMMA StopAges == TypeOK /\ Ages /\ Stop => Ages'
<1> SUFFICES ASSUME TypeOK, Ages, Stop PROVE Ages'
  OBVIOUS
<1>1. UNCHANGED <<msg_queue, accepted>> /\ NULL \notin Msg
  BY RelayAssumption DEF Stop, Pdu, Item
<1>2. ASSUME NEW l \in Lines PROVE LineAges(l)'
  <2>1. transmit_queue'[l] = <<>> /\ retransmit_queue'[l] = <<>> /\ pending_message'[l] = NULL
    BY DEF Stop
  <2>2. Held(l)' = {NULL} /\ Waiting(l)' = {} /\ Len(transmit_queue'[l]) = 0
    BY <2>1 DEF Held, Waiting
  <2> QED BY <1>1, <2>2 DEF LineAges, Ascends, Before
<1> QED BY <1>1, <1>2 DEF Ages, Ascends

LEMMA NextAges == TypeOK /\ StopAndWait /\ Ages /\ [Next]_vars => Ages'
<1> SUFFICES ASSUME TypeOK, StopAndWait, Ages, [Next]_vars PROVE Ages'
  OBVIOUS
<1> USE AgesUnchanged
<1>1. CASE UNCHANGED vars
  BY <1>1 DEF vars
<1>2. CASE DrainDone \/ RunAgain \/ Start
  BY <1>2 DEF DrainDone, RunAgain, Start
<1>3. CASE Insert \/ Drain \/ Stop
  BY <1>3, InsertAges, DrainAges, StopAges
<1>4. CASE DrainCrash \/ StopCrash
  BY <1>4 DEF DrainCrash, StopCrash, Crash
<1>5. CASE \E s \in todo : Serve(s)
  <2>1. PICK s \in todo : Serve(s)
    BY <1>5
  <2>2. s \in Lines
    BY DEF TypeOK
  <2>3. CASE KeepConnection(s) \/ RestoreConnection(s) \/ TransmitNothing(s)
    BY <2>3 DEF KeepConnection, RestoreConnection, TransmitNothing
  <2>4. CASE ReconnectCrash(s) \/ TransmitCrash(s)
    BY <2>4 DEF ReconnectCrash, TransmitCrash, Crash
  <2>5. CASE TransmitSent(s) \/ TransmitFailed(s)
    BY <2>2, <2>5, TransmitAges
  <2> QED BY <2>1, <2>3, <2>4, <2>5 DEF Serve
<1>6. CASE \E a \in Addr, p \in Pdu : Handle(a, p)
  <2>1. PICK a \in Addr, p \in Pdu : Handle(a, p)
    BY <1>6
  <2>2. CASE Deliver(a, p)
    BY <2>2 DEF Deliver
  <2>3. CASE \E accepts \in BOOLEAN : Answer(a, p, accepts)
    BY <2>3, NotifyAges DEF Answer
  <2>4. CASE \E lost \in BOOLEAN : Nack(a, p, lost)
    BY <2>4, NotifyAges DEF Nack
  <2>5. CASE HandlerCrash(a, p)
    BY <2>5 DEF HandlerCrash, Crash
  <2> QED BY <2>1, <2>2, <2>3, <2>4, <2>5 DEF Handle
<1>7. CASE \E a \in Addr : SendPing(a) \/ pong_handler(a)
  BY <1>7 DEF SendPing, pong_handler
<1> QED BY <1>1, <1>2, <1>3, <1>4, <1>5, <1>6, <1>7 DEF Next

\* Whatever the number of lines, and whichever Session an answer or a failure
\* reaches, what a Session has still to send stays in the order of acceptance.
THEOREM KeepsOrder == Spec => []SendsInOrder
<1>1. Init => Ages
  <2> SUFFICES ASSUME Init PROVE Ages
    OBVIOUS
  <2>1. NULL \notin Msg
    BY RelayAssumption DEF Pdu, Item
  <2>2. ASSUME NEW l \in Lines PROVE LineAges(l)
    <3>1. Held(l) = {NULL} /\ Waiting(l) = {} /\ Len(transmit_queue[l]) = 0
      BY DEF Init, Held, Waiting
    <3> QED BY <2>1, <3>1 DEF LineAges, Ascends, Before
  <2> QED BY <2>2 DEF Init, Ages, Ascends
<1> QED BY <1>1, NextAges, AgesSuffice, TypeSafe, OneAtATime, PTL DEF Spec
=============================================================================
