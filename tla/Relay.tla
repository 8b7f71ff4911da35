------------------------------- MODULE Relay -------------------------------
(***************************************************************************)
(* The relay service: Relay::run and its start and stop hooks, the Session *)
(* objects with their two queues, the SessionManager's map from libcoap    *)
(* sessions to Session objects, and the three libcoap handlers.            *)
(*                                                                         *)
(* Threads.  The server thread only inserts into msg_queue (Insert).  Every*)
(* other step is the relay thread's, in the order of Relay::run: drain the *)
(* queue, reconnect and transmit session by session, do IO; or, while that *)
(* thread does not exist, the main thread's, running the service's hooks.  *)
(*                                                                         *)
(* libcoap is external and modelled from its use in src/: a client session *)
(* is a reference-counted heap object at an address of Addr; creating it   *)
(* gives one reference, every PDU waiting for an answer holds one more, and*)
(* it is freed when the last one is released.  An address that is free may *)
(* be given to the next session, as malloc does.                           *)
(*                                                                         *)
(* Undefined behaviour (use of freed memory) either ends the process or    *)
(* has one of the effects listed where it is modelled; faults remembers    *)
(* that it happened.  A null dereference ends the process.                 *)
(***************************************************************************)
EXTENDS Integers, Sequences, Functions

CONSTANTS
  NLines,     \* number of lines in the relay configuration file
  Addr,       \* addresses libcoap can allocate a client session at
  MaxMsg,     \* bound: messages the server accepts, numbered in order
  MaxStarts,  \* bound: how often the relay service is started
  NULL,       \* nullptr: no session, no message
  Dangling,   \* pointer to a Session object that has been deleted
  Junk,       \* message whose fields were read from freed memory
  Ping        \* the empty message libcoap's keep-alive sends

Lines == 1..NLines
Msg   == 1..MaxMsg
Item  == Msg \cup {Junk}
Pdu   == Item \cup {Ping}

ASSUME RelayAssumption ==
  /\ NLines \in Nat /\ MaxMsg \in Nat /\ MaxStarts \in Nat
  /\ NULL \notin Addr \cup Lines \cup Pdu \cup {Dangling}
  /\ Dangling \notin Addr \cup Lines
  /\ Junk \notin Msg /\ Ping \notin Item

VARIABLES
  thread,            \* where the relay thread is, or "stopped", or "crashed"
  todo,              \* sessions the transmit loop of run has still to visit
  starts,            \* times the service was started
  msg_queue,         \* messages from the server thread
  accepted,          \* messages inserted so far; message n is the n-th
  sessions,          \* Relay::sessions: lines whose Session exists
  transmit_queue, retransmit_queue, pending_message,  \* fields of the Session
  session, disconnected,                              \* of each line
  coap_session_map,  \* SessionManager: libcoap session -> Session
  refs,              \* libcoap: references to the session at an address
  pdus,              \* libcoap: PDUs waiting for an answer, per address
  peer,              \* libcoap: the line whose endpoint a session talks to
  log,               \* history: messages an endpoint got, first receipts only
  given_up,          \* history: <<line, message, why>> no longer to be sent
  faults             \* history: kinds of undefined behaviour met

queues  == <<transmit_queue, retransmit_queue, pending_message>>
link    == <<session, disconnected>>
libcoap == <<refs, pdus, peer>>
history == <<log, given_up>>
control == <<thread, todo, starts>>
vars == <<control, msg_queue, accepted, sessions, queues, link,
          coap_session_map, libcoap, history, faults>>

Reasons == {"rejected", "send_failed", "stopped", "no_session"}
Faults  == {"double_free", "double_release", "freed_session",
            "dangling_session", "null_session"}

TypeOK ==
  /\ thread \in {"stopped", "loop", "drain", "connect", "transmit", "io", "crashed"}
  /\ todo \subseteq sessions
  /\ starts \in 0..MaxStarts
  /\ accepted \in 0..MaxMsg
  /\ msg_queue \in Seq(Msg)
  /\ sessions \subseteq Lines
  /\ transmit_queue \in [Lines -> Seq(Item)]
  /\ retransmit_queue \in [Lines -> Seq(Item)]
  /\ pending_message \in [Lines -> Item \cup {NULL}]
  /\ session \in [Lines -> Addr \cup {NULL}]
  /\ disconnected \in [Lines -> BOOLEAN]
  /\ coap_session_map \in [Addr -> Lines \cup {Dangling, NULL}]
  /\ refs \in [Addr -> Nat]
  /\ pdus \in [Addr -> [Pdu -> Nat]]
  /\ peer \in [Addr -> Lines \cup {NULL}]
  /\ log \in [Lines -> Seq(Msg)]
  /\ given_up \subseteq (Lines \X Msg \X Reasons)
  /\ faults \subseteq Faults

Init ==
  /\ thread = "stopped" /\ todo = {} /\ starts = 0
  /\ msg_queue = <<>> /\ accepted = 0 /\ sessions = {}
  /\ transmit_queue = [l \in Lines |-> <<>>]
  /\ retransmit_queue = [l \in Lines |-> <<>>]
  /\ pending_message = [l \in Lines |-> NULL]
  /\ session = [l \in Lines |-> NULL]
  /\ disconnected = [l \in Lines |-> FALSE]
  /\ coap_session_map = [a \in Addr |-> NULL]
  /\ refs = [a \in Addr |-> 0]
  /\ pdus = [a \in Addr |-> [p \in Pdu |-> 0]]
  /\ peer = [a \in Addr |-> NULL]
  /\ log = [l \in Lines |-> <<>>]
  /\ given_up = {} /\ faults = {}

(***************************************************************************)
(* The process dies of fault f: nothing else changes, and nothing follows. *)
(***************************************************************************)
Crash(f) ==
  /\ thread' = "crashed"
  /\ faults' = faults \cup {f}
  /\ UNCHANGED <<todo, starts, msg_queue, accepted, sessions, queues, link,
                 coap_session_map, libcoap, history>>

Note(f, happened) == faults' = IF happened THEN faults \cup {f} ELSE faults

-----------------------------------------------------------------------------
(* libcoap's reference counts.                                             *)

\* The session at a has been freed; a pointer to it dangles.
Freed(r, a) == a # NULL /\ r[a] = 0

\* Drop one reference; a null pointer is left alone.  The code does not know of
\* freed sessions: releasing one is undefined behaviour, which the callers record
\* and which either ends the process or, here, has no effect on the counts.
ReleaseSession(r, a) ==
  IF a = NULL \/ Freed(r, a) THEN r ELSE [r EXCEPT ![a] = @ - 1]

-----------------------------------------------------------------------------
(* The server thread: handle_condalf_data_put hands over a complete body.    *)
(* main starts the server after the relay, but on a reload it runs while the *)
(* relay does not.                                                           *)

Insert ==
  /\ thread # "crashed" /\ starts > 0 /\ accepted < MaxMsg
  /\ accepted' = accepted + 1
  /\ msg_queue' = Append(msg_queue, accepted + 1)
  /\ UNCHANGED <<control, sessions, queues, link, coap_session_map, libcoap,
                 history, faults>>

-----------------------------------------------------------------------------
(* Relay::run, the drain loop: every message into all sessions.            *)

First(s, S) == s \in S /\ \A t \in S : s <= t

\* What each session's queue receives for message m.  The loop frees m after
\* the first session, so a later one copies freed memory.
Copies(m) ==
  {c \in [sessions -> {m, Junk}] :
     \A s \in sessions : First(s, sessions) => c[s] = m}

EnqueueMessage(c) ==
  transmit_queue' = [l \in Lines |-> IF l \in sessions
                                     THEN Append(transmit_queue[l], c[l])
                                     ELSE transmit_queue[l]]

FreedTwice == \E s, t \in sessions : s # t

Drain ==
  /\ thread = "drain" /\ msg_queue # <<>>
  /\ LET m == Head(msg_queue) IN
       /\ \E c \in Copies(m) : EnqueueMessage(c)
       /\ given_up' = given_up \cup ((Lines \ sessions) \X {m} \X {"no_session"})
  /\ msg_queue' = Tail(msg_queue)
  /\ Note("double_free", FreedTwice)
  /\ UNCHANGED <<control, accepted, sessions, retransmit_queue,
                 pending_message, link, coap_session_map, libcoap, log>>

DrainCrash ==
  thread = "drain" /\ msg_queue # <<>> /\ FreedTwice /\ Crash("double_free")

\* MUTANT: the transmit loop visits every line of the file, with a Session or not.
DrainDoneAllLines ==
  /\ thread = "drain" /\ msg_queue = <<>>
  /\ todo' = Lines
  /\ thread' = IF Lines = {} THEN "io" ELSE "connect"
  /\ UNCHANGED <<starts, msg_queue, accepted, sessions, queues, link,
                 coap_session_map, libcoap, history, faults>>

DrainDone ==
  /\ thread = "drain" /\ msg_queue = <<>>
  /\ todo' = sessions
  /\ thread' = IF sessions = {} THEN "io" ELSE "connect"
  /\ UNCHANGED <<starts, msg_queue, accepted, sessions, queues, link,
                 coap_session_map, libcoap, history, faults>>

-----------------------------------------------------------------------------
(* Relay::run, the transmit loop, first half: reconnect where needed.      *)

IsConnected(s) == ~disconnected[s] /\ session[s] # NULL

\* Session::Connect: libcoap gives session s the free address a, or NULL when
\* the host does not resolve.  r is refs as the caller leaves it.
Connect(s, a, r) ==
  /\ session' = [session EXCEPT ![s] = a]
  /\ disconnected' = [disconnected EXCEPT ![s] = (a = NULL)]
  /\ refs' = IF a = NULL THEN r ELSE [r EXCEPT ![a] = 1]
  /\ peer' = IF a = NULL THEN peer ELSE [peer EXCEPT ![a] = s]

\* Session::Reconnect releases first; handlers that saw the connection lost
\* have released the same session already.  coap_session_map keeps the old one.
Reconnect(s) ==
  LET r == ReleaseSession(refs, session[s]) IN
  /\ \E a \in {b \in Addr : r[b] = 0} \cup {NULL} : Connect(s, a, r)
  /\ UNCHANGED coap_session_map

KeepConnection(s) ==
  /\ thread = "connect" /\ First(s, todo)
  /\ IsConnected(s)
  /\ thread' = "transmit"
  /\ UNCHANGED <<todo, starts, msg_queue, accepted, sessions, queues, link,
                 coap_session_map, libcoap, history, faults>>

RestoreConnection(s) ==
  /\ thread = "connect" /\ First(s, todo)
  /\ ~IsConnected(s)
  /\ Reconnect(s)
  /\ thread' = "transmit"
  /\ Note("double_release", Freed(refs, session[s]))
  /\ UNCHANGED <<todo, starts, msg_queue, accepted, sessions, queues, pdus,
                 history>>

ReconnectCrash(s) ==
  /\ thread = "connect" /\ First(s, todo)
  /\ ~IsConnected(s) /\ Freed(refs, session[s])
  /\ Crash("double_release")

-----------------------------------------------------------------------------
(* Relay::run, the transmit loop, second half: Session::Transmit.          *)

\* After session s has been served the loop goes on to the next, or to the IO.
NextSession(s) ==
  /\ todo' = todo \ {s}
  /\ thread' = IF todo = {s} THEN "io" ELSE "connect"

\* MUTANT: the pending message is not looked at.
IdleIfEmpty(s) == retransmit_queue[s] = <<>> /\ transmit_queue[s] = <<>>

Idle(s) ==
  \/ pending_message[s] # NULL
  \/ retransmit_queue[s] = <<>> /\ transmit_queue[s] = <<>>

NextMessage(s) ==
  IF retransmit_queue[s] # <<>> THEN Head(retransmit_queue[s])
                                ELSE Head(transmit_queue[s])

Extract(s) ==
  IF retransmit_queue[s] # <<>>
    THEN /\ retransmit_queue' = [retransmit_queue EXCEPT ![s] = Tail(@)]
         /\ UNCHANGED transmit_queue
    ELSE /\ transmit_queue' = [transmit_queue EXCEPT ![s] = Tail(@)]
         /\ UNCHANGED retransmit_queue

TransmitNothing(s) ==
  /\ thread = "transmit" /\ First(s, todo)
  /\ Idle(s)
  /\ NextSession(s)
  /\ UNCHANGED <<starts, msg_queue, accepted, sessions, queues, link,
                 coap_session_map, libcoap, history, faults>>

\* send_message succeeds: the PDU waits in libcoap and holds a reference.  On a
\* freed session it may seem to succeed as well.
TransmitSent(s) ==
  LET a == session[s] IN
  /\ thread = "transmit" /\ First(s, todo)
  /\ ~Idle(s) /\ a # NULL
  /\ Extract(s)
  /\ pending_message' = [pending_message EXCEPT ![s] = NextMessage(s)]
  /\ pdus' = [pdus EXCEPT ![a][NextMessage(s)] = @ + 1]
  /\ refs' = IF Freed(refs, a) THEN refs ELSE [refs EXCEPT ![a] = @ + 1]
  /\ NextSession(s)
  /\ Note("freed_session", Freed(refs, a))
  /\ UNCHANGED <<starts, msg_queue, accepted, sessions, link,
                 coap_session_map, peer, history>>

\* send_message fails: Transmit deletes the message it has just extracted.
TransmitFailed(s) ==
  /\ thread = "transmit" /\ First(s, todo)
  /\ ~Idle(s) /\ session[s] # NULL
  /\ Extract(s)
  /\ UNCHANGED pending_message
  /\ given_up' = given_up \cup ({s} \X ({NextMessage(s)} \cap Msg) \X {"send_failed"})
  /\ NextSession(s)
  /\ Note("freed_session", Freed(refs, session[s]))
  /\ UNCHANGED <<starts, msg_queue, accepted, sessions, link,
                 coap_session_map, libcoap, log>>

\* run ignores that Reconnect failed: coap_new_pdu gets a null session, or a
\* freed one, or the message itself has been freed.
TransmitCrash(s) ==
  /\ thread = "transmit" /\ First(s, todo)
  /\ ~Idle(s)
  /\ \/ session[s] = NULL /\ Crash("null_session")
     \/ Freed(refs, session[s]) /\ Crash("freed_session")
     \/ NextMessage(s) = Junk /\ Crash("double_free")

-----------------------------------------------------------------------------
(* Relay::run, CoAP::IO: coap_io_process calls the handlers.               *)

\* The Session objects a handler may find itself working on for libcoap session
\* a.  A deleted one may have become any of the present ones, or have no effect.
FindSession(a) ==
  IF coap_session_map[a] = Dangling THEN sessions \cup {Dangling}
                                    ELSE {coap_session_map[a]}

\* Whether p has the Block1 option: send_message gives it to a message with data,
\* and only such are accepted; of a freed message nothing is known.
HasBlock1(p) == IF p = Junk THEN BOOLEAN ELSE {p \in Msg}

\* Session::NotifySuccess of t.
NotifySuccess(t) ==
  /\ pending_message' = IF t \in Lines THEN [pending_message EXCEPT ![t] = NULL]
                                       ELSE pending_message
  /\ UNCHANGED <<transmit_queue, retransmit_queue>>

\* MUTANTS of NotifyFailure: pending_message is not reset; the message goes to the
\* end of transmit_queue; nothing is done.
NotifyFailureNoReset(t) ==
  IF t \in Lines /\ pending_message[t] # NULL
    THEN /\ retransmit_queue' = [retransmit_queue EXCEPT ![t] = Append(@, pending_message[t])]
         /\ UNCHANGED <<pending_message, transmit_queue>>
    ELSE UNCHANGED queues

NotifyFailureAtEnd(t) ==
  IF t \in Lines /\ pending_message[t] # NULL
    THEN /\ transmit_queue' = [transmit_queue EXCEPT ![t] = Append(@, pending_message[t])]
         /\ pending_message' = [pending_message EXCEPT ![t] = NULL]
         /\ UNCHANGED retransmit_queue
    ELSE UNCHANGED queues

NotifyFailureIgnored(t) == t = t /\ UNCHANGED queues

\* Session::NotifyFailure of t.
NotifyFailure(t) ==
  IF t \in Lines /\ pending_message[t] # NULL
    THEN /\ retransmit_queue' = [retransmit_queue EXCEPT ![t] = Append(@, pending_message[t])]
         /\ pending_message' = [pending_message EXCEPT ![t] = NULL]
         /\ UNCHANGED transmit_queue
    ELSE UNCHANGED queues

\* Notifying dereferences a null Session, or logs the name of a null session.
NotifyIsNull(t) ==
  \/ t = NULL
  \/ t \in Lines /\ pending_message[t] # NULL /\ session[t] = NULL

\* The PDU p waits for an answer from a's endpoint.
Outstanding(a, p) == thread # "crashed" /\ pdus[a][p] > 0

\* The endpoint gets p; log keeps the first receipt of each message.
Deliver(a, p) ==
  /\ Outstanding(a, p) /\ p \in Msg
  /\ \E l \in Lines \cap {peer[a]} :
       p \notin Range(log[l]) /\ log' = [log EXCEPT ![l] = Append(@, p)]
  /\ UNCHANGED <<control, msg_queue, accepted, sessions, queues, link,
                 coap_session_map, libcoap, given_up, faults>>

Delivered(a, p) == peer[a] \in Lines => p \in Range(log[peer[a]])

\* libcoap drops an answered PDU once the handler has returned.
Forget(a, p) == pdus' = [pdus EXCEPT ![a][p] = @ - 1]

\* Handling an answer on a with Session t, having released what Disconnect
\* releases, touches a freed libcoap session: to release the PDU's reference, or
\* to log the session's name.
TouchesFreed(a, block1, t, r) ==
  \/ Freed(r, a)
  \/ block1 /\ t \in Lines /\ pending_message[t] # NULL /\ Freed(r, session[t])

HandlerFaults(a, block1, t, released) ==
  LET r == ReleaseSession(refs, released) IN
    (IF Freed(refs, released)    THEN {"double_release"}   ELSE {}) \cup
    (IF TouchesFreed(a, block1, t, r) THEN {"freed_session"}    ELSE {}) \cup
    (IF t = Dangling             THEN {"dangling_session"} ELSE {})

\* response_handler.  It does not look at the response code: an endpoint that
\* refused the message (accepts is FALSE) counts as success too.
Answer(a, p, accepts) ==
  /\ thread = "io" /\ Outstanding(a, p) /\ p # Ping
  /\ accepts /\ p \in Msg => Delivered(a, p)
  /\ \E t \in FindSession(a), block1 \in HasBlock1(p) :
       /\ block1 => ~NotifyIsNull(t)
       /\ IF block1 THEN NotifySuccess(t) ELSE UNCHANGED queues
       /\ faults' = faults \cup HandlerFaults(a, block1, t, NULL)
       /\ given_up' = IF accepts THEN given_up
                      ELSE given_up \cup ((Lines \cap {t}) \X (Msg \cap {p}) \X {"rejected"})
  /\ Forget(a, p)
  /\ refs' = ReleaseSession(refs, a)
  /\ UNCHANGED <<control, msg_queue, accepted, sessions, link,
                 coap_session_map, peer, log>>

\* What Disconnect of t releases when the reason is one that disconnects.
ToRelease(t, lost) == IF lost /\ t \in Lines THEN session[t] ELSE NULL

\* nack_handler; lost are the reasons for which it disconnects.
Nack(a, p, lost) ==
  /\ thread = "io" /\ Outstanding(a, p)
  /\ \E t \in FindSession(a), block1 \in HasBlock1(p) :
       /\ block1 => ~NotifyIsNull(t)
       /\ disconnected' = IF lost /\ t \in Lines
                            THEN [disconnected EXCEPT ![t] = TRUE] ELSE disconnected
       /\ IF block1 THEN NotifyFailure(t) ELSE UNCHANGED queues
       /\ refs' = ReleaseSession(ReleaseSession(refs, ToRelease(t, lost)), a)
       /\ faults' = faults \cup HandlerFaults(a, block1, t, ToRelease(t, lost))
  /\ Forget(a, p)
  /\ UNCHANGED <<control, msg_queue, accepted, sessions, session,
                 coap_session_map, peer, history>>

\* Either handler on a null, a deleted or a freed session, or deleting a
\* pending message that was freed before.
HandlerCrash(a, p) ==
  /\ thread = "io" /\ Outstanding(a, p)
  /\ \E t \in FindSession(a), block1 \in HasBlock1(p), lost \in BOOLEAN :
       \/ block1 /\ NotifyIsNull(t) /\ Crash("null_session")
       \/ \E f \in HandlerFaults(a, block1, t, ToRelease(t, lost)) : Crash(f)
       \/ /\ block1 /\ t \in Lines /\ pending_message[t] = Junk
          /\ Crash("double_free")

\* libcoap's keep-alive; pong_handler changes nothing.
SendPing(a) ==
  /\ thread = "io" /\ ~Freed(refs, a) /\ pdus[a][Ping] = 0
  /\ pdus' = [pdus EXCEPT ![a][Ping] = 1]
  /\ refs' = [refs EXCEPT ![a] = @ + 1]
  /\ UNCHANGED <<control, msg_queue, accepted, sessions, queues, link,
                 coap_session_map, peer, history, faults>>

pong_handler(a) ==
  /\ thread = "io" /\ Outstanding(a, Ping)
  /\ Forget(a, Ping)
  /\ refs' = ReleaseSession(refs, a)
  /\ UNCHANGED <<control, msg_queue, accepted, sessions, queues, link,
                 coap_session_map, peer, history, faults>>

\* run returns to service_loop, which calls it again unless Stop came first.
RunAgain ==
  /\ \/ thread = "io"   /\ thread' = "loop"
     \/ thread = "loop" /\ thread' = "drain"
  /\ UNCHANGED <<todo, starts, msg_queue, accepted, sessions, queues, link,
                 coap_session_map, libcoap, history, faults>>

-----------------------------------------------------------------------------
(* The main thread runs the hooks, with no relay thread present.           *)

\* SessionManager::ManageSession of every session that could connect.
ManageSession(conn) ==
  coap_session_map' =
    [a \in Addr |-> IF a \in Range(conn) THEN CHOOSE l \in Lines : conn[l] = a
                                         ELSE coap_session_map[a]]

\* enable_coap and enable_relay: one Session per line whose host resolves.
Start ==
  /\ thread = "stopped" /\ starts < MaxStarts
  /\ starts' = starts + 1
  /\ \E conn \in [Lines -> Addr \cup {NULL}] :
       /\ \A l, k \in Lines : conn[l] = conn[k] /\ conn[l] # NULL => l = k
       /\ sessions' = {l \in Lines : conn[l] # NULL}
       /\ session' = conn
       /\ ManageSession(conn)
       /\ refs' = [a \in Addr |-> IF a \in Range(conn) THEN 1 ELSE 0]
       /\ peer' = [a \in Addr |-> IF a \in Range(conn)
                                  THEN CHOOSE l \in Lines : conn[l] = a ELSE NULL]
  /\ disconnected' = [l \in Lines |-> FALSE]
  /\ thread' = "loop"
  /\ UNCHANGED <<todo, msg_queue, accepted, queues, pdus, history, faults>>

Pending(s) == IF pending_message[s] = NULL THEN <<>> ELSE <<pending_message[s]>>

\* What session s has still to deliver, in the order it will try to.
Backlog(s) == retransmit_queue[s] \o Pending(s) \o transmit_queue[s]

\* disable_relay deletes the Sessions, releasing each one's libcoap session;
\* disable_coap then has remove_all_sessions read the deleted Sessions, and
\* frees the context with all its libcoap sessions.
StopFaults ==
  (IF \E a \in Addr, s \in sessions :
        session[s] = a /\ \/ refs[a] = 0
                          \/ refs[a] = 1 /\ \E t \in sessions \ {s} : session[t] = a
     THEN {"double_release"} ELSE {}) \cup
  (IF sessions # {} THEN {"dangling_session"} ELSE {}) \cup
  (IF \E a \in Addr, p \in Pdu : refs[a] = 0 /\ pdus[a][p] > 0
     THEN {"freed_session"} ELSE {}) \cup
  (IF \E s \in sessions : Junk \in Range(Backlog(s)) THEN {"double_free"} ELSE {})

\* remove_all_sessions erases the entries under the addresses it reads out of
\* the deleted Sessions: the right ones, or none.
remove_all_sessions ==
  \E erased \in SUBSET {session[s] : s \in sessions} :
    coap_session_map' = [a \in Addr |-> IF a \in erased \/ coap_session_map[a] = NULL
                                        THEN NULL ELSE Dangling]

Stop ==
  /\ thread = "loop"
  /\ thread' = "stopped"
  /\ remove_all_sessions
  /\ sessions' = {}
  /\ transmit_queue' = [l \in Lines |-> <<>>]
  /\ retransmit_queue' = [l \in Lines |-> <<>>]
  /\ pending_message' = [l \in Lines |-> NULL]
  /\ session' = [l \in Lines |-> NULL]
  /\ disconnected' = [l \in Lines |-> FALSE]
  /\ refs' = [a \in Addr |-> 0]
  /\ pdus' = [a \in Addr |-> [p \in Pdu |-> 0]]
  /\ peer' = [a \in Addr |-> NULL]
  /\ given_up' = given_up \cup
       {x \in sessions \X Msg \X {"stopped"} : x[2] \in Range(Backlog(x[1]))}
  /\ faults' = faults \cup StopFaults
  /\ UNCHANGED <<todo, starts, msg_queue, accepted, log>>

StopCrash == thread = "loop" /\ \E f \in StopFaults : Crash(f)

-----------------------------------------------------------------------------

Serve(s) ==
  \/ KeepConnection(s) \/ RestoreConnection(s) \/ ReconnectCrash(s)
  \/ TransmitNothing(s) \/ TransmitSent(s) \/ TransmitFailed(s) \/ TransmitCrash(s)

Handle(a, p) ==
  \/ Deliver(a, p)
  \/ \E accepts \in BOOLEAN : Answer(a, p, accepts)
  \/ \E lost \in BOOLEAN : Nack(a, p, lost)
  \/ HandlerCrash(a, p)

Next ==
  \/ Insert
  \/ Drain \/ DrainCrash \/ DrainDone
  \/ \E s \in todo : Serve(s)
  \/ \E a \in Addr, p \in Pdu : Handle(a, p)
  \/ \E a \in Addr : SendPing(a) \/ pong_handler(a)
  \/ RunAgain
  \/ Start \/ Stop \/ StopCrash

Spec == Init /\ [][Next]_vars

\* The relay thread keeps running; and of a message sent again and again neither
\* every copy is lost nor every answer: then libcoap calls response_handler.
FairSpec ==
  /\ Spec
  /\ WF_vars(Drain \/ DrainDone \/ RunAgain \/ \E s \in todo : Serve(s))
  /\ \A m \in Msg : SF_vars(\E a \in Addr : Deliver(a, m))
  /\ \A m \in Msg : SF_vars(\E a \in Addr : Answer(a, m, TRUE) \/ HandlerCrash(a, m))

-----------------------------------------------------------------------------
(* Properties of every configuration.                                      *)

\* Session::Transmit sends one message at a time: while one is pending none
\* waits for retransmission, and never does more than one, so NotifyFailure
\* appending to retransmit_queue cannot change the order of messages.
StopAndWait ==
  \A l \in Lines : /\ pending_message[l] # NULL => retransmit_queue[l] = <<>>
                   /\ Len(retransmit_queue[l]) <= 1

\* Whatever answers and failures reach a Session, those of another line's endpoint
\* included when an address has changed hands: what it has still to send stays in
\* the order of acceptance, with each message at most once, and older than all
\* that waits in msg_queue.  So no message goes out behind a newer one.
SendsInOrder ==
  \A l \in Lines :
    LET all == Backlog(l) \o msg_queue IN
      \A i, j \in 1..Len(all) :
        i < j /\ all[i] \in Msg /\ all[j] \in Msg => all[i] < all[j]

-----------------------------------------------------------------------------
(* Properties of a configuration with one line: with more, a message is    *)
(* freed while it is still being copied, and addresses get mixed up.       *)

\* A message is pending exactly while a PDU with it waits in libcoap, and only
\* one does: so an answer is always about the pending message, although no
\* handler compares them, and Transmit never waits for an answer that cannot
\* come.  With keep-alive pings and reconnections in between.
PendingIsOutstanding ==
  thread # "crashed" =>
    \A l \in Lines :
      LET waiting == {x \in Addr \X Item : pdus[x[1]][x[2]] > 0} IN
        /\ \A x \in waiting : x[2] = pending_message[l] /\ pdus[x[1]][x[2]] = 1
        /\ pending_message[l] # NULL <=> \E x \in waiting : waiting = {x}

\* What the relay promises the endpoint of line 1, from the first Transmit over
\* failures, reconnections and restarts.
Endpoint == INSTANCE Outbox WITH
  backlog  <- Backlog(1) \o msg_queue,
  log      <- log[1],
  given_up <- {<<x[2], x[3]>> : x \in given_up}
ImplementsOutbox == Endpoint!Spec

\* The endpoint first gets messages in the order the server accepted them: a
\* failed message is sent again before any newer one.
UpstreamInOrder ==
  \A l \in Lines, i, j \in 1..MaxMsg :
    i < j /\ j <= Len(log[l]) => log[l][i] < log[l][j]

Settled(m) ==
  \A l \in Lines : m \in Range(log[l]) \/ \E why \in Reasons : <<l, m, why>> \in given_up

\* Every message the server accepted gets to the endpoint or is knowingly given
\* up, unless the process dies or the relay is stopped for good: no sequence of
\* lost answers, pings and reconnections leaves the session waiting for ever.
EventuallySettled ==
  \A m \in Msg : accepted >= m ~>
    Settled(m) \/ thread = "crashed" \/ (thread = "stopped" /\ starts = MaxStarts)

-----------------------------------------------------------------------------
(* What comments say and the code does not do.                             *)

\* session_manager.hpp:67 "Ordered set of all managed sessions.": an answer on
\* a connected session finds its Session.
ConnectedIsManaged ==
  thread = "io" => \A s \in sessions :
    IsConnected(s) => coap_session_map[session[s]] = s

\* relay.cpp:128 "Enqueue every message into all sessions".
EveryMessageIntoAllSessions ==
  \A s \in sessions : Junk \notin Range(transmit_queue[s])
=============================================================================
