------------------------------- MODULE Chain -------------------------------
(***************************************************************************)
(* A session of the relay and the upstream backend it sends to: the two    *)
(* queues and the pending message of Session, with the handlers that settle*)
(* it, over the block-wise transfers of BlockTransfer, whose client is now *)
(* the relay's libcoap.  Each time a message is sent is a transfer of its  *)
(* own; carries says of which message.                                     *)
(*                                                                         *)
(* One libcoap session: with too many retries it is given up, and what the *)
(* relay does with the next one is the subject of Relay.                   *)
(***************************************************************************)
EXTENDS BlockTransfer

CONSTANT MaxMsg   \* bound: messages the relay accepts

ASSUME ChainAssumption == MaxMsg \in Nat

VARIABLES
  accepted,         \* messages accepted; message n is the n-th
  transmit_queue, retransmit_queue,
  pending_message,  \* 0 if there is none
  disconnected,
  carries,          \* carries[t]: the message the t-th transfer is about
  given_up,         \* history: <<message, reason>>
  log               \* history: the messages handed to the upstream resource, each
                    \* by its first time

session   == <<accepted, transmit_queue, retransmit_queue, pending_message,
               disconnected, given_up>>
chainvars == <<vars, session, carries, log>>

Message == 1..MaxMsg
Reasons == {"rejected", "send_failed"}

ChainTypeOK ==
  /\ TypeOK
  /\ accepted \in 0..MaxMsg
  /\ transmit_queue \in Seq(Message) /\ retransmit_queue \in Seq(Message)
  /\ pending_message \in 0..MaxMsg /\ disconnected \in BOOLEAN
  /\ carries \in Seq(Message) /\ Len(carries) = current
  /\ given_up \subseteq (Message \X Reasons) /\ log \in Seq(Message)

ChainInit ==
  /\ Init
  /\ accepted = 0 /\ transmit_queue = <<>> /\ retransmit_queue = <<>>
  /\ pending_message = 0 /\ disconnected = FALSE
  /\ carries = <<>> /\ given_up = {} /\ log = <<>>

-----------------------------------------------------------------------------
(* Session.                                                                *)

EnqueueMessage ==
  /\ accepted < MaxMsg
  /\ accepted' = accepted + 1
  /\ transmit_queue' = Append(transmit_queue, accepted + 1)
  /\ UNCHANGED <<vars, retransmit_queue, pending_message, disconnected, carries, given_up, log>>

\* MUTANT: new messages come first.
ExtractNewFirst(m) ==
  \/ /\ retransmit_queue # <<>> /\ transmit_queue = <<>> /\ m = Head(retransmit_queue)
     /\ retransmit_queue' = Tail(retransmit_queue) /\ UNCHANGED transmit_queue
  \/ /\ transmit_queue # <<>> /\ m = Head(transmit_queue)
     /\ transmit_queue' = Tail(transmit_queue) /\ UNCHANGED retransmit_queue

\* m is the next message, and taken from its queue.
Extract(m) ==
  \/ /\ retransmit_queue # <<>> /\ m = Head(retransmit_queue)
     /\ retransmit_queue' = Tail(retransmit_queue) /\ UNCHANGED transmit_queue
  \/ /\ retransmit_queue = <<>> /\ transmit_queue # <<>> /\ m = Head(transmit_queue)
     /\ transmit_queue' = Tail(transmit_queue) /\ UNCHANGED retransmit_queue

\* send_message succeeds, or it fails and the message is deleted; its PDU has taken
\* an id by then.
Transmit(m) ==
  /\ ~disconnected /\ pending_message = 0
  /\ Extract(m)
  /\ \/ /\ Begin /\ pending_message' = m /\ carries' = Append(carries, m)
        /\ UNCHANGED given_up
     \/ /\ SkipMid /\ given_up' = given_up \cup {<<m, "send_failed">>}
        /\ UNCHANGED <<pending_message, carries>>
  /\ UNCHANGED <<accepted, disconnected, log>>

\* Whatever the answer was, the message is deleted.
NotifySuccess(outcomes) ==
  /\ pending_message' = 0
  /\ given_up' = IF outcomes[current] = "incomplete"
                 THEN given_up \cup {<<pending_message, "rejected">>} ELSE given_up
  /\ UNCHANGED <<accepted, transmit_queue, retransmit_queue, disconnected>>

\* MUTANT: the message is not sent again.
DropOnFailure ==
  /\ pending_message' = 0
  /\ UNCHANGED <<accepted, transmit_queue, retransmit_queue, given_up>>

NotifyFailure ==
  /\ retransmit_queue' = Append(retransmit_queue, pending_message)
  /\ pending_message' = 0
  /\ UNCHANGED <<accepted, transmit_queue, given_up>>

-----------------------------------------------------------------------------
(* The handlers, which libcoap calls when a transfer has ended.            *)

\* An answer to a block that is not the last starts the next block, within libcoap.
response_handler(i) ==
  /\ GetAnswer(i)
  /\ IF outcome' # outcome THEN NotifySuccess(outcome') ELSE UNCHANGED session
  /\ UNCHANGED <<carries, log>>

\* A block is answered by RST or an ICMP message: the session stays.
NackRst == GiveUp /\ NotifyFailure /\ UNCHANGED <<disconnected, carries, log>>

NackTooManyRetries ==
  /\ tries = MaxTries /\ GiveUp
  /\ NotifyFailure /\ disconnected' = TRUE /\ UNCHANGED <<carries, log>>

\* The upstream's block cache gets a block.  A body is of the message that its first
\* block is of.
Receive(i) ==
  /\ ResourceBlockHandler(i)
  /\ LET m == carries[Last(handed')[1][1]] IN
       log' = IF handed' = handed \/ m \in Range(log) THEN log ELSE Append(log, m)
  /\ UNCHANGED <<session, carries>>

ChainNext ==
  \/ EnqueueMessage
  \/ \E m \in Message : Transmit(m)
  \/ \E i \in DOMAIN responses : response_handler(i)
  \/ NackRst \/ NackTooManyRetries
  \/ \E i \in DOMAIN requests : Receive(i)
  \/ /\ ClearCrash \/ Elapse \/ Repeat \/ UseMidForPing \/ Lose
     /\ UNCHANGED <<session, carries, log>>

ChainSpec == ChainInit /\ [][ChainNext]_chainvars

-----------------------------------------------------------------------------

\* In the order in which the relay will try them.
Unsettled == retransmit_queue
             \o (IF pending_message = 0 THEN <<>> ELSE <<pending_message>>)
             \o transmit_queue

Endpoint == INSTANCE Outbox WITH backlog <- Unsettled

\* No message is lost between the relay and the upstream resource as long as no
\* datagram overtakes another, no ping takes a message id inside a transfer and none
\* is used again, but by a send that fails: it is queued, pending, or was handed
\* over.  That any answer counts as success does no harm, since 4.08 is never one then.
NothingLost ==
  ~overtaken /\ pings = 0 /\ ~wrapped =>
    \A m \in 1..accepted :
      \/ Contains(Unsettled, m) \/ Contains(log, m)
      \/ <<m, "send_failed">> \in given_up

\* An earlier attempt at a message gets through after a later one could not be sent;
\* but no newer message has been handed over.
HandedLate ==
  /\ \E m \in Message :
       /\ <<m, "send_failed">> \in given_up /\ \A n \in Range(log) : n < m
       /\ log' = Append(log, m)
  /\ UNCHANGED <<accepted, given_up, Unsettled>>

\* With pings as well, and over losses, repetitions and failures, the relay, libcoap
\* and the upstream block cache together are an Outbox whose log is the order of
\* first handings: nothing reaches the resource before its turn, or after it unless a
\* failing send has ended it, and nothing is settled that has not reached it, but for
\* a message the upstream rejected.
HandsLikeOutbox ==
  [][~overtaken' /\ ~wrapped' => [Endpoint!Next]_(Endpoint!vars) \/ HandedLate]_chainvars

\* In any order and with pings: a message that the relay has done with was handed
\* over by one of its attempts, or the upstream has answered 4.08 to it, or sending
\* it has failed, as long as no message id is used again.
ReceivedOrRecorded ==
  ~wrapped => \A m \in 1..accepted :
    \/ Contains(Unsettled, m) \/ \E why \in Reasons : <<m, why>> \in given_up
    \/ \E u \in 1..current : carries[u] = m /\ BodyOf(u) \in Range(handed)

-----------------------------------------------------------------------------
(* What comments say and the code does not do.                             *)

\* session.hpp:153 "Notify to the session that the last sent message was
\* successfully received": what NotifySuccess deletes has been handed over.
SuccessIsReceipt ==
  \A m \in 1..accepted :
    \/ Contains(Unsettled, m) \/ Contains(log, m)
    \/ <<m, "send_failed">> \in given_up
=============================================================================
