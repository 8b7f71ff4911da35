---------------------------- MODULE Chain_proofs ----------------------------
(***************************************************************************)
(* Proofs about Chain: it is an instance of BlockTransfer, whose theorems  *)
(* hold of it therefore; no message is dropped without having been handed  *)
(* over or its reason recorded, and none is lost but by a send that fails  *)
(* while the order of datagrams and the ids are kept; and then the relay,  *)
(* libcoap and the upstream block cache are together an Outbox, which a    *)
(* message may still leave after its send has failed.                      *)
(***************************************************************************)
EXTENDS Chain, BlockTransfer_proofs

LEMMA ChainStep == ChainNext => [Next]_vars
BY DEF ChainNext, Next, EnqueueMessage, Transmit, response_handler, NackRst,
       NackTooManyRetries, Receive

\* The relay's libcoap, driven by a Session, is one of the clients that the block
\* cache was modelled with: what holds of BlockTransfer holds of Chain.
THEOREM ChainIsTransfers == ChainSpec => Spec
<1>1. ChainInit => Init
  BY DEF ChainInit
<1>2. [ChainNext]_chainvars => [Next]_vars
  BY ChainStep DEF chainvars, vars
<1> QED BY <1>1, <1>2, PTL DEF ChainSpec, Spec

\* Bodies stay intact and come in order, transfers that are done are handed over, and
\* none is refused without need, in the chain of a relay and an upstream backend as well.
THEOREM ChainIntact ==
  ChainSpec => [](BodiesIntact /\ DoneMeansHanded /\ HandedOnceInOrder /\ NoNeedlessIncomplete)
BY ChainIsTransfers, BodiesStayIntact, DoneIsHanded, BodiesInOrder, NoneIncomplete, PTL

-----------------------------------------------------------------------------
(* The invariant of a Session over its transfers.                          *)

SessionTypeOK ==
  /\ accepted \in 0..MaxMsg
  /\ transmit_queue \in Seq(Message) /\ retransmit_queue \in Seq(Message)
  /\ pending_message \in 0..MaxMsg
  /\ carries \in Seq(Message) /\ Len(carries) = current

\* A message is pending exactly while its transfer waits for an answer.
PendingIsCarried ==
  IF waiting = NULL THEN pending_message = 0
                    ELSE current >= 1 /\ carries[current] = pending_message

\* A transfer has no outcome before its end.
Undecided ==
  \A u \in Transfer : u > current \/ (u = current /\ waiting # NULL) => outcome[u] = "none"

Queued == Range(retransmit_queue) \cup Range(transmit_queue) \cup ({pending_message} \ {0})

Settled(m) ==
  \/ \E why \in Reasons : <<m, why>> \in given_up
  \/ \E u \in 1..current : carries[u] = m /\ BodyOf(u) \in Range(handed)

Accounted == ~wrapped => \A m \in 1..accepted : m \in Queued \/ Settled(m)

LinkInv == SessionTypeOK /\ PendingIsCarried /\ Undecided

\* What is in one of two sequences is in both together.
LEMMA ContainsConcat ==
  ASSUME NEW S, NEW s \in Seq(S), NEW t \in Seq(S), NEW e, Contains(s, e) \/ Contains(t, e)
  PROVE  s \o t \in Seq(S) /\ Contains(s \o t, e)
<1>1. /\ s \o t \in Seq(S) /\ Len(s \o t) = Len(s) + Len(t)
      /\ Len(s) \in Nat /\ Len(t) \in Nat
      /\ \A i \in 1..Len(s) + Len(t) :
           (s \o t)[i] = IF i <= Len(s) THEN s[i] ELSE t[i - Len(s)]
  OBVIOUS
<1>2. ASSUME NEW i \in 1..Len(s), s[i] = e PROVE Contains(s \o t, e)
  <2>1. i \in 1..Len(s) + Len(t) /\ i <= Len(s)
    BY <1>1
  <2> QED BY <1>1, <1>2, <2>1 DEF Contains
<1>3. ASSUME NEW i \in 1..Len(t), t[i] = e PROVE Contains(s \o t, e)
  <2>1. /\ Len(s) + i \in 1..Len(s) + Len(t) /\ ~(Len(s) + i <= Len(s))
        /\ (Len(s) + i) - Len(s) = i
    BY <1>1
  <2>2. (s \o t)[Len(s) + i] = t[i]
    BY <1>1, <2>1
  <2> QED BY <1>1, <1>3, <2>1, <2>2 DEF Contains
<1> QED BY <1>1, <1>2, <1>3 DEF Contains

LEMMA QueuedIsUnsettled ==
  ASSUME SessionTypeOK, NEW m \in Queued
  PROVE  Contains(Unsettled, m)
<1> DEFINE q == IF pending_message = 0 THEN <<>> ELSE <<pending_message>>
<1>1. /\ retransmit_queue \in Seq(Message) /\ transmit_queue \in Seq(Message)
      /\ q \in Seq(Message)
  <2>1. pending_message # 0 => pending_message \in Message
    BY ChainAssumption DEF SessionTypeOK, Message
  <2>2. pending_message # 0 => <<pending_message>> \in Seq(Message)
    BY <2>1
  <2>3. <<>> \in Seq(Message)
    OBVIOUS
  <2> QED BY <2>2, <2>3 DEF SessionTypeOK
<1>2. Contains(retransmit_queue, m) \/ Contains(q, m) \/ Contains(transmit_queue, m)
  <2>1. m \in Range(retransmit_queue) => Contains(retransmit_queue, m)
    BY <1>1 DEF Range, Contains
  <2>2. m \in Range(transmit_queue) => Contains(transmit_queue, m)
    BY <1>1 DEF Range, Contains
  <2>3. m = pending_message /\ m # 0 => Contains(q, m)
    BY DEF Contains
  <2> QED BY <2>1, <2>2, <2>3 DEF Queued
<1> HIDE DEF q
<1>3. /\ retransmit_queue \o q \in Seq(Message)
      /\ Contains(retransmit_queue \o q, m) \/ Contains(transmit_queue, m)
  BY <1>1, <1>2, ContainsConcat
<1>4. Contains((retransmit_queue \o q) \o transmit_queue, m)
  BY <1>1, <1>3, ContainsConcat
<1> QED BY <1>4 DEF Unsettled, q

-----------------------------------------------------------------------------
(* The link between Session and its transfer.                              *)

LEMMA LinkNext == TypeInv /\ LinkInv /\ [ChainNext]_chainvars => LinkInv'
<1> SUFFICES ASSUME TypeInv, LinkInv, [ChainNext]_chainvars PROVE LinkInv'
  OBVIOUS
<1>1. /\ accepted \in 0..MaxMsg /\ transmit_queue \in Seq(Message)
      /\ retransmit_queue \in Seq(Message) /\ pending_message \in 0..MaxMsg
      /\ carries \in Seq(Message) /\ Len(carries) = current
  BY DEF LinkInv, SessionTypeOK
<1>2. /\ current \in 0..Len(Blocks) /\ Len(Blocks) \in Nat /\ MaxMsg \in Nat
      /\ outcome \in [Transfer -> {"none", "done", "incomplete", "given_up"}]
      /\ Transfer = 1..Len(Blocks)
  BY ChainAssumption, BlockAssumption DEF TypeInv, TypeOK, Transfer
<1>3. waiting # NULL => pending_message # 0 /\ pending_message \in Message
  BY <1>1, <1>2 DEF LinkInv, PendingIsCarried, Message
<1>4. CASE EnqueueMessage
  <2>1. SessionTypeOK'
    BY <1>1, <1>2, <1>4 DEF EnqueueMessage, SessionTypeOK, Message, vars, client
  <2>2. UNCHANGED <<pending_message, carries, waiting, current, outcome>>
    BY <1>4 DEF EnqueueMessage, vars, client
  <2>3. PendingIsCarried' /\ Undecided'
    BY <2>2 DEF LinkInv, PendingIsCarried, Undecided
  <2> QED BY <2>1, <2>3 DEF LinkInv
<1>5. ASSUME NEW m \in Message, Transmit(m) PROVE LinkInv'
  <2>1. transmit_queue' \in Seq(Message) /\ retransmit_queue' \in Seq(Message)
    <3>1. CASE /\ retransmit_queue # <<>> /\ retransmit_queue' = Tail(retransmit_queue)
               /\ UNCHANGED transmit_queue
      BY <1>1, <3>1
    <3>2. CASE /\ transmit_queue # <<>> /\ transmit_queue' = Tail(transmit_queue)
               /\ UNCHANGED retransmit_queue
      BY <1>1, <3>2
    <3> QED BY <1>5, <3>1, <3>2 DEF Transmit, Extract
  <2>2. CASE Begin /\ pending_message' = m /\ carries' = Append(carries, m)
    <3>1. /\ current' = current + 1 /\ current < Len(Blocks) /\ waiting = NULL
          /\ waiting' # NULL /\ UNCHANGED outcome
      <4>1. Send(current + 1, 0) /\ current + 1 \in Transfer
        BY <1>2, <2>2 DEF Begin
      <4>2. waiting' \in Request
        BY <4>1, SendType DEF TypeInv
      <4> QED BY <2>2, <4>1, <4>2, BlockAssumption DEF Begin
    <3>2. /\ carries' \in Seq(Message) /\ Len(carries') = current'
          /\ carries'[current'] = pending_message'
      BY <1>1, <1>2, <2>2, <3>1
    <3>3. SessionTypeOK'
      BY <1>1, <1>2, <1>5, <2>1, <2>2, <3>2 DEF Transmit, SessionTypeOK, Message
    <3>4. PendingIsCarried'
      BY <1>2, <3>1, <3>2 DEF PendingIsCarried
    <3>5. Undecided'
      BY <1>2, <3>1 DEF LinkInv, Undecided
    <3> QED BY <3>3, <3>4, <3>5 DEF LinkInv
  <2>3. CASE SkipMid /\ UNCHANGED <<pending_message, carries>>
    <3>1. UNCHANGED <<current, waiting, outcome>>
      BY <2>3 DEF SkipMid
    <3>2. SessionTypeOK'
      BY <1>1, <1>5, <2>1, <2>3, <3>1 DEF Transmit, SessionTypeOK, Message
    <3>3. PendingIsCarried' /\ Undecided'
      BY <2>3, <3>1 DEF LinkInv, PendingIsCarried, Undecided
    <3> QED BY <3>2, <3>3 DEF LinkInv
  <2> QED BY <1>5, <2>2, <2>3 DEF Transmit
<1>6. ASSUME NEW how, waiting # NULL, End(how), pending_message' = 0,
             UNCHANGED <<accepted, carries, transmit_queue>>,
             retransmit_queue' \in {retransmit_queue, Append(retransmit_queue, pending_message)}
      PROVE  LinkInv'
  <2>1. SessionTypeOK'
    <3>1. Append(retransmit_queue, pending_message) \in Seq(Message)
      BY <1>1, <1>3, <1>6
    <3>2. UNCHANGED current /\ 0 \in 0..MaxMsg
      BY <1>2, <1>6 DEF End
    <3> QED BY <1>1, <1>6, <3>1, <3>2 DEF SessionTypeOK
  <2>2. PendingIsCarried'
    BY <1>6 DEF PendingIsCarried, End
  <2>3. Undecided'
    BY <1>2, <1>6 DEF LinkInv, Undecided, End
  <2> QED BY <2>1, <2>2, <2>3 DEF LinkInv
<1>7. CASE NackRst \/ NackTooManyRetries
  BY <1>6, <1>7 DEF NackRst, NackTooManyRetries, GiveUp, NotifyFailure
<1>8. CASE UNCHANGED <<session, carries, current, outcome>> /\ (waiting = NULL <=> waiting' = NULL)
  BY <1>8 DEF session, LinkInv, SessionTypeOK, PendingIsCarried, Undecided
<1>9. ASSUME NEW i \in DOMAIN responses, response_handler(i) PROVE LinkInv'
  <2> DEFINE ours == waiting # NULL /\ responses[i].mid = waiting.mid
             more == responses[i].code = "CONTINUE" /\ waiting.m
             how == IF responses[i].code = "INCOMPLETE" THEN "incomplete" ELSE "done"
  <2>1. CASE UNCHANGED client
    BY <1>8, <1>9, <2>1 DEF response_handler, client
  <2>2. CASE ours /\ more /\ Send(current, waiting.num + 1) /\ UNCHANGED <<current, outcome>>
    <3>1. waiting' # NULL
      <4>1. current \in Transfer /\ waiting.num + 1 \in Nat
        BY <1>2, <2>2 DEF LinkInv, PendingIsCarried, TypeInv, TypeOK, Request
      <4>2. waiting' \in Request
        BY <2>2, <4>1, SendType DEF TypeInv
      <4> QED BY <4>2, BlockAssumption
    <3> QED BY <1>8, <1>9, <2>2, <3>1 DEF response_handler
  <2>3. CASE ours /\ ~more /\ End(how)
    <3>1. outcome' # outcome
      BY <1>2, <2>3 DEF End, LinkInv, Undecided, PendingIsCarried
    <3>2. NotifySuccess(outcome') /\ UNCHANGED carries
      BY <1>9, <3>1 DEF response_handler
    <3> QED BY <1>6, <2>3, <3>2 DEF NotifySuccess
  <2> QED BY <1>9, <2>1, <2>2, <2>3 DEF response_handler, GetAnswer
<1>10. ASSUME (\E i \in DOMAIN requests : ResourceBlockHandler(i)) \/ ClearCrash \/ Elapse
              \/ Repeat \/ UseMidForPing \/ Lose,
             UNCHANGED <<session, carries>>
      PROVE  LinkInv'
  <2>1. UNCHANGED <<current, outcome, waiting>>
    BY <1>10 DEF ResourceBlockHandler, ClearCrash, Elapse, Repeat, UseMidForPing, Lose, client
  <2> QED BY <1>8, <1>10, <2>1
<1>11. CASE UNCHANGED chainvars
  BY <1>8, <1>11 DEF chainvars, vars, client
<1> QED BY <1>4, <1>5, <1>7, <1>9, <1>10, <1>11 DEF ChainNext, Receive

-----------------------------------------------------------------------------
(* What becomes of the messages.                                           *)

\* Nothing that was handed over is forgotten.
LEMMA HandedStays ==
  ASSUME WholeInv, [Next]_vars, ~wrapped'
  PROVE  ~wrapped /\ Range(handed) \subseteq Range(handed')
<1>1. ~wrapped
  BY FreshOrStale, FreshIds, StaleIds DEF WholeInv, TypeInv
<1>2. ASSUME NEW i \in DOMAIN requests, ResourceBlockHandler(i)
      PROVE  Range(handed) \subseteq Range(handed')
  <2>1. HandlesWell(requests[i])
    BY <1>1, <1>2, HandlerIntact DEF WholeInv
  <2>2. ASSUME NEW u \in Transfer, handed' = Append(handed, BodyOf(u))
        PROVE  Range(handed) \subseteq Range(handed')
    BY <2>2, HandedGrows, TwoBodies DEF WholeInv, TypeInv
  <2> QED BY <2>1, <2>2 DEF HandlesWell
<1> QED BY <1>1, <1>2, OthersKeepServer

\* What is settled stays settled.
LEMMA SettledStays ==
  ASSUME Range(handed) \subseteq Range(handed'), SessionTypeOK, SessionTypeOK',
         given_up \subseteq given_up', current \in Nat,
         \/ carries' = carries
         \/ \E m \in Message : carries' = Append(carries, m),
         NEW m, Settled(m)
  PROVE  Settled(m)'
<1>1. /\ carries \in Seq(Message) /\ Len(carries) = current
      /\ carries' \in Seq(Message) /\ Len(carries') = current'
  BY DEF SessionTypeOK
<1>2. \A u \in 1..current : u \in 1..current' /\ carries'[u] = carries[u]
  <2>1. CASE carries' = carries
    BY <1>1, <2>1
  <2>2. ASSUME NEW n \in Message, carries' = Append(carries, n)
        PROVE  \A u \in 1..current : u \in 1..current' /\ carries'[u] = carries[u]
    BY <1>1, <2>2
  <2> QED BY <2>1, <2>2
<1> QED BY <1>2 DEF Settled, BodyOf

\* Enqueuing and sending again keep messages queued.
LEMMA QueuedGrows ==
  ASSUME NEW S, NEW q \in Seq(S), NEW m \in S
  PROVE  Range(Append(q, m)) = Range(q) \cup {m}
<1> DEFINE a == Append(q, m)
<1>1. /\ a \in Seq(S) /\ Len(a) = Len(q) + 1 /\ a[Len(q) + 1] = m /\ Len(q) \in Nat
      /\ \A i \in 1..Len(q) : a[i] = q[i]
  OBVIOUS
<1> HIDE DEF a
<1>2. DOMAIN a = 1..Len(q) + 1 /\ DOMAIN q = 1..Len(q)
  BY <1>1
<1>3. \A i \in 1..Len(q) + 1 : i \in 1..Len(q) \/ i = Len(q) + 1
  BY <1>1
<1>4. \A i \in 1..Len(q) : i \in 1..Len(q) + 1
  BY <1>1
<1>5. Len(q) + 1 \in 1..Len(q) + 1
  BY <1>1
<1>6. Range(a) = Range(q) \cup {m}
  BY <1>1, <1>2, <1>3, <1>4, <1>5 DEF Range
<1> QED BY <1>6 DEF a

LEMMA QueuedShrinks ==
  ASSUME NEW S, NEW q \in Seq(S), q # <<>>
  PROVE  Range(q) \subseteq {Head(q)} \cup Range(Tail(q))
<1>1. ASSUME NEW i \in DOMAIN q PROVE q[i] \in {Head(q)} \cup Range(Tail(q))
  <2>1. CASE i = 1
    BY <2>1
  <2>2. CASE i # 1
    <3>1. i - 1 \in DOMAIN Tail(q) /\ Tail(q)[i - 1] = q[i]
      BY <2>2
    <3> QED BY <3>1 DEF Range
  <2> QED BY <2>1, <2>2
<1> QED BY <1>1 DEF Range

LEMMA AccountedNext ==
  ASSUME WholeInv, WholeInv', LinkInv, LinkInv', Accounted, ChainNext
  PROVE  Accounted'
<1> SUFFICES ASSUME ~wrapped' PROVE \A m \in 1..accepted' : m \in Queued' \/ Settled(m)'
  BY DEF Accounted
<1>1. ~wrapped /\ Range(handed) \subseteq Range(handed')
  BY HandedStays, ChainStep
<1>2. /\ SessionTypeOK /\ SessionTypeOK' /\ TypeInv /\ current \in Nat /\ current <= Len(Blocks)
      /\ MaxMsg \in Nat /\ accepted \in Nat
  BY ChainAssumption, BlockAssumption DEF LinkInv, WholeInv, TypeInv, TypeOK, SessionTypeOK
<1>3. ASSUME given_up \subseteq given_up',
             carries' = carries \/ \E m \in Message : carries' = Append(carries, m)
      PROVE  \A m : Settled(m) => Settled(m)'
  BY <1>1, <1>2, <1>3, SettledStays
<1>4. \A m \in 1..accepted : m \in Queued \/ Settled(m)
  BY <1>1 DEF Accounted
<1>5. CASE EnqueueMessage
  <2>1. /\ accepted' = accepted + 1 /\ accepted + 1 \in Message
        /\ transmit_queue' = Append(transmit_queue, accepted + 1)
        /\ UNCHANGED <<retransmit_queue, pending_message, carries, given_up>>
    BY <1>2, <1>5 DEF EnqueueMessage, Message
  <2>2. Range(transmit_queue') = Range(transmit_queue) \cup {accepted + 1}
    BY <1>2, <2>1, QueuedGrows DEF SessionTypeOK
  <2>3. Queued' = Queued \cup {accepted + 1}
    BY <1>2, <2>1, <2>2 DEF Queued, Message
  <2>4. \A m \in 1..accepted' : m \in 1..accepted \/ m = accepted + 1
    BY <1>2, <2>1
  <2> QED BY <1>3, <1>4, <2>1, <2>3, <2>4
<1>6. ASSUME NEW m \in Message, Transmit(m)
      PROVE  \A n \in 1..accepted' : n \in Queued' \/ Settled(n)'
  <2>1. UNCHANGED accepted /\ pending_message = 0
    BY <1>6 DEF Transmit
  <2>2. Range(retransmit_queue) \cup Range(transmit_queue)
          \subseteq {m} \cup Range(retransmit_queue') \cup Range(transmit_queue')
    <3>1. CASE /\ retransmit_queue # <<>> /\ m = Head(retransmit_queue)
               /\ retransmit_queue' = Tail(retransmit_queue) /\ UNCHANGED transmit_queue
      <4>1. Range(retransmit_queue) \subseteq {m} \cup Range(retransmit_queue')
        BY <1>2, <3>1, QueuedShrinks DEF SessionTypeOK
      <4> QED BY <3>1, <4>1
    <3>2. CASE /\ transmit_queue # <<>> /\ m = Head(transmit_queue)
               /\ transmit_queue' = Tail(transmit_queue) /\ UNCHANGED retransmit_queue
      <4>1. Range(transmit_queue) \subseteq {m} \cup Range(transmit_queue')
        BY <1>2, <3>2, QueuedShrinks DEF SessionTypeOK
      <4> QED BY <3>2, <4>1
    <3> QED BY <1>6, <3>1, <3>2 DEF Transmit, Extract
  <2>3. CASE pending_message' = m /\ carries' = Append(carries, m) /\ UNCHANGED given_up
    <3>1. Queued \subseteq Queued'
      BY <2>1, <2>2, <2>3 DEF Queued, Message
    <3> QED BY <1>3, <1>4, <2>1, <2>3, <3>1
  <2>4. CASE /\ given_up' = given_up \cup {<<m, "send_failed">>}
             /\ UNCHANGED <<pending_message, carries>>
    <3>1. Queued \subseteq {m} \cup Queued'
      BY <2>1, <2>2, <2>4 DEF Queued
    <3>2. Settled(m)'
      BY <2>4 DEF Settled, Reasons
    <3> QED BY <1>3, <1>4, <2>1, <2>4, <3>1, <3>2
  <2> QED BY <1>6, <2>3, <2>4 DEF Transmit
<1>7. CASE NackRst \/ NackTooManyRetries
  <2>1. /\ NotifyFailure /\ UNCHANGED carries /\ waiting # NULL
    BY <1>7 DEF NackRst, NackTooManyRetries, GiveUp
  <2>2. pending_message \in Message
    <3>1. carries[current] = pending_message /\ current \in 1..Len(carries)
      BY <1>2, <2>1 DEF LinkInv, PendingIsCarried, SessionTypeOK
    <3> QED BY <1>2, <3>1 DEF SessionTypeOK
  <2>3. /\ retransmit_queue' = Append(retransmit_queue, pending_message)
        /\ pending_message' = 0 /\ UNCHANGED <<accepted, transmit_queue, given_up>>
    BY <2>1 DEF NotifyFailure
  <2>4. Range(retransmit_queue') = Range(retransmit_queue) \cup {pending_message}
    BY <1>2, <2>2, <2>3, QueuedGrows DEF SessionTypeOK
  <2>5. Queued \subseteq Queued'
    BY <2>3, <2>4 DEF Queued
  <2> QED BY <1>3, <1>4, <2>1, <2>3, <2>5
<1>8. CASE UNCHANGED <<session, carries>>
  BY <1>3, <1>4, <1>8 DEF session, Queued
<1>9. ASSUME NEW i \in DOMAIN responses, response_handler(i), outcome' # outcome
      PROVE  \A m \in 1..accepted' : m \in Queued' \/ Settled(m)'
  <2>1. /\ NotifySuccess(outcome') /\ UNCHANGED <<carries, handed>>
    BY <1>9 DEF response_handler, GetAnswer, server
  <2>2. /\ waiting # NULL
        /\ End(IF responses[i].code = "INCOMPLETE" THEN "incomplete" ELSE "done")
    BY <1>9 DEF response_handler, GetAnswer, client
  <2>3. carries[current] = pending_message /\ current \in 1..current /\ current \in Transfer
    BY <1>2, <2>2, BlockAssumption DEF LinkInv, PendingIsCarried, Transfer
  <2>4. outcome'[current] \in {"incomplete", "done"} /\ UNCHANGED current
    BY <1>2, <2>2, <2>3 DEF End, TypeInv, TypeOK
  <2>5. ASSUME NEW m, m = pending_message PROVE Settled(m)'
    <3>1. CASE outcome'[current] = "incomplete"
      BY <2>1, <2>4, <2>5, <3>1 DEF NotifySuccess, Settled, Reasons
    <3>2. CASE outcome'[current] = "done"
      <4>1. BodyOf(current) \in Range(handed')
        BY <1>1, <2>3, <2>4, <3>2 DEF WholeInv, DoneMeansHanded, BodyOf
      <4>2. current \in 1..current' /\ carries'[current] = m
        BY <2>1, <2>3, <2>4, <2>5
      <4> QED BY <4>1, <4>2 DEF Settled, BodyOf
    <3> QED BY <2>4, <3>1, <3>2
  <2>6. /\ given_up \subseteq given_up' /\ UNCHANGED accepted
        /\ Queued \subseteq Queued' \cup {pending_message}
    BY <2>1 DEF NotifySuccess, Queued
  <2>7. \A m : Settled(m) => Settled(m)'
    BY <1>3, <2>1, <2>6
  <2> QED BY <1>4, <2>5, <2>6, <2>7
<1>10. ASSUME NEW i \in DOMAIN responses, response_handler(i), outcome' = outcome
       PROVE  UNCHANGED <<session, carries>>
  BY <1>10 DEF response_handler
<1> QED BY <1>5, <1>6, <1>7, <1>8, <1>9, <1>10 DEF ChainNext, Receive

\* A message the relay has done with was handed over by one of its attempts, or the
\* upstream has answered 4.08, or a send of it has failed, for any messages, attempts
\* and tries, and any network, while no message id is used again: deleting a message
\* on any answer loses it in no other way.
THEOREM HandedOrRecorded == ChainSpec => []ReceivedOrRecorded
<1> DEFINE Inv == WholeInv /\ LinkInv /\ Accounted
<1>1. ChainInit => Inv
  <2>1. ChainInit => WholeInv
    BY WholeInit DEF ChainInit
  <2>2. ChainInit => LinkInv
    BY ChainAssumption DEF ChainInit, Init, LinkInv, SessionTypeOK, PendingIsCarried, Undecided
  <2>3. ChainInit => Accounted
    BY DEF ChainInit, Accounted
  <2> QED BY <2>1, <2>2, <2>3
<1>2. Inv /\ [ChainNext]_chainvars => Inv'
  <2> SUFFICES ASSUME Inv, [ChainNext]_chainvars PROVE Inv'
    OBVIOUS
  <2>1. WholeInv'
    <3>1. [Next]_vars
      BY ChainStep DEF chainvars, vars
    <3> QED BY <3>1, WholeNext
  <2>2. LinkInv'
    BY LinkNext DEF WholeInv
  <2>3. CASE ChainNext
    BY <2>1, <2>2, <2>3, AccountedNext
  <2>4. CASE UNCHANGED chainvars
    <3>1. UNCHANGED <<accepted, wrapped, given_up, carries, handed, current>>
          /\ UNCHANGED <<retransmit_queue, transmit_queue, pending_message>>
      BY <2>4 DEF chainvars, vars, client, server, session
    <3>2. Accounted'
      BY <3>1 DEF Accounted, Queued, Settled, BodyOf
    <3> QED BY <2>1, <2>2, <3>2
  <2> QED BY <2>1, <2>2, <2>3, <2>4
<1>3. Inv => ReceivedOrRecorded
  BY QueuedIsUnsettled DEF LinkInv, Accounted, Settled, ReceivedOrRecorded
<1> HIDE DEF Inv
<1> QED BY <1>1, <1>2, <1>3, PTL DEF ChainSpec
-----------------------------------------------------------------------------
(* Type correctness, and what the log has.                                 *)

\* The transfer a body begins with.
StartOf(d) == d[1][1]

CacheStarts == block_cache # NULL => block_cache.data # <<>> /\ StartOf(block_cache.data) <= current

\* The log has the messages of the bodies that were handed over.
Logged ==
  \A i \in DOMAIN handed :
    StartOf(handed[i]) \in 1..current /\ carries[StartOf(handed[i])] \in Range(log)

HistoryTypeOK ==
  /\ disconnected \in BOOLEAN /\ given_up \subseteq (Message \X Reasons)
  /\ log \in Seq(Message)

LogInv == OrderInv /\ LinkInv /\ CacheStarts /\ Logged /\ HistoryTypeOK

LEMMA HandsStart ==
  ASSUME OrderInv, CacheStarts, NEW i \in DOMAIN requests, ResourceBlockHandler(i)
  PROVE  /\ CacheStarts'
         /\ \/ UNCHANGED handed
            \/ \E d \in Body : handed' = Append(handed, d) /\ StartOf(d) \in 1..current
<1>1. PICK r \in Known : r = requests[i]
  BY DEF Known
<1>2. /\ r \in Request /\ Block(r) \in Transfer \X Nat /\ Block(r)[1] = r.transfer
      /\ first_mid(r) \in Int /\ r.num \in Nat /\ r.m \in BOOLEAN
      /\ r.transfer \in 1..current /\ UNCHANGED current
  <2>1. r.transfer <= current /\ TypeOK /\ r.transfer \in Transfer /\ r.transfer \in Int
    BY KnownNumbers DEF OrderInv, TypeInv, InOrder
  <2>2. current \in Nat
    BY <2>1 DEF TypeOK
  <2> QED BY <1>1, <2>1, <2>2, RequestType, TransferType DEF Block, ResourceBlockHandler, client
<1>3. /\ Cleared \in block_cache_entry \cup {NULL}
      /\ Cleared # NULL => Cleared = block_cache /\ block_cache # NULL
  BY ClearedType DEF OrderInv, TypeInv
<1>4. CASE Keep /\ UNCHANGED handed
  BY <1>2, <1>3, <1>4 DEF Keep, CacheStarts
<1>5. CASE ProcessWhole(r)
  <2>1. <<Block(r)>> \in Body /\ StartOf(<<Block(r)>>) = r.transfer
    BY <1>2 DEF Body, StartOf
  <2>2. CacheStarts'
    BY <1>2, <1>3, <1>5 DEF ProcessWhole, Keep, CacheStarts
  <2> QED BY <1>2, <1>5, <2>1, <2>2 DEF ProcessWhole
<1>6. ASSUME NEW e \in block_cache_entry, Store(r, e), e.data # <<>>,
             StartOf(e.data) \in 1..current
      PROVE  /\ CacheStarts'
             /\ \/ UNCHANGED handed
                \/ \E d \in Body : handed' = Append(handed, d) /\ StartOf(d) \in 1..current
  <2>1. e.data \in Body
    BY DEF block_cache_entry
  <2> QED BY <1>2, <1>6, <2>1 DEF Store, CacheStarts
<1>7. CASE BeginBody(r)
  <2> DEFINE e == [first_block_mid |-> first_mid(r), last_block |-> 0, m |-> r.m,
                   data |-> <<Block(r)>>]
  <2>1. e \in block_cache_entry /\ e.data = <<Block(r)>> /\ Store(r, e)
    BY <1>2, <1>7 DEF block_cache_entry, Body, BeginBody
  <2> HIDE DEF e
  <2>2. e.data # <<>> /\ StartOf(e.data) = r.transfer
    BY <1>2, <2>1 DEF StartOf
  <2> QED BY <1>2, <1>6, <2>1, <2>2
<1>8. CASE IgnoreSecondEnd(r) \/ AppendBlock(r)
  <2>1. /\ Cleared # NULL /\ Cleared \in block_cache_entry
        /\ Cleared.data \in Seq(Transfer \X Nat) /\ Cleared.data # <<>>
        /\ StartOf(Cleared.data) <= current
    BY <1>3, <1>8 DEF IgnoreSecondEnd, AppendBlock, HasUpTo, block_cache_entry, CacheStarts, Body
  <2>2. StartOf(Cleared.data) \in 1..current
    <3>1. Cleared.data[1] \in Transfer \X Nat
      BY <2>1
    <3>2. StartOf(Cleared.data) \in Transfer
      BY <3>1 DEF StartOf
    <3> QED BY <1>2, <2>1, <3>2, TransferType
  <2>3. CASE IgnoreSecondEnd(r)
    <3>1. block_cache'.data = Cleared.data /\ UNCHANGED handed
      BY <2>1, <2>3 DEF IgnoreSecondEnd, block_cache_entry
    <3> QED BY <1>2, <2>1, <3>1 DEF CacheStarts
  <2>4. CASE AppendBlock(r)
    <3> DEFINE e == [Cleared EXCEPT !.last_block = r.num, !.m = r.m,
                                    !.data = Append(@, Block(r))]
    <3>1. Append(Cleared.data, Block(r)) \in Body
      BY <1>2, <2>1 DEF Body
    <3>2. e.data = Append(Cleared.data, Block(r)) /\ e \in block_cache_entry
      BY <1>2, <2>1, <3>1 DEF block_cache_entry
    <3>3. Store(r, e)
      BY <2>4 DEF AppendBlock
    <3> HIDE DEF e
    <3>4. e.data # <<>> /\ e.data[1] = Cleared.data[1]
      BY <1>2, <2>1, <3>2
    <3> QED BY <1>6, <2>2, <3>2, <3>3, <3>4 DEF StartOf
  <2> QED BY <1>8, <2>3, <2>4
<1> QED BY <1>1, <1>4, <1>5, <1>7, <1>8
        DEF ResourceBlockHandler, IgnoreRepeated, RequestIncomplete

\* A body is logged as it is handed over.
LEMMA ReceiveLogs ==
  ASSUME LogInv, NEW i \in DOMAIN requests, Receive(i)
  PROVE  /\ CacheStarts'
         /\ \/ UNCHANGED <<handed, log>>
            \/ \E d \in Body, m \in Message :
                 /\ handed' = Append(handed, d) /\ StartOf(d) \in 1..current
                 /\ m = carries[StartOf(d)]
                 /\ log' = IF m \in Range(log) THEN log ELSE Append(log, m)
<1>1. /\ CacheStarts'
      /\ \/ UNCHANGED handed
         \/ \E d \in Body : handed' = Append(handed, d) /\ StartOf(d) \in 1..current
  BY HandsStart DEF LogInv, Receive
<1>2. CASE UNCHANGED handed
  BY <1>1, <1>2 DEF Receive
<1>3. ASSUME NEW d \in Body, handed' = Append(handed, d), StartOf(d) \in 1..current
      PROVE  /\ carries[StartOf(d)] \in Message
             /\ log' = IF carries[StartOf(d)] \in Range(log) THEN log
                       ELSE Append(log, carries[StartOf(d)])
  <2>1. handed \in Seq(Body) /\ carries \in Seq(Message) /\ Len(carries) = current
    BY DEF LogInv, OrderInv, TypeInv, TypeOK, LinkInv, SessionTypeOK
  <2>2. handed' # handed /\ Last(handed') = d
    BY <1>3, <2>1, LastAppended
  <2>3. carries[StartOf(d)] \in Message
    BY <1>3, <2>1
  <2> QED BY <2>2, <2>3 DEF Receive, StartOf
<1> QED BY <1>1, <1>2, <1>3

\* The log and the attempts only grow.
LEMMA LoggedStays ==
  ASSUME Logged, HistoryTypeOK, SessionTypeOK, SessionTypeOK', current \in Nat, current' \in Nat,
         UNCHANGED handed, log' = log,
         carries' = carries \/ \E m \in Message : carries' = Append(carries, m)
  PROVE  Logged'
<1>1. /\ carries \in Seq(Message) /\ Len(carries) = current
      /\ carries' \in Seq(Message) /\ Len(carries') = current'
  BY DEF SessionTypeOK
<1>2. \A u \in 1..current : u \in 1..current' /\ carries'[u] = carries[u]
  <2>1. CASE carries' = carries
    BY <1>1, <2>1
  <2>2. ASSUME NEW n \in Message, carries' = Append(carries, n)
        PROVE  \A u \in 1..current : u \in 1..current' /\ carries'[u] = carries[u]
    BY <1>1, <2>2
  <2> QED BY <2>1, <2>2
<1> QED BY <1>2 DEF Logged, StartOf

LEMMA LogNext == LogInv /\ [ChainNext]_chainvars => LogInv'
<1> SUFFICES ASSUME LogInv, [ChainNext]_chainvars PROVE LogInv'
  OBVIOUS
<1>1. /\ OrderInv /\ TypeInv /\ KnownFit /\ LinkInv /\ SessionTypeOK /\ HistoryTypeOK
      /\ Logged /\ CacheStarts /\ current \in Nat
  BY DEF LogInv, OrderInv, LinkInv, TypeInv, TypeOK
<1>2. [Next]_vars
  BY ChainStep DEF chainvars, vars
<1>3. OrderInv' /\ LinkInv' /\ SessionTypeOK' /\ current' \in Nat
  <2>1. OrderInv'
    BY <1>1, <1>2, InOrderNext, NextType, KnownFitNext DEF OrderInv
  <2>2. LinkInv'
    BY <1>1, LinkNext
  <2> QED BY <2>1, <2>2 DEF LinkInv, OrderInv, TypeInv, TypeOK
<1>4. ASSUME NEW i \in DOMAIN requests, Receive(i)
      PROVE  CacheStarts' /\ Logged' /\ HistoryTypeOK'
  <2>1. /\ UNCHANGED <<session, carries, current>>
    BY <1>4 DEF Receive, ResourceBlockHandler, client
  <2>2. CASE UNCHANGED <<handed, log>>
    BY <1>1, <1>4, <2>1, <2>2, ReceiveLogs DEF Logged, HistoryTypeOK, StartOf, session, LogInv
  <2>3. ASSUME NEW d \in Body, NEW m \in Message,
               handed' = Append(handed, d), StartOf(d) \in 1..current, m = carries[StartOf(d)],
               log' = IF m \in Range(log) THEN log ELSE Append(log, m)
        PROVE  Logged' /\ HistoryTypeOK'
    <3>1. log \in Seq(Message) /\ handed \in Seq(Body)
      BY <1>1 DEF HistoryTypeOK, TypeInv, TypeOK
    <3>2. log' \in Seq(Message) /\ Range(log) \subseteq Range(log') /\ m \in Range(log')
      BY <2>3, <3>1, QueuedGrows
    <3>3. \A k \in DOMAIN handed' : (k \in DOMAIN handed /\ handed'[k] = handed[k]) \/ handed'[k] = d
      BY <2>3, <3>1
    <3>4. Logged'
      BY <1>1, <2>1, <2>3, <3>2, <3>3 DEF Logged, StartOf
    <3> QED BY <1>1, <2>1, <3>2, <3>4 DEF HistoryTypeOK, session
  <2> QED BY <1>4, <2>2, <2>3, ReceiveLogs DEF LogInv
<1>5. ASSUME ~\E i \in DOMAIN requests : Receive(i)
      PROVE  CacheStarts' /\ Logged' /\ HistoryTypeOK'
  <2>1. UNCHANGED <<block_cache, handed, log>>
    BY <1>5 DEF ChainNext, EnqueueMessage, Transmit, Begin, response_handler, GetAnswer, NackRst,
                NackTooManyRetries, GiveUp, ClearCrash, Elapse, Repeat, UseMidForPing, SkipMid,
                Lose,
                chainvars, vars, server
  <2>2. current <= current'
    <3>1. current' \in {current, current + 1}
      BY <1>1, <1>2, FreshOrStale DEF Fresh, Stale
    <3> QED BY <1>1, <3>1
  <2>3. CacheStarts'
    <3>1. block_cache # NULL => StartOf(block_cache.data) \in Int
      <4>1. block_cache # NULL => block_cache.data \in Seq(Transfer \X Nat)
        BY <1>1 DEF TypeInv, TypeOK, block_cache_entry, Body
      <4>2. block_cache # NULL => block_cache.data[1] \in Transfer \X Nat
        BY <1>1, <4>1 DEF CacheStarts
      <4> QED BY <4>2, TransferType DEF StartOf
    <3> QED BY <1>1, <1>3, <2>1, <2>2, <3>1 DEF CacheStarts
  <2>4. carries' = carries \/ \E m \in Message : carries' = Append(carries, m)
    <3>1. ASSUME NEW m \in Message, Transmit(m)
          PROVE  carries' = carries \/ carries' = Append(carries, m)
      BY <3>1 DEF Transmit
    <3>2. CASE ~\E m \in Message : Transmit(m)
      BY <1>5, <3>2 DEF ChainNext, EnqueueMessage, response_handler, NackRst,
                        NackTooManyRetries, chainvars
    <3> QED BY <3>1, <3>2
  <2>5. Logged'
    BY <1>1, <1>3, <2>1, <2>4, LoggedStays
  <2>6. disconnected' \in BOOLEAN
    BY <1>1, <1>5 DEF HistoryTypeOK, ChainNext, EnqueueMessage, Transmit, response_handler,
         NotifySuccess, NackRst, NackTooManyRetries, chainvars, session
  <2>7. given_up' \subseteq (Message \X Reasons)
    <3>1. CASE UNCHANGED given_up
      BY <1>1, <3>1 DEF HistoryTypeOK, Message
    <3>2. ASSUME NEW i \in DOMAIN responses, response_handler(i), NotifySuccess(outcome'),
                 outcome' # outcome
          PROVE  given_up' \subseteq (Message \X Reasons)
      <4>1. waiting # NULL
        BY <3>2 DEF response_handler, GetAnswer, client
      <4>2. pending_message \in Message
        <5>1. carries[current] = pending_message /\ current \in 1..Len(carries)
          BY <1>1, <4>1 DEF LinkInv, PendingIsCarried, SessionTypeOK
        <5> QED BY <1>1, <5>1 DEF SessionTypeOK
      <4> QED BY <1>1, <3>2, <4>2 DEF NotifySuccess, HistoryTypeOK, Reasons, Message
    <3>3. ASSUME NEW m \in Message, Transmit(m) PROVE given_up' \subseteq (Message \X Reasons)
      BY <1>1, <3>3 DEF Transmit, HistoryTypeOK, Reasons, Message
    <3> QED BY <1>5, <3>1, <3>2, <3>3
        DEF ChainNext, EnqueueMessage, response_handler, NackRst,
            NackTooManyRetries, NotifyFailure, chainvars, session
  <2>8. log' \in Seq(Message)
    BY <1>1, <2>1 DEF HistoryTypeOK, Message
  <2> QED BY <2>3, <2>5, <2>6, <2>7, <2>8 DEF HistoryTypeOK, Message
<1> QED BY <1>3, <1>4, <1>5 DEF LogInv

LEMMA LinkInit == ChainInit => LinkInv
BY ChainAssumption DEF ChainInit, Init, LinkInv, SessionTypeOK, PendingIsCarried, Undecided

LEMMA LogInit == ChainInit => LogInv
<1>1. ChainInit => OrderInv
  BY OrderInit DEF ChainInit
<1>2. ChainInit => LinkInv
  BY LinkInit
<1>3. ChainInit => CacheStarts /\ Logged
  BY DEF ChainInit, Init, CacheStarts, Logged
<1>4. ChainInit => HistoryTypeOK
  <2>1. <<>> \in Seq(Message)
    OBVIOUS
  <2>2. ChainInit => log = <<>> /\ disconnected = FALSE /\ given_up = {}
    BY DEF ChainInit
  <2> QED BY <2>1, <2>2 DEF HistoryTypeOK
<1> QED BY <1>1, <1>2, <1>3, <1>4 DEF LogInv

\* Every variable of a Session and its transfers keeps its type, for any messages and
\* attempts; every attempt is about a message, and so is what is handed over.
THEOREM SessionTypes == ChainSpec => []ChainTypeOK
<1>1. LogInv => ChainTypeOK
  BY DEF LogInv, OrderInv, TypeInv, LinkInv, SessionTypeOK, HistoryTypeOK, ChainTypeOK
<1> QED BY <1>1, LogInit, LogNext, PTL DEF ChainSpec

-----------------------------------------------------------------------------
(* No message is lost.                                                     *)

\* Nothing is rejected while nothing is overtaken and ids are consecutive.
NoneRejected ==
  ~overtaken /\ pings = 0 /\ ~wrapped => \A m : <<m, "rejected">> \notin given_up

LossInv == StepInv /\ LogInv /\ Accounted /\ NoneRejected

LEMMA NoneRejectedNext ==
  ASSUME StepInv, StepInv', LinkInv, NoneRejected, [ChainNext]_chainvars
  PROVE  NoneRejected'
<1> SUFFICES ASSUME ~overtaken', pings' = 0, ~wrapped'
             PROVE  \A m : <<m, "rejected">> \notin given_up'
  BY DEF NoneRejected
<1>1. TypeInv /\ KnownFit /\ [Next]_vars
  BY ChainStep DEF StepInv, WholeInv, chainvars, vars
<1>2. \A m : <<m, "rejected">> \notin given_up
  BY <1>1, Before DEF NoneRejected
<1>3. ASSUME NEW i \in DOMAIN responses, response_handler(i), NotifySuccess(outcome'),
             outcome' # outcome
      PROVE  UNCHANGED given_up
  <2>1. waiting # NULL
    BY <1>3 DEF response_handler, GetAnswer, client
  <2>2. current \in Transfer
    BY <1>1, <2>1, TransferType DEF LinkInv, PendingIsCarried, TypeInv, TypeOK
  <2>3. outcome'[current] # "incomplete"
    BY <2>2 DEF StepInv, InStep, Transfer
  <2> QED BY <1>3, <2>3 DEF NotifySuccess
<1>4. ASSUME NEW m \in Message, Transmit(m)
      PROVE  UNCHANGED given_up \/ given_up' = given_up \cup {<<m, "send_failed">>}
  BY <1>4 DEF Transmit
<1>5. UNCHANGED given_up \/ \E m : given_up' = given_up \cup {<<m, "send_failed">>}
  BY <1>3, <1>4
  DEF ChainNext, EnqueueMessage, response_handler, NackRst, Receive,
      NackTooManyRetries, NotifyFailure, chainvars, session
<1>6. ASSUME NEW m, given_up' = given_up \cup {<<m, "send_failed">>}
      PROVE  \A n : <<n, "rejected">> \notin given_up'
  <2>1. \A n : <<n, "rejected">> # <<m, "send_failed">>
    OBVIOUS
  <2> QED BY <1>2, <1>6, <2>1
<1> QED BY <1>2, <1>5, <1>6

LEMMA LossNext == LossInv /\ [ChainNext]_chainvars => LossInv'
<1> SUFFICES ASSUME LossInv, [ChainNext]_chainvars PROVE LossInv'
  OBVIOUS
<1>1. [Next]_vars
  BY ChainStep DEF chainvars, vars
<1>2. StepInv' /\ LogInv'
  BY <1>1, StepNext, LogNext DEF LossInv
<1>3. NoneRejected'
  BY <1>2, NoneRejectedNext DEF LossInv, LogInv
<1>4. Accounted'
  <2>1. CASE ChainNext
    BY <1>2, <2>1, AccountedNext DEF LossInv, LogInv, StepInv
  <2>2. CASE UNCHANGED chainvars
    <3>1. UNCHANGED <<accepted, wrapped, given_up, carries, handed, current>>
          /\ UNCHANGED <<retransmit_queue, transmit_queue, pending_message>>
      BY <2>2 DEF chainvars, vars, client, server, session
    <3> QED BY <3>1 DEF LossInv, Accounted, Queued, Settled, BodyOf
  <2> QED BY <2>1, <2>2
<1> QED BY <1>2, <1>3, <1>4 DEF LossInv

\* While no datagram overtakes another, no ping takes a message id and none is used
\* again, every message is queued, pending or handed over, or a send of it has failed,
\* whatever is lost, repeated or given up: that any answer counts as success loses
\* nothing.
THEOREM NoMessageLost == ChainSpec => []NothingLost
<1>1. ChainInit => LossInv
  <2>1. ChainInit => StepInv
    BY StepInit DEF ChainInit
  <2>2. ChainInit => Accounted /\ NoneRejected
    BY DEF ChainInit, Accounted, NoneRejected
  <2> QED BY <2>1, <2>2, LogInit DEF LossInv
<1>2. LossInv => NothingLost
  <2> SUFFICES ASSUME LossInv, ~overtaken, pings = 0, ~wrapped, NEW m \in 1..accepted
               PROVE  \/ Contains(Unsettled, m) \/ Contains(log, m)
                      \/ <<m, "send_failed">> \in given_up
    BY DEF NothingLost
  <2>1. m \in Queued \/ Settled(m)
    BY DEF LossInv, Accounted
  <2>2. CASE m \in Queued
    BY <2>2, QueuedIsUnsettled DEF LossInv, LogInv, LinkInv
  <2>3. CASE Settled(m) /\ <<m, "send_failed">> \notin given_up
    <3>1. PICK u \in 1..current : carries[u] = m /\ BodyOf(u) \in Range(handed)
      BY <2>3 DEF Settled, LossInv, NoneRejected, Reasons
    <3>2. PICK i \in DOMAIN handed : handed[i] = BodyOf(u)
      BY <3>1 DEF Range
    <3>3. StartOf(BodyOf(u)) = u
      <4>1. u \in Transfer
        BY TransferType DEF LossInv, LogInv, OrderInv, TypeInv, TypeOK
      <4>2. 1 \in 1..Blocks[u]
        BY <4>1, TransferType
      <4> QED BY <4>2 DEF BodyOf, StartOf
    <3>4. m \in Range(log) /\ log \in Seq(Message)
      BY <3>1, <3>2, <3>3 DEF LossInv, LogInv, Logged, HistoryTypeOK
    <3> QED BY <3>4 DEF Range, Contains
  <2> QED BY <2>1, <2>2, <2>3
<1> QED BY <1>1, <1>2, LossNext, PTL DEF ChainSpec
-----------------------------------------------------------------------------
(* The queues of a Session as one backlog.                                 *)

Joined(r, p, t) == r \o (IF p = 0 THEN <<>> ELSE <<p>>) \o t

\* At most one message is to be sent again, and then none is pending.
AtMostOne(r, p) == r # <<>> => p = 0 /\ \E m \in Message : r = <<m>>

OneRetry == AtMostOne(retransmit_queue, pending_message)

LEMMA FirstOfConcat ==
  ASSUME NEW S, NEW m \in S, NEW t \in Seq(S)
  PROVE  /\ <<m>> \o t \in Seq(S) /\ <<m>> \o t # <<>>
         /\ Head(<<m>> \o t) = m /\ Tail(<<m>> \o t) = t
<1> DEFINE s == <<m>> \o t
<1>1. <<m>> \in Seq(S) /\ Len(<<m>>) = 1
  OBVIOUS
<1>2. /\ s \in Seq(S) /\ Len(s) = 1 + Len(t) /\ Len(t) \in Nat
      /\ \A i \in 1..1 + Len(t) : s[i] = IF i <= 1 THEN <<m>>[i] ELSE t[i - 1]
  BY <1>1, ConcatProperties
<1> HIDE DEF s
<1>3. s # <<>> /\ Head(s) = m
  BY <1>2
<1>4. Tail(s) = t
  <2>1. Tail(s) \in Seq(S) /\ Len(Tail(s)) = Len(t)
    BY <1>2, <1>3
  <2>2. \A i \in 1..Len(t) : Tail(s)[i] = t[i]
    BY <1>2, <1>3
  <2> QED BY <2>1, <2>2, SeqEqual
<1> QED BY <1>2, <1>3, <1>4 DEF s

LEMMA HeadAndTail ==
  ASSUME NEW S, NEW s \in Seq(S), s # <<>>
  PROVE  Head(s) \in S /\ Tail(s) \in Seq(S) /\ <<Head(s)>> \o Tail(s) = s
<1>1. /\ Head(s) \in S /\ Tail(s) \in Seq(S) /\ Len(Tail(s)) = Len(s) - 1
      /\ Head(s) = s[1] /\ Len(s) \in Nat \ {0}
      /\ \A i \in 1..Len(s) - 1 : Tail(s)[i] = s[i + 1]
  OBVIOUS
<1>2. <<Head(s)>> \in Seq(S) /\ Len(<<Head(s)>>) = 1 /\ <<Head(s)>>[1] = Head(s)
  BY <1>1
<1> DEFINE h == <<Head(s)>>  t == Tail(s)  c == h \o t
<1>3. /\ c \in Seq(S) /\ Len(c) = Len(h) + Len(t)
      /\ \A i \in 1..Len(h) + Len(t) : c[i] = IF i <= Len(h) THEN h[i] ELSE t[i - Len(h)]
  BY <1>1, <1>2, ConcatProperties
<1> HIDE DEF h, t, c
<1>4. \A i \in 1..Len(c) : c[i] = s[i]
  BY <1>1, <1>2, <1>3 DEF h, t
<1>5. Len(c) = Len(s)
  BY <1>1, <1>2, <1>3 DEF h, t
<1>6. c = s
  BY <1>3, <1>4, <1>5, SeqEqual
<1> QED BY <1>1, <1>6 DEF c, h, t

LEMMA NoMessageZero == 0 \notin Message /\ 0..MaxMsg = Message \cup {0}
BY ChainAssumption DEF Message

LEMMA JoinedIs ==
  ASSUME NEW t \in Seq(Message)
  PROVE  /\ Joined(<<>>, 0, t) = t
         /\ \A m \in Message : Joined(<<>>, m, t) = <<m>> \o t /\ Joined(<<m>>, 0, t) = <<m>> \o t
<1>1. <<>> \in Seq(Message)
  OBVIOUS
<1>2. \A s \in Seq(Message) : <<>> \o s = s /\ s \o <<>> = s
  OBVIOUS
<1>3. Joined(<<>>, 0, t) = t
  <2>1. <<>> \o <<>> = <<>>
    OBVIOUS
  <2> QED BY <1>2, <2>1 DEF Joined
<1>4. ASSUME NEW m \in Message
      PROVE  Joined(<<>>, m, t) = <<m>> \o t /\ Joined(<<m>>, 0, t) = <<m>> \o t
  <2>1. <<m>> \in Seq(Message)
    OBVIOUS
  <2>2. <<>> \o <<m>> = <<m>> /\ <<m>> \o <<>> = <<m>>
    BY <1>2, <2>1
  <2> QED BY <2>2, NoMessageZero DEF Joined
<1> QED BY <1>3, <1>4

LEMMA AppendJoined ==
  ASSUME NEW S, NEW s \in Seq(S), NEW t \in Seq(S), NEW m \in S
  PROVE  s \o Append(t, m) = Append(s \o t, m)
OBVIOUS

LEMMA JoinedType ==
  ASSUME NEW r \in Seq(Message), NEW p \in 0..MaxMsg, NEW t \in Seq(Message), AtMostOne(r, p)
  PROVE  /\ Joined(r, p, t) \in Seq(Message)
         /\ p # 0 => /\ r = <<>> /\ Joined(r, p, t) # <<>>
                     /\ Head(Joined(r, p, t)) = p /\ Tail(Joined(r, p, t)) = t
<1>1. CASE r # <<>>
  <2>1. PICK m \in Message : r = <<m>> /\ p = 0
    BY <1>1 DEF AtMostOne
  <2>2. Joined(r, p, t) = <<m>> \o t
    BY <2>1, JoinedIs
  <2>3. <<m>> \o t \in Seq(Message)
    BY FirstOfConcat
  <2> QED BY <2>1, <2>2, <2>3
<1>2. CASE r = <<>> /\ p # 0
  <2>1. p \in Message
    BY <1>2, NoMessageZero
  <2>2. Joined(r, p, t) = <<p>> \o t
    BY <1>2, <2>1, JoinedIs
  <2>3. /\ <<p>> \o t \in Seq(Message) /\ <<p>> \o t # <<>>
        /\ Head(<<p>> \o t) = p /\ Tail(<<p>> \o t) = t
    BY <2>1, FirstOfConcat
  <2> QED BY <1>2, <2>2, <2>3
<1>3. CASE r = <<>> /\ p = 0
  BY <1>3, JoinedIs
<1> QED BY <1>1, <1>2, <1>3

LEMMA UnsettledIs ==
  /\ Unsettled = Joined(retransmit_queue, pending_message, transmit_queue)
  /\ Unsettled' = Joined(retransmit_queue', pending_message', transmit_queue')
BY DEF Unsettled, Joined

LEMMA EnqueueAppends ==
  ASSUME LinkInv, OneRetry, EnqueueMessage
  PROVE  OneRetry' /\ Unsettled' = Append(Unsettled, accepted + 1)
<1> DEFINE m == accepted + 1  r == retransmit_queue  p == pending_message  t == transmit_queue
<1>1. /\ m \in Message /\ r \in Seq(Message) /\ p \in 0..MaxMsg /\ t \in Seq(Message)
      /\ t' = Append(t, m) /\ r' = r /\ p' = p
  BY ChainAssumption DEF EnqueueMessage, LinkInv, SessionTypeOK, Message
<1>2. OneRetry'
  BY <1>1 DEF OneRetry, AtMostOne, Message
<1> HIDE DEF m, r, p, t
<1>3. Joined(r, p, Append(t, m)) = Append(Joined(r, p, t), m)
  <2> DEFINE s == r \o (IF p = 0 THEN <<>> ELSE <<p>>)
  <2>1. (IF p = 0 THEN <<>> ELSE <<p>>) \in Seq(Message)
    <3>1. <<>> \in Seq(Message)
      OBVIOUS
    <3> QED BY <1>1, <3>1, NoMessageZero
  <2>2. s \in Seq(Message)
    BY <1>1, <2>1
  <2> HIDE DEF s
  <2>3. s \o Append(t, m) = Append(s \o t, m)
    BY <1>1, <2>2, AppendJoined
  <2> QED BY <2>3 DEF s, Joined
<1> QED BY <1>1, <1>2, <1>3, UnsettledIs DEF m, r, p, t

\* The message that is taken is the first of the backlog.
LEMMA TakesFirst ==
  ASSUME LinkInv, OneRetry, NEW m \in Message, pending_message = 0, Extract(m)
  PROVE  /\ Unsettled \in Seq(Message) /\ Unsettled # <<>> /\ Head(Unsettled) = m
         /\ retransmit_queue' = <<>>
         /\ transmit_queue' \in Seq(Message) /\ transmit_queue' = Tail(Unsettled)
         /\ <<m>> \o transmit_queue' = Unsettled
<1> DEFINE r == retransmit_queue  p == pending_message  t == transmit_queue
<1>1. r \in Seq(Message) /\ t \in Seq(Message) /\ p = 0
  BY DEF LinkInv, SessionTypeOK
<1>2. CASE r # <<>> /\ m = Head(r) /\ r' = Tail(r) /\ t' = t
  <2>1. PICK n \in Message : r = <<n>>
    BY <1>2 DEF OneRetry, AtMostOne
  <2>2. Head(<<n>>) = n /\ Tail(<<n>>) = <<>>
    OBVIOUS
  <2>3. r' = <<>> /\ r = <<m>>
    BY <1>2, <2>1, <2>2
  <2>4. Unsettled = <<m>> \o t
    BY <1>1, <2>3, JoinedIs, UnsettledIs
  <2>5. /\ <<m>> \o t \in Seq(Message) /\ <<m>> \o t # <<>>
        /\ Head(<<m>> \o t) = m /\ Tail(<<m>> \o t) = t
    BY <1>1, FirstOfConcat
  <2> QED BY <1>1, <1>2, <2>3, <2>4, <2>5
<1>3. CASE r = <<>> /\ t # <<>> /\ m = Head(t) /\ t' = Tail(t) /\ r' = r
  <2>1. Head(t) \in Message /\ Tail(t) \in Seq(Message) /\ <<Head(t)>> \o Tail(t) = t
    BY <1>1, <1>3, HeadAndTail
  <2>2. Unsettled = t
    BY <1>1, <1>3, JoinedIs, UnsettledIs
  <2> QED BY <1>1, <1>3, <2>1, <2>2
<1> QED BY <1>2, <1>3 DEF Extract

\* A message that is sent stays the first.
LEMMA TransmitTakes ==
  ASSUME LinkInv, OneRetry, NEW m \in Message, Transmit(m), pending_message' = m
  PROVE  OneRetry' /\ UNCHANGED Unsettled /\ Unsettled # <<>> /\ Head(Unsettled) = m
<1>1. /\ Unsettled # <<>> /\ Head(Unsettled) = m
      /\ retransmit_queue' = <<>> /\ transmit_queue' \in Seq(Message)
      /\ <<m>> \o transmit_queue' = Unsettled
  BY TakesFirst DEF Transmit
<1>2. Unsettled' = <<m>> \o transmit_queue'
  BY <1>1, JoinedIs, UnsettledIs
<1> QED BY <1>1, <1>2 DEF OneRetry, AtMostOne

\* One that cannot be sent leaves.
LEMMA FailedLeaves ==
  ASSUME LinkInv, OneRetry, NEW m \in Message, Transmit(m), UNCHANGED pending_message
  PROVE  /\ OneRetry' /\ Unsettled \in Seq(Message) /\ Unsettled # <<>>
         /\ Head(Unsettled) = m /\ Unsettled' = Tail(Unsettled)
<1>1. /\ Unsettled \in Seq(Message) /\ Unsettled # <<>> /\ Head(Unsettled) = m
      /\ retransmit_queue' = <<>> /\ pending_message' = 0
      /\ transmit_queue' \in Seq(Message) /\ transmit_queue' = Tail(Unsettled)
  BY TakesFirst DEF Transmit
<1>2. Unsettled' = transmit_queue'
  BY <1>1, JoinedIs, UnsettledIs
<1> QED BY <1>1, <1>2 DEF OneRetry, AtMostOne

LEMMA FailureReturns ==
  ASSUME LinkInv, OneRetry, pending_message # 0, NotifyFailure
  PROVE  OneRetry' /\ UNCHANGED Unsettled
<1> DEFINE r == retransmit_queue  p == pending_message  t == transmit_queue
<1>1. /\ r \in Seq(Message) /\ t \in Seq(Message) /\ p \in Message /\ r = <<>>
      /\ p \in 0..MaxMsg
  BY NoMessageZero DEF LinkInv, SessionTypeOK, OneRetry, AtMostOne
<1>2. p' = 0 /\ r' = <<p>> /\ t' = t
  <2>1. Append(<<>>, p) = <<p>>
    BY <1>1
  <2> QED BY <1>1, <2>1 DEF NotifyFailure
<1>3. Joined(r', p', t') = Joined(r, p, t)
  BY <1>1, <1>2, JoinedIs
<1>4. OneRetry'
  <2>1. \E m \in Message : r' = <<m>>
    BY <1>1, <1>2
  <2>2. UNCHANGED Message
    BY DEF Message
  <2> QED BY <1>2, <2>1, <2>2 DEF OneRetry, AtMostOne
<1> QED BY <1>3, <1>4, UnsettledIs

LEMMA SuccessRemoves ==
  ASSUME LinkInv, OneRetry, pending_message # 0, NEW o, NotifySuccess(o)
  PROVE  /\ OneRetry' /\ Unsettled \in Seq(Message) /\ Unsettled # <<>>
         /\ Head(Unsettled) = pending_message /\ Unsettled' = Tail(Unsettled)
<1> DEFINE r == retransmit_queue  p == pending_message  t == transmit_queue
<1>1. /\ r \in Seq(Message) /\ t \in Seq(Message) /\ p \in 0..MaxMsg /\ r = <<>>
      /\ r' = r /\ t' = t /\ p' = 0
  BY DEF LinkInv, SessionTypeOK, OneRetry, AtMostOne, NotifySuccess
<1>2. /\ Joined(r, p, t) \in Seq(Message) /\ Joined(r, p, t) # <<>>
      /\ Head(Joined(r, p, t)) = p /\ Tail(Joined(r, p, t)) = t
  BY <1>1, JoinedType DEF OneRetry
<1>3. Joined(r', p', t') = t
  BY <1>1, JoinedIs
<1>4. OneRetry'
  BY <1>1 DEF OneRetry, AtMostOne
<1> QED BY <1>2, <1>3, <1>4, UnsettledIs
-----------------------------------------------------------------------------
(* Messages are tried in the order of their numbers.                       *)

Ascending(s) == \A i, j \in DOMAIN s : i <= j => s[i] <= s[j]
Ahead(s, t)  == \A i \in DOMAIN s, j \in DOMAIN t : s[i] <= t[j]
UpTo(s, n)   == \A i \in DOMAIN s : s[i] <= n

\* What has been tried is not newer than what is in the backlog.
InLine ==
  /\ Ascending(carries) /\ Ascending(Unsettled) /\ Ahead(carries, Unsettled)
  /\ UpTo(carries, accepted) /\ UpTo(Unsettled, accepted)
  /\ Range(log) \subseteq Range(carries)

LEMMA MessageInt == \A m \in Message : m \in Int
BY ChainAssumption DEF Message

\* The next in line is taken from the backlog.
LEMMA LineTail ==
  ASSUME NEW s \in Seq(Message), NEW t \in Seq(Message), t # <<>>, NEW n \in Int,
         Ascending(t), Ahead(s, t), UpTo(t, n)
  PROVE  Ascending(Tail(t)) /\ Ahead(s, Tail(t)) /\ UpTo(Tail(t), n)
<1> DEFINE v == Tail(t)
<1>1. \A i \in DOMAIN v : i \in Int /\ i + 1 \in DOMAIN t /\ v[i] = t[i + 1]
  OBVIOUS
<1> HIDE DEF v
<1>2. \A i, j \in DOMAIN v : i <= j => i + 1 <= j + 1
  BY <1>1
<1>3. Ascending(v)
  BY <1>1, <1>2 DEF Ascending
<1>4. Ahead(s, v) /\ UpTo(v, n)
  BY <1>1 DEF Ahead, UpTo
<1> QED BY <1>3, <1>4 DEF v

\* A new message is the last in line.
LEMMA LineGrows ==
  ASSUME NEW s \in Seq(Message), NEW t \in Seq(Message), NEW n \in Int, NEW m \in Message,
         Ascending(t), UpTo(t, n), n <= m
  PROVE  /\ Ascending(Append(t, m)) /\ UpTo(Append(t, m), m)
         /\ UpTo(s, n) => UpTo(s, m)
         /\ Ahead(s, t) /\ UpTo(s, m) => Ahead(s, Append(t, m))
<1> DEFINE v == Append(t, m)
<1>1. \A i \in DOMAIN v : (i \in DOMAIN t /\ v[i] = t[i]) \/ (i = Len(t) + 1 /\ v[i] = m)
  OBVIOUS
<1>2. \A i \in DOMAIN t : t[i] \in Int /\ i \in Int /\ i <= Len(t)
  BY MessageInt
<1>3. \A i \in DOMAIN s : s[i] \in Int
  BY MessageInt
<1>4. m \in Int /\ Len(t) \in Int
  BY MessageInt
<1> HIDE DEF v
<1>5. \A i \in DOMAIN t : t[i] <= m
  BY <1>2, <1>4 DEF UpTo
<1>6. UpTo(v, m)
  BY <1>1, <1>4, <1>5 DEF UpTo
<1>7. Ascending(v)
  BY <1>1, <1>2, <1>4, <1>5 DEF Ascending
<1>8. UpTo(s, n) => UpTo(s, m)
  BY <1>3, <1>4 DEF UpTo
<1>9. Ahead(s, t) /\ UpTo(s, m) => Ahead(s, v)
  BY <1>1 DEF Ahead, UpTo
<1> QED BY <1>6, <1>7, <1>8, <1>9 DEF v

\* The first in line is tried.
LEMMA LineTried ==
  ASSUME NEW s \in Seq(Message), NEW t \in Seq(Message), t # <<>>, NEW n \in Int,
         Ascending(s), Ascending(t), Ahead(s, t), UpTo(s, n), UpTo(t, n)
  PROVE  /\ Ascending(Append(s, Head(t))) /\ Ahead(Append(s, Head(t)), t)
         /\ UpTo(Append(s, Head(t)), n)
<1> DEFINE m == Head(t)  v == Append(s, m)
<1>1. 1 \in DOMAIN t /\ m = t[1] /\ m \in Message /\ \A j \in DOMAIN t : 1 <= j
  OBVIOUS
<1>2. UpTo(s, m) /\ m <= n /\ \A j \in DOMAIN t : m <= t[j]
  BY <1>1 DEF Ahead, UpTo, Ascending
<1>3. \A i \in DOMAIN v : (i \in DOMAIN s /\ v[i] = s[i]) \/ v[i] = m
  OBVIOUS
<1>4. Ascending(v)
  BY <1>1, <1>2, LineGrows, MessageInt
<1> HIDE DEF v, m
<1>5. Ahead(v, t) /\ UpTo(v, n)
  BY <1>2, <1>3 DEF Ahead, UpTo
<1> QED BY <1>4, <1>5 DEF v, m
-----------------------------------------------------------------------------
(* Whose turn it is upstream.                                              *)

\* The server will refuse what it still gets of transfer u.
Dead(u) == \A q \in Known : q.transfer = u => Stuck(Cleared, q)

\* What the client waits for is the last that is under way once it is answered, and
\* answered by 4.08 it is refused again.
AnsweredLast ==
  \A k \in DOMAIN responses : waiting # NULL /\ responses[k].mid = waiting.mid =>
    /\ \A q \in Known : NotAfter(waiting, q)
    /\ responses[k].code = "INCOMPLETE" => Stuck(Cleared, waiting)

AtTurn(m) == Unsettled # <<>> /\ Head(Unsettled) = m

\* The message whose send has failed is newer than all that were handed over.
Late(m) == <<m, "send_failed">> \in given_up /\ \A n \in Range(log) : n < m

\* A transfer that the server might still hand over is of a message that it has, of
\* the one whose turn it is, or of one that has left the backlog since.
Turn ==
  \A u \in 1..current :
    carries[u] \in Range(log) \/ AtTurn(carries[u]) \/ Late(carries[u]) \/ Dead(u)

HandsInv ==
  LogInv /\ WholeInv /\ OneRetry /\ InLine /\ (~overtaken /\ ~wrapped => AnsweredLast /\ Turn)

LEMMA HandlerDead ==
  ASSUME TypeInv, IdsApart, NEW r \in Known, Known' \subseteq Known,
         \A q \in Known' : NotAfter(r, q), Ignores(r) \/ Passes(r) \/ Advances(r),
         NEW u, Dead(u)
  PROVE  Dead(u)'
<1>1. CASE UNCHANGED Cleared
  BY <1>1 DEF Dead
<1>2. CASE Advances(r)
  <2> SUFFICES ASSUME NEW q \in Known', q.transfer = u PROVE Stuck(Cleared', q)
    BY DEF Dead
  <2>1. q \in Known /\ Stuck(Cleared, q) /\ NotAfter(r, q)
    BY DEF Dead
  <2>2. r.transfer # u
    <3>1. ~Stuck(Cleared, r)
      <4>1. r.num \in Nat
        BY KnownNumbers DEF TypeInv
      <4> QED BY <1>2, <4>1 DEF Advances, Stuck, Reached, HasUpTo
    <3> QED BY <3>1 DEF Dead
  <2>3. r.transfer < q.transfer
    BY <2>1, <2>2 DEF NotAfter
  <2>4. first_mid(r) < first_mid(q) /\ first_mid(r) \in Int /\ first_mid(q) \in Int
    BY <2>1, <2>3, TwoIds
  <2>5. Cleared'.first_block_mid # first_mid(q)
    BY <1>2, <2>4 DEF Advances, Reached
  <2> QED BY <2>1, <2>5 DEF Stuck, Reached
<1> QED BY <1>1, <1>2 DEF Ignores, Passes

LEMMA HandlerAnswersLast ==
  ASSUME TypeInv, InOrder, IdsApart, AnsweredLast, NEW r \in Known, Known' \subseteq Known,
         \A q \in Known' : NotAfter(r, q), Ignores(r) \/ Passes(r) \/ Advances(r),
         UNCHANGED waiting
  PROVE  AnsweredLast'
<1>1. /\ responses \in Seq(Response)
      /\ \E code \in Codes :
           /\ responses' = Append(responses, [mid |-> r.mid, code |-> code])
           /\ code = "INCOMPLETE" => Ignores(r) /\ Stuck(Cleared, r)
  <2>1. responses \in Seq(Response)
    BY DEF TypeInv, TypeOK
  <2> QED BY <2>1 DEF Ignores, Passes, Advances, Acknowledge, Reply, Codes
<1>2. PICK code \in Codes :
           /\ responses' = Append(responses, [mid |-> r.mid, code |-> code])
           /\ code = "INCOMPLETE" => Ignores(r) /\ Stuck(Cleared, r)
  BY <1>1
<1> DEFINE a == [mid |-> r.mid, code |-> code]
<1>3. a.mid = r.mid /\ a.code = code /\ responses' = Append(responses, a)
  BY <1>2
<1> HIDE DEF a
<1>4. \A k \in DOMAIN responses' :
        (k \in DOMAIN responses /\ responses'[k] = responses[k]) \/ responses'[k] = a
  BY <1>1, <1>3
<1> SUFFICES ASSUME NEW k \in DOMAIN responses', waiting # NULL, responses'[k].mid = waiting.mid
             PROVE  /\ \A q \in Known' : NotAfter(waiting, q)
                    /\ responses'[k].code = "INCOMPLETE" => Stuck(Cleared', waiting)
  BY DEF AnsweredLast
<1>5. waiting \in Known /\ NotAfter(r, waiting)
  BY DEF Known, InOrder
<1>6. CASE k \in DOMAIN responses /\ responses'[k] = responses[k]
  <2>1. /\ \A q \in Known : NotAfter(waiting, q)
        /\ responses[k].code = "INCOMPLETE" => Stuck(Cleared, waiting)
    BY <1>6 DEF AnsweredLast
  <2>2. r = waiting
    BY <1>5, <2>1 DEF InOrder
  <2>3. Stuck(Cleared, r) => UNCHANGED Cleared
    <3>1. r.num \in Nat
      BY KnownNumbers DEF TypeInv
    <3> QED BY <3>1 DEF Ignores, Passes, Advances, Stuck, Reached, HasUpTo
  <2> QED BY <1>6, <2>1, <2>2, <2>3
<1>7. CASE responses'[k] = a
  <2>1. r = waiting
    BY <1>3, <1>5, <1>7, TwoIds
  <2>2. code = "INCOMPLETE" => UNCHANGED Cleared /\ Stuck(Cleared, r)
    BY <1>2 DEF Ignores
  <2> QED BY <1>3, <1>7, <2>1, <2>2
<1> QED BY <1>4, <1>6, <1>7

\* What the client does, and what happens to datagrams, revives no transfer but the
\* one that the client goes on with.
LEMMA OthersDead ==
  ASSUME TypeInv, KnownFit, [Next]_vars, ~\E i \in DOMAIN requests : ResourceBlockHandler(i),
         NEW u, Dead(u), waiting' = NULL \/ waiting'.transfer # u
  PROVE  Dead(u)'
<1>1. Untouched /\ (Stale \/ Sent)
  BY OthersCases DEF Rests, Ends, Begins, Continues
<1>2. \A q \in Known' : q.transfer = u => q \in Known
  <2>1. CASE Stale
    BY <2>1 DEF Stale
  <2>2. CASE Sent
    BY <2>2 DEF Sent, Fresh
  <2> QED BY <1>1, <2>1, <2>2
<1>3. Known' = {} \/ UNCHANGED Cleared
  BY <1>1 DEF Untouched
<1> QED BY <1>2, <1>3 DEF Dead

LEMMA OthersAnswerLast ==
  ASSUME TypeInv, KnownFit, AnswersTrue, AnsweredLast, ~wrapped', [Next]_vars,
         ~\E i \in DOMAIN requests : ResourceBlockHandler(i)
  PROVE  AnsweredLast'
<1>1. Untouched /\ (Stale \/ Sent)
  BY OthersCases DEF Rests, Ends, Begins, Continues
<1>2. \A k \in DOMAIN responses' : \E l \in DOMAIN responses : responses'[k] = responses[l]
  BY ResponsesShrink
<1> SUFFICES ASSUME NEW k \in DOMAIN responses', waiting' # NULL, responses'[k].mid = waiting'.mid
             PROVE  /\ \A q \in Known' : NotAfter(waiting', q)
                    /\ responses'[k].code = "INCOMPLETE" => Stuck(Cleared', waiting')
  BY DEF AnsweredLast
<1>3. PICK l \in DOMAIN responses : responses'[k] = responses[l]
  BY <1>2
<1>4. CASE Stale
  <2>1. Known' \subseteq Known /\ waiting' = waiting
    BY <1>4 DEF Stale
  <2>2. UNCHANGED Cleared
    BY <1>1, <2>1 DEF Untouched
  <2> QED BY <1>3, <2>1, <2>2 DEF AnsweredLast
<1>5. CASE Sent
  <2>1. responses[l] \in Response
    BY DEF TypeInv, TypeOK
  <2>2. responses[l].mid \in Int /\ responses[l].mid < next_mid /\ next_mid \in Int
    BY <2>1, BlockAssumption DEF AnswersTrue, TypeInv, TypeOK, Response, Mid
  <2> QED BY <1>3, <1>5, <2>2 DEF Sent, Fresh
<1> QED BY <1>1, <1>4, <1>5
-----------------------------------------------------------------------------
(* A chain is an Outbox.                                                   *)

LEMMA BodyEnds ==
  ASSUME NEW u \in Transfer
  PROVE  BodyOf(u) \in Body /\ StartOf(BodyOf(u)) = u /\ EndOf(BodyOf(u)) = u
<1>1. Blocks[u] \in Nat \ {0} /\ BodyOf(u) \in Body
  BY TransferType, TwoBodies
<1>2. Len(BodyOf(u)) = Blocks[u]
  BY <1>1 DEF BodyOf
<1>3. BodyOf(u)[1] = <<u, 0>> /\ BodyOf(u)[Blocks[u]] = <<u, Blocks[u] - 1>>
  BY <1>1 DEF BodyOf
<1> QED BY <1>1, <1>2, <1>3 DEF StartOf, EndOf, Last

\* The body that is handed over is that of the request.
LEMMA HandsItsBody ==
  ASSUME TypeInv, NEW r \in Known, NEW u \in Transfer, handed' = Append(handed, BodyOf(u)),
         Passes(r) \/ Advances(r)
  PROVE  u = r.transfer
<1>1. handed \in Seq(Body) /\ BodyOf(u) \in Body /\ StartOf(BodyOf(u)) = u /\ EndOf(BodyOf(u)) = u
  BY BodyEnds DEF TypeInv, TypeOK
<1>2. Last(handed') = BodyOf(u) /\ handed' # handed
  BY <1>1, LastAppended
<1>3. r \in Request /\ Block(r) \in Transfer \X Nat /\ Block(r)[1] = r.transfer
  BY KnownType, KnownNumbers DEF TypeInv, Block
<1>4. CASE Passes(r)
  <2>1. <<Block(r)>> \in Body /\ StartOf(<<Block(r)>>) = r.transfer
    BY <1>3 DEF Body, StartOf
  <2>2. Last(handed') = <<Block(r)>>
    BY <1>1, <1>4, <2>1, LastAppended DEF Passes, HandsOver
  <2> QED BY <1>1, <1>2, <2>1, <2>2
<1>5. CASE Advances(r)
  <2>1. PICK d \in Body : handed' = Append(handed, d) /\ Last(d) = Block(r)
    BY <1>2, <1>5 DEF Advances, HandsOverEnd
  <2>2. Last(handed') = d
    BY <1>1, <2>1, LastAppended
  <2> QED BY <1>1, <1>2, <1>3, <2>1, <2>2 DEF EndOf
<1> QED BY <1>4, <1>5

\* The first in the backlog gets through, or one that has left it.
Reaches ==
  \/ UNCHANGED log
  \/ Unsettled # <<>> /\ Head(Unsettled) \notin Range(log) /\ log' = Append(log, Head(Unsettled))
  \/ \E m \in Message : Late(m) /\ log' = Append(log, m)

\* Once a message is handed over, the server refuses what was sent before it, and what
\* was sent later is of a newer one.
LEMMA ReachedTurn ==
  ASSUME LogInv, InLine, Turn, NEW r \in Known, \A q \in Known' : NotAfter(r, q),
         \A u : Dead(u) => Dead(u)', r.transfer \in 1..current,
         UNCHANGED <<given_up, carries, current, Unsettled>>,
         log' = Append(log, carries[r.transfer])
  PROVE  Turn'
<1> DEFINE v == r.transfer  m == carries[v]
<1>1. /\ carries \in Seq(Message) /\ DOMAIN carries = 1..current /\ m \in Message
      /\ log \in Seq(Message) /\ current \in Nat /\ TypeInv /\ KnownFit
  <2>1. carries \in Seq(Message) /\ Len(carries) = current /\ log \in Seq(Message)
        /\ TypeInv /\ KnownFit /\ current \in Nat
    BY DEF LogInv, OrderInv, LinkInv, SessionTypeOK, HistoryTypeOK, TypeInv, TypeOK
  <2> QED BY <2>1
<1>2. Range(log') = Range(log) \cup {m}
  BY <1>1, QueuedGrows
<1> SUFFICES ASSUME NEW u \in 1..current
             PROVE  \/ carries[u] \in Range(log') \/ AtTurn(carries[u])
                    \/ (<<carries[u], "send_failed">> \in given_up
                         /\ \A n \in Range(log') : n < carries[u])
                    \/ Dead(u)'
  BY DEF Turn, Late, AtTurn
<1>3. carries[u] \in Int /\ m \in Int /\ u \in Int /\ v \in Int
  BY <1>1, MessageInt
<1>4. CASE u < v
  <2>1. \A q \in Known' : q.transfer # u
    BY <1>3, <1>4 DEF NotAfter
  <2> QED BY <2>1 DEF Dead
<1>5. CASE ~(u < v)
  <2>1. m <= carries[u]
    BY <1>1, <1>3, <1>5 DEF InLine, Ascending
  <2>2. CASE m = carries[u]
    BY <1>2, <2>2
  <2>3. CASE m # carries[u]
    <3>1. m < carries[u]
      BY <1>3, <2>1, <2>3
    <3> QED BY <1>2, <3>1 DEF Turn, Late
  <2> QED BY <2>2, <2>3
<1> QED BY <1>4, <1>5

LEMMA ReceiveReaches ==
  ASSUME HandsInv, NEW i \in DOMAIN requests, Receive(i), ~overtaken', ~wrapped'
  PROVE  AnsweredLast' /\ Turn' /\ UNCHANGED <<accepted, given_up, Unsettled>> /\ Reaches
<1>1. /\ ResourceBlockHandler(i) /\ UNCHANGED <<session, carries>>
      /\ TypeInv /\ KnownFit /\ OrderInv /\ InOrder /\ LogInv /\ SessionTypeOK /\ InLine
      /\ log \in Seq(Message)
  BY DEF Receive, HandsInv, LogInv, OrderInv, LinkInv, HistoryTypeOK
<1>2. PICK r \in Known :
        /\ ~overtaken /\ Known' \subseteq Known /\ \A q \in Known' : NotAfter(r, q)
        /\ UNCHANGED <<current, waiting, next_mid, pings, wrapped, outcome>>
        /\ Ignores(r) \/ Passes(r) \/ Advances(r)
  BY <1>1, HandlerServes
<1>3. IdsApart /\ CacheIntact /\ AnsweredLast /\ Turn
  BY <1>2 DEF HandsInv, WholeInv
<1>4. AnsweredLast'
  BY <1>1, <1>2, <1>3, HandlerAnswersLast
<1>5. \A u : Dead(u) => Dead(u)'
  BY <1>1, <1>2, <1>3, HandlerDead
<1>6. UNCHANGED <<accepted, given_up, Unsettled>>
  BY <1>1 DEF session, Unsettled
<1>7. CASE UNCHANGED log
  <2>1. Turn'
    BY <1>1, <1>2, <1>3, <1>5, <1>6, <1>7 DEF Turn, AtTurn, Late
  <2> QED BY <1>4, <1>6, <1>7, <2>1 DEF Reaches
<1>8. ASSUME NEW d \in Body, NEW m \in Message,
             handed' = Append(handed, d), StartOf(d) \in 1..current, m = carries[StartOf(d)],
             m \notin Range(log), log' = Append(log, m)
      PROVE  Turn' /\ Reaches
  <2>1. handed \in Seq(Body)
    BY <1>1 DEF TypeInv, TypeOK
  <2>2. handed' # handed /\ Last(handed') = d
    BY <1>8, <2>1, LastAppended
  <2>3. PICK u \in Transfer : handed' = Append(handed, BodyOf(u))
    BY <1>1, <1>3, <2>2, HandlerIntact DEF HandlesWell
  <2>4. BodyOf(u) \in Body /\ StartOf(BodyOf(u)) = u
    BY BodyEnds
  <2>5. d = BodyOf(u) /\ StartOf(d) = u
    BY <2>1, <2>2, <2>3, <2>4, LastAppended
  <2>6. Passes(r) \/ Advances(r)
    BY <1>2, <2>2 DEF Ignores
  <2>7. u = r.transfer
    BY <1>1, <2>3, <2>6, HandsItsBody
  <2>8. ~Stuck(Cleared, r)
    <3>1. r.num \in Nat
      BY <1>1, KnownNumbers DEF TypeInv
    <3> QED BY <2>6, <3>1 DEF Passes, Advances, Stuck, Reached, HasUpTo
  <2>9. ~Dead(u)
    BY <2>7, <2>8 DEF Dead
  <2>10. AtTurn(m) \/ Late(m)
    BY <1>3, <1>8, <2>5, <2>9 DEF Turn
  <2>11. Reaches
    BY <1>8, <2>10 DEF Reaches, AtTurn
  <2>12. r.transfer \in 1..current /\ m = carries[r.transfer]
    BY <1>8, <2>5, <2>7
  <2>13. Turn'
    BY <1>1, <1>2, <1>3, <1>5, <1>6, <1>8, <2>12, ReachedTurn
  <2> QED BY <2>11, <2>13
<1> QED BY <1>1, <1>4, <1>6, <1>7, <1>8, ReceiveLogs

\* A block reaches the server by Receive only.
LEMMA OnlyReceive ==
  ASSUME TypeInv, [ChainNext]_chainvars, ~\E i \in DOMAIN requests : Receive(i)
  PROVE  ~\E i \in DOMAIN requests : ResourceBlockHandler(i)
<1> SUFFICES ASSUME NEW i \in DOMAIN requests, ResourceBlockHandler(i) PROVE FALSE
  OBVIOUS
<1>1. responses \in Seq(Response) /\ Len(responses) \in Nat
  BY DEF TypeInv, TypeOK
<1>2. Len(responses') = Len(responses) + 1
  <2>1. \E code \in Codes : Reply(requests[i], code)
    BY HandlerCases DEF Ignores, Passes, Advances, Acknowledge, Codes
  <2> QED BY <1>1, <2>1 DEF Reply
<1>3. ASSUME NEW k \in DOMAIN responses, responses' = RemoveAt(responses, k)
      PROVE  Len(responses') = Len(responses) - 1
  BY <1>1, <1>3, RemoveAtOrder
<1>4. responses' = responses \/ \E k \in DOMAIN responses : responses' = RemoveAt(responses, k)
  <2>1. ASSUME NEW m \in Message, Transmit(m) PROVE responses' = responses
    BY <2>1 DEF Transmit, Begin, SkipMid, network
  <2> QED BY <2>1
      DEF ChainNext, EnqueueMessage, response_handler, GetAnswer, NackRst,
          NackTooManyRetries, GiveUp, ClearCrash, Elapse, Repeat, UseMidForPing, Lose,
          chainvars, vars, network
<1>5. Len(responses') = Len(responses) \/ Len(responses') = Len(responses) - 1
  BY <1>3, <1>4
<1> QED BY <1>1, <1>2, <1>5

Settles(i) ==
  /\ response_handler(i) /\ outcome' # outcome
  /\ NotifySuccess(outcome')

\* The backlog stays, and a transfer that begins is of its first message.
KeepsBacklog ==
  /\ UNCHANGED <<accepted, given_up, Unsettled>>
  /\ \/ UNCHANGED carries
     \/ Unsettled # <<>> /\ carries' = Append(carries, Head(Unsettled))

Accepts ==
  /\ accepted' = accepted + 1 /\ Unsettled' = Append(Unsettled, accepted + 1)
  /\ UNCHANGED <<given_up, carries>>

Removes ==
  Unsettled # <<>> /\ Unsettled' = Tail(Unsettled) /\ UNCHANGED <<accepted, carries>>

Drops == Removes /\ given_up' = given_up \cup {<<Head(Unsettled), "send_failed">>}

\* What every step but Receive does with the backlog.
LEMMA OthersBacklog ==
  ASSUME LogInv, OneRetry, [ChainNext]_chainvars, ~\E i \in DOMAIN requests : Receive(i)
  PROVE  /\ OneRetry' /\ UNCHANGED log /\ Unsettled \in Seq(Message)
         /\ \/ KeepsBacklog \/ Accepts \/ Drops
            \/ Removes /\ \E i \in DOMAIN responses : Settles(i)
<1>1. LinkInv /\ TypeInv /\ SessionTypeOK
  BY DEF LogInv, OrderInv, LinkInv
<1>2. waiting # NULL => pending_message # 0
  <2>1. waiting # NULL => current \in DOMAIN carries
    BY <1>1 DEF LinkInv, PendingIsCarried, SessionTypeOK, TypeInv, TypeOK
  <2> QED BY <1>1, <2>1, NoMessageZero DEF LinkInv, PendingIsCarried, SessionTypeOK
<1>12. Unsettled \in Seq(Message)
  BY <1>1, JoinedType, UnsettledIs DEF SessionTypeOK, OneRetry
<1>3. CASE EnqueueMessage
  BY <1>1, <1>3, <1>12, EnqueueAppends DEF EnqueueMessage, Accepts
<1>4. ASSUME NEW m \in Message, Transmit(m)
      PROVE  OneRetry' /\ UNCHANGED log /\ (KeepsBacklog \/ Drops)
  <2>1. CASE pending_message' = m /\ carries' = Append(carries, m) /\ UNCHANGED given_up
    BY <1>1, <1>4, <2>1, TransmitTakes DEF Transmit, KeepsBacklog
  <2>2. CASE /\ given_up' = given_up \cup {<<m, "send_failed">>}
             /\ UNCHANGED <<pending_message, carries>>
    BY <1>1, <1>4, <2>2, FailedLeaves DEF Transmit, Drops, Removes
  <2> QED BY <1>4, <2>1, <2>2 DEF Transmit
<1>5. ASSUME NEW i \in DOMAIN responses, response_handler(i)
      PROVE  /\ UNCHANGED session \/ (Settles(i) /\ waiting # NULL)
             /\ UNCHANGED <<log, carries>>
  BY <1>5 DEF response_handler, Settles, GetAnswer, client
<1>6. CASE NackRst \/ NackTooManyRetries
  <2>1. NotifyFailure /\ waiting # NULL /\ UNCHANGED <<log, carries>>
    BY <1>6 DEF NackRst, NackTooManyRetries, GiveUp
  <2> QED BY <1>1, <1>2, <1>12, <2>1, FailureReturns DEF NotifyFailure, KeepsBacklog
<1>7. ASSUME UNCHANGED <<session, log, carries>>
      PROVE  OneRetry' /\ KeepsBacklog /\ UNCHANGED log
  <2>1. UNCHANGED <<accepted, given_up, retransmit_queue, pending_message, transmit_queue>>
    BY <1>7 DEF session
  <2>2. OneRetry'
    BY <2>1 DEF OneRetry, AtMostOne, Message
  <2> QED BY <1>7, <2>1, <2>2 DEF Unsettled, KeepsBacklog
<1>8. ASSUME NEW i \in DOMAIN responses, Settles(i), waiting # NULL, UNCHANGED carries
      PROVE  OneRetry' /\ Removes
  <2>1. NotifySuccess(outcome') /\ UNCHANGED accepted
    BY <1>8 DEF Settles, NotifySuccess
  <2> QED BY <1>1, <1>2, <1>8, <2>1, SuccessRemoves DEF Removes
<1>9. ASSUME NEW i \in DOMAIN responses, response_handler(i)
      PROVE  /\ OneRetry' /\ UNCHANGED log
             /\ KeepsBacklog \/ (Removes /\ Settles(i))
  <2>1. CASE UNCHANGED <<session, log, carries>>
    BY <1>7, <2>1
  <2>2. CASE Settles(i) /\ waiting # NULL /\ UNCHANGED <<log, carries>>
    BY <1>8, <2>2
  <2> QED BY <1>5, <1>9, <2>1, <2>2
<1>10. \/ EnqueueMessage \/ \E m \in Message : Transmit(m)
       \/ \E i \in DOMAIN responses : response_handler(i)
       \/ NackRst \/ NackTooManyRetries \/ UNCHANGED <<session, log, carries>>
  BY DEF ChainNext, chainvars
<1> QED BY <1>3, <1>4, <1>6, <1>7, <1>9, <1>10, <1>12

LEMMA LineNext ==
  ASSUME LogInv, LogInv', OneRetry, InLine, [ChainNext]_chainvars
  PROVE  InLine'
<1>1. /\ carries \in Seq(Message) /\ Len(carries) = current /\ accepted \in Int
      /\ log \in Seq(Message) /\ accepted' \in 0..MaxMsg
  BY DEF LogInv, LinkInv, SessionTypeOK, HistoryTypeOK
<1>2. CASE UNCHANGED <<carries, Unsettled, accepted, log>>
  BY <1>2 DEF InLine
<1>3. ASSUME NEW i \in DOMAIN requests, Receive(i) PROVE InLine'
  <2>1. UNCHANGED <<carries, Unsettled, accepted>>
    BY <1>3 DEF Receive, session, Unsettled
  <2>2. ASSUME NEW m \in Message, NEW u \in 1..current, m = carries[u],
               log' = IF m \in Range(log) THEN log ELSE Append(log, m)
        PROVE  Range(log') \subseteq Range(carries)
    <3>1. m \in Range(carries)
      BY <1>1, <2>2 DEF Range
    <3>2. Range(log') \subseteq Range(log) \cup {m}
      BY <1>1, <2>2, QueuedGrows
    <3> QED BY <3>1, <3>2 DEF InLine
  <2>3. CASE UNCHANGED log
    BY <1>2, <2>1, <2>3
  <2>4. CASE Range(log') \subseteq Range(carries)
    BY <2>1, <2>4 DEF InLine
  <2> QED BY <1>3, <2>2, <2>3, <2>4, ReceiveLogs
<1>4. CASE ~\E i \in DOMAIN requests : Receive(i)
  <2>1. /\ UNCHANGED log /\ Unsettled \in Seq(Message)
        /\ KeepsBacklog \/ Accepts \/ Removes
    BY <1>4, OthersBacklog DEF Drops
  <2>2. CASE Removes
    <3>1. Ascending(Tail(Unsettled)) /\ Ahead(carries, Tail(Unsettled))
          /\ UpTo(Tail(Unsettled), accepted)
      BY <1>1, <2>1, <2>2, LineTail DEF InLine, Removes
    <3> QED BY <2>1, <2>2, <3>1 DEF InLine, Removes
  <2>3. CASE Accepts
    <3>1. accepted + 1 \in Message /\ accepted <= accepted + 1
      BY <1>1, <2>3, ChainAssumption DEF Accepts, Message, LogInv, LinkInv, SessionTypeOK
    <3>2. UpTo(carries, accepted + 1)
      BY <1>1, <2>1, <3>1, LineGrows DEF InLine
    <3>3. /\ Ascending(Append(Unsettled, accepted + 1))
          /\ UpTo(Append(Unsettled, accepted + 1), accepted + 1)
          /\ Ahead(carries, Append(Unsettled, accepted + 1))
      BY <1>1, <2>1, <3>1, <3>2, LineGrows DEF InLine
    <3> QED BY <2>1, <2>3, <3>2, <3>3 DEF InLine, Accepts
  <2>4. CASE KeepsBacklog
    <3>1. CASE UNCHANGED carries
      BY <1>2, <2>1, <2>4, <3>1 DEF KeepsBacklog
    <3>2. CASE Unsettled # <<>> /\ carries' = Append(carries, Head(Unsettled))
      <4>1. /\ Ascending(carries') /\ Ahead(carries', Unsettled) /\ UpTo(carries', accepted)
        BY <1>1, <2>1, <3>2, LineTried DEF InLine
      <4>2. Head(Unsettled) \in Message
        BY <2>1, <3>2
      <4>3. Range(carries') = Range(carries) \cup {Head(Unsettled)}
        BY <1>1, <3>2, <4>2, QueuedGrows
      <4> QED BY <2>1, <2>4, <4>1, <4>3 DEF InLine, KeepsBacklog
    <3> QED BY <2>4, <3>1, <3>2 DEF KeepsBacklog
  <2> QED BY <2>1, <2>2, <2>3, <2>4
<1> QED BY <1>3, <1>4

\* What is settled is in the log, or the server refuses all that is under way.
LEMMA SettlesHead ==
  ASSUME HandsInv, LogInv', WholeInv', [ChainNext]_chainvars, ~overtaken', ~wrapped',
         NEW i \in DOMAIN responses, Settles(i), UNCHANGED log
  PROVE  /\ Unsettled \in Seq(Message) /\ Unsettled # <<>> /\ Unsettled' = Tail(Unsettled)
         /\ UNCHANGED accepted
         /\ \/ Head(Unsettled) \in Range(log) /\ UNCHANGED given_up
            \/ /\ given_up' = given_up \cup {<<Head(Unsettled), "rejected">>}
               /\ \A u : Dead(u)'
<1>1. /\ LinkInv /\ TypeInv /\ KnownFit /\ InOrder /\ SessionTypeOK /\ OneRetry
      /\ outcome \in [Transfer -> {"none", "done", "incomplete", "given_up"}]
      /\ [Next]_vars
  BY ChainStep DEF HandsInv, LogInv, OrderInv, LinkInv, TypeInv, TypeOK, chainvars, vars
<1>2. ~wrapped /\ ~overtaken /\ AnsweredLast
  BY <1>1, Before DEF HandsInv
<1> DEFINE code == responses[i].code
           how == IF code = "INCOMPLETE" THEN "incomplete" ELSE "done"
<1>3. /\ waiting # NULL /\ responses[i].mid = waiting.mid /\ End(how)
      /\ UNCHANGED <<requests, server, carries, current>> /\ waiting' = NULL
  <2>1. /\ waiting # NULL /\ responses[i].mid = waiting.mid /\ End(how)
        /\ UNCHANGED <<requests, server, carries>>
    BY DEF Settles, response_handler, GetAnswer, client
  <2> QED BY <2>1 DEF End
<1>4. /\ current \in 1..Len(carries) /\ carries[current] = pending_message
      /\ pending_message \in Message /\ pending_message # 0 /\ current \in Transfer
      /\ current \in 1..current
  <2>1. current \in 1..Len(carries) /\ carries[current] = pending_message /\ current \in 1..current
    BY <1>1, <1>3 DEF LinkInv, PendingIsCarried, SessionTypeOK, TypeInv, TypeOK
  <2>2. pending_message \in Message
    BY <1>1, <2>1 DEF SessionTypeOK
  <2> QED BY <1>1, <2>1, <2>2, NoMessageZero, TransferType DEF TypeInv, TypeOK
<1>5. /\ Unsettled \in Seq(Message) /\ Unsettled # <<>>
      /\ Head(Unsettled) = pending_message /\ Unsettled' = Tail(Unsettled)
  BY <1>1, <1>4, SuccessRemoves DEF Settles
<1>6. outcome'[current] = how
  BY <1>1, <1>3, <1>4 DEF End
<1>7. CASE code = "INCOMPLETE"
  <2>1. given_up' = given_up \cup {<<pending_message, "rejected">>}
    BY <1>3, <1>6, <1>7 DEF Settles, NotifySuccess
  <2>2. /\ \A q \in Known : NotAfter(waiting, q) /\ NotAfter(q, waiting)
        /\ Stuck(Cleared, waiting) /\ waiting \in Known
    BY <1>1, <1>2, <1>3, <1>7 DEF AnsweredLast, InOrder, Known
  <2>3. \A q \in Known : q = waiting
    BY <1>1, <2>2 DEF InOrder
  <2>4. Known' \subseteq Known /\ UNCHANGED Cleared
    BY <1>3 DEF Known, Cleared, server
  <2>5. \A u : Dead(u)'
    BY <2>2, <2>3, <2>4 DEF Dead
  <2> QED BY <1>5, <2>1, <2>5 DEF Settles, NotifySuccess
<1>8. CASE code # "INCOMPLETE"
  <2>1. UNCHANGED given_up
    BY <1>3, <1>6, <1>8 DEF Settles, NotifySuccess
  <2>2. BodyOf(current) \in Range(handed)
    <3>1. DoneMeansHanded'
      BY DEF WholeInv
    <3>2. \A u \in Transfer : outcome'[u] = "done" => BodyOf(u) \in Range(handed')
      BY <3>1 DEF DoneMeansHanded, Transfer, BodyOf
    <3> QED BY <1>3, <1>4, <1>6, <1>8, <3>2 DEF server
  <2>3. PICK k \in DOMAIN handed : handed[k] = BodyOf(current)
    BY <2>2 DEF Range
  <2>4. pending_message \in Range(log)
    BY <1>4, <2>3, BodyEnds DEF HandsInv, LogInv, Logged
  <2> QED BY <1>5, <2>1, <2>4 DEF Settles, NotifySuccess
<1> QED BY <1>7, <1>8

\* No newer message than the first in the backlog has been handed over.
LEMMA LoggedBefore ==
  ASSUME LogInv, InLine, Unsettled \in Seq(Message), Unsettled # <<>>,
         Head(Unsettled) \notin Range(log), NEW n \in Range(log)
  PROVE  n < Head(Unsettled)
<1>1. n \in Range(carries) /\ carries \in Seq(Message)
  BY DEF InLine, LogInv, LinkInv, SessionTypeOK
<1>2. PICK i \in DOMAIN carries : n = carries[i]
  BY <1>1 DEF Range
<1>3. 1 \in DOMAIN Unsettled /\ Head(Unsettled) = Unsettled[1] /\ Head(Unsettled) \in Message
  OBVIOUS
<1>4. n <= Head(Unsettled) /\ n # Head(Unsettled)
  BY <1>2, <1>3 DEF InLine, Ahead
<1> QED BY <1>1, <1>2, <1>3, <1>4, MessageInt

LEMMA OthersTurn ==
  ASSUME HandsInv, LogInv', WholeInv', OneRetry', [ChainNext]_chainvars,
         ~overtaken', ~wrapped', ~\E i \in DOMAIN requests : Receive(i)
  PROVE  Turn'
<1>1. /\ TypeInv /\ KnownFit /\ LogInv /\ OneRetry /\ SessionTypeOK /\ [Next]_vars
      /\ current \in Nat /\ current' \in Nat /\ Unsettled \in Seq(Message)
  <2>1. TypeInv /\ KnownFit /\ LogInv /\ OneRetry /\ LinkInv /\ current \in Nat /\ current' \in Nat
    BY DEF HandsInv, LogInv, OrderInv, TypeInv, TypeOK
  <2>2. Unsettled \in Seq(Message)
    BY <2>1, JoinedType, UnsettledIs DEF LinkInv, SessionTypeOK, OneRetry
  <2> QED BY <2>1, <2>2, ChainStep DEF LinkInv, chainvars, vars
<1>2. Turn
  BY <1>1, Before DEF HandsInv
<1>3. ~\E i \in DOMAIN requests : ResourceBlockHandler(i)
  BY <1>1, OnlyReceive
<1>4. /\ UNCHANGED log
      /\ KeepsBacklog \/ Accepts \/ Drops \/ \E i \in DOMAIN responses : Settles(i)
  BY <1>1, OthersBacklog
<1>9. given_up \subseteq given_up'
  BY <1>4 DEF KeepsBacklog, Accepts, Drops, Settles, NotifySuccess
<1>5. /\ \A u \in 1..current' : u \in 1..current \/ (waiting' # NULL /\ waiting'.transfer = u)
      /\ waiting' # NULL => waiting'.transfer = current' /\ current' \in 1..Len(carries')
  <2>1. Fresh \/ Stale
    BY <1>1, FreshOrStale
  <2>2. current' \in {current, current + 1}
        /\ (current' = current + 1 => waiting'.transfer = current' /\ waiting' # NULL)
    BY <1>1, <2>1, BlockAssumption DEF Fresh, Stale
  <2>3. WaitsForCurrent' /\ PendingIsCarried' /\ Len(carries') = current'
    BY DEF LogInv, OrderInv, TypeInv, LinkInv, SessionTypeOK
  <2> QED BY <1>1, <2>2, <2>3 DEF WaitsForCurrent, PendingIsCarried
<1>6. \A u \in 1..current : carries'[u] = carries[u]
  <2>1. carries \in Seq(Message) /\ Len(carries) = current
    BY <1>1 DEF SessionTypeOK
  <2>2. \/ carries' = carries
        \/ Unsettled # <<>> /\ carries' = Append(carries, Head(Unsettled))
    BY <1>4 DEF KeepsBacklog, Accepts, Drops, Removes, Settles, response_handler
  <2>3. Unsettled # <<>> => Head(Unsettled) \in Message
    BY <1>1
  <2> QED BY <1>1, <2>1, <2>2, <2>3
<1> SUFFICES ASSUME NEW u \in 1..current'
             PROVE  \/ (carries[u] \in Range(log))' \/ (AtTurn(carries[u]))'
                    \/ (Late(carries[u]))' \/ Dead(u)'
  BY DEF Turn
<1>7. CASE waiting' # NULL /\ waiting'.transfer = u
  <2>1. u = current' /\ current' \in 1..Len(carries') /\ carries'[u] = pending_message'
    BY <1>5, <1>7 DEF LogInv, LinkInv, PendingIsCarried
  <2>2. /\ carries' \in Seq(Message) /\ retransmit_queue' \in Seq(Message)
        /\ transmit_queue' \in Seq(Message) /\ pending_message' \in 0..MaxMsg
        /\ AtMostOne(retransmit_queue', pending_message')
    BY DEF LogInv, LinkInv, SessionTypeOK, Message, OneRetry, AtMostOne
  <2>3. pending_message' # 0
    BY <2>1, <2>2, NoMessageZero
  <2>4. Unsettled' # <<>> /\ Head(Unsettled') = pending_message'
    BY <2>2, <2>3, JoinedType, UnsettledIs
  <2> QED BY <2>1, <2>4 DEF AtTurn
<1>8. CASE ~(waiting' # NULL /\ waiting'.transfer = u)
  <2>1. u \in 1..current /\ carries'[u] = carries[u]
    BY <1>5, <1>6, <1>8
  <2>2. CASE carries[u] \in Range(log)
    BY <1>4, <2>1, <2>2
  <2>3. CASE Dead(u)
    BY <1>1, <1>3, <1>8, <2>3, OthersDead
  <2>5. CASE Late(carries[u])
    BY <1>4, <1>9, <2>1, <2>5 DEF Late
  <2>4. CASE AtTurn(carries[u])
    <3>1. CASE KeepsBacklog
      BY <2>1, <2>4, <3>1 DEF AtTurn, KeepsBacklog
    <3>2. CASE Accepts
      BY <1>1, <2>1, <2>4, <3>2 DEF AtTurn, Accepts
    <3>4. ASSUME Drops, carries[u] \notin Range(log) PROVE (Late(carries[u]))'
      <4>1. <<carries[u], "send_failed">> \in given_up'
        BY <2>4, <3>4 DEF AtTurn, Drops
      <4>2. \A n \in Range(log) : n < carries[u]
        BY <1>1, <2>4, <3>4, LoggedBefore DEF AtTurn, HandsInv
      <4> QED BY <1>4, <2>1, <4>1, <4>2 DEF Late
    <3>3. ASSUME NEW i \in DOMAIN responses, Settles(i)
          PROVE  carries[u] \in Range(log) \/ Dead(u)'
      BY <1>4, <2>4, <3>3, SettlesHead DEF AtTurn
    <3> QED BY <1>4, <2>1, <3>1, <3>2, <3>3, <3>4
  <2> QED BY <1>2, <2>1, <2>2, <2>3, <2>4, <2>5 DEF Turn
<1> QED BY <1>7, <1>8

LEMMA HandsNext == HandsInv /\ [ChainNext]_chainvars => HandsInv'
<1> SUFFICES ASSUME HandsInv, [ChainNext]_chainvars PROVE HandsInv'
  OBVIOUS
<1>1. /\ TypeInv /\ KnownFit /\ LogInv /\ WholeInv /\ OneRetry /\ [Next]_vars
  BY ChainStep DEF HandsInv, LogInv, OrderInv, chainvars, vars
<1>2. LogInv' /\ WholeInv'
  BY <1>1, LogNext, WholeNext
<1>3. OneRetry'
  <2>1. ASSUME NEW i \in DOMAIN requests, Receive(i) PROVE OneRetry'
    BY <1>1, <2>1 DEF Receive, session, OneRetry, AtMostOne, Message
  <2> QED BY <1>1, <2>1, OthersBacklog
<1>5. InLine'
  BY <1>1, <1>2, LineNext DEF HandsInv
<1>4. ASSUME ~overtaken', ~wrapped' PROVE AnsweredLast' /\ Turn'
  <2>1. CASE \E i \in DOMAIN requests : Receive(i)
    BY <1>4, <2>1, ReceiveReaches
  <2>2. CASE ~\E i \in DOMAIN requests : Receive(i)
    <3>1. AnsweredLast /\ AnswersTrue
      BY <1>1, <1>4, Before DEF HandsInv, WholeInv
    <3>2. ~\E i \in DOMAIN requests : ResourceBlockHandler(i)
      BY <1>1, <2>2, OnlyReceive
    <3> QED BY <1>1, <1>2, <1>3, <1>4, <2>2, <3>1, <3>2, OthersAnswerLast, OthersTurn
  <2> QED BY <2>1, <2>2
<1> QED BY <1>2, <1>3, <1>4, <1>5 DEF HandsInv

LEMMA FirstAndRest ==
  ASSUME NEW S, NEW s \in Seq(S), s # <<>>
  PROVE  /\ 1 \in 1..Len(s) /\ SubSeq(s, 1 + 1, Len(s)) = Tail(s)
         /\ Range(SubSeq(s, 1, 1)) = {Head(s)}
<1>1. Len(s) \in Nat \ {0} /\ Head(s) = s[1]
  OBVIOUS
<1>2. SubSeq(s, 1 + 1, Len(s)) = Tail(s)
  BY <1>1
<1>3. /\ DOMAIN SubSeq(s, 1, 1) = {1} /\ SubSeq(s, 1, 1)[1] = s[1]
  BY <1>1
<1> QED BY <1>1, <1>2, <1>3 DEF Range

LEMMA DropsFirst ==
  ASSUME Unsettled \in Seq(Message), Removes, UNCHANGED log, NEW why \in Reasons,
         given_up' = given_up \cup {<<Head(Unsettled), why>>}
  PROVE  Endpoint!Next
<1>1. /\ 1 \in 1..Len(Unsettled) /\ SubSeq(Unsettled, 1 + 1, Len(Unsettled)) = Tail(Unsettled)
      /\ Range(SubSeq(Unsettled, 1, 1)) = {Head(Unsettled)}
  BY FirstAndRest DEF Removes
<1>2. {Head(Unsettled)} \X {why} = {<<Head(Unsettled), why>>}
  OBVIOUS
<1>3. Endpoint!GiveUp(1, why)
  BY <1>1, <1>2 DEF Removes, Endpoint!GiveUp, Endpoint!Range, Range
<1> QED BY <1>1, <1>3 DEF Endpoint!Next

LEMMA HandsStep ==
  ASSUME HandsInv, [ChainNext]_chainvars, ~overtaken', ~wrapped'
  PROVE  [Endpoint!Next]_(Endpoint!vars) \/ HandedLate
<1>1. TypeInv /\ LogInv /\ OneRetry /\ LogInv' /\ WholeInv'
  BY LogNext, WholeNext, ChainStep DEF HandsInv, LogInv, OrderInv, chainvars, vars
<1>2. ASSUME NEW i \in DOMAIN requests, Receive(i)
      PROVE  [Endpoint!Next]_(Endpoint!vars) \/ HandedLate
  <2>1. UNCHANGED <<accepted, given_up, Unsettled>> /\ Reaches
    BY <1>2, ReceiveReaches
  <2>2. CASE UNCHANGED log
    BY <2>1, <2>2 DEF Endpoint!vars
  <2>3. CASE Unsettled # <<>> /\ Head(Unsettled) \notin Range(log)
             /\ log' = Append(log, Head(Unsettled))
    BY <2>1, <2>3 DEF Endpoint!Next, Endpoint!Reach, Endpoint!Range, Range
  <2>4. CASE \E m \in Message : Late(m) /\ log' = Append(log, m)
    BY <2>1, <2>4 DEF HandedLate, Late
  <2> QED BY <2>1, <2>2, <2>3, <2>4 DEF Reaches
<1>3. ASSUME NEW i \in DOMAIN responses, Settles(i), Removes, UNCHANGED log
      PROVE  Endpoint!Next
  <2>1. /\ Unsettled \in Seq(Message) /\ Unsettled # <<>> /\ Unsettled' = Tail(Unsettled)
        /\ UNCHANGED accepted
        /\ \/ Head(Unsettled) \in Range(log) /\ UNCHANGED given_up
           \/ given_up' = given_up \cup {<<Head(Unsettled), "rejected">>}
    BY <1>1, <1>3, SettlesHead
  <2>2. CASE Head(Unsettled) \in Range(log) /\ UNCHANGED given_up
    BY <1>3, <2>1, <2>2 DEF Endpoint!Next, Endpoint!Settle, Endpoint!Range, Range
  <2>3. CASE given_up' = given_up \cup {<<Head(Unsettled), "rejected">>}
    BY <1>3, <2>1, <2>3, DropsFirst DEF Reasons
  <2> QED BY <2>1, <2>2, <2>3
<1>4. CASE ~\E i \in DOMAIN requests : Receive(i)
  <2>1. /\ UNCHANGED log /\ Unsettled \in Seq(Message)
        /\ \/ KeepsBacklog \/ Accepts \/ Drops
           \/ Removes /\ \E i \in DOMAIN responses : Settles(i)
    BY <1>1, <1>4, OthersBacklog
  <2>2. CASE KeepsBacklog
    BY <2>1, <2>2 DEF KeepsBacklog, Endpoint!vars
  <2>3. CASE Accepts
    BY <2>1, <2>3 DEF Accepts, Endpoint!Next, Endpoint!Accept
  <2>4. CASE Drops
    BY <2>1, <2>4, DropsFirst DEF Drops, Reasons
  <2> QED BY <1>3, <2>1, <2>2, <2>3, <2>4
<1> QED BY <1>2, <1>4

\* As long as no datagram overtakes another and no message id is used again, the relay,
\* libcoap and the upstream block cache are together an Outbox: whatever is lost,
\* repeated or given up, a message reaches the resource at its turn only, and is
\* settled only when it has, or is recorded as rejected or as one of which a send has
\* failed; such a one may still get through after that, but not after a newer one.
\* Both begin alike.
THEOREM ChainHandsLikeOutbox == ChainSpec => Endpoint!Init /\ HandsLikeOutbox
<1>1. ChainInit => HandsInv
  <2>1. ChainInit => WholeInv
    BY WholeInit DEF ChainInit
  <2>2. ChainInit => OneRetry /\ AnsweredLast /\ Turn
    BY DEF ChainInit, Init, OneRetry, AtMostOne, AnsweredLast, Turn
  <2>3. ChainInit => InLine
    <3> SUFFICES ASSUME ChainInit PROVE InLine
      OBVIOUS
    <3>1. carries = <<>> /\ log = <<>> /\ retransmit_queue = <<>> /\ transmit_queue = <<>>
          /\ pending_message = 0
      BY DEF ChainInit
    <3>2. Unsettled = <<>>
      BY <3>1 DEF Unsettled
    <3> QED BY <3>1, <3>2 DEF InLine, Ascending, Ahead, UpTo, Range
  <2> QED BY <2>1, <2>2, <2>3, LogInit DEF HandsInv
<1>2. HandsInv /\ [ChainNext]_chainvars =>
        [~overtaken' /\ ~wrapped' => [Endpoint!Next]_(Endpoint!vars) \/ HandedLate]_chainvars
  BY HandsStep
<1>3. ChainInit => Endpoint!Init
  BY DEF ChainInit, Endpoint!Init, Unsettled
<1> QED BY <1>1, <1>2, <1>3, HandsNext, PTL DEF ChainSpec, HandsLikeOutbox
=============================================================================
