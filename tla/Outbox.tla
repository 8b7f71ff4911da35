------------------------------- MODULE Outbox -------------------------------
(***************************************************************************)
(* What the relay promises one endpoint, without sessions, queues,         *)
(* handlers, timers or threads: the messages the server accepts are offered*)
(* to the endpoint one at a time, in the order of their arrival.  A message*)
(* stays at the head until the endpoint has it, unless it is given up, and *)
(* then it is recorded why.  Nothing overtakes it meanwhile.               *)
(***************************************************************************)
EXTENDS Naturals, Sequences, Functions

CONSTANT Reasons  \* why a message may be given up

VARIABLES
  accepted,  \* number of messages accepted; message n is the n-th
  backlog,   \* messages still to be dealt with
  log,       \* messages the endpoint has, in the order it first got them
  given_up   \* <<message, reason>> of the messages that were dropped

vars == <<accepted, backlog, log, given_up>>

Init == accepted = 0 /\ backlog = <<>> /\ log = <<>> /\ given_up = {}

Accept ==
  /\ accepted' = accepted + 1
  /\ backlog' = Append(backlog, accepted + 1)
  /\ UNCHANGED <<log, given_up>>

\* The endpoint gets the message whose turn it is.
Reach ==
  /\ backlog # <<>> /\ Head(backlog) \notin Range(log)
  /\ log' = Append(log, Head(backlog))
  /\ UNCHANGED <<accepted, backlog, given_up>>

\* It is known that the endpoint has it.
Settle ==
  /\ backlog # <<>> /\ Head(backlog) \in Range(log)
  /\ backlog' = Tail(backlog)
  /\ UNCHANGED <<accepted, log, given_up>>

\* The first n messages are dropped for one reason.
GiveUp(n, why) ==
  /\ given_up' = given_up \cup (Range(SubSeq(backlog, 1, n)) \X {why})
  /\ backlog' = SubSeq(backlog, n + 1, Len(backlog))
  /\ UNCHANGED <<accepted, log>>

Next ==
  \/ Accept \/ Reach \/ Settle
  \/ \E n \in 1..Len(backlog), why \in Reasons : GiveUp(n, why)

Spec == Init /\ [][Next]_vars
=============================================================================
