# Verification of ConDaLF-Backend

ConDaLF-Backend is a CoAP server for sensor data. A sensor PUTs a body to
`condalf/data`, possibly block by block; the server puts the blocks together,
hands the body to a Python script, and passes it to a relay which forwards it to
upstream endpoints, normally further ConDaLF backends. This directory holds a
TLA+ model of the parts of the program where steps of several actors meet, the
TLC runs that check it, and TLAPS proofs about it. Paths below are relative to
the repository's `src/`.

Run a check with `tlc -config <run>.cfg <module>` and a proof with
`tlapm <module>.tla`; `PROJECT.json` lists which run belongs to which module,
and which lines of the source each definition stands for.

## 1. Inventory

| Part | Source | State | Operations | What makes it correct |
|---|---|---|---|---|
| Server | `apps/ConDaLF-Backend/service/server` | context, resources, global queue pointer | PUT and GET handlers, hooks | each complete body is passed on once |
| Block cache | `common/coap/coap.cpp:257-416` | one entry per client and resource: id of block 0, last block, data | one request at a time | bodies intact, in order, once; answers true |
| MessageQueue | `service/relay/message_queue` | a queue under a mutex | Insert, Extract, IsEmpty, Size | FIFO |
| Relay | `service/relay/relay` | sessions, queue from the server | hooks, `run` | every accepted message into every session, in order |
| Session | `service/relay/session` | libcoap session, `transmit_queue`, `retransmit_queue`, `pending_message`, `disconnected` | Connect, Reconnect, Disconnect, Enqueue, Transmit, NotifySuccess, NotifyFailure | one message at a time, none overtaken, none waiting for ever |
| SessionManager | `service/relay/session_manager` | map from libcoap sessions to Sessions | bind, unbind, manage, find, three libcoap handlers | answers reach the Session they are about |
| Service | `common/service/service` | hooks, flag, thread, condition variable | Start, Stop, Reload, `service_loop` | `run` only between hooks; hooks nested; calls return |
| Context table | `common/coap/coap.cpp:57-148` | contexts by descriptor | create, release, endpoint, resource | no leak, no use of a released descriptor |
| main | `main.cpp` | pointers to the services and the queue | commands, SIGINT, clean-up | order of starting and stopping |
| Configuration | `common/config/parser`, `relay.cpp:13-33` | cache of lines read | parse, one line | one session per endpoint |
| Python bridge | `python/python_integration.cpp` | reference counts | initialise, process, finish | counts balanced |
| SenML scripts | `python/` of the repository | base name, record list | translate, write | records named and tagged as given |
| Logging, test stub | `common/logging`, `testing` | none | - | - |

How they interact. Three threads: main, the server's and the relay's. main calls
`Start`, `Stop` and `Reload` of both Services, whose hooks run on main's thread
while the service's own thread does not exist. The server's thread calls libcoap,
which calls the PUT handler, which calls the block cache and inserts a message
into the queue shared with the relay. The relay's thread loops in `Relay::run`:
it drains that queue into the sessions' queues, reconnects and transmits session
by session, and calls libcoap's IO, which calls the handlers of the
SessionManager, which look up a Session by the libcoap session's address and
notify it of success or failure. The upstream endpoint of a relay is normally the
server of another backend, so the block cache of that server meets the libcoap
client of this relay.

What is hard. The life of libcoap sessions (reference counts, addresses that are
reused) against pointers to them held in Sessions and in the map; answers that
are lost, late, or about something else than the pending message; a queue of
messages to be sent again beside one of new ones; reloads with messages in
flight; block-wise transfers over a network that loses, repeats and reorders,
identified by arithmetic on 16-bit ids; the hand-shake of Start with the new
thread; a signal handler that stops and deletes everything wherever main happens
to be; descriptors that are used again; and globals of a script that survive a
call which failed. `PROJECT.json` lists each such hazard at its line, with the properties
that are about it.

## 2. Modules

| Module | Models | Extends |
|---|---|---|
| `Relay` | Relay, Session, SessionManager, MessageQueue, the PUT handler's insertion | - |
| `Outbox` | what the relay promises one endpoint (abstract) | - |
| `MCRelay` | symmetry of addresses and the constraint `MixUps` of `relay_two` | `Relay` |
| `Relay_proofs` | theorems about `Relay` | `Relay` |
| `RelayOutbox_proofs` | theorems about `Relay` with one line | `Relay_proofs` |
| `BlockTransfer` | the block cache with one client and the network | - |
| `MCBlockTransfer` | transfers and the constraint of `block_ids` | `BlockTransfer` |
| `BlockTransfer_proofs` | theorems about `BlockTransfer` | `BlockTransfer` |
| `Chain` | a relay's session over the block cache of its upstream backend | `BlockTransfer`; instance of `Outbox` |
| `Chain_proofs` | theorems about `Chain` | `Chain`, `BlockTransfer_proofs` |
| `MCChain` | transfers and the constraint of `chain` | `Chain` |
| `Service` | Service's two threads | - |
| `Service_proofs` | theorems about `Service` | `Service` |
| `ContextTable` | contexts by descriptor | - |
| `ContextTable_proofs` | lemmas about the table, for the proofs about `Backend` | `ContextTable` |
| `Hooks` | the start and stop hooks of server and relay | `ContextTable` |
| `Backend` | the process: main, signal, two Services over their hooks | `Hooks`; two instances of `Service` |
| `Backend_proofs` | theorems about `Backend` | `Backend`, `ContextTable_proofs`; two instances of `Service_proofs` |
| `MCBackend` | a configuration file | `Backend` |
| `UserScript` | one body after the other through bridge and scripts | - |
| `UserScript_proofs` | theorems about `UserScript` | `UserScript` |
| `MCUserScript` | a set of bodies | `UserScript` |

Definitions marked MUTANT in a comment are plausible bugs in the definition that
follows. Nothing of a specification uses them; they serve to see that each
property fails when the code is wrong.

### Relay

The state is the fields of the C++ objects under their own names: `msg_queue`,
`sessions`, per line of the configuration `transmit_queue`, `retransmit_queue`,
`pending_message`, `session`, `disconnected`, and `coap_session_map`. A message
is its number in order of acceptance; `Junk` is one whose fields were read from
freed memory. A Session is named by the line it belongs to.

`thread` is where the relay's thread is: `loop` between two calls of `run`,
`drain`, `connect` and `transmit` in the order of `run`'s three loops (`todo`
holds the sessions the loop has still to visit), `io` inside libcoap. Each action
is what happens between two points where another thread or the network can act:

| Action | Code |
|---|---|
| `Insert` | PUT handler with a complete body, server thread |
| `Drain`, `DrainDone` | `relay.cpp:128-139` |
| `KeepConnection`, `RestoreConnection` | `relay.cpp:144-145`, `Session::Reconnect` and `Connect` |
| `TransmitNothing`, `TransmitSent`, `TransmitFailed` | `Session::Transmit`, `send_message` |
| `Answer`, `Nack`, `pong_handler` | the three handlers, with `NotifySuccess`, `NotifyFailure`, `Disconnect` |
| `RunAgain` | return to `service_loop` and back |
| `Start`, `Stop` | the hooks, on main's thread, while the relay's does not exist |
| `...Crash` | the process dies of undefined behaviour |

libcoap is not in the repository; what is assumed of it is stated in the model. A
client session is a counted object: creating it gives a reference, each PDU that
waits for an answer holds one, and at zero it is freed. A later session may get
the same address. A PDU waits until the handler for its answer, or its NACK, has
run. No copy of a datagram arrives after libcoap has stopped waiting for an
answer to it: `Deliver` needs the PDU to be outstanding. The relay's keep-alive
(`relay.hpp:22`) sends pings, one at a time per session.

Undefined behaviour is not excluded but carried on with. A use of freed memory
either ends the process or has one of the effects listed where it occurs: a
release of a freed session takes nothing (`ReleaseSession`; the code checks for null
only, so that this is the model's choice of an outcome, and nothing the code
ensures); a copy of a freed message is `Junk` or
still right; a deleted Session found in the map is taken for any present one, or
is none. `faults` remembers the kinds met. So the properties below hold not only
until the first fault but after it as well, for these outcomes.

### Outbox

The abstract specification has the messages not dealt with (`backlog`), what the
endpoint has (`log`), and what was dropped and why (`given_up`). Only the first
message of the backlog may reach the endpoint, be settled or, with those right
behind it, be dropped. `Relay` maps to it with `backlog` being
`retransmit_queue`, the pending message, `transmit_queue` and `msg_queue`, in
this order: the order in which the relay will try them.

### BlockTransfer

One client, hence one key of `block_cache`. The handler is split into one action
per outcome (`ProcessWhole`, `BeginBody`, `AppendBlock`, `IgnoreRepeated`,
`IgnoreSecondEnd`, `RequestIncomplete`); a block is `<<transfer, number>>`, so a
body that mixes transfers or repeats a block is visible. The client behaves as
RFC 7252 and RFC 7959 ask: it sends one block at a time, repeats it under its id
until it is answered or gives up (after its last try, or at any time because of an
RST or an ICMP message), and numbers its messages one after the other, between two
transfers also those that it then fails to send (`SkipMid`), modulo `MidModulus`, which is 65536 in CoAP and small here so that ids wrap around. The
network loses, repeats and reorders datagrams; `overtaken` remembers whether one
has overtaken another, and `wrapped` whether ids have begun again at 0. Time is
`idle_time`: short, or past the time-out the code compares with.

### Chain

`BlockTransfer` with its client taken for the relay's libcoap. Whenever a session
sends a message, that is a transfer of its own (`carries`), so `Transmit` is `Begin`
of `BlockTransfer` with the queues of Session around it, and the handlers are the
ends of a transfer with `NotifySuccess` or `NotifyFailure`. `Transmit` may also fail
to send, with the effect of `TransmitFailed` in `Relay`: the message is deleted and
recorded as `send_failed`. The same ping that
`Relay` treats as harmless here takes a message id. There is one libcoap session:
after too many retries the relay makes another one, which is `Relay`'s subject.
`Chain` maps to `Outbox` as `Relay` does, with `log` being the messages of the bodies
the upstream resource was handed, each by its first time: a history variable that
`Receive`, the block cache's handler within the chain, appends to.

### Service

Two program counters, `caller` for the thread that calls Start, Stop and Reload,
and `thread` for `service_thread`. A hook succeeds or fails; `up` counts, per
hook, successes minus stops. The mutex is held by the caller between `LockMutex`
and `Wait`. `notify_one` when nobody waits does nothing, and a wait may return on
its own, as the C++ standard allows; `spurious` remembers that it did.

### ContextTable, Hooks and Backend

`ContextTable` is the list of contexts with the descriptors that index it. `Hooks`
has one operator per start or stop hook; a hook that fails does so in each of the
places the code returns false from, and leaves behind what the code leaves.
`enable_relay` is a loop over the lines of the configuration, one line per step,
because an interrupt may come between two. The relay's last hook reads Sessions that
the hook before it has deleted; `UnbindReadsDeleted` says when.

`Backend` gives `Service` two instances with two hooks each, and attaches each hook
to the action of `Service` that calls it. Main's thread is `calls`, the calls it
has still to make: the commands, the clean-up and main's way out when a first start
fails are lists of calls. `Interrupt` is SIGINT on main's thread, at any step: what
main was doing is forgotten and the clean-up is all that is left. A Start that was
interrupted between locking and waiting keeps its mutex (`held`). `asked` remembers
how the end was asked for: by `quit`, by an interrupt of a main that waited for a
command or for a running Service (`quiet`), or by one of a main at work (`busy`).
The threads enter IO with the context behind the descriptor and leave it
(`io_context`), and the hooks run on main's thread meanwhile.

Destroying a Service stops it: `delete_relay` and `Exit` are preceded by the Stop of
`~Service` if the Service counts as running, hooks and join included (`CallRelay`,
`CallServer`). By then the members of Relay are gone already, and what Stop needs of
the statics may be; so where a thread is still there the process may also die instead. `UnbindCrash` is the death in the hook that reads deleted Sessions; if
the process survives it, the hook does what it is meant to.

Kept apart on purpose: waits do not return spuriously here (`Service` covers that);
a lock of `CoAP` or the SessionManager that an interrupted main holds is not
modelled, each such operation being one step; SIGINT is delivered to main's thread,
though POSIX lets it run on any.

### UserScript

The script's globals, one body at a time, one record per step, with an exception
possible wherever the scripts or the bridge can raise one. A name is the sequence of
its parts between colons, so that joining a base name and a name joins the last part
of one with the first of the other, as strings do. What a body means is said without
reference to the loop over its records (`Mean`, `Names`): there is an order-preserving
choice of a record for each point that leaves out no record with a name, and each point
is what `get_body` makes of the full name of its record.

## 3. Runs

### Runs that pass

| Run | Constants | Shows |
|---|---|---|
| `relay_restart` | 1 line, 2 addresses, 2 messages, 2 starts | `TypeOK`, `StopAndWait`, `UpstreamInOrder`, and that the relay implements `Outbox` |
| `relay_live` | 1 line, 2 addresses, 2 messages, 1 start, fair | `PendingIsOutstanding`, `EventuallySettled` |
| `relay_two` | 2 lines, 2 addresses, 2 messages, 1 start | `SendsInOrder` |
| `chain` | 2 messages, 3 attempts of 2 blocks, 2 tries, 1 ping, 32 ids | `ChainTypeOK`, `BodiesIntact`, `DoneMeansHanded`, `NoNeedlessIncomplete`, `NothingLost`, `ReceivedOrRecorded`, `HandsLikeOutbox` |
| `block_ids` | transfers of 1, 1 (plain), 2 and 4 blocks, 2 tries, 2 pings, 4 ids | `BlocksAscend`, `HandedOnceInOrder` |
| `service` | 3 hooks, fair | `TypeOK`, `RunUnderHooks`, `HooksNested`, `EndedIsClean`, `StopReturns` |
| `backend` | 4 contexts, 3 lines, with and without relay and script, fair | `TypeOK`, `IOOnLiveContext`, `ContextsOwned`, `BoundIsOwned`, `QueueOutlivesUsers`, `ScriptIsAlive`, `EndsWhenAsked` |
| `user_script` | 3 bodies out of 8 | `TypeOK`, `WrittenIsMeant`, `DbIsNamed` |

What the properties say, beside their comments in the modules:

- `StopAndWait`: a session never has a message pending and another to be sent
  again, so two failures cannot swap messages. `UpstreamInOrder` and the
  refinement of `Outbox` draw the conclusion for the endpoint.
- `SendsInOrder`: with several lines a Session may be notified of what happened to
  another one's message, and messages are freed while they are copied. A message may
  be lost then, or sent twice, but what a Session has still to send stays in order,
  with each message once and before all that waits in `msg_queue`.
- `PendingIsOutstanding`: `response_handler` and `nack_handler` notify whatever
  message is pending, without comparing it with the PDU. This is right, with
  pings and replaced sessions in between, because a message is pending exactly
  while its own PDU is the only one with a message that waits.
- `EventuallySettled`: no sequence of losses, pings and reconnections leaves a
  session waiting for an answer that cannot come. The process dying is an
  admitted end, and after a Reconnect it is the usual one (`find_managed`).
- `DoneMeansHanded`: neither ignoring a block nor answering an old request makes a
  client believe in a transfer that was not handed over.
- `NoNeedlessIncomplete` and `HandedOnceInOrder` hold as long as no datagram has
  overtaken another (`overtaken`), the first also without pings between blocks and
  as long as ids have not begun again (`wrapped`); `BodiesIntact` and `DoneMeansHanded`
  hold in any order as long as ids have not begun again.
- `NothingLost`: taking every answer for success does no harm as long as neither an
  overtaking nor a ping makes the upstream say 4.08: then a message is lost by a send
  that fails, or not at all. `find_rejected` is the other half. `ReceivedOrRecorded`
  says without those premises that an answer 4.08 and a failed send are the only ways
  in which a message is lost while there is one libcoap session.
- `HandsLikeOutbox`: the composition of queues, libcoap and block cache is the
  `Outbox` that `Relay` was shown to be with a network of whole messages, pings
  included, until a datagram overtakes another or ids begin again. There is one step
  more (`HandedLate`): a message may fail, be taken up again and then not be sent, while
  its first attempt is still under way; it has been deleted as `send_failed` when the
  upstream gets it. No newer message has been handed over by then.
- `NoNeedlessIncomplete`, `NothingLost` and `HandsLikeOutbox` do need ids not to begin
  again: with `MidModulus = 3`, two transfers and no repetition TLC refutes each of them
  without that premise. A wrap-around between block 0 and block 1 makes the computed id
  negative, which is answered 4.08; and a block 0 whose id is that of the entry which
  the cache still holds is taken for a repeated one, so that the transfer goes on
  behind the other one's block.
- `EndsWhenAsked`: no join waits for ever, because the flags and threads of both
  Services agree at every point where the end can be asked for, and nothing is stopped
  after it has been deleted. The process may still die in the relay's last hook,
  reading deleted Sessions (`UnbindCrash`), and this the property admits.
- The three safety properties of `Service` hold as long as no wait has returned
  without a notification (`spurious`).

Bounds, and why they are enough.

- Two addresses give every case of a session replaced by one at another address
  and at the same one. Two messages tell order, and are enough for one to be
  pending or failed while another waits. Two starts give one reload with messages
  in every place. `MaxMsg` and `MaxStarts` are the only bounds on counters; pings,
  losses, NACKs and reconnections are unbounded.
- Addresses are interchangeable, hence `SYMMETRY`, in runs without fairness.
- `relay_two` follows behaviours within `MixUps`: both lines have a Session with a
  libcoap session, one ping waits at a time and only once both messages are accepted,
  no message has been given up, and of undefined behaviour there is what draining into
  two sessions meets (`double_free`). An address still changes hands between the two
  lines, by Reconnect after a lost connection. The theorems `KeepsOrder` and
  `OneAtATime` have none of these limits.
- `relay_live` starts the service once. After a restart an entry of the map that
  `remove_all_sessions` left may attribute an answer to a Session of the new run,
  so `PendingIsOutstanding` does not hold then.
- `chain` has three attempts for two messages, so that either is sent again once,
  with two tries, so that every datagram may arrive late and twice, and follows
  behaviours with three datagrams under way at most, of which two are requests once one
  has been overtaken (`FewUnderWay`). 32 ids are more than are used, so that none is
  used again.
- `block_ids` has four message ids, so that a transfer of four blocks wraps around
  and ids taken between transfers (`SkipMid`, any number) let each transfer meet each
  earlier one's ids, which takes 65536 messages in CoAP; two pings take ids within
  transfers. The transfers differ in length, so that one goes on behind
  another's end. Two datagrams are under way at most, and one once one has
  overtaken another.
- `backend` creates four contexts in all: one for each Service, one left behind by
  a failure, and one that takes the spot of a released one. The configuration has an
  endpoint twice, once with its default port, and an empty line. Everything else is
  finite without a bound.
- `user_script`: two bodies show what one leaves for the next, a third that nothing
  adds up. The eight bodies have base names with and without a colon at the end,
  names of their own, values missing, a record in the middle that is not valid, and
  no CBOR at all.

`CHECK_DEADLOCK FALSE` is set for `Relay`, `BlockTransfer`, `Chain` and `UserScript`,
which stop when the process has died or when the bounded starts, messages, transfers
and bodies are used up, for `Backend`, which ends, and for `Service`, where the
process may end in `std::terminate`.

Fairness. `relay_live` assumes that the relay's thread, which runs by itself, keeps
taking steps (weak fairness), and that of a message which is sent again and again
neither every copy nor every answer is lost (strong fairness of `Deliver` and of
`Answer` per message): without the latter no protocol delivers anything. It does
not assume that hosts resolve, that Stop is called or that NACKs stop.
`service` assumes that both threads are scheduled, and that `run` returns,
which it does because libcoap's IO is called with a time-out (`relay.cpp:150`,
`server.cpp:145`). `backend` assumes the same of its three threads. Commands and
SIGINT may never come.

### Runs that find a violation

Each checks one statement of a comment against the code.

| Run | Statement | What the code does |
|---|---|---|
| `find_managed` | `session_manager.hpp:67` all managed sessions are in the map | the session made by Reconnect is not, so its first answer dereferences null |
| `find_all_sessions` | `relay.cpp:128` every message into all sessions | it is freed after the first |
| `find_rejected` | `session.hpp:153` success means successfully received | 4.08, which the relay's own ping provokes, counts as success and the message is deleted |
| `find_wakeup` | `service.hpp:48` Start blocks until the service started | it may block for ever, if the thread notifies first |

Other disagreements are built into the models as what the code does, and stated
here only:

- Reconnect releases a session that a NACK has released already
  (`session.cpp:65`; `RestoreConnection`, fault `double_release`).
- `remove_all_sessions` reads Sessions that are deleted by then, and leaves the
  entries of sessions that were replaced (`session_manager.cpp:124`; `Stop` and
  `StopCrash` of `Relay`, `UnbindCrash` of `Backend`).
- `~Service` calls Stop when the members of the class derived from it are destroyed
  already (`service.cpp:36`; `delete_relay`, `Exit`). The clean-up stops both Services
  before, so that this matters behind an interrupt of a call at work and when the
  server's first start fails.
- Any answer is success, 5.00 too (`session_manager.cpp:25`; `Answer` with `accepts`
  FALSE, reason `rejected`).
- A message that could not be sent is deleted, not sent again (`session.cpp:216`;
  `TransmitFailed`, and `Transmit` of `Chain`, reason `send_failed`).
- A repeated block 0 that arrives after a later transfer is processed again
  (`coap.cpp:336`; `HandedOnceInOrder` without its premise fails).
- The id of block 0 is negative when ids wrap around inside a transfer, which is
  then answered 4.08 (`coap.cpp:322`; `first_mid`).
- A last block behind a last block is counted but not stored, so that a body that
  goes on after it has a gap (`coap.cpp:389`; `IgnoreSecondEnd`, `BlocksAscend`).
- The time-out of the cache is 60000 seconds, not 60 (`coap.hpp:22`), and the loop
  that clears it goes on with an iterator it has erased (`coap.cpp:276`;
  `ClearCrash`).
- Start waits without a predicate, so that a spurious wake-up makes it return
  before the service runs (`service.cpp:76`; `WakeSpuriously`).
- A context whose endpoint or resource could not be made is never released
  (`server.cpp:68`; `LeftBehind`).
- `relay.hpp:45` calls `configuration_data` a cache to avoid duplicates, but nothing
  is ever inserted: an endpoint given twice gets every message twice
  (`relay.cpp:32`; `AlreadyRead`). An address is cut at its first colon, so that an
  IPv6 address is none (`relay.cpp:22`; `Endpoint`). A file that cannot be opened
  gives a relay without sessions that runs all the same (`relay.cpp:100`).
- `stop` and `reload` without a relay crash (`main.cpp:186`; `CallNoRelay`), at the end
  of standard input main spins (`main.cpp:164`), and when the server cannot be
  started main returns under the relay's thread (`main.cpp:157`; `End`).
- An interrupt of the clean-up deletes again what has been deleted, and one of a call
  at work may wait for ever or crash (`main.cpp:43`; `EndsWhenAsked` admits `busy`).
- A script that raises has its argument released twice (`python_integration.cpp:88`;
  `Raise`), and the result of one that does not is never released.
- All points of a body go to the database that its last record names
  (`user_script.py:11`; `DbIsNamed`).

## 4. Proofs

`Relay_proofs`, for any number of lines, addresses, messages and starts, from
`RelayAssumption` (the constants are distinct from each other where the code's
null, a dangling pointer and a message are):

- `TypeCorrect`, `TypeSafe`: `TypeOK` needs `AtRest` to be inductive. Stop and
  Start replace the set of sessions; `todo` stays within it because no session is
  left to visit whenever they can run, and a PDU is dropped only while it waits. (That
  counts of references stay natural is the model's treatment of undefined behaviour in
  `ReleaseSession`, and says nothing of the code.)
- `OneAtATime`: `StopAndWait` is inductive with `TypeOK`. The two halves need each
  other: NotifyFailure may append to `retransmit_queue` because a pending message
  means it is empty, and Transmit empties it before it makes a message pending
  because it holds one at most. That the handlers may work on any Session at
  all makes no difference, which is why it survives the undefined behaviour.
- `KeepsOrder`: `SendsInOrder`, from `Ages`: each place that a message passes through
  (`msg_queue`, `transmit_queue`, then pending or `retransmit_queue`) holds messages
  older than those of the places behind it. A failed message goes back in front of the
  others because it is the only one held (`StopAndWait`), and a copy of freed memory
  is no message.

`RelayOutbox_proofs`, for one line (`NLines = 1`) and any number of addresses and
messages, from the same assumption. The properties are stated for one line because
with more a message is freed while it is still being copied, and a Session may be
notified of another one's answer.

- `RelayIsOutbox`: every step of `Relay` is a step of `Outbox` or a stutter
  (`ImplementsOutbox`), for any number of starts. Transmit and a failure move a
  message between the queues without changing their concatenation (`Unsent`), by
  `StopAndWait`. That an answer settles the head of it, and not some other message,
  needs `WaitsForPending`: at most one PDU with a message waits in libcoap, it has
  the pending message, and its session's peer is the endpoint. The invariant says
  nothing of reference counts, nor of which Session the map has for an address: a
  deleted one found there changes no queue, and the only other is the right one. So
  restarts, reconnections and the faults that come with them cannot break the order.
- `InOrder`: `UpstreamInOrder`, from the refinement alone. In any behaviour of
  `Outbox` the log and the backlog ascend, and nothing in the log is above anything in
  the backlog (`Ordered`).
- `PendingHasItsPdu`: `PendingIsOutstanding`, for one start. The other half of
  `WaitsForPending`, that a pending message does have a PDU (`PendingIsWaiting`),
  depends on the map having no entry of a deleted Session (`NoDangling`).

`Service_proofs`, for any number of hooks, from `ServiceAssumption`:
`TypeCorrect`, whose content is that no loop over the hooks runs past an end, and
`RunsUnderHooks`, `HooksAreNested` and `EndsClean`. These three follow from
`Together`, which says for each place of the caller where the thread can be,
whether the flag is set, and which hooks are up (all, none, or those up to
`hook`). `Together` is inductive as long as no wait has returned unnotified: the
flag tells the truth because Start, by waiting for the notification, stays until
the thread has set it.

`BlockTransfer_proofs`, for any transfers, tries, pings and number of message ids,
from `BlockAssumption` (a transfer has a block; one that is sent without Block1 has
no more):

- `TypeCorrect`: with `TypeOK`, that a client only waits for its current transfer.
- `BodiesAscend`: `BlocksAscend`, over ids that coincide. The cache's data ascends up
  to the block it counts as the last (`CacheAscends`), and every request under way is
  a block of its transfer and says truly whether it is the last (`KnownFit`); an
  appended block comes right behind the last one whoever's it is.
- `BodiesStayIntact` and `DoneIsHanded`: `BodiesIntact` and `DoneMeansHanded`. The
  invariant is `WholeInv`. Of the requests that the network or the client still
  knows, those of different transfers have ids on different sides of each other's
  computed id of block 0 (`IdsApart`), and so has the cache's entry (`EntryPlaced`):
  hence the comparison of computed ids takes no block for one of another transfer
  (`SameTransfer`), although with pings in between it may miss one of its own. The
  entry then has the blocks up to its last one (`EntryIntact`), and has been handed
  over if that is the last of all, so that ignoring a repeated block and
  acknowledging it is truthful; and an answer under way with the id of the waiting
  request is truthful (`AnswersTrue`). Every step either sends one request behind all
  that were known or none (`FreshOrStale`), which is all that need be known of the
  client.
- `BodiesInOrder`: `HandedOnceInOrder`, also over ids that coincide. While nothing is
  overtaken the network is a queue: the requests under way are in the order they were
  sent, none is behind the one that waits (`InOrder`), and so the one that is
  delivered is not after any that is left (`HandlerServes`). Behind the end of a
  transfer nothing is then under way but its last block, which the cache has, and later
  transfers (`HandedPassed`); so the body is not handed over again, and no earlier one
  is.
- `NoneIncomplete`: `NoNeedlessIncomplete`, from `StepInv`, which is `WholeInv`,
  `InOrder` and, under the premises, `InStep`: the blocks of a transfer that are under
  way have one computed id of block 0 (`Consecutive`), each is the one that the cache
  has come to or the next (`Met`), and an answer to the waiting block means that the
  cache has come to it (`AnsweredIsStored`). Without the last, the client could go on
  to a block that the cache does not expect.

`Chain_proofs`, from that and `ChainAssumption`:

- `ChainIsTransfers`: every step of `Chain` is one of `BlockTransfer` or leaves it
  alone, so that the theorems on bodies and transfers hold there as well (`ChainIntact`).
- `SessionTypes`: `ChainTypeOK`. That the log keeps its type needs every body that was
  handed over, and the cache's entry, to begin with a transfer that was begun
  (`Logged`, `CacheStarts`), for only those have a message.
- `HandedOrRecorded`: `ReceivedOrRecorded`. A message is pending exactly while its
  transfer waits (`PendingIsCarried`), so that the message that an answer settles is
  the one that `DoneMeansHanded` is about.
- `NoMessageLost`: `NothingLost`, from that and `NoneIncomplete`: under the premises
  nothing is ever rejected (`NoneRejected`), which leaves the sends that fail.
- `ChainHandsLikeOutbox`: `HandsLikeOutbox`, and that the initial states correspond.
  Every step of the chain is a step of `Outbox` or a stutter as long as nothing is
  overtaken and no id used again. The queues together do not change when a message is
  sent or fails (`OneRetry`: there is at most one to send again, and then none is
  pending). What has to be excluded is that the server hands over a late attempt for a
  message that the relay has done with and that is not in the log: `Turn` says of each
  attempt that its message is in the log, or is at the head, or that the server will
  refuse all of it that is under way (`Dead`), or that its message was deleted because
  it could not be sent again and is newer than all of the log (`Late`), the case of
  `HandedLate`. The last needs `InLine`: attempts are made in the order of acceptance
  and none is newer than what is in the backlog. That a message which is settled as
  rejected leaves only such attempts behind is `AnsweredLast`: the answer to the
  waiting block means that nothing older is under way, and if it is 4.08 that this block
  would be refused again. Other attempts' blocks cannot revive a dead one, by `IdsApart`.

`Backend_proofs`, for any configuration file, any bound of contexts and every place of
SIGINT, from `TableAssumption` and `HooksAssumption` (`NULL` is neither a context nor a
state of the script's function): `ProcessTypes`, `IOIsOnLiveContexts`,
`ContextsAreOwned`, `OnlyTheOwnedIsBound`, `QueueIsDeletedLast` and
`ScriptIsCalledAlive`, all from one inductive invariant, `Inv`, because the parts need
each other:

- Of each Service, by two instances of `Service_proofs`: `Agree`, that the thread, the
  flag and the hooks fit the caller's place even after a call was cut short; and
  `Settled`, that an idle Service is wholly up or wholly down, as long as no call at
  work was interrupted (`asked # "busy"`).
- Of main: which lists of calls there can be (`Calls`; one Service is called at a time,
  and `delete_relay` and `exit` are calls of it as long as `~Service` stops it), and which Service is down at each place of the clean-up (`Phases`), from which it
  follows that the queue outlives both threads.
- Of the contexts: each is named by the table once (`Named`), and each complete one
  belongs to the Service whose hook is up and which has its descriptor (`Owned`);
  a thread in IO is in its own Service's context (`InIO`) and its Service runs
  (`Threads`), so that no release meets it. A descriptor that is given again is the
  lowest free one: that there is a lowest is `MinOfSome` in `ContextTable_proofs`, since
  finite sets are well-founded under inclusion.
- Of the SessionManager and the script: what is bound or referenced belongs to a hook
  that is up (`Bound`, `Managed`, `Script`).

Where a call at work was interrupted, the code gives no more than the parts outside
`Phases` and `Managed`; the properties say so.

`UserScript_proofs`, for any set of bodies and any number of calls, from
`ScriptAssumption`: `TypeCorrect`, `WritesWhatIsMeant` and `WritesWhereNamed`. The
invariant is that the globals are what the records so far mean (`Parsed`): the base name
is that of the record before, and the points are those of the named records up to it. A
record with a name appends itself to the choice that `Mean` asks for; one without leaves
the set of named records as it is. A call begins from nothing because process_data resets
both globals, whatever an exception has left in them. `Counted` bounds the references by
the calls.

Only model-checked: `EventuallySettled`, `StopReturns` and `EndsWhenAsked`, since
liveness under fairness is out of the prover's reach. The theorems about the order at the
relay's endpoint are for one line, as said above, and the invariants of the other runs are proved
for every value of the constants.

## 5. Not modelled

- Logging and the test stub, which have no behaviour of their own.
- The contents of messages, time stamps and units of records, DTLS, and CoAP options
  other than Block1. The relay's own block-wise sending is libcoap's: a message is
  one PDU in `Relay`, and a transfer in `Chain`.
- The GET handler, which answers a constant.
- Several clients of the block cache: a client is a key, and the keys are
  independent of each other but for the loop that clears them (`ClearCrash`).
- The locks of `CoAP` and of the SessionManager: an operation that holds one is a
  step. So a main that is interrupted inside one, which may wait for it in the
  clean-up for ever, is not seen; nor is SIGINT on another thread than main's.
- Two libcoap sessions in `Chain`; replacing one by another is in `Relay`.
- Requests without data, which the block cache's handler passes over
  (`coap.cpp:284-288`): neither a relay nor a client of block-wise transfers sends one.
- What a Stop does with a Relay whose members are destroyed, beyond dying or stopping;
  and the order in which static objects are destroyed, beyond `Exit` and `End`.
- Memory that runs out, except where the code checks for it.

## 6. Possible extensions

- That the log of `Chain` ascends while nothing is overtaken and no id used again, from
  `ChainHandsLikeOutbox` as `InOrder` follows from `RelayIsOutbox`.
- `StopAndWait` and `SendsInOrder` hold of any number of lines; what of
  `UpstreamInOrder` is left with several, where a message is freed after the first copy
  and a Session may be notified of another's answer, would need `Junk` to be followed to
  the endpoint it reaches.
- A second client of the block cache, to see that `ClearCrash` is all that keys do to
  each other.
