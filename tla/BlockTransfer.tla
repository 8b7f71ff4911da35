--------------------------- MODULE BlockTransfer ---------------------------
(***************************************************************************)
(* Block-wise transfer of request bodies into the server: the block cache  *)
(* of CoAP::ResourceBlockHandler, a client that sends a body block by block*)
(* and waits for each answer, and the datagram network between them.       *)
(*                                                                         *)
(* The client is external: one endpoint, hence one key of the cache, that  *)
(* behaves as RFC 7252 and 7959 ask.  It numbers its messages one after the*)
(* other, repeats a request under its message id until it is answered or   *)
(* it gives up, and goes on with the next block when it is answered.  It   *)
(* may use a message id for something else in between, as the relay's      *)
(* libcoap does for its keep-alive pings, or for a message that it then    *)
(* cannot send.  Every request has data: one without is answered nothing.  *)
(*                                                                         *)
(* Block i of transfer t is <<t, i>>; a body is the sequence of its blocks.*)
(***************************************************************************)
EXTENDS Integers, Sequences, SequencesExt

CONSTANTS
  Blocks,       \* Blocks[t]: number of blocks of the t-th transfer
  Plain,        \* transfers sent without the Block1 option
  FirstMid,     \* the client's first message id
  MidModulus,   \* message ids are 0..MidModulus - 1; 65536 in CoAP
  MaxTries,     \* bound: how often the client sends a request
  MaxPings,     \* bound: message ids the client uses for pings
  NULL          \* no cache entry; no request waiting for its answer

Transfer == DOMAIN Blocks
Mid      == 0..MidModulus - 1
Body     == Seq(Transfer \X Nat)
Codes    == {"CONTINUE", "CHANGED", "INCOMPLETE", "EMPTY"}
Request  == [transfer : Transfer, num : Nat, m : BOOLEAN, block1 : BOOLEAN,
             mid : Mid]
Response == [mid : Mid, code : Codes]
block_cache_entry == [first_block_mid : Int, last_block : Nat, m : BOOLEAN, data : Body]

ASSUME BlockAssumption ==
  /\ Blocks \in Seq(Nat \ {0})
  /\ Plain \subseteq Transfer /\ \A u \in Plain : Blocks[u] = 1
  /\ MidModulus \in Nat \ {0} /\ FirstMid \in Mid
  /\ MaxTries \in Nat \ {0} /\ MaxPings \in Nat
  /\ NULL \notin block_cache_entry \cup Request

VARIABLES
  block_cache,  \* the entry of this client's key
  idle_time,    \* since last_modified: "short", or past the time-out
  handed,       \* history: the bodies handed to the resource
  alive,        \* FALSE once the server process has died
  current,      \* the client's current or last transfer; 0 before the first
  waiting,      \* the client's request that waits for an answer
  tries,        \* how often it was sent
  next_mid,     \* the client's next message id
  pings,        \* how many it used for pings
  wrapped,      \* history: whether its ids have begun again at 0
  outcome,      \* how each transfer ended, for the client
  requests, responses,  \* the network
  overtaken     \* history: whether a datagram has overtaken another

server  == <<block_cache, idle_time, handed, alive>>
client  == <<current, waiting, tries, next_mid, pings, wrapped, outcome>>
network == <<requests, responses, overtaken>>
vars    == <<server, client, network>>

TypeOK ==
  /\ block_cache \in block_cache_entry \cup {NULL}
  /\ idle_time \in {"short", "timeout"}
  /\ handed \in Seq(Body) /\ alive \in BOOLEAN
  /\ current \in 0..Len(Blocks) /\ waiting \in Request \cup {NULL}
  /\ tries \in 0..MaxTries /\ next_mid \in Mid /\ pings \in 0..MaxPings
  /\ outcome \in [Transfer -> {"none", "done", "incomplete", "given_up"}]
  /\ requests \in Seq(Request) /\ responses \in Seq(Response)
  /\ overtaken \in BOOLEAN /\ wrapped \in BOOLEAN

Init ==
  /\ block_cache = NULL /\ idle_time = "short" /\ handed = <<>> /\ alive = TRUE
  /\ current = 0 /\ waiting = NULL /\ tries = 0 /\ next_mid = FirstMid /\ pings = 0
  /\ outcome = [u \in Transfer |-> "none"]
  /\ requests = <<>> /\ responses = <<>> /\ overtaken = FALSE
  /\ wrapped = FALSE

-----------------------------------------------------------------------------
(* The server: CoAP::ResourceBlockHandler on request r.                    *)

\* The cache after the entries that timed out have been erased.
Cleared == IF idle_time = "timeout" THEN NULL ELSE block_cache

\* coap_mid_t is an int and the message id an unsigned 16 bit number: what is
\* computed is not the id of block 0 when ids wrapped around in between.
first_mid(r) == r.mid - r.num

\* MUTANTS: a later block is not recognised as repeated; entries of another
\* transfer are taken for r's.
HasUpToPrevious(r, n) ==
  /\ Cleared # NULL /\ Cleared.first_block_mid = first_mid(r)
  /\ n = Cleared.last_block /\ n = r.num - 1

HasUpToAnyTransfer(r, n) == Cleared # NULL /\ n = Cleared.last_block

\* The cached transfer is r's and has come as far as block n.
HasUpTo(r, n) ==
  /\ Cleared # NULL /\ Cleared.first_block_mid = first_mid(r)
  /\ n = Cleared.last_block

\* MUTANT: block 0 always begins a body.
RepeatedNever0(r) == r.num # 0 /\ HasUpTo(r, r.num)

Repeated(r) ==
  IF r.num = 0 THEN Cleared # NULL /\ Cleared.first_block_mid = first_mid(r)
               ELSE HasUpTo(r, r.num)

Keep == /\ block_cache' = Cleared
        /\ idle_time' = IF Cleared = NULL THEN "short" ELSE idle_time

\* The entry becomes e, and its data is handed over when r is the last block.
Store(r, e) ==
  /\ block_cache' = e /\ idle_time' = "short"
  /\ handed' = IF r.m THEN handed ELSE Append(handed, e.data)

Reply(r, code) == responses' = Append(responses, [mid |-> r.mid, code |-> code])
Acknowledge(r) == Reply(r, IF r.m THEN "CONTINUE" ELSE "CHANGED")

Block(r) == <<r.transfer, r.num>>

ProcessWhole(r) ==
  /\ ~r.block1
  /\ Keep
  /\ handed' = Append(handed, <<Block(r)>>)
  /\ Reply(r, "EMPTY")

IgnoreRepeated(r) ==
  /\ r.block1 /\ Repeated(r)
  /\ Keep /\ UNCHANGED handed
  /\ Acknowledge(r)

\* MUTANTS: the block before is taken for the last one; old data is not dropped.
BeginBefore0(r) ==
  /\ r.block1 /\ r.num = 0 /\ ~Repeated(r)
  /\ Store(r, [first_block_mid |-> first_mid(r), last_block |-> r.num - 1, m |-> r.m,
               data |-> <<Block(r)>>])
  /\ Acknowledge(r)

BeginWithOldData(r) ==
  /\ r.block1 /\ r.num = 0 /\ ~Repeated(r)
  /\ Store(r, [first_block_mid |-> first_mid(r), last_block |-> 0, m |-> r.m,
               data |-> Append(IF Cleared = NULL THEN <<>> ELSE Cleared.data, Block(r))])
  /\ Acknowledge(r)

BeginBody(r) ==
  /\ r.block1 /\ r.num = 0 /\ ~Repeated(r)
  /\ Store(r, [first_block_mid |-> first_mid(r), last_block |-> 0, m |-> r.m,
               data |-> <<Block(r)>>])
  /\ Acknowledge(r)

\* MUTANT: a block that cannot be appended is acknowledged all the same.
AcknowledgeIncomplete(r) ==
  /\ r.block1 /\ r.num > 0 /\ ~HasUpTo(r, r.num) /\ ~HasUpTo(r, r.num - 1)
  /\ Keep /\ UNCHANGED handed
  /\ Acknowledge(r)

RequestIncomplete(r) ==
  /\ r.block1 /\ r.num > 0 /\ ~HasUpTo(r, r.num) /\ ~HasUpTo(r, r.num - 1)
  /\ Keep /\ UNCHANGED handed
  /\ Reply(r, "INCOMPLETE")

IgnoreSecondEnd(r) ==
  /\ r.block1 /\ r.num > 0 /\ HasUpTo(r, r.num - 1) /\ ~Cleared.m /\ ~r.m
  /\ block_cache' = [Cleared EXCEPT !.last_block = r.num, !.m = r.m]
  /\ UNCHANGED <<idle_time, handed>>
  /\ Acknowledge(r)

AppendBlock(r) ==
  /\ r.block1 /\ r.num > 0 /\ HasUpTo(r, r.num - 1) /\ (Cleared.m \/ r.m)
  /\ Store(r, [Cleared EXCEPT !.last_block = r.num, !.m = r.m,
                              !.data = Append(@, Block(r))])
  /\ Acknowledge(r)

\* The network delivers the i-th datagram under way.
Arrives(i) == overtaken' = (overtaken \/ i # 1)

ResourceBlockHandler(i) ==
  /\ alive
  /\ LET r == requests[i] IN
       \/ ProcessWhole(r) \/ IgnoreRepeated(r) \/ BeginBody(r)
       \/ RequestIncomplete(r) \/ IgnoreSecondEnd(r) \/ AppendBlock(r)
  /\ requests' = RemoveAt(requests, i) /\ Arrives(i)
  /\ UNCHANGED <<alive, client>>

\* The loop that clears the cache goes on from the entry it has just erased.
ClearCrash ==
  /\ alive /\ requests # <<>> /\ idle_time = "timeout"
  /\ alive' = FALSE
  /\ UNCHANGED <<block_cache, idle_time, handed, client, network>>

\* More than COAP_RESOURCE_BLOCK_TIMEOUT passes while nothing is under way.
Elapse ==
  /\ alive /\ block_cache # NULL /\ waiting = NULL /\ requests = <<>>
  /\ idle_time = "short" /\ idle_time' = "timeout"
  /\ UNCHANGED <<block_cache, handed, alive, client, network>>

-----------------------------------------------------------------------------
(* The client and the network.                                             *)

\* The next message id is used.
TakeMid ==
  /\ next_mid' = (next_mid + 1) % MidModulus
  /\ wrapped' = (wrapped \/ next_mid = MidModulus - 1)

\* Block num of transfer u goes out under the next message id.
Send(u, num) ==
  LET r == [transfer |-> u, num |-> num, m |-> num + 1 < Blocks[u],
            block1 |-> u \notin Plain, mid |-> next_mid] IN
  /\ waiting' = r /\ tries' = 1
  /\ requests' = Append(requests, r)
  /\ TakeMid

Begin ==
  /\ waiting = NULL /\ current < Len(Blocks)
  /\ current' = current + 1
  /\ Send(current + 1, 0)
  /\ UNCHANGED <<pings, outcome, responses, overtaken, server>>

Repeat ==
  /\ waiting # NULL /\ tries < MaxTries
  /\ tries' = tries + 1
  /\ requests' = Append(requests, waiting)
  /\ UNCHANGED <<current, waiting, next_mid, pings, wrapped, outcome, responses, overtaken, server>>

\* The transfer has ended for the client.
End(how) ==
  /\ outcome' = [outcome EXCEPT ![current] = how]
  /\ waiting' = NULL /\ tries' = 0
  /\ UNCHANGED <<current, next_mid, pings, wrapped>>

\* After the last try, or because of an RST or an ICMP message, at any time.
GiveUp ==
  /\ waiting # NULL
  /\ End("given_up")
  /\ UNCHANGED <<network, server>>

\* An answer with the id of the waiting request ends it; others are ignored.
GetAnswer(i) ==
  LET code == responses[i].code
      ours == waiting # NULL /\ responses[i].mid = waiting.mid
      more == code = "CONTINUE" /\ waiting.m IN
  /\ responses' = RemoveAt(responses, i) /\ Arrives(i)
  /\ \/ ~ours /\ UNCHANGED <<client, requests>>
     \/ /\ ours /\ more
        /\ Send(current, waiting.num + 1)
        /\ UNCHANGED <<current, pings, outcome>>
     \/ /\ ours /\ ~more
        /\ End(IF code = "INCOMPLETE" THEN "incomplete" ELSE "done")
        /\ UNCHANGED requests
  /\ UNCHANGED server

UseMidForPing ==
  /\ pings < MaxPings
  /\ pings' = pings + 1
  /\ TakeMid
  /\ UNCHANGED <<current, waiting, tries, outcome, network, server>>

\* The id of a message of which nothing can be sent, between two transfers.
SkipMid ==
  /\ waiting = NULL
  /\ TakeMid
  /\ UNCHANGED <<current, waiting, tries, pings, outcome, network, server>>

Lose ==
  /\ \/ \E i \in DOMAIN requests  : requests' = RemoveAt(requests, i) /\ UNCHANGED responses
     \/ \E i \in DOMAIN responses : responses' = RemoveAt(responses, i) /\ UNCHANGED requests
  /\ UNCHANGED <<overtaken, client, server>>

Next ==
  \/ \E i \in DOMAIN requests : ResourceBlockHandler(i)
  \/ ClearCrash \/ Elapse
  \/ Begin \/ Repeat \/ GiveUp \/ UseMidForPing \/ SkipMid
  \/ \E i \in DOMAIN responses : GetAnswer(i)
  \/ Lose

Spec == Init /\ [][Next]_vars

-----------------------------------------------------------------------------

BodyOf(u) == [i \in 1..Blocks[u] |-> <<u, i - 1>>]

\* Every body handed to the resource is the body of one transfer: complete, no
\* block missing, twice, or of another transfer, whatever the network does to
\* the requests of earlier transfers and to repeated ones, as
\* long as no message id is used again.
BodiesIntact ==
  ~wrapped => \A i \in DOMAIN handed : \E u \in Transfer : handed[i] = BodyOf(u)

\* A transfer that ended well for the client has been handed over: no answer to
\* another request, or to a block that was ignored, is taken for its end, as long
\* as no message id is used again.
DoneMeansHanded ==
  ~wrapped => \A u \in Transfer : outcome[u] = "done" => BodyOf(u) \in Range(handed)

\* While nothing is overtaken, block-wise bodies are handed over in the order
\* they were sent and each at most once, however often requests are repeated.
HandedOnceInOrder ==
  ~overtaken =>
    \A i, j \in DOMAIN handed :
      LET u == Last(handed[i])[1]  v == Last(handed[j])[1] IN
      i < j /\ {u, v} \cap Plain = {} => u < v

\* While nothing is overtaken, the blocks have consecutive ids, and none is used
\* again, a client is never told to begin again: neither losses nor repetitions
\* make the server miss a block, nor take a repeated one for a gap.
NoNeedlessIncomplete ==
  ~overtaken /\ pings = 0 /\ ~wrapped => \A u \in Transfer : outcome[u] # "incomplete"

\* Whatever ids coincide, because they wrapped around, a body begins with a block
\* 0, its blocks come in the order of their numbers and none twice, and it ends
\* with the last block of a transfer: of two transfers that are taken for one no
\* block is put before another.  One may be missing, behind a second end.
BlocksAscend ==
  \A i \in DOMAIN handed :
    /\ handed[i][1][2] = 0
    /\ \A k, l \in DOMAIN handed[i] : k < l => handed[i][k][2] < handed[i][l][2]
    /\ Last(handed[i])[2] + 1 = Blocks[Last(handed[i])[1]]
=============================================================================
