------------------------ MODULE BlockTransfer_proofs ------------------------
(***************************************************************************)
(* Proofs about BlockTransfer: type correctness; that blocks ascend in     *)
(* every body, whatever message ids coincide; as long as no id is used     *)
(* again, that bodies are intact and that no client believes in a transfer *)
(* that was not handed over; and, as long as no datagram overtakes another,*)
(* that bodies are handed over in order and once, and that no client has to*)
(* begin again for nothing.                                                *)
(***************************************************************************)
EXTENDS BlockTransfer, SequenceTheorems, TLAPS

\* The requests that the network or the client still knows.
Known == {requests[i] : i \in DOMAIN requests} \cup ({waiting} \ {NULL})

\* The client waits for an answer about its current transfer.
WaitsForCurrent == waiting # NULL => waiting.transfer = current

TypeInv == TypeOK /\ WaitsForCurrent

\* What is left of a sequence without its i-th element was in it.
LEMMA RemoveAtElements ==
  ASSUME NEW S, NEW s \in Seq(S), NEW i \in DOMAIN s
  PROVE  /\ RemoveAt(s, i) \in Seq(S)
         /\ \A k \in DOMAIN RemoveAt(s, i) : \E l \in DOMAIN s : RemoveAt(s, i)[k] = s[l]
<1> DEFINE a == SubSeq(s, 1, i - 1)
           b == SubSeq(s, i + 1, Len(s))
<1>1. i \in 1..Len(s) /\ Len(s) \in Nat
  OBVIOUS
<1>2. a \in Seq(S) /\ Len(a) = i - 1 /\ \A k \in 1..Len(a) : a[k] = s[k]
  BY <1>1
<1>3. b \in Seq(S) /\ Len(b) = Len(s) - i /\ \A k \in 1..Len(b) : b[k] = s[i + k]
  BY <1>1
<1>4. RemoveAt(s, i) = a \o b
  BY DEF RemoveAt
<1> HIDE DEF a, b
<1>5. /\ a \o b \in Seq(S) /\ Len(a \o b) = Len(a) + Len(b)
      /\ \A k \in 1..Len(a) + Len(b) :
           (a \o b)[k] = IF k <= Len(a) THEN a[k] ELSE b[k - Len(a)]
  BY <1>2, <1>3
<1>6. ASSUME NEW k \in DOMAIN (a \o b)
      PROVE  \E l \in DOMAIN s : (a \o b)[k] = s[l]
  <2>1. k \in 1..Len(a) + Len(b) /\ Len(a) \in Nat /\ Len(b) \in Nat
    BY <1>2, <1>3, <1>5
  <2>2. CASE k <= Len(a)
    <3>1. k \in 1..Len(a)
      BY <2>1, <2>2
    <3>2. (a \o b)[k] = a[k]
      BY <2>1, <2>2, <1>5
    <3>3. a[k] = s[k] /\ k \in 1..Len(s)
      BY <3>1, <1>1, <1>2
    <3> QED BY <3>2, <3>3, <1>1
  <2>3. CASE k > Len(a)
    <3>1. k - Len(a) \in 1..Len(b)
      BY <2>1, <2>3
    <3>2. (a \o b)[k] = b[k - Len(a)]
      BY <2>1, <2>3, <1>5
    <3>3. b[k - Len(a)] = s[i + (k - Len(a))]
      BY <3>1, <1>3
    <3>4. i + (k - Len(a)) \in 1..Len(s)
      BY <3>1, <2>1, <1>1, <1>3
    <3> QED BY <3>2, <3>3, <3>4, <1>1
  <2> QED BY <2>1, <2>2, <2>3
<1> QED BY <1>4, <1>5, <1>6

-----------------------------------------------------------------------------
(* Type correctness.                                                       *)

LEMMA TransferType ==
  /\ Transfer = 1..Len(Blocks) /\ Len(Blocks) \in Nat
  /\ \A u \in Transfer : Blocks[u] \in Nat \ {0}
BY BlockAssumption DEF Transfer

LEMMA InitType == Init => TypeInv
<1> SUFFICES ASSUME Init PROVE TypeInv
  OBVIOUS
<1>1. outcome \in [Transfer -> {"none", "done", "incomplete", "given_up"}]
  BY DEF Init
<1>2. /\ handed \in Seq(Body) /\ requests \in Seq(Request)
      /\ responses \in Seq(Response)
  BY DEF Init
<1>3. /\ current \in 0..Len(Blocks) /\ tries \in 0..MaxTries
      /\ next_mid \in Mid /\ pings \in 0..MaxPings
  BY BlockAssumption DEF Init
<1> QED BY <1>1, <1>2, <1>3 DEF Init, TypeInv, TypeOK, WaitsForCurrent

\* A request that is sent is one, and so are the variables that go with it.
LEMMA SendType ==
  ASSUME TypeOK, NEW u \in Transfer, NEW num \in Nat, Send(u, num)
  PROVE  /\ waiting' \in Request /\ waiting'.transfer = u /\ waiting' # NULL
         /\ requests' \in Seq(Request) /\ requests' = Append(requests, waiting')
         /\ tries' \in 0..MaxTries /\ next_mid' \in Mid /\ wrapped' \in BOOLEAN
<1>1. waiting' \in Request /\ waiting'.transfer = u
  BY DEF Send, Request, TypeOK
<1>2. requests' = Append(requests, waiting') /\ tries' = 1
  BY DEF Send
<1>3. next_mid' \in Mid /\ wrapped' \in BOOLEAN
  BY BlockAssumption DEF Send, TakeMid, TypeOK, Mid
<1>4. requests' \in Seq(Request)
  BY <1>1, <1>2 DEF TypeOK
<1> QED BY <1>1, <1>2, <1>3, <1>4, BlockAssumption

\* A request the server is given is one.
LEMMA RequestType ==
  ASSUME TypeOK, NEW i \in DOMAIN requests
  PROVE  /\ requests[i] \in Request /\ Block(requests[i]) \in Transfer \X Nat
         /\ first_mid(requests[i]) \in Int
         /\ requests[i].transfer \in Transfer /\ requests[i].num \in Nat
         /\ requests[i].m \in BOOLEAN /\ requests[i].mid \in Mid
<1>1. requests[i] \in Request
  BY DEF TypeOK
<1> QED BY <1>1, BlockAssumption DEF Request, Block, first_mid, Mid

LEMMA ClearedType ==
  ASSUME TypeOK
  PROVE  Cleared \in block_cache_entry \cup {NULL} /\ (Cleared # NULL => Cleared = block_cache)
BY DEF TypeOK, Cleared

\* An entry that is stored keeps the types of the server's variables.
LEMMA StoreType ==
  ASSUME TypeOK, NEW r, NEW e \in block_cache_entry, Store(r, e)
  PROVE  /\ block_cache' \in block_cache_entry \cup {NULL}
         /\ idle_time' \in {"short", "timeout"} /\ handed' \in Seq(Body)
<1>1. e.data \in Body
  BY DEF block_cache_entry
<1> QED BY <1>1 DEF TypeOK, Store

LEMMA HandlerType ==
  ASSUME TypeInv, NEW i \in DOMAIN requests, ResourceBlockHandler(i)
  PROVE  TypeInv'
<1> DEFINE r == requests[i]
<1> USE DEF TypeInv
<1>1. /\ r \in Request /\ Block(r) \in Transfer \X Nat /\ first_mid(r) \in Int
      /\ r.num \in Nat /\ r.m \in BOOLEAN /\ r.mid \in Mid
  BY RequestType
<1>2. Cleared \in block_cache_entry \cup {NULL}
  BY ClearedType
<1> HIDE DEF r
<1>3. ASSUME NEW code \in Codes, Reply(r, code)
      PROVE  responses' \in Seq(Response)
  <2>1. [mid |-> r.mid, code |-> code] \in Response
    BY <1>1 DEF Response
  <2> QED BY <2>1, <1>3 DEF Reply, TypeOK
<1>4. ASSUME Acknowledge(r)
      PROVE  responses' \in Seq(Response)
  BY <1>3, <1>4 DEF Acknowledge, Codes
<1>5. /\ block_cache' \in block_cache_entry \cup {NULL}
      /\ idle_time' \in {"short", "timeout"} /\ handed' \in Seq(Body)
      /\ responses' \in Seq(Response)
  <2>1. CASE Keep /\ UNCHANGED handed /\ (Acknowledge(r) \/ Reply(r, "INCOMPLETE"))
    BY <2>1, <1>2, <1>3, <1>4 DEF Keep, TypeOK, Codes
  <2>2. CASE ProcessWhole(r)
    <3>1. <<Block(r)>> \in Body
      BY <1>1 DEF Body
    <3> QED BY <2>2, <3>1, <1>2, <1>3 DEF ProcessWhole, Keep, TypeOK, Codes
  <2>3. CASE BeginBody(r)
    <3>1. [first_block_mid |-> first_mid(r), last_block |-> 0, m |-> r.m,
           data |-> <<Block(r)>>] \in block_cache_entry
      BY <1>1 DEF block_cache_entry, Body
    <3> QED BY <2>3, <3>1, <1>4, StoreType DEF BeginBody
  <2>4. CASE IgnoreSecondEnd(r)
    <3>1. Cleared \in block_cache_entry
      BY <2>4, <1>2 DEF IgnoreSecondEnd, HasUpTo
    <3>2. [Cleared EXCEPT !.last_block = r.num, !.m = r.m] \in block_cache_entry
      BY <3>1, <1>1 DEF block_cache_entry
    <3> QED BY <2>4, <3>2, <1>4 DEF IgnoreSecondEnd, TypeOK
  <2>5. CASE AppendBlock(r)
    <3>1. Cleared \in block_cache_entry
      BY <2>5, <1>2 DEF AppendBlock, HasUpTo
    <3>2. Append(Cleared.data, Block(r)) \in Body
      BY <3>1, <1>1 DEF block_cache_entry, Body
    <3>3. [Cleared EXCEPT !.last_block = r.num, !.m = r.m,
                          !.data = Append(@, Block(r))] \in block_cache_entry
      BY <3>1, <3>2, <1>1 DEF block_cache_entry
    <3> QED BY <2>5, <3>3, <1>4, StoreType DEF AppendBlock
  <2> QED BY <2>1, <2>2, <2>3, <2>4, <2>5
          DEF ResourceBlockHandler, IgnoreRepeated, RequestIncomplete, r
<1>6. requests' \in Seq(Request) /\ overtaken' \in BOOLEAN
  BY RemoveAtElements DEF ResourceBlockHandler, Arrives, TypeOK
<1> QED BY <1>5, <1>6 DEF ResourceBlockHandler, TypeOK, WaitsForCurrent, client

LEMMA EndType ==
  ASSUME TypeInv, NEW how \in {"done", "incomplete", "given_up"}, End(how)
  PROVE  /\ outcome' \in [Transfer -> {"none", "done", "incomplete", "given_up"}]
         /\ waiting' = NULL /\ tries' \in 0..MaxTries /\ next_mid' \in Mid
         /\ pings' \in 0..MaxPings /\ wrapped' \in BOOLEAN /\ current' \in 0..Len(Blocks)
<1>1. outcome' \in [Transfer -> {"none", "done", "incomplete", "given_up"}]
  BY DEF TypeInv, TypeOK, End
<1>2. /\ waiting' = NULL /\ tries' = 0
      /\ UNCHANGED <<current, next_mid, pings, wrapped>>
  BY DEF End
<1> QED BY <1>1, <1>2, BlockAssumption DEF TypeInv, TypeOK

LEMMA GetAnswerType ==
  ASSUME TypeInv, NEW i \in DOMAIN responses, GetAnswer(i)
  PROVE  TypeInv'
<1> USE DEF TypeInv
<1> DEFINE ours == waiting # NULL /\ responses[i].mid = waiting.mid
           more == responses[i].code = "CONTINUE" /\ waiting.m
<1>1. responses' \in Seq(Response) /\ overtaken' \in BOOLEAN /\ UNCHANGED server
  BY RemoveAtElements DEF GetAnswer, Arrives, TypeOK
<1>2. CASE UNCHANGED <<client, requests>>
  BY <1>1, <1>2 DEF TypeOK, WaitsForCurrent, client, server
<1>3. CASE ours /\ Send(current, waiting.num + 1) /\ UNCHANGED <<current, pings, outcome>>
  <2>1. current \in Transfer /\ waiting.num + 1 \in Nat
    BY <1>3 DEF TypeOK, WaitsForCurrent, Request
  <2> QED BY <1>1, <1>3, <2>1, SendType DEF TypeOK, WaitsForCurrent, server
<1>4. CASE End(IF responses[i].code = "INCOMPLETE" THEN "incomplete" ELSE "done")
           /\ UNCHANGED requests
  BY <1>1, <1>4, EndType DEF TypeOK, WaitsForCurrent, server
<1> QED BY <1>2, <1>3, <1>4 DEF GetAnswer

LEMMA NextType == TypeInv /\ [Next]_vars => TypeInv'
<1> SUFFICES ASSUME TypeInv, [Next]_vars PROVE TypeInv'
  OBVIOUS
<1>1. ASSUME NEW i \in DOMAIN requests, ResourceBlockHandler(i) PROVE TypeInv'
  BY <1>1, HandlerType
<1>2. CASE ClearCrash
  BY <1>2 DEF TypeInv, TypeOK, WaitsForCurrent, ClearCrash, client, network
<1>3. CASE Elapse
  BY <1>3 DEF TypeInv, TypeOK, WaitsForCurrent, Elapse, client, network
<1>4. CASE Begin
  <2>1. current + 1 \in Transfer /\ current' = current + 1
    BY <1>4, TransferType DEF Begin, TypeInv, TypeOK
  <2> QED BY <1>4, <2>1, SendType, TransferType
          DEF Begin, TypeInv, TypeOK, WaitsForCurrent, server
<1>5. CASE Repeat
  BY <1>5, BlockAssumption DEF Repeat, TypeInv, TypeOK, WaitsForCurrent, server
<1>6. CASE GiveUp
  BY <1>6, EndType DEF GiveUp, TypeInv, TypeOK, WaitsForCurrent, server, network
<1>7. CASE UseMidForPing
  BY <1>7, BlockAssumption
  DEF UseMidForPing, TakeMid, TypeInv, TypeOK, WaitsForCurrent, Mid, server, network
<1>11. CASE SkipMid
  BY <1>11, BlockAssumption
  DEF SkipMid, TakeMid, TypeInv, TypeOK, WaitsForCurrent, Mid, server, network
<1>8. ASSUME NEW i \in DOMAIN responses, GetAnswer(i) PROVE TypeInv'
  BY <1>8, GetAnswerType
<1>9. CASE Lose
  <2>1. requests' \in Seq(Request) /\ responses' \in Seq(Response)
    BY <1>9, RemoveAtElements DEF Lose, TypeInv, TypeOK
  <2> QED BY <1>9, <2>1 DEF Lose, TypeInv, TypeOK, WaitsForCurrent, client, server
<1>10. CASE UNCHANGED vars
  BY <1>10 DEF vars, server, client, network, TypeInv, TypeOK, WaitsForCurrent
<1> QED BY <1>1, <1>2, <1>3, <1>4, <1>5, <1>6, <1>7, <1>8, <1>9, <1>10, <1>11 DEF Next

\* Every variable keeps its type, for any transfers and any number of message ids.
THEOREM TypeCorrect == Spec => []TypeInv
<1>1. Init => TypeInv
  BY InitType
<1>2. TypeInv /\ [Next]_vars => TypeInv'
  BY NextType
<1> QED BY <1>1, <1>2, PTL DEF Spec

-----------------------------------------------------------------------------
(* What the network and the client know of requests.                       *)

\* A request is about a block of its transfer, and says whether it is the last.
Fits(r) ==
  /\ r.num < Blocks[r.transfer]
  /\ r.m <=> r.num + 1 < Blocks[r.transfer]
  /\ ~r.block1 => Blocks[r.transfer] = 1

KnownFit == \A r \in Known : Fits(r)

\* A request nobody knew is sent: block 0 of the next transfer, or the block
\* behind the one that was waited for.
Fresh ==
  /\ Known' \subseteq Known \cup {waiting'}
  /\ waiting' \in Request /\ Fits(waiting') /\ waiting'.mid = next_mid
  /\ TakeMid /\ waiting'.transfer = current'
  /\ \/ current' = current + 1 /\ waiting'.num = 0
     \/ /\ current' = current /\ waiting \in Known
        /\ waiting.transfer = current /\ waiting'.num = waiting.num + 1

\* No request is sent that was not known.
Stale ==
  /\ Known' \subseteq Known /\ current' = current
  /\ waiting' \in {waiting, NULL}
  /\ UNCHANGED <<next_mid, wrapped>> \/ TakeMid

LEMMA KnownType == TypeOK => Known \subseteq Request
BY DEF TypeOK, Known

LEMMA KnownShrinks ==
  ASSUME TypeOK, waiting' \in {waiting, NULL},
         \/ UNCHANGED requests
         \/ \E i \in DOMAIN requests : requests' = RemoveAt(requests, i)
  PROVE  Known' \subseteq Known
<1>1. CASE UNCHANGED requests
  BY <1>1 DEF Known
<1>2. ASSUME NEW i \in DOMAIN requests, requests' = RemoveAt(requests, i)
      PROVE  Known' \subseteq Known
  <2>1. requests \in Seq(Request)
    BY DEF TypeOK
  <2>2. \A k \in DOMAIN requests' : \E l \in DOMAIN requests : requests'[k] = requests[l]
    BY <1>2, <2>1, RemoveAtElements
  <2> QED BY <2>2 DEF Known
<1> QED BY <1>1, <1>2

LEMMA KnownGrows ==
  ASSUME TypeOK, NEW r \in Request, requests' = Append(requests, r)
  PROVE  Known' \subseteq Known \cup {r, waiting'}
<1>1. \A k \in DOMAIN requests' :
        (k \in DOMAIN requests /\ requests'[k] = requests[k]) \/ requests'[k] = r
  BY DEF TypeOK
<1> QED BY <1>1 DEF Known

\* A block that is sent fits, when it is one of the transfer.
LEMMA SendFresh ==
  ASSUME TypeOK, NEW u \in Transfer, NEW num \in Nat, num < Blocks[u], Send(u, num)
  PROVE  /\ Known' \subseteq Known \cup {waiting'}
         /\ waiting' \in Request /\ Fits(waiting') /\ waiting'.mid = next_mid
         /\ TakeMid /\ waiting'.transfer = u /\ waiting'.num = num
<1>1. waiting' = [transfer |-> u, num |-> num, m |-> num + 1 < Blocks[u],
                  block1 |-> u \notin Plain, mid |-> next_mid]
  BY DEF Send
<1>2. Fits(waiting')
  BY <1>1, BlockAssumption DEF Fits
<1>3. Known' \subseteq Known \cup {waiting'}
  BY SendType, KnownGrows
<1>4. waiting' \in Request
  BY SendType
<1>5. TakeMid
  BY DEF Send
<1> QED BY <1>1, <1>2, <1>3, <1>4, <1>5

LEMMA FreshOrStale == TypeInv /\ KnownFit /\ [Next]_vars => Fresh \/ Stale
<1> SUFFICES ASSUME TypeInv, KnownFit, [Next]_vars PROVE Fresh \/ Stale
  OBVIOUS
<1> USE DEF TypeInv
<1>1. ASSUME NEW i \in DOMAIN requests, ResourceBlockHandler(i) PROVE Stale
  BY <1>1, KnownShrinks DEF ResourceBlockHandler, Stale, client
<1>2. CASE ClearCrash \/ Elapse \/ UNCHANGED vars
  <2>1. UNCHANGED <<client, network>>
    BY <1>2 DEF ClearCrash, Elapse, vars
  <2> QED BY <2>1, KnownShrinks DEF Stale, client, network
<1>3. CASE Begin
  <2>1. current + 1 \in Transfer /\ 0 < Blocks[current + 1] /\ current' = current + 1
    BY <1>3, TransferType DEF Begin, TypeOK
  <2> QED BY <1>3, <2>1, SendFresh DEF Begin, Fresh
<1>4. CASE Repeat
  <2>1. waiting \in Request /\ waiting \in Known /\ waiting' = waiting
    BY <1>4 DEF Repeat, TypeOK, Known
  <2>2. Known' \subseteq Known \cup {waiting, waiting'}
    BY <1>4, <2>1, KnownGrows DEF Repeat
  <2> QED BY <1>4, <2>1, <2>2 DEF Repeat, Stale
<1>5. CASE GiveUp
  BY <1>5, KnownShrinks DEF GiveUp, End, Stale, network
<1>6. CASE UseMidForPing \/ SkipMid
  BY <1>6, KnownShrinks DEF UseMidForPing, SkipMid, Stale, network
<1>7. ASSUME NEW i \in DOMAIN responses, GetAnswer(i) PROVE Fresh \/ Stale
  <2>1. CASE UNCHANGED <<client, requests>>
    BY <2>1, KnownShrinks DEF Stale, client
  <2>2. CASE /\ waiting # NULL /\ waiting.m
             /\ Send(current, waiting.num + 1) /\ UNCHANGED current
    <3>1. waiting \in Known /\ waiting \in Request /\ waiting.transfer = current
      BY <2>2 DEF TypeOK, Known, WaitsForCurrent
    <3>2. current \in Transfer /\ waiting.num + 1 \in Nat /\ waiting.num + 1 < Blocks[current]
      BY <2>2, <3>1 DEF KnownFit, Fits, Request
    <3> QED BY <2>2, <3>1, <3>2, SendFresh DEF Fresh
  <2>3. ASSUME NEW how, End(how), UNCHANGED requests PROVE Stale
    BY <2>3, KnownShrinks DEF End, Stale
  <2> QED BY <1>7, <2>1, <2>2, <2>3 DEF GetAnswer
<1>8. CASE Lose
  BY <1>8, KnownShrinks DEF Lose, Stale, client
<1> QED BY <1>1, <1>2, <1>3, <1>4, <1>5, <1>6, <1>7, <1>8 DEF Next

LEMMA KnownFitNext == TypeInv /\ KnownFit /\ [Next]_vars => KnownFit'
<1> SUFFICES ASSUME TypeInv, KnownFit, [Next]_vars PROVE KnownFit'
  OBVIOUS
<1>1. CASE Fresh
  BY <1>1 DEF Fresh, KnownFit, Fits
<1>2. CASE Stale
  BY <1>2 DEF Stale, KnownFit, Fits
<1> QED BY <1>1, <1>2, FreshOrStale

-----------------------------------------------------------------------------
(* Blocks ascend, whatever message ids coincide.                           *)

\* Data that begins with a block 0, ascends, and has come to block n at most.
Ascends(d, n) ==
  /\ d # <<>> /\ d[1][2] = 0
  /\ \A k, l \in DOMAIN d : k < l => d[k][2] < d[l][2]
  /\ \A k \in DOMAIN d : d[k][2] <= n

CacheAscends == block_cache # NULL => Ascends(block_cache.data, block_cache.last_block)

AscendingBody(d) ==
  /\ d[1][2] = 0
  /\ \A k, l \in DOMAIN d : k < l => d[k][2] < d[l][2]
  /\ Last(d)[2] + 1 = Blocks[Last(d)[1]]

AscendInv == TypeInv /\ KnownFit /\ CacheAscends /\ BlocksAscend

LEMMA AppendAscends ==
  ASSUME NEW d \in Body, NEW n \in Nat, Ascends(d, n),
         NEW b \in Transfer \X Nat, b[2] = n + 1
  PROVE  Ascends(Append(d, b), n + 1) /\ Last(Append(d, b)) = b
<1> DEFINE e == Append(d, b)
<1>1. /\ Len(d) \in Nat /\ Len(d) > 0 /\ DOMAIN d = 1..Len(d)
      /\ \A k \in DOMAIN d : d[k] \in Transfer \X Nat
  BY DEF Body, Ascends
<1>2. /\ DOMAIN e = 1..Len(d) + 1 /\ Len(e) = Len(d) + 1 /\ e # <<>>
      /\ e[Len(d) + 1] = b /\ \A k \in DOMAIN d : e[k] = d[k]
  BY DEF Body
<1> HIDE DEF e
<1>3. \A k \in DOMAIN d : d[k][2] \in Nat /\ d[k][2] <= n
  BY <1>1 DEF Ascends
<1>4. e[1][2] = 0
  BY <1>1, <1>2 DEF Ascends
<1>5. ASSUME NEW k \in DOMAIN e, NEW l \in DOMAIN e, k < l
      PROVE  e[k][2] < e[l][2]
  <2>1. k \in DOMAIN d
    BY <1>1, <1>2, <1>5
  <2>2. CASE l \in DOMAIN d
    BY <2>1, <2>2, <1>2, <1>5 DEF Ascends
  <2>3. CASE l = Len(d) + 1
    BY <2>1, <2>3, <1>2, <1>3
  <2> QED BY <2>2, <2>3, <1>1, <1>2
<1>6. \A k \in DOMAIN e : e[k][2] <= n + 1
  BY <1>1, <1>2, <1>3
<1>7. Ascends(e, n + 1)
  BY <1>2, <1>4, <1>5, <1>6 DEF Ascends
<1>8. Last(e) = b
  BY <1>2 DEF Last
<1> QED BY <1>7, <1>8 DEF e

LEMMA OneBlockAscends ==
  ASSUME NEW b \in Transfer \X Nat, b[2] = 0
  PROVE  Ascends(<<b>>, 0) /\ Last(<<b>>) = b
BY DEF Ascends, Last

\* Data whose last block is r, a last one, is a body.
LEMMA LastEndsBody ==
  ASSUME NEW r \in Request, Fits(r), ~r.m, NEW d, NEW n, Ascends(d, n), Last(d) = Block(r)
  PROVE  AscendingBody(d)
<1>1. r.num + 1 = Blocks[r.transfer]
  BY BlockAssumption, TransferType DEF Fits, Request
<1> QED BY <1>1 DEF AscendingBody, Ascends, Block

LEMMA HandOver ==
  ASSUME TypeOK, BlocksAscend, NEW d \in Body, AscendingBody(d), handed' = Append(handed, d)
  PROVE  BlocksAscend'
<1>1. \A i \in DOMAIN handed : AscendingBody(handed[i])
  BY DEF BlocksAscend, AscendingBody
<1>2. \A i \in DOMAIN handed' :
        (i \in DOMAIN handed /\ handed'[i] = handed[i]) \/ handed'[i] = d
  BY DEF TypeOK
<1>3. \A i \in DOMAIN handed' : AscendingBody(handed'[i])
  BY <1>1, <1>2
<1> QED BY <1>3 DEF BlocksAscend, AscendingBody

\* The entry becomes one that ascends and ends with r, as far as r ends a body.
LEMMA StoreAscends ==
  ASSUME AscendInv, NEW r \in Request, Fits(r), NEW e \in block_cache_entry, Store(r, e),
         Ascends(e.data, e.last_block), Last(e.data) = Block(r)
  PROVE  CacheAscends' /\ BlocksAscend'
<1>1. CacheAscends'
  BY DEF Store, CacheAscends
<1>2. CASE r.m
  BY <1>1, <1>2 DEF Store, AscendInv, BlocksAscend
<1>3. CASE ~r.m
  <2>1. e.data \in Body /\ AscendingBody(e.data)
    BY <1>3, LastEndsBody DEF block_cache_entry
  <2> QED BY <1>1, <1>3, <2>1, HandOver DEF Store, AscendInv, TypeInv
<1> QED BY <1>1, <1>2, <1>3

LEMMA KeepAscends ==
  ASSUME CacheAscends, Keep
  PROVE  CacheAscends'
BY DEF CacheAscends, Keep, Cleared

LEMMA HandlerAscends ==
  ASSUME AscendInv, NEW i \in DOMAIN requests, ResourceBlockHandler(i)
  PROVE  CacheAscends' /\ BlocksAscend'
<1> DEFINE r == requests[i]
<1>1. /\ r \in Request /\ Fits(r) /\ Block(r) \in Transfer \X Nat /\ Block(r)[2] = r.num
      /\ first_mid(r) \in Int /\ r.num \in Nat /\ r.m \in BOOLEAN
  BY RequestType DEF AscendInv, TypeInv, KnownFit, Known, Block
<1>2. /\ Cleared \in block_cache_entry \cup {NULL}
      /\ Cleared # NULL => Ascends(Cleared.data, Cleared.last_block)
  BY ClearedType DEF AscendInv, TypeInv, CacheAscends
<1> HIDE DEF r
<1>3. CASE Keep /\ UNCHANGED handed
  BY <1>3, KeepAscends DEF AscendInv, BlocksAscend
<1>4. CASE ProcessWhole(r)
  <2>1. r.num = 0 /\ ~r.m
    BY <1>1, <1>4, TransferType DEF ProcessWhole, Fits, Request
  <2>2. <<Block(r)>> \in Body /\ AscendingBody(<<Block(r)>>)
    BY <1>1, <2>1, OneBlockAscends, LastEndsBody DEF Body
  <2> QED BY <1>4, <2>2, KeepAscends, HandOver DEF ProcessWhole, AscendInv, TypeInv
<1>5. CASE BeginBody(r)
  <2> DEFINE e == [first_block_mid |-> first_mid(r), last_block |-> 0, m |-> r.m,
                   data |-> <<Block(r)>>]
  <2>1. e \in block_cache_entry /\ e.data = <<Block(r)>> /\ e.last_block = 0
    BY <1>1 DEF block_cache_entry, Body
  <2>2. Ascends(e.data, e.last_block) /\ Last(e.data) = Block(r)
    BY <1>1, <1>5, <2>1, OneBlockAscends DEF BeginBody
  <2> QED BY <1>1, <1>5, <2>1, <2>2, StoreAscends DEF BeginBody
<1>6. CASE IgnoreSecondEnd(r)
  <2>1. /\ Cleared \in block_cache_entry /\ Cleared.last_block = r.num - 1
        /\ Ascends(Cleared.data, r.num - 1)
    BY <1>2, <1>6 DEF IgnoreSecondEnd, HasUpTo
  <2>2. Ascends(Cleared.data, r.num)
    <3>1. \A k \in DOMAIN Cleared.data : Cleared.data[k][2] \in Nat
      BY <2>1 DEF block_cache_entry, Body
    <3> QED BY <3>1, <2>1, <1>1 DEF Ascends
  <2>3. block_cache'.data = Cleared.data /\ block_cache'.last_block = r.num
    BY <1>6, <2>1 DEF IgnoreSecondEnd, block_cache_entry
  <2> QED BY <1>6, <2>2, <2>3 DEF IgnoreSecondEnd, CacheAscends, AscendInv, BlocksAscend
<1>7. CASE AppendBlock(r)
  <2> DEFINE e == [Cleared EXCEPT !.last_block = r.num, !.m = r.m,
                                  !.data = Append(@, Block(r))]
  <2>1. /\ Cleared \in block_cache_entry /\ Cleared.last_block = r.num - 1
        /\ Cleared.last_block \in Nat /\ Cleared.data \in Body
        /\ Ascends(Cleared.data, Cleared.last_block)
    BY <1>2, <1>7 DEF AppendBlock, HasUpTo, block_cache_entry
  <2>2. e.data = Append(Cleared.data, Block(r)) /\ e.last_block = r.num
    BY <2>1 DEF block_cache_entry
  <2>3. Append(Cleared.data, Block(r)) \in Body
    BY <2>1, <1>1 DEF Body
  <2>4. e \in block_cache_entry
    BY <2>1, <2>3, <1>1 DEF block_cache_entry
  <2>5. Ascends(e.data, e.last_block) /\ Last(e.data) = Block(r)
    BY <1>1, <2>1, <2>2, AppendAscends
  <2> HIDE DEF e
  <2>6. Store(r, e)
    BY <1>7 DEF AppendBlock, e
  <2> QED BY <1>1, <2>4, <2>5, <2>6, StoreAscends
<1> QED BY <1>3, <1>4, <1>5, <1>6, <1>7
        DEF ResourceBlockHandler, IgnoreRepeated, RequestIncomplete, r

\* Nobody but the handler touches the cache and what was handed over.
LEMMA OthersKeepServer ==
  ASSUME [Next]_vars, ~\E i \in DOMAIN requests : ResourceBlockHandler(i)
  PROVE  UNCHANGED <<block_cache, handed>>
BY DEF Next, ClearCrash, Elapse, Begin, Repeat, GiveUp, GetAnswer, UseMidForPing, SkipMid, Lose,
       vars, server

LEMMA AscendNext == AscendInv /\ [Next]_vars => AscendInv'
<1> SUFFICES ASSUME AscendInv, [Next]_vars PROVE AscendInv'
  OBVIOUS
<1>1. TypeInv' /\ KnownFit'
  BY NextType, KnownFitNext DEF AscendInv
<1>2. CacheAscends' /\ BlocksAscend'
  <2>1. ASSUME NEW i \in DOMAIN requests, ResourceBlockHandler(i)
        PROVE  CacheAscends' /\ BlocksAscend'
    BY <2>1, HandlerAscends
  <2>2. CASE UNCHANGED <<block_cache, handed>>
    BY <2>2 DEF AscendInv, CacheAscends, BlocksAscend
  <2> QED BY <2>1, <2>2, OthersKeepServer
<1> QED BY <1>1, <1>2 DEF AscendInv

\* In every body that is handed over the blocks ascend from block 0 to the last
\* block of a transfer, for any transfers and any number of message ids.
THEOREM BodiesAscend == Spec => []BlocksAscend
<1>1. Init => AscendInv
  <2>1. Init => KnownFit /\ CacheAscends /\ BlocksAscend
    BY DEF Init, KnownFit, Known, CacheAscends, BlocksAscend
  <2> QED BY <2>1, InitType DEF AscendInv
<1>2. AscendInv /\ [Next]_vars => AscendInv'
  BY AscendNext
<1>3. AscendInv => BlocksAscend
  BY DEF AscendInv
<1> QED BY <1>1, <1>2, <1>3, PTL DEF Spec

-----------------------------------------------------------------------------
(* Bodies are intact as long as no message id is used again.               *)

\* The ids of a transfer lie between those of the transfers before and behind it,
\* which holds for what is computed as the id of block 0 as well.
IdsApart ==
  /\ \A r \in Known : r.transfer <= current /\ r.mid < next_mid
  /\ \A q, r \in Known : q.transfer < r.transfer => q.mid < first_mid(r)
  /\ \A q, r \in Known : q.mid = r.mid => q = r

FirstBlocks(u, n) == [i \in 1..n |-> <<u, i - 1>>]

\* The transfer an entry is about.
TransferOf(e) == e.data[1][1]

\* The entry e has the blocks of its transfer up to the last one it counts.
EntryIntact(e) ==
  LET u == TransferOf(e) IN
  /\ u \in Transfer /\ e.last_block < Blocks[u]
  /\ e.m <=> e.last_block + 1 < Blocks[u]
  /\ e.data = FirstBlocks(u, e.last_block + 1)

\* Its id lies before those of later transfers, and behind those of earlier ones.
EntryPlaced(e) ==
  LET u == TransferOf(e) IN
  /\ u <= current /\ e.first_block_mid < next_mid
  /\ \A r \in Known : /\ u < r.transfer => e.first_block_mid < first_mid(r)
                      /\ r.transfer < u => r.mid < e.first_block_mid

CacheIntact ==
  block_cache # NULL =>
    /\ EntryIntact(block_cache) /\ EntryPlaced(block_cache)
    /\ ~block_cache.m => BodyOf(TransferOf(block_cache)) \in Range(handed)

\* An answer with this code to a request r with this m, of this transfer, is true.
Truthful(code, m, u) ==
  code # "INCOMPLETE" => IF m THEN code = "CONTINUE" ELSE BodyOf(u) \in Range(handed)

AnswersTrue ==
  \A k \in DOMAIN responses :
    /\ responses[k].mid < next_mid
    /\ waiting # NULL /\ responses[k].mid = waiting.mid =>
         Truthful(responses[k].code, waiting.m, waiting.transfer)

WholeInv ==
  /\ TypeInv /\ KnownFit
  /\ ~wrapped => IdsApart /\ CacheIntact /\ AnswersTrue
  /\ BodiesIntact /\ DoneMeansHanded

LEMMA NoWrap ==
  ASSUME TypeOK, TakeMid, ~wrapped'
  PROVE  ~wrapped /\ next_mid' = next_mid + 1
<1>1. next_mid \in 0..MidModulus - 1 /\ MidModulus \in Nat
  BY BlockAssumption DEF TypeOK, Mid
<1>2. ~wrapped /\ next_mid # MidModulus - 1
  BY DEF TakeMid
<1>3. (next_mid + 1) % MidModulus = next_mid + 1
  BY <1>1, <1>2
<1> QED BY <1>2, <1>3 DEF TakeMid

\* What an unwrapped step does to the client's ids.
LEMMA FreshIds ==
  ASSUME TypeOK, Fresh, ~wrapped'
  PROVE  ~wrapped /\ next_mid' = next_mid + 1
BY NoWrap DEF Fresh

LEMMA StaleIds ==
  ASSUME TypeOK, Stale, ~wrapped'
  PROVE  ~wrapped /\ next_mid' \in {next_mid, next_mid + 1}
BY NoWrap DEF Stale

LEMMA KnownNumbers ==
  ASSUME TypeOK, NEW r \in Known
  PROVE  /\ r.mid \in Int /\ r.num \in Nat /\ r.transfer \in Int /\ r.transfer \in Transfer
         /\ first_mid(r) \in Int /\ first_mid(r) = r.mid - r.num
BY KnownType, TransferType, BlockAssumption DEF Request, Mid, first_mid

\* A fresh request lies behind all that were known.
LEMMA FreshBehind ==
  ASSUME TypeInv, IdsApart, Fresh
  PROVE  /\ waiting'.mid = next_mid /\ waiting'.transfer = current'
         /\ first_mid(waiting') \in Int /\ waiting'.mid \in Int
         /\ current' \in {current, current + 1}
         /\ \A q \in Known : q.transfer < current' => q.mid < first_mid(waiting')
         /\ \/ current' = current + 1 /\ first_mid(waiting') = next_mid
            \/ /\ current' = current /\ waiting \in Known /\ waiting.transfer = current
               /\ first_mid(waiting) <= first_mid(waiting')
<1>1. /\ waiting'.mid = next_mid /\ waiting'.transfer = current' /\ next_mid \in Int
      /\ waiting' \in Request /\ current \in Int
  BY BlockAssumption DEF Fresh, TypeInv, TypeOK, Mid
<1>2. first_mid(waiting') \in Int /\ waiting'.mid \in Int
      /\ first_mid(waiting') = next_mid - waiting'.num
  BY <1>1, BlockAssumption DEF first_mid, Request, Mid
<1>3. \A q \in Known : q.transfer <= current /\ q.mid < next_mid /\ q.mid \in Int
  BY KnownNumbers DEF IdsApart, TypeInv
<1>4. CASE current' = current + 1 /\ waiting'.num = 0
  BY <1>1, <1>2, <1>3, <1>4
<1>5. CASE /\ current' = current /\ waiting \in Known
           /\ waiting.transfer = current /\ waiting'.num = waiting.num + 1
  <2>1. first_mid(waiting) <= first_mid(waiting')
    <3>1. /\ first_mid(waiting) = waiting.mid - waiting.num
          /\ waiting.mid \in Int /\ waiting.num \in Nat
      BY <1>5, KnownNumbers DEF TypeInv
    <3> QED BY <1>1, <1>2, <1>3, <1>5, <3>1
  <2>2. \A q \in Known : q.transfer < current => q.mid < first_mid(waiting)
    BY <1>5 DEF IdsApart
  <2>3. first_mid(waiting) \in Int
    BY <1>5, KnownNumbers DEF TypeInv
  <2> QED BY <1>1, <1>2, <1>3, <1>5, <2>1, <2>2, <2>3
<1> QED BY <1>4, <1>5 DEF Fresh

LEMMA IdsNext ==
  ASSUME TypeInv, KnownFit, [Next]_vars, ~wrapped', IdsApart
  PROVE  IdsApart'
<1>1. CASE Fresh
  <2>1. next_mid' = next_mid + 1 /\ next_mid \in Int /\ current \in Int
    BY <1>1, FreshIds, BlockAssumption DEF TypeInv, TypeOK, Mid
  <2>2. \A r \in Known' : r \in Known \/ r = waiting'
    BY <1>1 DEF Fresh
  <2>3. \A q \in Known : q.transfer <= current /\ q.mid < next_mid /\ q.mid \in Int
                         /\ q.transfer \in Int
    BY KnownNumbers DEF IdsApart, TypeInv
  <2>4. /\ waiting'.mid = next_mid /\ waiting'.transfer = current'
        /\ current' \in {current, current + 1}
        /\ \A q \in Known : q.transfer < current' => q.mid < first_mid(waiting')
    BY <1>1, FreshBehind
  <2>5. \A r \in Known' : r.transfer <= current' /\ r.mid < next_mid'
    BY <2>1, <2>2, <2>3, <2>4
  <2>6. ASSUME NEW q \in Known', NEW r \in Known', q.transfer < r.transfer
        PROVE  q.mid < first_mid(r)
    <3>1. CASE q \in Known /\ r \in Known
      BY <2>6, <3>1 DEF IdsApart
    <3>2. CASE q \in Known /\ r = waiting'
      BY <2>6, <3>2, <2>4
    <3>3. q # waiting'
      BY <2>1, <2>2, <2>3, <2>4, <2>6
    <3> QED BY <3>1, <3>2, <3>3, <2>2
  <2>7. \A q, r \in Known' : q.mid = r.mid => q = r
    BY <2>1, <2>2, <2>3, <2>4 DEF IdsApart
  <2> QED BY <2>5, <2>6, <2>7 DEF IdsApart, first_mid
<1>2. CASE Stale
  <2>1. next_mid' \in {next_mid, next_mid + 1} /\ next_mid \in Int
    BY <1>2, StaleIds, BlockAssumption DEF TypeInv, TypeOK, Mid
  <2>2. \A q \in Known : q.mid \in Int
    BY KnownNumbers DEF TypeInv
  <2> QED BY <1>2, <2>1, <2>2 DEF Stale, IdsApart, first_mid
<1> QED BY <1>1, <1>2, FreshOrStale

-----------------------------------------------------------------------------
(* The handler keeps the entry intact and answers truthfully.              *)

LEMMA TwoBodies ==
  ASSUME NEW u \in Transfer
  PROVE  /\ BodyOf(u) = FirstBlocks(u, Blocks[u])
         /\ BodyOf(u) \in Body
         /\ FirstBlocks(u, 1) = <<<<u, 0>>>>
         /\ Blocks[u] = 1 => BodyOf(u) = <<<<u, 0>>>>
<1>1. Blocks[u] \in Nat \ {0}
  BY TransferType
<1>2. BodyOf(u) = FirstBlocks(u, Blocks[u])
  BY DEF BodyOf, FirstBlocks
<1>3. BodyOf(u) \in Body
  <2>1. \A i \in 1..Blocks[u] : <<u, i - 1>> \in Transfer \X Nat
    BY <1>1
  <2> QED BY <1>1, <2>1 DEF BodyOf, Body
<1>4. FirstBlocks(u, 1) = <<<<u, 0>>>>
  BY DEF FirstBlocks
<1> QED BY <1>2, <1>3, <1>4

\* The first blocks and the one behind them.
LEMMA OneMoreBlock ==
  ASSUME NEW u \in Transfer, NEW n \in Nat
  PROVE  Append(FirstBlocks(u, n), <<u, n>>) = FirstBlocks(u, n + 1)
<1> DEFINE d == FirstBlocks(u, n)  e == FirstBlocks(u, n + 1)
<1>1. \A i \in 1..n + 1 : <<u, i - 1>> \in Transfer \X Nat
  OBVIOUS
<1>2. d \in Seq(Transfer \X Nat) /\ Len(d) = n /\ \A i \in 1..n : d[i] = <<u, i - 1>>
  BY <1>1 DEF FirstBlocks
<1>3. /\ e \in Seq(Transfer \X Nat) /\ Len(e) = n + 1
      /\ \A i \in 1..n + 1 : e[i] = <<u, i - 1>>
  BY <1>1 DEF FirstBlocks
<1> HIDE DEF d, e
<1> DEFINE f == Append(d, <<u, n>>)
<1>4. /\ f \in Seq(Transfer \X Nat) /\ Len(f) = n + 1 /\ f[n + 1] = <<u, n>>
      /\ \A i \in 1..n : f[i] = d[i]
  BY <1>2
<1> HIDE DEF f
<1>5. \A i \in 1..n + 1 : f[i] = e[i]
  <2>1. \A i \in 1..n : f[i] = <<u, i - 1>> /\ e[i] = <<u, i - 1>>
    BY <1>2, <1>3, <1>4
  <2>2. n + 1 \in 1..n + 1 /\ (n + 1) - 1 = n
    OBVIOUS
  <2>3. f[n + 1] = <<u, n>> /\ e[n + 1] = <<u, n>>
    <3>1. e[n + 1] = <<u, (n + 1) - 1>>
      BY <2>2, <1>3
    <3> QED BY <3>1, <2>2, <1>4
  <2> QED BY <2>1, <2>3
<1>6. f = e
  BY <1>3, <1>4, <1>5, SeqEqual
<1> QED BY <1>6 DEF f, d, e

LEMMA HandedGrows ==
  ASSUME TypeOK, NEW d \in Body, handed' = Append(handed, d)
  PROVE  Range(handed) \subseteq Range(handed') /\ d \in Range(handed')
<1>1. /\ DOMAIN handed \subseteq DOMAIN handed'
      /\ \A i \in DOMAIN handed : handed'[i] = handed[i]
      /\ Len(handed) + 1 \in DOMAIN handed' /\ handed'[Len(handed) + 1] = d
  BY DEF TypeOK
<1> QED BY <1>1 DEF Range

\* What the handler does with a request r: it keeps what the cache has, hands over
\* at most one body, and that intact, and its answer is truthful.
HandlesWell(r) ==
  /\ CacheIntact'
  /\ UNCHANGED handed \/ \E u \in Transfer : handed' = Append(handed, BodyOf(u))
  /\ \E code \in Codes :
       Reply(r, code) /\ (code # "INCOMPLETE" =>
         IF r.m THEN code = "CONTINUE" ELSE BodyOf(r.transfer) \in Range(handed'))

\* A request whose computed id of block 0 is that of the entry is of its transfer.
LEMMA SameTransfer ==
  ASSUME TypeInv, CacheIntact, NEW r \in Known, Cleared # NULL,
         Cleared.first_block_mid = first_mid(r)
  PROVE  r.transfer = TransferOf(block_cache)
<1>1. Cleared = block_cache /\ block_cache # NULL /\ block_cache.first_block_mid \in Int
  BY ClearedType DEF TypeInv, TypeOK, block_cache_entry
<1>2. /\ r.mid \in Int /\ r.num \in Nat /\ r.transfer \in Int
      /\ first_mid(r) = r.mid - r.num
  BY KnownNumbers DEF TypeInv
<1>3. TransferOf(block_cache) \in Int
  BY <1>1, TransferType DEF CacheIntact, EntryIntact
<1>4. ~(TransferOf(block_cache) < r.transfer)
  BY <1>1, <1>2 DEF CacheIntact, EntryPlaced
<1>5. ~(r.transfer < TransferOf(block_cache))
  BY <1>1, <1>2 DEF CacheIntact, EntryPlaced
<1> QED BY <1>2, <1>3, <1>4, <1>5

\* A cache that is kept stays intact while no request is added.
LEMMA KeepIntact ==
  ASSUME CacheIntact, Keep, Known' \subseteq Known, UNCHANGED <<current, next_mid>>,
         Range(handed) \subseteq Range(handed')
  PROVE  CacheIntact'
<1>1. block_cache' \in {block_cache, NULL}
  BY DEF Keep, Cleared
<1>2. CASE block_cache' = block_cache /\ block_cache # NULL
  <2>1. EntryIntact(block_cache) /\ EntryPlaced(block_cache)
        /\ (~block_cache.m => BodyOf(TransferOf(block_cache)) \in Range(handed))
    BY <1>2 DEF CacheIntact
  <2>2. EntryIntact(block_cache)'
    BY <1>2, <2>1 DEF EntryIntact, TransferOf, FirstBlocks
  <2>3. EntryPlaced(block_cache)'
    BY <1>2, <2>1 DEF EntryPlaced, TransferOf, first_mid
  <2>4. (~block_cache.m => BodyOf(TransferOf(block_cache)) \in Range(handed))'
    BY <1>2, <2>1 DEF TransferOf, BodyOf
  <2> QED BY <2>2, <2>3, <2>4 DEF CacheIntact
<1> QED BY <1>1, <1>2 DEF CacheIntact

\* An entry that begins with, or goes on with, r is intact and in its place, and
\* handed over when r is the last block.
LEMMA StoreIntact ==
  ASSUME TypeInv, NEW r \in Known, Fits(r), NEW e \in block_cache_entry, Store(r, e),
         Known' \subseteq Known, UNCHANGED <<current, next_mid>>,
         EntryIntact(e), EntryPlaced(e), TransferOf(e) = r.transfer,
         e.last_block = r.num, e.m = r.m, Acknowledge(r)
  PROVE  HandlesWell(r)
<1>1. /\ r.m \in BOOLEAN /\ r.num \in Nat /\ r.transfer \in Transfer
      /\ Blocks[r.transfer] \in Nat
  BY KnownType, TransferType DEF TypeInv, Request
<1>2. block_cache' = e /\ Reply(r, IF r.m THEN "CONTINUE" ELSE "CHANGED")
  BY DEF Store, Acknowledge
<1>3. EntryIntact(block_cache)' /\ EntryPlaced(block_cache)'
      /\ TransferOf(block_cache)' = r.transfer /\ block_cache'.m = r.m
  BY <1>2 DEF EntryIntact, EntryPlaced, TransferOf, FirstBlocks, first_mid
<1>4. CASE r.m
  <2>1. UNCHANGED handed /\ Reply(r, "CONTINUE")
    BY <1>2, <1>4 DEF Store
  <2>2. CacheIntact'
    BY <1>3, <1>4 DEF CacheIntact
  <2> QED BY <1>4, <2>1, <2>2 DEF HandlesWell, Codes
<1>5. CASE ~r.m
  <2>1. e.data = BodyOf(r.transfer)
    <3>1. r.num + 1 = Blocks[r.transfer]
      BY <1>1, <1>5 DEF Fits
    <3> QED BY <1>1, <3>1, TwoBodies DEF EntryIntact
  <2>2. handed' = Append(handed, BodyOf(r.transfer)) /\ Reply(r, "CHANGED")
    BY <1>2, <1>5, <2>1 DEF Store
  <2>3. BodyOf(r.transfer) \in Range(handed')
    BY <1>1, <2>2, HandedGrows, TwoBodies DEF TypeInv
  <2>4. CacheIntact'
    BY <1>3, <2>3 DEF CacheIntact, BodyOf
  <2> QED BY <1>1, <1>5, <2>2, <2>3, <2>4 DEF HandlesWell, Codes
<1> QED BY <1>1, <1>4, <1>5

\* Whatever the handler does with a request, it does well.
LEMMA HandlerIntact ==
  ASSUME TypeInv, KnownFit, IdsApart, CacheIntact,
         NEW i \in DOMAIN requests, ResourceBlockHandler(i)
  PROVE  HandlesWell(requests[i])
<1> DEFINE r == requests[i]  u == r.transfer
<1>1. /\ r \in Known /\ Fits(r) /\ u \in Transfer /\ u \in Int /\ r.num \in Nat
      /\ r.m \in BOOLEAN /\ r.mid \in Int /\ first_mid(r) = r.mid - r.num
      /\ Blocks[u] \in Nat \ {0} /\ Block(r) = <<u, r.num>> /\ Block(r) \in Transfer \X Nat
  BY RequestType, KnownNumbers, TransferType DEF TypeInv, KnownFit, Known, Block
<1>2. Known' \subseteq Known /\ UNCHANGED <<current, next_mid, waiting>>
  BY KnownShrinks DEF ResourceBlockHandler, client, TypeInv
<1>3. u <= current /\ r.mid < next_mid
  BY <1>1 DEF IdsApart
<1>4. /\ Cleared \in block_cache_entry \cup {NULL}
      /\ Cleared # NULL => Cleared = block_cache /\ block_cache \in block_cache_entry
  BY ClearedType DEF TypeInv
<1>5. ASSUME Cleared # NULL, Cleared.first_block_mid = first_mid(r)
      PROVE  /\ EntryIntact(Cleared) /\ EntryPlaced(Cleared) /\ TransferOf(Cleared) = u
             /\ ~Cleared.m => BodyOf(u) \in Range(handed)
             /\ Cleared.last_block \in Nat /\ Cleared \in block_cache_entry
  BY <1>1, <1>4, <1>5, SameTransfer DEF CacheIntact, block_cache_entry
<1> SUFFICES HandlesWell(r)
  OBVIOUS
<1> HIDE DEF r, u
<1>6. CASE ProcessWhole(r)
  <2>1. Blocks[u] = 1 /\ r.num = 0 /\ ~r.m
    BY <1>1, <1>6 DEF ProcessWhole, Fits, u
  <2>2. <<Block(r)>> = BodyOf(u) /\ BodyOf(u) \in Body
    BY <1>1, <2>1, TwoBodies
  <2>3. handed' = Append(handed, BodyOf(u)) /\ Keep /\ Reply(r, "EMPTY")
    BY <1>6, <2>2 DEF ProcessWhole
  <2>4. Range(handed) \subseteq Range(handed') /\ BodyOf(u) \in Range(handed')
    BY <2>2, <2>3, HandedGrows DEF TypeInv
  <2>5. CacheIntact'
    BY <1>2, <2>3, <2>4, KeepIntact
  <2> QED BY <1>1, <2>1, <2>3, <2>4, <2>5 DEF HandlesWell, Codes, u
<1>7. CASE IgnoreRepeated(r)
  <2>1. CacheIntact' /\ UNCHANGED handed
    BY <1>2, <1>7, KeepIntact DEF IgnoreRepeated
  <2>2. /\ Cleared # NULL /\ Cleared.first_block_mid = first_mid(r)
        /\ r.num = 0 \/ Cleared.last_block = r.num
    BY <1>7 DEF IgnoreRepeated, Repeated, HasUpTo
  <2>3. ASSUME ~r.m PROVE BodyOf(u) \in Range(handed)
    <3>1. r.num + 1 = Blocks[u]
      BY <1>1, <2>3 DEF Fits, u
    <3>2. Cleared.last_block + 1 = Blocks[u]
      BY <1>1, <1>5, <2>2, <3>1 DEF EntryIntact
    <3> QED BY <1>1, <1>5, <2>2, <3>2 DEF EntryIntact
  <2>4. Reply(r, IF r.m THEN "CONTINUE" ELSE "CHANGED")
    BY <1>7 DEF IgnoreRepeated, Acknowledge
  <2>5. CASE r.m
    <3>1. Reply(r, "CONTINUE")
      BY <2>4, <2>5
    <3> QED BY <2>1, <2>5, <3>1 DEF HandlesWell, Codes
  <2>6. CASE ~r.m
    <3>1. Reply(r, "CHANGED") /\ BodyOf(r.transfer) \in Range(handed')
      BY <2>1, <2>3, <2>4, <2>6 DEF u
    <3> QED BY <2>1, <2>6, <3>1 DEF HandlesWell, Codes
  <2> QED BY <1>1, <2>5, <2>6
<1>8. CASE BeginBody(r)
  <2> DEFINE e == [first_block_mid |-> first_mid(r), last_block |-> 0, m |-> r.m,
                   data |-> <<Block(r)>>]
  <2>1. r.num = 0 /\ first_mid(r) = r.mid /\ Store(r, e) /\ Acknowledge(r)
    BY <1>1, <1>8 DEF BeginBody
  <2>2. /\ e \in block_cache_entry /\ e.data = <<<<u, 0>>>> /\ e.last_block = r.num
        /\ e.m = r.m /\ TransferOf(e) = u /\ e.first_block_mid = r.mid
    BY <1>1, <2>1 DEF block_cache_entry, Body, TransferOf
  <2> HIDE DEF e
  <2>3. EntryIntact(e)
    <3>1. e.data = FirstBlocks(u, e.last_block + 1)
      BY <1>1, <2>1, <2>2, TwoBodies
    <3> QED BY <1>1, <2>2, <3>1 DEF EntryIntact, Fits, u
  <2>4. EntryPlaced(e)
    <3>1. \A q \in Known : u < q.transfer => r.mid < first_mid(q)
      BY <1>1 DEF IdsApart, u
    <3>2. \A q \in Known : q.transfer < u => q.mid < r.mid
      BY <1>1, <2>1 DEF IdsApart, u
    <3> QED BY <1>3, <2>2, <3>1, <3>2 DEF EntryPlaced
  <2> QED BY <1>1, <1>2, <2>1, <2>2, <2>3, <2>4, StoreIntact DEF u
<1>9. CASE RequestIncomplete(r)
  <2>1. CacheIntact' /\ UNCHANGED handed /\ Reply(r, "INCOMPLETE")
    BY <1>2, <1>9, KeepIntact DEF RequestIncomplete
  <2> QED BY <2>1 DEF HandlesWell, Codes
<1>10. CASE HasUpTo(r, r.num - 1) /\ ~Cleared.m
  <2>1. Cleared.last_block + 1 = Blocks[u] /\ Cleared.last_block = r.num - 1
    BY <1>1, <1>5, <1>10 DEF HasUpTo, EntryIntact
  <2> QED BY <1>1, <2>1 DEF Fits, u
<1>11. CASE AppendBlock(r)
  <2> DEFINE e == [Cleared EXCEPT !.last_block = r.num, !.m = r.m,
                                  !.data = Append(@, Block(r))]
  <2>1. /\ Cleared # NULL /\ Cleared.first_block_mid = first_mid(r)
        /\ Cleared.last_block = r.num - 1 /\ Store(r, e) /\ Acknowledge(r) /\ r.num > 0
    BY <1>11 DEF AppendBlock, HasUpTo
  <2>2. /\ EntryIntact(Cleared) /\ EntryPlaced(Cleared) /\ TransferOf(Cleared) = u
        /\ Cleared \in block_cache_entry /\ Cleared.data \in Body
    BY <1>5, <2>1 DEF block_cache_entry
  <2>3. /\ e.data = Append(Cleared.data, Block(r)) /\ e.last_block = r.num /\ e.m = r.m
        /\ e.first_block_mid = Cleared.first_block_mid
    BY <2>2 DEF block_cache_entry
  <2>4. Append(Cleared.data, Block(r)) \in Body
    BY <1>1, <2>2 DEF Body
  <2>5. e \in block_cache_entry
    BY <1>1, <2>2, <2>4 DEF block_cache_entry
  <2> HIDE DEF e
  <2>6. Cleared.data = FirstBlocks(u, r.num)
    BY <1>1, <2>1, <2>2 DEF EntryIntact
  <2>7. e.data = FirstBlocks(u, r.num + 1)
    BY <1>1, <2>3, <2>6, OneMoreBlock
  <2>8. TransferOf(e) = u
    BY <1>1, <2>7 DEF TransferOf, FirstBlocks
  <2>9. EntryIntact(e)
    BY <1>1, <2>3, <2>7, <2>8 DEF EntryIntact, Fits, u
  <2>10. EntryPlaced(e)
    BY <2>2, <2>3, <2>8 DEF EntryPlaced
  <2> QED BY <1>1, <1>2, <2>1, <2>3, <2>5, <2>8, <2>9, <2>10, StoreIntact DEF u
<1>12. CASE IgnoreSecondEnd(r)
  BY <1>10, <1>12 DEF IgnoreSecondEnd
<1> QED BY <1>6, <1>7, <1>8, <1>9, <1>11, <1>12 DEF ResourceBlockHandler, r

-----------------------------------------------------------------------------
(* The invariant.                                                          *)

\* A step of the client or the network, which does not touch the entry.
LEMMA OthersIntact ==
  ASSUME TypeInv, KnownFit, [Next]_vars, IdsApart, CacheIntact, ~wrapped',
         UNCHANGED <<block_cache, handed>>
  PROVE  CacheIntact'
<1> SUFFICES ASSUME block_cache # NULL PROVE CacheIntact'
  BY DEF CacheIntact
<1> DEFINE e == block_cache  u == TransferOf(e)
<1>1. /\ EntryIntact(e) /\ EntryPlaced(e)
      /\ ~e.m => BodyOf(u) \in Range(handed)
      /\ u \in Int /\ e.first_block_mid \in Int
  BY TransferType DEF CacheIntact, EntryIntact, TypeInv, TypeOK, block_cache_entry
<1>2. next_mid \in Int /\ current \in Int
  BY BlockAssumption DEF TypeInv, TypeOK, Mid
<1>3. u <= current' /\ e.first_block_mid < next_mid'
  BY <1>1, <1>2, FreshOrStale, FreshIds, StaleIds DEF EntryPlaced, TypeInv, Fresh, Stale
<1>4. ASSUME NEW r \in Known'
      PROVE  /\ u < r.transfer => e.first_block_mid < first_mid(r)
             /\ r.transfer < u => r.mid < e.first_block_mid
  <2>1. CASE r \in Known
    BY <1>1, <2>1 DEF EntryPlaced
  <2>2. CASE Fresh /\ r = waiting'
    <3>1. ~(r.transfer < u)
      BY <1>1, <1>2, <2>2, FreshBehind DEF EntryPlaced
    <3>2. ASSUME u < r.transfer PROVE e.first_block_mid < first_mid(r)
      <4>1. CASE first_mid(r) = next_mid
        BY <1>1, <4>1 DEF EntryPlaced
      <4>2. CASE /\ current' = current /\ waiting \in Known /\ waiting.transfer = current
                 /\ first_mid(waiting) <= first_mid(r)
        <5>1. u < waiting.transfer
          BY <2>2, <3>2, <4>2 DEF Fresh
        <5>2. e.first_block_mid < first_mid(waiting) /\ first_mid(waiting) \in Int
          BY <1>1, <4>2, <5>1, KnownNumbers DEF EntryPlaced, TypeInv
        <5>3. first_mid(r) \in Int
          BY <2>2, FreshBehind
        <5> QED BY <1>1, <4>2, <5>2, <5>3
      <4> QED BY <2>2, <4>1, <4>2, FreshBehind
    <3> QED BY <3>1, <3>2
  <2> QED BY <2>1, <2>2, FreshOrStale DEF Fresh, Stale
<1>5. EntryPlaced(block_cache)'
  BY <1>3, <1>4 DEF EntryPlaced, TransferOf, first_mid
<1>6. EntryIntact(block_cache)' /\ (~block_cache.m => BodyOf(u) \in Range(handed))'
  BY <1>1 DEF EntryIntact, TransferOf, FirstBlocks, BodyOf
<1> QED BY <1>5, <1>6 DEF CacheIntact

\* Nobody but the handler answers, and nobody waits for an answer that is on its way
\* already, before having asked.
LEMMA OthersTruthful ==
  ASSUME TypeInv, KnownFit, [Next]_vars, AnswersTrue, ~wrapped', UNCHANGED handed,
         \A k \in DOMAIN responses' : \E l \in DOMAIN responses : responses'[k] = responses[l]
  PROVE  AnswersTrue'
<1>1. /\ next_mid' \in {next_mid, next_mid + 1} /\ next_mid \in Int
      /\ waiting' \in {waiting, NULL} \/ waiting'.mid = next_mid
  BY FreshOrStale, FreshIds, StaleIds, BlockAssumption DEF TypeInv, TypeOK, Mid, Fresh, Stale
<1> SUFFICES ASSUME NEW k \in DOMAIN responses'
             PROVE  /\ responses'[k].mid < next_mid'
                    /\ waiting' # NULL /\ responses'[k].mid = waiting'.mid =>
                         Truthful(responses'[k].code, waiting'.m, waiting'.transfer)
  BY DEF AnswersTrue, Truthful, BodyOf
<1>2. PICK l \in DOMAIN responses : responses'[k] = responses[l]
  OBVIOUS
<1>3. responses[l].mid < next_mid /\ responses[l].mid \in Int
  <2>1. responses[l] \in Response
    BY DEF TypeInv, TypeOK
  <2> QED BY <2>1, BlockAssumption DEF AnswersTrue, Response, Mid
<1>4. responses'[k].mid < next_mid'
  BY <1>1, <1>2, <1>3
<1>5. CASE waiting' \in {waiting, NULL}
  <2>1. waiting # NULL /\ responses[l].mid = waiting.mid =>
          Truthful(responses[l].code, waiting.m, waiting.transfer)
    BY DEF AnswersTrue
  <2> QED BY <1>2, <1>4, <1>5, <2>1
<1>6. CASE waiting'.mid = next_mid
  BY <1>1, <1>2, <1>3, <1>4, <1>6
<1> QED BY <1>1, <1>5, <1>6

-----------------------------------------------------------------------------

\* The handler's answer is truthful, and so are those under way.
LEMMA HandlerTruthful ==
  ASSUME TypeInv, IdsApart, AnswersTrue, NEW r \in Known, r.mid < next_mid, HandlesWell(r),
         UNCHANGED <<waiting, next_mid>>
  PROVE  AnswersTrue'
<1>1. PICK code \in Codes :
        Reply(r, code) /\ (code # "INCOMPLETE" =>
          IF r.m THEN code = "CONTINUE" ELSE BodyOf(r.transfer) \in Range(handed'))
  BY DEF HandlesWell
<1>2. responses' = Append(responses, [mid |-> r.mid, code |-> code])
  BY <1>1 DEF Reply
<1>3. Range(handed) \subseteq Range(handed')
  <2>1. ASSUME NEW u \in Transfer, handed' = Append(handed, BodyOf(u))
        PROVE  Range(handed) \subseteq Range(handed')
    BY <2>1, HandedGrows, TwoBodies DEF TypeInv
  <2> QED BY <2>1 DEF HandlesWell
<1> SUFFICES ASSUME NEW k \in DOMAIN responses'
             PROVE  /\ responses'[k].mid < next_mid
                    /\ waiting # NULL /\ responses'[k].mid = waiting.mid =>
                         (responses'[k].code # "INCOMPLETE" =>
                            IF waiting.m THEN responses'[k].code = "CONTINUE"
                                         ELSE BodyOf(waiting.transfer) \in Range(handed'))
  BY DEF AnswersTrue, Truthful, BodyOf
<1>4. CASE k \in DOMAIN responses /\ responses'[k] = responses[k]
  <2>1. /\ responses[k].mid < next_mid
        /\ waiting # NULL /\ responses[k].mid = waiting.mid =>
             Truthful(responses[k].code, waiting.m, waiting.transfer)
    BY <1>4 DEF AnswersTrue
  <2> QED BY <1>3, <1>4, <2>1 DEF Truthful
<1>5. CASE responses'[k] = [mid |-> r.mid, code |-> code]
  <2>1. ASSUME waiting # NULL, r.mid = waiting.mid PROVE waiting = r
    BY <2>1 DEF IdsApart, Known
  <2> QED BY <1>1, <1>5, <2>1
<1>6. (k \in DOMAIN responses /\ responses'[k] = responses[k])
      \/ responses'[k] = [mid |-> r.mid, code |-> code]
  BY <1>2 DEF TypeInv, TypeOK
<1> QED BY <1>4, <1>5, <1>6

\* Bodies that are handed over stay intact, and those a client believes in handed over.
LEMMA HandlerKeeps ==
  ASSUME TypeInv, NEW r, HandlesWell(r), ~wrapped, UNCHANGED outcome,
         BodiesIntact, DoneMeansHanded
  PROVE  BodiesIntact' /\ DoneMeansHanded'
<1>1. CASE UNCHANGED handed
  BY <1>1 DEF BodiesIntact, DoneMeansHanded, BodyOf
<1>2. ASSUME NEW u \in Transfer, handed' = Append(handed, BodyOf(u))
      PROVE  BodiesIntact' /\ DoneMeansHanded'
  <2>1. Range(handed) \subseteq Range(handed')
    BY <1>2, HandedGrows, TwoBodies DEF TypeInv
  <2>2. \A v \in Transfer : outcome[v] = "done" => BodyOf(v) \in Range(handed')
    BY <2>1 DEF DoneMeansHanded
  <2>3. \A i \in DOMAIN handed' : \E v \in Transfer : handed'[i] = BodyOf(v)
    <3>1. \A i \in DOMAIN handed' :
            (i \in DOMAIN handed /\ handed'[i] = handed[i]) \/ handed'[i] = BodyOf(u)
      BY <1>2 DEF TypeInv, TypeOK
    <3> QED BY <3>1 DEF BodiesIntact
  <2> QED BY <2>2, <2>3 DEF BodiesIntact, DoneMeansHanded, BodyOf
<1> QED BY <1>1, <1>2 DEF HandlesWell

LEMMA HandlerWhole ==
  ASSUME WholeInv, NEW i \in DOMAIN requests, ResourceBlockHandler(i), ~wrapped'
  PROVE  CacheIntact' /\ AnswersTrue' /\ BodiesIntact' /\ DoneMeansHanded'
<1>1. UNCHANGED <<waiting, next_mid, outcome>> /\ ~wrapped
  BY DEF ResourceBlockHandler, client
<1>2. TypeInv /\ KnownFit /\ IdsApart /\ CacheIntact /\ AnswersTrue
      /\ BodiesIntact /\ DoneMeansHanded
  BY <1>1 DEF WholeInv
<1>3. HandlesWell(requests[i])
  BY <1>2, HandlerIntact
<1>4. requests[i] \in Known /\ requests[i].mid < next_mid
  BY <1>2 DEF IdsApart, Known
<1>5. CacheIntact'
  BY <1>3 DEF HandlesWell
<1>6. AnswersTrue'
  BY <1>1, <1>2, <1>3, <1>4, HandlerTruthful
<1>7. BodiesIntact' /\ DoneMeansHanded'
  BY <1>1, <1>2, <1>3, HandlerKeeps
<1> QED BY <1>5, <1>6, <1>7

\* The answers under way after a step of the client or the network were so before.
LEMMA ResponsesShrink ==
  ASSUME TypeInv, [Next]_vars, ~\E i \in DOMAIN requests : ResourceBlockHandler(i)
  PROVE  \A k \in DOMAIN responses' : \E l \in DOMAIN responses : responses'[k] = responses[l]
<1>1. \/ UNCHANGED responses
      \/ \E i \in DOMAIN responses : responses' = RemoveAt(responses, i)
  BY DEF Next, ClearCrash, Elapse, Begin, Repeat, GiveUp, GetAnswer, UseMidForPing, SkipMid, Lose,
         vars, network
<1>2. responses \in Seq(Response)
  BY DEF TypeInv, TypeOK
<1> QED BY <1>1, <1>2, RemoveAtElements

\* A client takes a transfer for done only on an answer that says so.
LEMMA AnswerDone ==
  ASSUME TypeInv, AnswersTrue, DoneMeansHanded, ~wrapped, UNCHANGED handed,
         NEW i \in DOMAIN responses, GetAnswer(i)
  PROVE  DoneMeansHanded'
<1> DEFINE code == responses[i].code
           ours == waiting # NULL /\ responses[i].mid = waiting.mid
           more == code = "CONTINUE" /\ waiting.m
<1>1. CASE UNCHANGED outcome
  BY <1>1 DEF DoneMeansHanded, BodyOf
<1>2. CASE ours /\ ~more /\ End(IF code = "INCOMPLETE" THEN "incomplete" ELSE "done")
  <2>1. Truthful(code, waiting.m, waiting.transfer) /\ waiting.transfer = current
    BY <1>2 DEF AnswersTrue, TypeInv, WaitsForCurrent
  <2>2. code # "INCOMPLETE" => BodyOf(current) \in Range(handed)
    BY <1>2, <2>1 DEF Truthful
  <2>3. outcome' = [outcome EXCEPT ![current] =
                       IF code = "INCOMPLETE" THEN "incomplete" ELSE "done"]
    BY <1>2 DEF End
  <2>4. \A u \in Transfer : outcome'[u] = "done" =>
          outcome[u] = "done" \/ (u = current /\ code # "INCOMPLETE")
    BY <2>3 DEF TypeInv, TypeOK
  <2> QED BY <2>2, <2>4 DEF DoneMeansHanded, BodyOf
<1> QED BY <1>1, <1>2 DEF GetAnswer, client

LEMMA OthersDone ==
  ASSUME WholeInv, [Next]_vars, ~wrapped, UNCHANGED handed,
         ~\E i \in DOMAIN requests : ResourceBlockHandler(i)
  PROVE  BodiesIntact' /\ DoneMeansHanded'
<1>1. BodiesIntact'
  BY DEF WholeInv, BodiesIntact, BodyOf
<1>2. CASE UNCHANGED outcome
  BY <1>1, <1>2 DEF WholeInv, DoneMeansHanded, BodyOf
<1>3. CASE GiveUp
  <2>1. \A u \in Transfer : outcome'[u] = "done" => outcome[u] = "done"
    BY <1>3 DEF GiveUp, End, WholeInv, TypeInv, TypeOK
  <2> QED BY <1>1, <2>1 DEF WholeInv, DoneMeansHanded, BodyOf
<1>4. ASSUME NEW i \in DOMAIN responses, GetAnswer(i) PROVE DoneMeansHanded'
  BY <1>4, AnswerDone DEF WholeInv
<1> QED BY <1>1, <1>2, <1>3, <1>4
        DEF Next, ClearCrash, Elapse, Begin, Repeat, UseMidForPing, SkipMid, Lose, vars, client

LEMMA WholeNext == WholeInv /\ [Next]_vars => WholeInv'
<1> SUFFICES ASSUME WholeInv, [Next]_vars PROVE WholeInv'
  OBVIOUS
<1>1. TypeInv /\ KnownFit /\ TypeInv' /\ KnownFit'
  BY NextType, KnownFitNext DEF WholeInv
<1>2. CASE wrapped'
  BY <1>1, <1>2 DEF WholeInv, BodiesIntact, DoneMeansHanded
<1>3. CASE ~wrapped'
  <2>1. ~wrapped
    BY <1>1, <1>3, FreshOrStale, FreshIds, StaleIds DEF TypeInv
  <2>2. IdsApart /\ CacheIntact /\ AnswersTrue
    BY <2>1 DEF WholeInv
  <2>3. IdsApart'
    BY <1>1, <1>3, <2>2, IdsNext
  <2>4. ASSUME NEW i \in DOMAIN requests, ResourceBlockHandler(i)
        PROVE  CacheIntact' /\ AnswersTrue' /\ BodiesIntact' /\ DoneMeansHanded'
    BY <1>3, <2>4, HandlerWhole
  <2>5. ASSUME ~\E i \in DOMAIN requests : ResourceBlockHandler(i)
        PROVE  CacheIntact' /\ AnswersTrue' /\ BodiesIntact' /\ DoneMeansHanded'
    <3>1. UNCHANGED <<block_cache, handed>>
      BY <2>5, OthersKeepServer
    <3>2. CacheIntact'
      BY <1>1, <1>3, <2>2, <3>1, OthersIntact
    <3>3. AnswersTrue'
      BY <1>1, <1>3, <2>2, <2>5, <3>1, ResponsesShrink, OthersTruthful
    <3>4. BodiesIntact' /\ DoneMeansHanded'
      BY <2>1, <2>5, <3>1, OthersDone
    <3> QED BY <3>2, <3>3, <3>4
  <2> QED BY <1>1, <2>3, <2>4, <2>5 DEF WholeInv
<1> QED BY <1>2, <1>3

LEMMA WholeInit == Init => WholeInv
<1>1. Init => KnownFit /\ IdsApart /\ CacheIntact /\ AnswersTrue
  BY DEF Init, KnownFit, Known, IdsApart, CacheIntact, AnswersTrue
<1>2. Init => BodiesIntact /\ DoneMeansHanded
  BY DEF Init, BodiesIntact, DoneMeansHanded
<1> QED BY <1>1, <1>2, InitType DEF WholeInv

LEMMA WholeHolds == Spec => []WholeInv
BY WholeInit, WholeNext, PTL DEF Spec

\* Every body handed to the resource is the whole body of one transfer, while no
\* message id is used again: for any transfers, any number of message ids, and
\* whatever the network loses, repeats and reorders.
THEOREM BodiesStayIntact == Spec => []BodiesIntact
<1>1. WholeInv => BodiesIntact
  BY DEF WholeInv
<1> QED BY <1>1, WholeHolds, PTL

\* A client that takes a transfer for done has had it handed over, likewise.
THEOREM DoneIsHanded == Spec => []DoneMeansHanded
<1>1. WholeInv => DoneMeansHanded
  BY DEF WholeInv
<1> QED BY <1>1, WholeHolds, PTL

-----------------------------------------------------------------------------
(* Requests are sent, and wait in the network, in the order of their blocks. *)

\* Request q is about a block before that of r, or is r.
NotAfter(q, r) ==
  q.transfer < r.transfer \/ (q.transfer = r.transfer /\ q.num <= r.num)

InOrder ==
  /\ \A k, l \in DOMAIN requests : k < l => NotAfter(requests[k], requests[l])
  /\ waiting # NULL => \A q \in Known : NotAfter(q, waiting)
  /\ \A q \in Known : q.transfer <= current /\ (q.block1 <=> q.transfer \notin Plain)
  /\ \A q, r \in Known : NotAfter(q, r) /\ NotAfter(r, q) => q = r

OrderInv == TypeInv /\ KnownFit /\ InOrder

\* What is left of a sequence without its i-th element is in the same order.
LEMMA RemoveAtOrder ==
  ASSUME NEW S, NEW s \in Seq(S), NEW i \in DOMAIN s
  PROVE  /\ Len(RemoveAt(s, i)) = Len(s) - 1
         /\ \A k \in DOMAIN RemoveAt(s, i) :
              RemoveAt(s, i)[k] = IF k < i THEN s[k] ELSE s[k + 1]
<1> DEFINE a == SubSeq(s, 1, i - 1)
           b == SubSeq(s, i + 1, Len(s))
<1>1. i \in 1..Len(s) /\ Len(s) \in Nat
  OBVIOUS
<1>2. a \in Seq(S) /\ Len(a) = i - 1 /\ \A k \in 1..Len(a) : a[k] = s[k]
  BY <1>1
<1>3. b \in Seq(S) /\ Len(b) = Len(s) - i /\ \A k \in 1..Len(b) : b[k] = s[i + k]
  BY <1>1
<1>4. RemoveAt(s, i) = a \o b
  BY DEF RemoveAt
<1> HIDE DEF a, b
<1>5. /\ a \o b \in Seq(S) /\ Len(a \o b) = Len(a) + Len(b)
      /\ \A k \in 1..Len(a) + Len(b) :
           (a \o b)[k] = IF k <= Len(a) THEN a[k] ELSE b[k - Len(a)]
  <2>1. a \in Seq(S) /\ b \in Seq(S)
    BY <1>2, <1>3
  <2> QED BY <2>1
<1>6. ASSUME NEW k \in DOMAIN (a \o b)
      PROVE  (a \o b)[k] = IF k < i THEN s[k] ELSE s[k + 1]
  <2>1. k \in 1..Len(a) + Len(b) /\ Len(a) = i - 1 /\ Len(b) = Len(s) - i /\ k \in Int
    BY <1>2, <1>3, <1>5
  <2>2. CASE k < i
    <3>1. k \in 1..Len(a) /\ k <= Len(a)
      BY <1>1, <2>1, <2>2
    <3> QED BY <2>1, <2>2, <3>1, <1>2, <1>5
  <2>3. CASE ~(k < i)
    <3>1. k - Len(a) \in 1..Len(b) /\ ~(k <= Len(a)) /\ i + (k - Len(a)) = k + 1
      <4>1. Len(a) \in Int /\ Len(b) \in Int /\ i \in Int
        BY <1>1, <2>1
      <4>2. \A j, m, n, h \in Int : j \in 1..m + n /\ m = h - 1 /\ ~(j < h) =>
              j - m \in 1..n /\ ~(j <= m) /\ h + (j - m) = j + 1
        OBVIOUS
      <4> QED BY <4>1, <4>2, <2>1, <2>3
    <3>2. (a \o b)[k] = b[k - Len(a)]
      BY <2>1, <3>1, <1>5
    <3>3. b[k - Len(a)] = s[k + 1]
      BY <3>1, <1>3
    <3> QED BY <2>3, <3>2, <3>3
  <2> QED BY <2>2, <2>3
<1>7. Len(a \o b) = Len(s) - 1
  BY <1>1, <1>2, <1>3, <1>5
<1> QED BY <1>4, <1>6, <1>7

LEMMA RequestsShrink ==
  ASSUME TypeOK, InOrder, NEW i \in DOMAIN requests, requests' = RemoveAt(requests, i)
  PROVE  \A k, l \in DOMAIN requests' : k < l => NotAfter(requests'[k], requests'[l])
<1>1. requests \in Seq(Request) /\ i \in 1..Len(requests) /\ DOMAIN requests = 1..Len(requests)
      /\ Len(requests) \in Nat
  BY DEF TypeOK
<1>2. /\ requests' \in Seq(Request) /\ Len(requests') = Len(requests) - 1
      /\ \A k \in DOMAIN requests' :
           requests'[k] = IF k < i THEN requests[k] ELSE requests[k + 1]
  BY <1>1, RemoveAtOrder, RemoveAtElements
<1> SUFFICES ASSUME NEW k \in DOMAIN requests', NEW l \in DOMAIN requests', k < l
             PROVE  NotAfter(requests'[k], requests'[l])
  OBVIOUS
<1>3. PICK a \in {k, k + 1} : requests'[k] = requests[a] /\ (k < i <=> a = k)
  BY <1>1, <1>2
<1>4. PICK b \in {l, l + 1} : requests'[l] = requests[b] /\ (l < i <=> b = l)
  BY <1>1, <1>2
<1>5. a \in DOMAIN requests /\ b \in DOMAIN requests /\ a < b
  <2>1. k \in 1..Len(requests) - 1 /\ l \in 1..Len(requests) - 1
    BY <1>2
  <2> QED BY <1>1, <1>3, <1>4, <2>1
<1> QED BY <1>3, <1>4, <1>5 DEF InOrder

\* The first request to arrive is before all that are left.
LEMMA FirstIsFirst ==
  ASSUME TypeOK, InOrder, 1 \in DOMAIN requests, requests' = RemoveAt(requests, 1),
         UNCHANGED waiting
  PROVE  Known' \subseteq Known /\ \A q \in Known' : NotAfter(requests[1], q)
<1>1. Known' \subseteq Known
  BY KnownShrinks
<1>2. requests \in Seq(Request) /\ 1 \in 1..Len(requests) /\ DOMAIN requests = 1..Len(requests)
      /\ Len(requests) \in Nat
  BY DEF TypeOK
<1>3. /\ requests' \in Seq(Request) /\ Len(requests') = Len(requests) - 1
      /\ \A k \in DOMAIN requests' :
           requests'[k] = IF k < 1 THEN requests[k] ELSE requests[k + 1]
  BY <1>2, RemoveAtOrder, RemoveAtElements
<1>4. ASSUME NEW k \in DOMAIN requests' PROVE NotAfter(requests[1], requests'[k])
  <2>1. k \in 1..Len(requests) - 1
    BY <1>3
  <2>2. k + 1 \in 1..Len(requests) /\ 1 < k + 1 /\ ~(k < 1)
    BY <1>2, <2>1
  <2>3. requests'[k] = requests[k + 1]
    BY <1>3, <2>2
  <2> QED BY <1>2, <2>2, <2>3 DEF InOrder
<1>5. waiting # NULL => NotAfter(requests[1], waiting)
  BY DEF InOrder, Known
<1> QED BY <1>1, <1>4, <1>5 DEF Known

\* A block is sent, and no request known is about it or a later one.
Sent ==
  /\ Fresh /\ requests' = Append(requests, waiting') /\ waiting' # NULL
  /\ waiting'.block1 <=> waiting'.transfer \notin Plain

LEMMA BeginSends ==
  ASSUME TypeInv, KnownFit, Begin
  PROVE  Sent /\ current' = current + 1 /\ waiting'.num = 0
<1>1. current + 1 \in Transfer /\ 0 < Blocks[current + 1] /\ current' = current + 1
  BY TransferType DEF Begin, TypeInv, TypeOK
<1>2. Send(current + 1, 0) /\ TypeOK /\ 0 \in Nat
  BY DEF Begin, TypeInv
<1>3. Fresh /\ waiting'.num = 0 /\ waiting' # NULL /\ requests' = Append(requests, waiting')
  BY <1>1, <1>2, SendFresh, SendType DEF Fresh
<1>4. waiting'.block1 <=> waiting'.transfer \notin Plain
  BY <1>2 DEF Send
<1> QED BY <1>1, <1>3, <1>4 DEF Sent

LEMMA NextSends ==
  ASSUME TypeInv, KnownFit, waiting # NULL, waiting.m, Send(current, waiting.num + 1),
         UNCHANGED current
  PROVE  Sent /\ waiting'.num = waiting.num + 1
<1>1. waiting \in Known /\ waiting \in Request /\ waiting.transfer = current
  BY DEF TypeInv, TypeOK, Known, WaitsForCurrent
<1>2. current \in Transfer /\ waiting.num + 1 \in Nat /\ waiting.num + 1 < Blocks[current]
  BY <1>1 DEF KnownFit, Fits, Request
<1>3. /\ Fresh /\ waiting'.num = waiting.num + 1 /\ waiting' # NULL
      /\ requests' = Append(requests, waiting')
  BY <1>1, <1>2, SendFresh, SendType DEF Fresh, TypeInv
<1>4. waiting'.block1 <=> waiting'.transfer \notin Plain
  BY DEF Send
<1> QED BY <1>3, <1>4 DEF Sent

LEMMA SentBehind ==
  ASSUME OrderInv, Sent
  PROVE  \A q \in Known : NotAfter(q, waiting') /\ ~NotAfter(waiting', q)
<1> SUFFICES ASSUME NEW q \in Known
             PROVE  NotAfter(q, waiting') /\ ~NotAfter(waiting', q)
  OBVIOUS
<1>1. q.transfer \in Int /\ q.num \in Int /\ q.transfer <= current /\ current \in Int
  BY KnownNumbers DEF OrderInv, TypeInv, TypeOK, InOrder
<1>2. waiting'.transfer = current' /\ waiting' \in Request /\ waiting'.num \in Int
  BY DEF Sent, Fresh, Request
<1>3. CASE current' = current + 1
  BY <1>1, <1>2, <1>3 DEF NotAfter
<1>4. CASE /\ current' = current /\ waiting \in Known
           /\ waiting.transfer = current /\ waiting'.num = waiting.num + 1
  <2>1. waiting # NULL /\ NotAfter(q, waiting)
    <3>1. waiting # NULL
      BY <1>4, KnownType, BlockAssumption DEF OrderInv, TypeInv
    <3> QED BY <3>1 DEF OrderInv, InOrder
  <2>2. waiting.num \in Int
    BY <1>4, KnownNumbers DEF OrderInv, TypeInv
  <2> QED BY <1>1, <1>2, <1>4, <2>1, <2>2 DEF NotAfter
<1> QED BY <1>3, <1>4 DEF Sent, Fresh

LEMMA InOrderNext == OrderInv /\ [Next]_vars => InOrder'
<1> SUFFICES ASSUME OrderInv, [Next]_vars PROVE InOrder'
  OBVIOUS
<1>0. TypeInv /\ TypeOK /\ KnownFit /\ InOrder
  BY DEF OrderInv, TypeInv
<1>1. ASSUME \/ UNCHANGED requests
             \/ \E i \in DOMAIN requests : requests' = RemoveAt(requests, i),
             waiting' \in {waiting, NULL}, UNCHANGED current
      PROVE  InOrder'
  <2>1. Known' \subseteq Known
    BY <1>0, <1>1, KnownShrinks
  <2>2. \A k, l \in DOMAIN requests' : k < l => NotAfter(requests'[k], requests'[l])
    BY <1>0, <1>1, RequestsShrink DEF InOrder
  <2> QED BY <1>0, <1>1, <2>1, <2>2 DEF InOrder, NotAfter
<1>2. ASSUME NEW r \in Request, requests' = Append(requests, r), r = waiting', r # NULL,
             Known' \subseteq Known \cup {r}, r.transfer <= current',
             r.block1 <=> r.transfer \notin Plain, current <= current',
             \A q \in Known : NotAfter(q, r) /\ (NotAfter(r, q) => r = q)
      PROVE  InOrder'
  <2>1. /\ requests \in Seq(Request) /\ DOMAIN requests = 1..Len(requests)
        /\ DOMAIN requests' = 1..Len(requests) + 1 /\ Len(requests) \in Nat
        /\ requests'[Len(requests) + 1] = r
        /\ \A k \in 1..Len(requests) : requests'[k] = requests[k]
    BY <1>0, <1>2 DEF TypeOK
  <2>2. ASSUME NEW k \in DOMAIN requests', NEW l \in DOMAIN requests', k < l
        PROVE  NotAfter(requests'[k], requests'[l])
    <3>1. k \in 1..Len(requests) /\ requests'[k] = requests[k]
      BY <2>1, <2>2
    <3>2. CASE l \in 1..Len(requests)
      BY <1>0, <2>1, <2>2, <3>1, <3>2 DEF InOrder
    <3>3. CASE l = Len(requests) + 1
      <4>1. requests[k] \in Known
        BY <2>1, <3>1 DEF Known
      <4> QED BY <1>2, <2>1, <3>1, <3>3, <4>1
    <3> QED BY <2>1, <3>2, <3>3
  <2>3. NotAfter(r, r)
    BY <1>2 DEF NotAfter, Request
  <2>4. \A q \in Known' : NotAfter(q, waiting')
    BY <1>2, <2>3
  <2>5. \A q \in Known' : q.transfer <= current' /\ (q.block1 <=> q.transfer \notin Plain)
    <3>1. \A q \in Known : q.transfer \in Int /\ q.transfer <= current
      BY <1>0, KnownNumbers DEF InOrder
    <3>2. current \in Int /\ current' \in Int
      <4>1. TypeInv'
        BY <1>0, NextType
      <4> QED BY <4>1, <1>0 DEF TypeInv, TypeOK
    <3> QED BY <1>0, <1>2, <3>1, <3>2 DEF InOrder
  <2>6. \A p, q \in Known' : NotAfter(p, q) /\ NotAfter(q, p) => p = q
    BY <1>0, <1>2 DEF InOrder
  <2> QED BY <2>2, <2>4, <2>5, <2>6 DEF InOrder, NotAfter
<1>3. ASSUME Sent PROVE InOrder'
  <2>1. waiting' \in Request /\ Known' \subseteq Known \cup {waiting'}
        /\ waiting'.transfer = current' /\ current' \in {current, current + 1}
        /\ current \in Int
    BY <1>0, <1>3 DEF Sent, Fresh, TypeOK
  <2>2. waiting'.transfer <= current' /\ current <= current'
    BY <2>1
  <2> QED BY <1>2, <1>3, <2>1, <2>2, SentBehind DEF Sent
<1>4. CASE Repeat
  <2>1. waiting \in Request /\ waiting \in Known /\ waiting' = waiting /\ waiting # NULL
        /\ UNCHANGED current /\ requests' = Append(requests, waiting)
    BY <1>0, <1>4 DEF Repeat, TypeOK, Known
  <2>2. Known' \subseteq Known \cup {waiting}
    BY <1>0, <2>1, KnownGrows
  <2>3. \A q \in Known : NotAfter(q, waiting) /\ (NotAfter(waiting, q) => waiting = q)
    BY <1>0, <2>1 DEF InOrder
  <2>4. waiting.transfer <= current' /\ current <= current'
    BY <1>0, <2>1 DEF InOrder, TypeOK
  <2>5. waiting.block1 <=> waiting.transfer \notin Plain
    BY <1>0, <2>1 DEF InOrder
  <2> QED BY <1>2, <2>1, <2>2, <2>3, <2>4, <2>5
<1>5. CASE Begin
  BY <1>0, <1>3, <1>5, BeginSends
<1>6. ASSUME NEW i \in DOMAIN responses, GetAnswer(i) PROVE InOrder'
  <2>1. CASE UNCHANGED <<client, requests>>
    BY <1>1, <2>1 DEF client
  <2>2. CASE waiting # NULL /\ waiting.m /\ Send(current, waiting.num + 1) /\ UNCHANGED current
    BY <1>0, <1>3, <2>2, NextSends
  <2>3. ASSUME NEW how, End(how), UNCHANGED requests PROVE InOrder'
    BY <1>1, <2>3 DEF End
  <2> QED BY <1>6, <2>1, <2>2, <2>3 DEF GetAnswer
<1>7. CASE \E i \in DOMAIN requests : ResourceBlockHandler(i)
  BY <1>1, <1>7 DEF ResourceBlockHandler, client
<1>8. CASE ClearCrash \/ Elapse \/ UNCHANGED vars
  BY <1>1, <1>8 DEF ClearCrash, Elapse, vars, client, network
<1>9. CASE GiveUp
  BY <1>1, <1>9 DEF GiveUp, End, network
<1>10. CASE UseMidForPing \/ SkipMid \/ Lose
  BY <1>1, <1>10 DEF UseMidForPing, SkipMid, Lose, network, client
<1> QED BY <1>4, <1>5, <1>6, <1>7, <1>8, <1>9, <1>10 DEF Next

-----------------------------------------------------------------------------
(* What the handler does with the first request under way.                 *)

\* The entry c is about the transfer of r and has come as far as block n.
Reached(c, r, n) == c # NULL /\ c.first_block_mid = first_mid(r) /\ n = c.last_block

\* A block that can neither be appended nor is repeated.
Stuck(c, r) ==
  r.block1 /\ r.num > 0 /\ ~Reached(c, r, r.num) /\ ~Reached(c, r, r.num - 1)

HandsOver(r) == handed' = Append(handed, <<Block(r)>>)
HandsOverEnd(r) == ~r.m /\ \E d \in Body : handed' = Append(handed, d) /\ Last(d) = Block(r)

Ignores(r) ==
  /\ r.block1 /\ UNCHANGED <<Cleared, handed>>
  /\ \/ Repeated(r) /\ Acknowledge(r)
     \/ Stuck(Cleared, r) /\ Reply(r, "INCOMPLETE")

Passes(r) == ~r.block1 /\ UNCHANGED Cleared /\ HandsOver(r) /\ Reply(r, "EMPTY")

Advances(r) ==
  /\ r.block1 /\ ~Repeated(r) /\ (r.num = 0 \/ HasUpTo(r, r.num - 1))
  /\ Reached(Cleared', r, r.num) /\ Acknowledge(r)
  /\ UNCHANGED handed \/ HandsOverEnd(r)

LEMMA KeepCleared == Keep => UNCHANGED Cleared
BY DEF Keep, Cleared

LEMMA LastAppended ==
  ASSUME NEW S, NEW d \in Seq(S), NEW b \in S
  PROVE  Last(Append(d, b)) = b
<1>1. Len(Append(d, b)) = Len(d) + 1 /\ Append(d, b)[Len(d) + 1] = b
  OBVIOUS
<1> QED BY <1>1 DEF Last

LEMMA StoreAdvances ==
  ASSUME NEW r \in Request, NEW e \in block_cache_entry, Store(r, e), Acknowledge(r),
         e.first_block_mid = first_mid(r), e.last_block = r.num, Last(e.data) = Block(r),
         r.block1, ~Repeated(r), r.num = 0 \/ HasUpTo(r, r.num - 1)
  PROVE  Advances(r)
<1>1. Cleared' = e /\ e # NULL
  BY BlockAssumption DEF Store, Cleared
<1>2. e.data \in Body
  BY DEF block_cache_entry
<1>3. UNCHANGED handed \/ HandsOverEnd(r)
  BY <1>2 DEF Store, HandsOverEnd
<1> QED BY <1>1, <1>3 DEF Advances, Reached

LEMMA HandlerCases ==
  ASSUME TypeInv, NEW i \in DOMAIN requests, ResourceBlockHandler(i), NEW r, r = requests[i]
  PROVE  Ignores(r) \/ Passes(r) \/ Advances(r)
<1>1. /\ r \in Request /\ Block(r) \in Transfer \X Nat /\ first_mid(r) \in Int
      /\ r.num \in Nat /\ r.m \in BOOLEAN
  BY RequestType DEF TypeInv
<1>2. Cleared \in block_cache_entry \cup {NULL}
  BY ClearedType DEF TypeInv
<1>3. CASE ProcessWhole(r)
  BY <1>3, KeepCleared DEF ProcessWhole, Passes, HandsOver
<1>4. CASE IgnoreRepeated(r)
  BY <1>4, KeepCleared DEF IgnoreRepeated, Ignores
<1>5. CASE BeginBody(r)
  <2> DEFINE e == [first_block_mid |-> first_mid(r), last_block |-> 0, m |-> r.m,
                   data |-> <<Block(r)>>]
  <2>1. /\ e \in block_cache_entry /\ e.last_block = r.num
        /\ e.first_block_mid = first_mid(r) /\ e.data = <<Block(r)>>
    BY <1>1, <1>5 DEF block_cache_entry, Body, BeginBody
  <2>2. Last(<<Block(r)>>) = Block(r)
    BY DEF Last
  <2>3. Store(r, e) /\ Acknowledge(r) /\ r.block1 /\ ~Repeated(r) /\ r.num = 0
    BY <1>5 DEF BeginBody
  <2> HIDE DEF e
  <2> QED BY <1>1, <2>1, <2>2, <2>3, StoreAdvances
<1>6. CASE RequestIncomplete(r)
  BY <1>6, KeepCleared DEF RequestIncomplete, Ignores, Stuck, HasUpTo, Reached
<1>7. CASE IgnoreSecondEnd(r) \/ AppendBlock(r)
  <2>1. /\ Cleared # NULL /\ Cleared \in block_cache_entry /\ HasUpTo(r, r.num - 1)
        /\ Cleared.first_block_mid = first_mid(r) /\ Cleared.last_block = r.num - 1
        /\ r.num > 0 /\ r.block1 /\ Cleared.data \in Body
    BY <1>2, <1>7 DEF IgnoreSecondEnd, AppendBlock, HasUpTo, block_cache_entry
  <2>2. ~Repeated(r)
    BY <1>1, <2>1 DEF Repeated, HasUpTo
  <2>3. CASE IgnoreSecondEnd(r)
    <3>1. block_cache' = [Cleared EXCEPT !.last_block = r.num, !.m = r.m]
          /\ UNCHANGED <<idle_time, handed>> /\ Acknowledge(r)
      BY <2>3 DEF IgnoreSecondEnd
    <3>2. [Cleared EXCEPT !.last_block = r.num, !.m = r.m] \in block_cache_entry
      BY <2>1, <1>1 DEF block_cache_entry
    <3>3. /\ block_cache'.first_block_mid = Cleared.first_block_mid
          /\ block_cache'.last_block = r.num /\ block_cache' # NULL
      BY <2>1, <3>1, <3>2, BlockAssumption DEF block_cache_entry
    <3>4. Cleared' = block_cache'
      BY <2>1, <3>1 DEF Cleared
    <3> QED BY <2>1, <2>2, <3>1, <3>3, <3>4 DEF Advances, Reached
  <2>4. CASE AppendBlock(r)
    <3> DEFINE e == [Cleared EXCEPT !.last_block = r.num, !.m = r.m,
                                    !.data = Append(@, Block(r))]
    <3>1. Append(Cleared.data, Block(r)) \in Body
      BY <1>1, <2>1 DEF Body
    <3>2. /\ e.data = Append(Cleared.data, Block(r)) /\ e.last_block = r.num
          /\ e.first_block_mid = first_mid(r)
      BY <2>1 DEF block_cache_entry
    <3>3. e \in block_cache_entry
      BY <1>1, <2>1, <3>1 DEF block_cache_entry
    <3>4. Last(e.data) = Block(r)
      BY <1>1, <2>1, <3>2, LastAppended DEF Body
    <3>5. Store(r, e) /\ Acknowledge(r)
      BY <2>4 DEF AppendBlock
    <3> HIDE DEF e
    <3> QED BY <1>1, <2>1, <2>2, <3>2, <3>3, <3>4, <3>5, StoreAdvances
  <2> QED BY <1>7, <2>3, <2>4
<1> QED BY <1>3, <1>4, <1>5, <1>6, <1>7 DEF ResourceBlockHandler

\* As long as nothing is overtaken, no request that is left is about an earlier block.
LEMMA HandlerServes ==
  ASSUME OrderInv, NEW i \in DOMAIN requests, ResourceBlockHandler(i), ~overtaken'
  PROVE  \E r \in Known :
           /\ ~overtaken /\ Known' \subseteq Known /\ \A q \in Known' : NotAfter(r, q)
           /\ UNCHANGED <<current, waiting, next_mid, pings, wrapped, outcome>>
           /\ Ignores(r) \/ Passes(r) \/ Advances(r)
<1>1. i = 1 /\ ~overtaken /\ TypeInv /\ TypeOK /\ InOrder
  BY DEF ResourceBlockHandler, Arrives, OrderInv, TypeInv
<1>2. /\ requests' = RemoveAt(requests, 1)
      /\ UNCHANGED <<current, waiting, next_mid, pings, wrapped, outcome>>
  BY <1>1 DEF ResourceBlockHandler, client
<1>3. Known' \subseteq Known /\ \A q \in Known' : NotAfter(requests[1], q)
  BY <1>1, <1>2, FirstIsFirst
<1>4. PICK r \in Known : r = requests[1]
  BY <1>1 DEF Known
<1>5. Ignores(r) \/ Passes(r) \/ Advances(r)
  BY <1>1, <1>4, HandlerCases
<1> QED BY <1>1, <1>2, <1>3, <1>4, <1>5

-----------------------------------------------------------------------------
(* Bodies are handed over in order, and once.                              *)

\* Of transfer u and those before it, only repetitions of the last block are known.
Passed(u) ==
  /\ u \in Transfer /\ u <= current
  /\ \A q \in Known :
       u < q.transfer \/ (q.transfer = u /\ ~q.m /\ Reached(Cleared, q, q.num))

\* The transfer a body is of, which its last block is of at least.
EndOf(d) == Last(d)[1]

HandedPassed ==
  ~overtaken => \A i \in DOMAIN handed : EndOf(handed[i]) \notin Plain => Passed(EndOf(handed[i]))

HandedInv == OrderInv /\ HandedPassed /\ HandedOnceInOrder

LEMMA PassedRepeated ==
  ASSUME OrderInv, NEW u, Passed(u), u \notin Plain, NEW r \in Known, r.transfer = u
  PROVE  r.block1 /\ Repeated(r)
<1>1. Reached(Cleared, r, r.num) /\ r.block1
  <2>1. u \in Int
    BY TransferType DEF Passed
  <2> QED BY <2>1 DEF Passed, OrderInv, InOrder
<1> QED BY <1>1 DEF Reached, Repeated, HasUpTo

\* Transfers stay passed.
LEMMA PassedStays ==
  ASSUME OrderInv, NEW u, Passed(u), u \notin Plain, NEW r \in Known, Known' \subseteq Known,
         \A q \in Known' : NotAfter(r, q), UNCHANGED current,
         Ignores(r) \/ Passes(r) \/ Advances(r)
  PROVE  Passed(u)'
<1>1. u \in Int /\ \A q \in Known : q.transfer \in Int
  BY KnownNumbers, TransferType DEF Passed, OrderInv, TypeInv
<1>2. CASE u < r.transfer
  <2>1. ASSUME NEW q \in Known' PROVE u < q.transfer
    BY <1>1, <1>2 DEF NotAfter
  <2> QED BY <2>1 DEF Passed, Transfer
<1>3. CASE r.transfer = u
  <2>1. r.block1 /\ Repeated(r)
    BY <1>3, PassedRepeated
  <2>2. UNCHANGED Cleared
    BY <2>1 DEF Ignores, Passes, Advances
  <2> QED BY <2>2 DEF Passed, Transfer, Reached, first_mid
<1> QED BY <1>2, <1>3 DEF Passed

\* The transfer whose last block has been stored is passed.
LEMMA EndPasses ==
  ASSUME OrderInv, NEW r \in Known, Known' \subseteq Known,
         \A q \in Known' : NotAfter(r, q), UNCHANGED current, Advances(r), ~r.m
  PROVE  Passed(r.transfer)'
<1>1. /\ r.transfer \in Int /\ r.transfer \in Transfer /\ r.num \in Int
      /\ r.transfer <= current /\ Fits(r) /\ Blocks[r.transfer] \in Int
  BY KnownNumbers, TransferType DEF OrderInv, TypeInv, InOrder, KnownFit
<1>2. ASSUME NEW q \in Known'
      PROVE  \/ r.transfer < q.transfer
             \/ q.transfer = r.transfer /\ ~q.m /\ Reached(Cleared', q, q.num)
  <2>1. q \in Known /\ Fits(q) /\ q.num \in Int /\ q.transfer \in Int
    BY KnownNumbers DEF OrderInv, TypeInv, KnownFit
  <2>2. CASE q.transfer = r.transfer
    <3>1. q.num = r.num
      BY <1>1, <2>1, <2>2 DEF NotAfter, Fits
    <3>2. NotAfter(q, r) /\ NotAfter(r, q)
      BY <1>1, <2>1, <2>2, <3>1 DEF NotAfter
    <3>3. q = r
      BY <2>1, <3>2 DEF OrderInv, InOrder
    <3> QED BY <2>2, <3>3 DEF Advances
  <2> QED BY <2>2 DEF NotAfter
<1> QED BY <1>1, <1>2 DEF Passed, Transfer, Reached, first_mid

LEMMA HandlerPasses ==
  ASSUME HandedInv, NEW i \in DOMAIN requests, ResourceBlockHandler(i), ~overtaken'
  PROVE  HandedPassed' /\ HandedOnceInOrder'
<1>1. OrderInv /\ TypeOK
  BY DEF HandedInv, OrderInv, TypeInv
<1>2. PICK r \in Known :
        /\ ~overtaken /\ Known' \subseteq Known /\ \A q \in Known' : NotAfter(r, q)
        /\ UNCHANGED <<current, waiting, next_mid, pings, wrapped, outcome>>
        /\ Ignores(r) \/ Passes(r) \/ Advances(r)
  BY <1>1, HandlerServes
<1>3. \A k \in DOMAIN handed : \A u : u = EndOf(handed[k]) /\ u \notin Plain =>
        Passed(u) /\ Passed(u)'
  <2>1. \A k \in DOMAIN handed : \A u : u = EndOf(handed[k]) /\ u \notin Plain => Passed(u)
    BY <1>2 DEF HandedInv, HandedPassed
  <2>2. \A u : Passed(u) /\ u \notin Plain => Passed(u)'
    BY <1>1, <1>2, PassedStays
  <2> QED BY <2>1, <2>2
<1>4. \A k, l \in DOMAIN handed :
        /\ k < l /\ EndOf(handed[k]) \notin Plain /\ EndOf(handed[l]) \notin Plain
        => EndOf(handed[k]) < EndOf(handed[l])
  BY <1>2 DEF HandedInv, HandedOnceInOrder, EndOf
<1> USE DEF EndOf
<1>5. CASE UNCHANGED handed
  BY <1>3, <1>4, <1>5 DEF HandedPassed, HandedOnceInOrder
<1>6. ASSUME NEW d \in Body, handed' = Append(handed, d),
             Last(d)[1] \notin Plain => /\ Passed(Last(d)[1])' /\ r.transfer = Last(d)[1]
                                        /\ ~Repeated(r)
      PROVE  HandedPassed' /\ HandedOnceInOrder'
  <2>1. /\ DOMAIN handed = 1..Len(handed) /\ Len(handed) \in Nat
        /\ DOMAIN handed' = 1..Len(handed) + 1 /\ handed'[Len(handed) + 1] = d
        /\ \A k \in DOMAIN handed : handed'[k] = handed[k]
    BY <1>1, <1>6 DEF TypeOK
  <2>2. HandedPassed'
    BY <1>3, <1>6, <2>1 DEF HandedPassed
  <2>3. ASSUME NEW k \in DOMAIN handed', NEW l \in DOMAIN handed', k < l,
               Last(handed'[k])[1] \notin Plain, Last(handed'[l])[1] \notin Plain
        PROVE  Last(handed'[k])[1] < Last(handed'[l])[1]
    <3>1. k \in DOMAIN handed /\ handed'[k] = handed[k]
      BY <2>1, <2>3
    <3>2. CASE l \in DOMAIN handed
      BY <1>4, <2>1, <2>3, <3>1, <3>2
    <3>3. CASE handed'[l] = d
      <4>1. Passed(Last(handed[k])[1]) /\ ~Repeated(r) /\ r.transfer = Last(d)[1]
        BY <1>3, <1>6, <2>3, <3>1, <3>3
      <4>2. r.transfer # Last(handed[k])[1]
        BY <1>1, <2>3, <3>1, <4>1, PassedRepeated
      <4> QED BY <3>1, <3>3, <4>1, <4>2 DEF Passed
    <3> QED BY <2>1, <3>2, <3>3
  <2> QED BY <2>2, <2>3 DEF HandedOnceInOrder
<1>7. CASE Passes(r)
  <2>1. <<Block(r)>> \in Body /\ Last(<<Block(r)>>) = Block(r) /\ Block(r)[1] = r.transfer
    BY <1>1, KnownNumbers DEF Body, Block, Last
  <2>2. r.transfer \in Plain
    BY <1>1, <1>7 DEF Passes, OrderInv, InOrder
  <2> QED BY <1>6, <1>7, <2>1, <2>2 DEF Passes, HandsOver
<1>8. CASE Advances(r) /\ HandsOverEnd(r)
  <2>1. Passed(r.transfer)' /\ ~Repeated(r)
    BY <1>1, <1>2, <1>8, EndPasses DEF HandsOverEnd, Advances
  <2>2. PICK d \in Body : handed' = Append(handed, d) /\ Last(d) = Block(r)
    BY <1>8 DEF HandsOverEnd
  <2>3. Last(d)[1] = r.transfer
    BY <2>2 DEF Block
  <2> QED BY <1>6, <2>1, <2>2, <2>3
<1> QED BY <1>2, <1>5, <1>7, <1>8 DEF Ignores, Advances

\* The client and the network leave passed what is passed.
LEMMA OthersPass ==
  ASSUME OrderInv, [Next]_vars, ~\E i \in DOMAIN requests : ResourceBlockHandler(i),
         NEW u, Passed(u)
  PROVE  Passed(u)'
<1>1. TypeInv /\ KnownFit /\ u \in Int /\ current \in Int
  BY TransferType DEF OrderInv, TypeInv, TypeOK, Passed
<1>2. CASE Elapse
  <2>1. Known' = {} /\ UNCHANGED current
    BY <1>2 DEF Elapse, Known, client, network
  <2> QED BY <2>1 DEF Passed
<1>3. CASE ~Elapse
  <2>1. UNCHANGED Cleared
    BY <1>3 DEF Next, ClearCrash, Begin, Repeat, GiveUp, GetAnswer, UseMidForPing, SkipMid, Lose,
                vars, server, Cleared
  <2>2. CASE Stale
    BY <2>1, <2>2 DEF Stale, Passed, Reached, first_mid
  <2>3. CASE Fresh
    <3>1. u < waiting'.transfer
      <4>1. CASE current' = current + 1 /\ waiting'.transfer = current'
        BY <1>1, <4>1 DEF Passed
      <4>2. CASE /\ waiting \in Known /\ waiting'.transfer = waiting.transfer
                 /\ waiting'.num = waiting.num + 1 /\ Fits(waiting')
        <5>1. waiting.num \in Nat /\ Blocks[waiting.transfer] \in Nat /\ Fits(waiting)
          BY <1>1, <4>2, KnownNumbers, TransferType DEF TypeInv, KnownFit
        <5>2. waiting.m
          BY <4>2, <5>1 DEF Fits
        <5> QED BY <4>2, <5>2 DEF Passed
      <4> QED BY <2>3, <4>1, <4>2 DEF Fresh
    <3>2. u <= current'
      BY <1>1, <2>3 DEF Fresh, Passed
    <3> QED BY <2>1, <2>3, <3>1, <3>2 DEF Fresh, Passed, Reached, first_mid
  <2> QED BY <1>1, <2>2, <2>3, FreshOrStale
<1> QED BY <1>2, <1>3

LEMMA HandedNext == HandedInv /\ [Next]_vars => HandedInv'
<1> SUFFICES ASSUME HandedInv, [Next]_vars PROVE HandedInv'
  OBVIOUS
<1>1. OrderInv /\ OrderInv'
  BY InOrderNext, NextType, KnownFitNext DEF HandedInv, OrderInv
<1>2. CASE overtaken'
  BY <1>1, <1>2 DEF HandedInv, HandedPassed, HandedOnceInOrder
<1>3. CASE ~overtaken'
  <2>1. ASSUME NEW i \in DOMAIN requests, ResourceBlockHandler(i)
        PROVE  HandedPassed' /\ HandedOnceInOrder'
    BY <1>3, <2>1, HandlerPasses
  <2>2. ASSUME ~\E i \in DOMAIN requests : ResourceBlockHandler(i)
        PROVE  HandedPassed' /\ HandedOnceInOrder'
    <3>1. UNCHANGED handed
      BY <2>2, OthersKeepServer
    <3>2. ~overtaken
      BY <1>3 DEF Next, ResourceBlockHandler, Arrives, ClearCrash, Elapse, Begin, Repeat, GiveUp,
                  GetAnswer, UseMidForPing, SkipMid, Lose, vars, network
    <3>3. HandedOnceInOrder'
      BY <3>1, <3>2 DEF HandedInv, HandedOnceInOrder
    <3>4. ASSUME NEW k \in DOMAIN handed, NEW u, u = EndOf(handed[k]), u \notin Plain
          PROVE  Passed(u)'
      <4>1. Passed(u)
        BY <3>2, <3>4 DEF HandedInv, HandedPassed
      <4> QED BY <1>1, <2>2, <4>1, OthersPass
    <3>5. HandedPassed'
      BY <3>1, <3>4 DEF HandedPassed, EndOf
    <3> QED BY <3>3, <3>5
  <2> QED BY <1>1, <2>1, <2>2 DEF HandedInv
<1> QED BY <1>1, <1>2, <1>3 DEF HandedInv

LEMMA OrderInit == Init => OrderInv
<1>1. Init => KnownFit /\ InOrder
  BY DEF Init, KnownFit, Known, InOrder
<1> QED BY <1>1, InitType DEF OrderInv

\* While no datagram overtakes another, no body is handed over twice or behind a later
\* one, whatever is lost and repeated and whatever message ids coincide.
THEOREM BodiesInOrder == Spec => []HandedOnceInOrder
<1>1. Init => HandedInv
  <2>1. Init => HandedPassed /\ HandedOnceInOrder
    BY DEF Init, HandedPassed, HandedOnceInOrder
  <2> QED BY <2>1, OrderInit DEF HandedInv
<1>2. HandedInv /\ [Next]_vars => HandedInv'
  BY HandedNext
<1>3. HandedInv => HandedOnceInOrder
  BY DEF HandedInv
<1> QED BY <1>1, <1>2, <1>3, PTL DEF Spec

-----------------------------------------------------------------------------
(* The steps of the client and the network.                                *)

\* The cache is as it was, or nobody knows of a request any more.
Untouched ==
  \/ UNCHANGED Cleared
  \/ Known' = {} /\ waiting = NULL /\ UNCHANGED <<waiting, next_mid, pings, outcome, responses>>

Rests == Stale /\ UNCHANGED <<next_mid, pings, outcome>>

Ends(how) ==
  /\ Stale /\ waiting # NULL /\ waiting' = NULL
  /\ UNCHANGED <<next_mid, pings>> /\ outcome' = [outcome EXCEPT ![current] = how]

Begins == Sent /\ current' = current + 1 /\ waiting'.num = 0 /\ UNCHANGED <<pings, outcome>>

Continues ==
  /\ Sent /\ waiting # NULL /\ waiting.m /\ waiting'.num = waiting.num + 1
  /\ UNCHANGED <<current, pings, outcome>>

Answers(k, code) ==
  /\ waiting # NULL /\ responses[k].mid = waiting.mid /\ responses[k].code = code

LEMMA OthersCases ==
  ASSUME TypeInv, KnownFit, [Next]_vars, ~\E i \in DOMAIN requests : ResourceBlockHandler(i)
  PROVE  /\ Untouched
         /\ \/ Rests
            \/ Stale /\ pings' = pings + 1 /\ UNCHANGED <<waiting, outcome, current>>
            \/ Stale /\ waiting = NULL /\ UNCHANGED <<waiting, pings, outcome, current>>
            \/ Ends("given_up")
            \/ \E k \in DOMAIN responses, code \in Codes :
                 /\ Answers(k, code)
                 /\ Ends(IF code = "INCOMPLETE" THEN "incomplete" ELSE "done")
            \/ Begins
            \/ \E k \in DOMAIN responses : Answers(k, "CONTINUE") /\ Continues
<1>1. Fresh \/ Stale
  BY FreshOrStale
<1>2. Untouched
  <2>1. CASE Elapse
    BY <2>1 DEF Elapse, Untouched, Known, client, network
  <2>2. CASE UNCHANGED <<block_cache, idle_time>>
    BY <2>2 DEF Untouched, Cleared
  <2> QED BY <2>1, <2>2 DEF Next, ClearCrash, Begin, Repeat, GiveUp, GetAnswer, UseMidForPing,
                            SkipMid, Lose, vars, server
<1>3. ASSUME UNCHANGED <<waiting, current, next_mid, pings, wrapped, outcome>> PROVE Rests
  <2>1. Stale
    <3>1. ASSUME Fresh PROVE FALSE
      <4>1. waiting \in Request /\ waiting.num \in Nat /\ current \in Nat
        BY <1>3, <3>1 DEF Fresh, Request, TypeInv, TypeOK
      <4>2. current = current + 1 \/ waiting.num = waiting.num + 1
        BY <1>3, <3>1 DEF Fresh
      <4> QED BY <4>1, <4>2
    <3> QED BY <1>1, <3>1
  <2> QED BY <2>1, <1>3 DEF Rests
<1>4. CASE ClearCrash \/ Elapse \/ Repeat \/ Lose \/ UNCHANGED vars
  BY <1>2, <1>3, <1>4 DEF ClearCrash, Elapse, Repeat, Lose, vars, client
<1>5. ASSUME NEW how, waiting # NULL, End(how) PROVE Ends(how)
  <2>1. ~Fresh
    BY <1>5, BlockAssumption DEF End, Fresh
  <2> QED BY <1>1, <1>5, <2>1 DEF Ends, End
<1>6. CASE GiveUp
  BY <1>2, <1>5, <1>6 DEF GiveUp
<1>7. CASE UseMidForPing
  <2>1. UNCHANGED <<waiting, current, outcome, requests>> /\ pings' = pings + 1 /\ TakeMid
    BY <1>7 DEF UseMidForPing, network
  <2>2. Stale
    BY <2>1 DEF Stale, Known
  <2> QED BY <1>2, <2>1, <2>2
<1>11. CASE SkipMid
  <2>1. UNCHANGED <<waiting, current, outcome, pings, requests>> /\ waiting = NULL /\ TakeMid
    BY <1>11 DEF SkipMid, network
  <2>2. Stale
    BY <2>1 DEF Stale, Known
  <2> QED BY <1>2, <2>1, <2>2
<1>8. CASE Begin
  BY <1>2, <1>8, BeginSends DEF Begin, Begins
<1>9. ASSUME NEW k \in DOMAIN responses, GetAnswer(k)
      PROVE  \/ Rests
             \/ \E code \in Codes :
                  /\ Answers(k, code)
                  /\ Ends(IF code = "INCOMPLETE" THEN "incomplete" ELSE "done")
             \/ Answers(k, "CONTINUE") /\ Continues
  <2>1. responses[k].code \in Codes
    <3>1. responses[k] \in Response
      BY DEF TypeInv, TypeOK
    <3> QED BY <3>1 DEF Response
  <2>2. CASE UNCHANGED <<client, requests>>
    BY <1>3, <2>2 DEF client
  <2>3. CASE /\ waiting # NULL /\ responses[k].mid = waiting.mid /\ waiting.m
             /\ responses[k].code = "CONTINUE"
             /\ Send(current, waiting.num + 1) /\ UNCHANGED <<current, pings, outcome>>
    BY <2>3, NextSends DEF Answers, Continues
  <2>4. CASE /\ waiting # NULL /\ responses[k].mid = waiting.mid
             /\ End(IF responses[k].code = "INCOMPLETE" THEN "incomplete" ELSE "done")
    BY <1>5, <2>1, <2>4 DEF Answers
  <2> QED BY <1>9, <2>2, <2>3, <2>4 DEF GetAnswer
<1> QED BY <1>2, <1>4, <1>6, <1>7, <1>8, <1>9, <1>11 DEF Next

\* What has happened once has happened.
LEMMA Before ==
  ASSUME TypeInv, KnownFit, [Next]_vars
  PROVE  (~wrapped' => ~wrapped) /\ (~overtaken' => ~overtaken) /\ (pings' = 0 => pings = 0)
<1>1. ~wrapped' => ~wrapped
  BY FreshOrStale, FreshIds, StaleIds DEF TypeInv
<1>2. ~overtaken' => ~overtaken
  BY DEF Next, ResourceBlockHandler, Arrives, ClearCrash, Elapse, Begin, Repeat, GiveUp,
         GetAnswer, UseMidForPing, SkipMid, Lose, vars, network
<1>3. pings' \in {pings, pings + 1}
  BY DEF Next, ResourceBlockHandler, ClearCrash, Elapse, Begin, Repeat, GiveUp, End,
         GetAnswer, UseMidForPing, SkipMid, Lose, vars, client
<1>4. pings \in Nat
  BY BlockAssumption DEF TypeInv, TypeOK
<1> QED BY <1>1, <1>2, <1>3, <1>4

-----------------------------------------------------------------------------
(* No client is told to begin again for nothing.                           *)

\* The entry c has not come farther than request q, and at most one block less.
Met(c, q) ==
  /\ c # NULL => /\ c.first_block_mid <= first_mid(q)
                 /\ c.first_block_mid = first_mid(q) => c.last_block <= q.num
  /\ q.num > 0 => Reached(c, q, q.num - 1) \/ Reached(c, q, q.num)

Consecutive ==
  /\ waiting # NULL => next_mid = waiting.mid + 1
  /\ \A q, r \in Known : q.transfer = r.transfer => first_mid(q) = first_mid(r)

AnsweredIsStored ==
  \A k \in DOMAIN responses :
    /\ responses[k].code # "INCOMPLETE"
    /\ waiting # NULL /\ responses[k].mid = waiting.mid /\ waiting.block1 =>
         Reached(Cleared, waiting, waiting.num)

InStep ==
  /\ Consecutive
  /\ \A q \in Known : Met(Cleared, q)
  /\ AnsweredIsStored
  /\ \A u \in Transfer : outcome[u] # "incomplete"

StepInv == WholeInv /\ InOrder /\ (~overtaken /\ pings = 0 /\ ~wrapped => InStep)

\* What is known of the ids of two requests.
LEMMA TwoIds ==
  ASSUME TypeInv, IdsApart, NEW q \in Known, NEW r \in Known
  PROVE  /\ q.mid \in Int /\ q.num \in Nat /\ q.transfer \in Int /\ first_mid(q) \in Int
         /\ r.mid \in Int /\ r.num \in Nat /\ r.transfer \in Int /\ first_mid(r) \in Int
         /\ first_mid(q) <= q.mid /\ first_mid(r) <= r.mid
         /\ q.transfer < r.transfer => first_mid(q) < first_mid(r)
         /\ q.mid = r.mid => q = r
<1>1. /\ q.mid \in Int /\ q.num \in Nat /\ q.transfer \in Int /\ first_mid(q) = q.mid - q.num
      /\ r.mid \in Int /\ r.num \in Nat /\ r.transfer \in Int /\ first_mid(r) = r.mid - r.num
  BY KnownNumbers DEF TypeInv
<1>2. q.transfer < r.transfer => q.mid < first_mid(r)
  BY DEF IdsApart
<1> QED BY <1>1, <1>2 DEF IdsApart

LEMMA AdvanceMeets ==
  ASSUME TypeInv, IdsApart, Consecutive, NEW r \in Known, Advances(r), Met(Cleared, r),
         NEW q \in Known, NotAfter(r, q), Met(Cleared, q)
  PROVE  Met(Cleared', q)
<1>1. /\ q.num \in Nat /\ q.transfer \in Int /\ first_mid(q) \in Int
      /\ r.num \in Nat /\ r.transfer \in Int /\ first_mid(r) \in Int
      /\ r.transfer < q.transfer => first_mid(r) < first_mid(q)
  BY TwoIds
<1>2. /\ Cleared' # NULL /\ Cleared'.first_block_mid = first_mid(r)
      /\ Cleared'.last_block = r.num /\ ~Repeated(r)
      /\ r.num = 0 \/ HasUpTo(r, r.num - 1)
  BY DEF Advances, Reached
<1>3. CASE q.transfer = r.transfer
  <2>1. r.num <= q.num /\ first_mid(q) = first_mid(r)
    BY <1>3, <1>1 DEF NotAfter, Consecutive
  <2>2. ASSUME q.num > 0 PROVE Reached(Cleared', q, q.num - 1) \/ Reached(Cleared', q, q.num)
    <3>1. /\ Cleared # NULL /\ Cleared.first_block_mid = first_mid(r)
          /\ Cleared.last_block \in {q.num - 1, q.num}
      BY <2>1, <2>2 DEF Met, Reached
    <3>2. r.num > 0
      BY <1>1, <1>2, <3>1 DEF Repeated
    <3>3. Cleared.last_block = r.num - 1
      BY <1>2, <3>2 DEF HasUpTo
    <3>4. q.num = r.num
      BY <1>1, <2>1, <3>1, <3>3
    <3> QED BY <1>2, <2>1, <3>4 DEF Reached
  <2> QED BY <1>1, <1>2, <2>1, <2>2 DEF Met
<1>4. CASE r.transfer < q.transfer
  <2>1. first_mid(r) < first_mid(q)
    BY <1>1, <1>4
  <2>2. ~(q.num > 0)
    <3>1. q.num > 0 => Cleared # NULL /\ Cleared.first_block_mid = first_mid(q)
      BY DEF Met, Reached
    <3>2. Cleared # NULL => Cleared.first_block_mid <= first_mid(r)
      BY DEF Met
    <3> QED BY <1>1, <2>1, <3>1, <3>2
  <2> QED BY <1>1, <1>2, <2>1, <2>2 DEF Met
<1> QED BY <1>3, <1>4 DEF NotAfter

\* What the client waits for stays stored, once it is.
LEMMA AdvanceKeeps ==
  ASSUME TypeInv, IdsApart, Consecutive, NEW r \in Known, Advances(r), Met(Cleared, r),
         waiting \in Known, NotAfter(r, waiting), Reached(Cleared, waiting, waiting.num)
  PROVE  FALSE
<1>1. /\ waiting.num \in Nat /\ waiting.transfer \in Int /\ first_mid(waiting) \in Int
      /\ r.num \in Nat /\ r.transfer \in Int /\ first_mid(r) \in Int
      /\ r.transfer < waiting.transfer => first_mid(r) < first_mid(waiting)
  BY TwoIds
<1>2. /\ Cleared # NULL /\ Cleared.first_block_mid = first_mid(waiting)
      /\ Cleared.last_block = waiting.num
      /\ ~Repeated(r) /\ (r.num = 0 \/ HasUpTo(r, r.num - 1))
      /\ Cleared.first_block_mid <= first_mid(r)
  BY DEF Advances, Reached, Met
<1>3. r.transfer = waiting.transfer /\ r.num <= waiting.num
  BY <1>1, <1>2 DEF NotAfter
<1>4. first_mid(r) = first_mid(waiting)
  BY <1>3 DEF Consecutive
<1>5. r.num > 0
  BY <1>1, <1>2, <1>4 DEF Repeated
<1>6. Cleared.last_block = r.num - 1
  BY <1>2, <1>5 DEF HasUpTo
<1> QED BY <1>1, <1>2, <1>3, <1>6

LEMMA HandlerInStep ==
  ASSUME StepInv, ~wrapped, pings = 0, NEW i \in DOMAIN requests, ResourceBlockHandler(i),
         ~overtaken'
  PROVE  InStep'
<1>1. TypeInv /\ OrderInv /\ InOrder /\ IdsApart
  BY DEF StepInv, WholeInv, OrderInv
<1>2. PICK r \in Known :
        /\ ~overtaken /\ Known' \subseteq Known /\ \A q \in Known' : NotAfter(r, q)
        /\ UNCHANGED <<current, waiting, next_mid, pings, wrapped, outcome>>
        /\ Ignores(r) \/ Passes(r) \/ Advances(r)
  BY <1>1, HandlerServes
<1>3. /\ Consecutive /\ AnsweredIsStored /\ (\A q \in Known : Met(Cleared, q))
      /\ \A u \in Transfer : outcome[u] # "incomplete"
  BY <1>2 DEF StepInv, InStep
<1>4. /\ ~Stuck(Cleared, r) /\ Met(Cleared, r)
      /\ r.num \in Nat
  <2>1. Met(Cleared, r)
    BY <1>3
  <2> QED BY <1>1, <2>1, TwoIds DEF Stuck, Met
<1>5. Consecutive'
  BY <1>2, <1>3 DEF Consecutive, first_mid
<1>6. \A q \in Known' : Met(Cleared', q)
  <2>1. CASE UNCHANGED Cleared
    BY <1>2, <1>3, <2>1
  <2>2. CASE Advances(r)
    BY <1>1, <1>2, <1>3, <1>4, <2>2, AdvanceMeets
  <2> QED BY <1>2, <2>1, <2>2 DEF Ignores, Passes
<1>7. ASSUME waiting # NULL, waiting.block1, Reached(Cleared, waiting, waiting.num)
      PROVE  Reached(Cleared', waiting, waiting.num)
  <2>1. CASE UNCHANGED Cleared
    BY <1>7, <2>1
  <2>2. CASE Advances(r)
    <3>1. waiting \in Known /\ NotAfter(r, waiting)
      BY <1>1, <1>7 DEF InOrder, Known
    <3> QED BY <1>1, <1>3, <1>4, <1>7, <2>2, <3>1, AdvanceKeeps
  <2> QED BY <1>2, <2>1, <2>2 DEF Ignores, Passes
<1>8. ASSUME waiting # NULL, waiting.block1, r.mid = waiting.mid
      PROVE  Reached(Cleared', waiting, waiting.num)
  <2>1. r = waiting
    <3>1. waiting \in Known
      BY <1>8 DEF Known
    <3> QED BY <1>1, <1>8, <3>1, TwoIds
  <2>2. CASE Ignores(r)
    <3>1. Repeated(r) /\ UNCHANGED Cleared
      BY <1>4, <2>2 DEF Ignores
    <3>2. CASE r.num = 0
      <4>1. Cleared # NULL /\ Cleared.first_block_mid = first_mid(r)
        BY <3>1, <3>2 DEF Repeated
      <4>2. Cleared.last_block \in Nat
        BY <1>1, <4>1, ClearedType DEF TypeInv, block_cache_entry
      <4>3. Cleared.last_block = 0
        BY <1>4, <3>2, <4>1, <4>2 DEF Met
      <4> QED BY <2>1, <3>1, <3>2, <4>1, <4>3 DEF Reached
    <3>3. CASE r.num # 0
      BY <2>1, <3>1, <3>3 DEF Repeated, HasUpTo, Reached
    <3> QED BY <3>2, <3>3
  <2>3. CASE Advances(r)
    BY <2>1, <2>3 DEF Advances
  <2> QED BY <1>2, <1>8, <2>1, <2>2, <2>3 DEF Passes
<1>9. PICK code \in Codes : code # "INCOMPLETE" /\ Reply(r, code)
  <2>1. CASE Ignores(r) \/ Advances(r)
    <3>1. Acknowledge(r)
      BY <1>4, <2>1 DEF Ignores, Advances
    <3> QED BY <3>1 DEF Acknowledge, Codes
  <2>2. CASE Passes(r)
    BY <2>2 DEF Passes, Codes
  <2> QED BY <1>2, <2>1, <2>2
<1>10. AnsweredIsStored'
  <2>1. \A k \in DOMAIN responses' :
          \/ k \in DOMAIN responses /\ responses'[k] = responses[k]
          \/ responses'[k] = [mid |-> r.mid, code |-> code]
    BY <1>1, <1>9 DEF Reply, TypeInv, TypeOK
  <2> SUFFICES ASSUME NEW k \in DOMAIN responses'
               PROVE  /\ responses'[k].code # "INCOMPLETE"
                      /\ waiting # NULL /\ responses'[k].mid = waiting.mid /\ waiting.block1 =>
                           Reached(Cleared', waiting, waiting.num)
    BY <1>2 DEF AnsweredIsStored, Reached, first_mid
  <2>2. CASE k \in DOMAIN responses /\ responses'[k] = responses[k]
    BY <1>3, <1>7, <2>2 DEF AnsweredIsStored
  <2>3. CASE responses'[k] = [mid |-> r.mid, code |-> code]
    BY <1>8, <1>9, <2>3
  <2> QED BY <2>1, <2>2, <2>3
<1> QED BY <1>2, <1>3, <1>5, <1>6, <1>10 DEF InStep

LEMMA OthersInStep ==
  ASSUME StepInv, [Next]_vars, ~wrapped', pings' = 0, ~overtaken',
         ~\E i \in DOMAIN requests : ResourceBlockHandler(i)
  PROVE  InStep'
<1>1. /\ TypeInv /\ KnownFit /\ InOrder /\ WholeInv
      /\ ~wrapped /\ pings = 0 /\ ~overtaken
  BY Before DEF StepInv, WholeInv
<1>2. /\ IdsApart /\ CacheIntact /\ AnswersTrue /\ InStep
  BY <1>1 DEF StepInv, WholeInv
<1>3. \A k \in DOMAIN responses' : \E l \in DOMAIN responses : responses'[k] = responses[l]
  BY <1>1, ResponsesShrink
<1>4. Untouched
  BY <1>1, OthersCases
<1>5. ASSUME Stale, waiting' # NULL => waiting' = waiting /\ UNCHANGED next_mid,
             \A u \in Transfer : outcome'[u] # "incomplete"
      PROVE  InStep'
  <2>1. Known' \subseteq Known /\ waiting' \in {waiting, NULL}
    BY <1>5 DEF Stale
  <2>2. Consecutive'
    BY <1>2, <1>5, <2>1 DEF Consecutive, InStep, first_mid
  <2>3. \A q \in Known' : Met(Cleared', q)
    BY <1>2, <1>4, <2>1 DEF InStep, Untouched
  <2>4. AnsweredIsStored'
    <3>1. waiting' # NULL => UNCHANGED Cleared
      BY <1>4 DEF Untouched
    <3> QED BY <1>2, <1>3, <1>5, <3>1 DEF AnsweredIsStored, InStep, Reached, first_mid
  <2>5. UNCHANGED Transfer
    BY DEF Transfer
  <2> QED BY <1>5, <2>2, <2>3, <2>4, <2>5 DEF InStep
<1>6. ASSUME Sent, UNCHANGED outcome, waiting'.block1 \/ waiting'.num = 0,
             Met(Cleared, waiting'),
             \A q \in Known : q.transfer = waiting'.transfer => first_mid(q) = first_mid(waiting')
      PROVE  InStep'
  <2>1. /\ Known' \subseteq Known \cup {waiting'} /\ waiting' # NULL
        /\ waiting'.mid = next_mid /\ next_mid' = next_mid + 1
    BY <1>1, <1>6, FreshIds DEF Sent, Fresh, TypeInv
  <2>2. Consecutive'
    BY <1>2, <1>6, <2>1 DEF Consecutive, InStep, first_mid
  <2>3. UNCHANGED Cleared
    BY <1>4, <2>1 DEF Untouched
  <2>4. \A q \in Known' : Met(Cleared', q)
    BY <1>2, <1>6, <2>1, <2>3 DEF InStep
  <2>5. AnsweredIsStored'
    <3>1. \A k \in DOMAIN responses : responses[k].mid < next_mid /\ responses[k].mid \in Int
      <4>1. \A k \in DOMAIN responses : responses[k] \in Response
        BY <1>1 DEF TypeInv, TypeOK
      <4> QED BY <1>2, <4>1, BlockAssumption DEF AnswersTrue, Response, Mid
    <3>2. next_mid \in Int
      BY <1>1, BlockAssumption DEF TypeInv, TypeOK, Mid
    <3> QED BY <1>2, <1>3, <2>1, <3>1, <3>2 DEF AnsweredIsStored, InStep
  <2>6. UNCHANGED Transfer
    BY DEF Transfer
  <2> QED BY <1>2, <1>6, <2>2, <2>4, <2>5, <2>6 DEF InStep
<1>7. CASE Rests \/ Ends("given_up")
  <2>1. \A u \in Transfer : outcome'[u] # "incomplete"
    BY <1>1, <1>2, <1>7 DEF Rests, Ends, InStep, TypeInv, TypeOK
  <2> QED BY <1>5, <1>7, <2>1 DEF Rests, Ends, Stale
<1>8. ASSUME NEW k \in DOMAIN responses, NEW code \in Codes, Answers(k, code),
             Ends(IF code = "INCOMPLETE" THEN "incomplete" ELSE "done")
      PROVE  InStep'
  <2>1. code # "INCOMPLETE"
    BY <1>2, <1>8 DEF Answers, InStep, AnsweredIsStored
  <2>2. Ends("done")
    BY <1>8, <2>1
  <2>3. \A u \in Transfer : outcome'[u] # "incomplete"
    BY <1>1, <1>2, <2>2 DEF Ends, InStep, TypeInv, TypeOK
  <2> QED BY <1>5, <2>2, <2>3 DEF Ends
<1>9. CASE Begins
  <2>1. waiting'.num = 0 /\ waiting'.transfer = current + 1 /\ waiting'.mid = next_mid
        /\ Sent /\ UNCHANGED outcome
    BY <1>9 DEF Begins, Sent, Fresh
  <2>2. first_mid(waiting') = next_mid /\ next_mid \in Int /\ current \in Int
    BY <1>1, <2>1, BlockAssumption DEF first_mid, TypeInv, TypeOK, Mid
  <2>3. \A q \in Known : q.transfer # waiting'.transfer
    BY <1>1, <2>1, <2>2, KnownNumbers DEF InOrder, TypeInv
  <2>4. Met(Cleared, waiting')
    <3>1. Cleared # NULL => Cleared.first_block_mid < next_mid /\ Cleared.first_block_mid \in Int
      BY <1>1, <1>2, ClearedType
      DEF CacheIntact, EntryPlaced, TypeInv, TypeOK, block_cache_entry
    <3> QED BY <2>1, <2>2, <3>1 DEF Met
  <2> QED BY <1>6, <2>1, <2>3, <2>4
<1>10. ASSUME NEW k \in DOMAIN responses, Answers(k, "CONTINUE"), Continues PROVE InStep'
  <2>1. /\ waiting \in Known /\ waiting.transfer = current /\ waiting.num \in Nat
        /\ waiting.mid \in Int /\ Fits(waiting) /\ waiting.m /\ Blocks[current] \in Nat
        /\ waiting.transfer \in Transfer /\ first_mid(waiting) = waiting.mid - waiting.num
    <3>1. waiting \in Known /\ waiting.transfer = current
      BY <1>1, <1>10 DEF Continues, Known, TypeInv, WaitsForCurrent
    <3> QED BY <1>1, <1>10, <3>1, KnownNumbers, TransferType DEF Continues, TypeInv, KnownFit
  <2>2. /\ Sent /\ UNCHANGED outcome /\ waiting'.num = waiting.num + 1
        /\ waiting'.transfer = current /\ waiting'.mid = waiting.mid + 1
    BY <1>2, <1>10 DEF Continues, Sent, Fresh, InStep, Consecutive
  <2>3. first_mid(waiting') = first_mid(waiting)
    BY <2>1, <2>2 DEF first_mid
  <2>4. Reached(Cleared, waiting, waiting.num)
    <3>1. waiting.block1
      BY <2>1 DEF Fits
    <3> QED BY <1>2, <1>10, <3>1 DEF Answers, InStep, AnsweredIsStored
  <2>5. Met(Cleared, waiting')
    <3>1. /\ Cleared.first_block_mid = first_mid(waiting') /\ Cleared # NULL
          /\ Cleared.last_block = waiting.num /\ first_mid(waiting') \in Int
          /\ waiting'.num - 1 = waiting.num
      BY <2>1, <2>2, <2>3, <2>4 DEF Reached
    <3> QED BY <2>1, <2>2, <3>1 DEF Met, Reached
  <2>6. \A q \in Known : q.transfer = waiting'.transfer => first_mid(q) = first_mid(waiting')
    BY <1>2, <2>1, <2>2, <2>3 DEF InStep, Consecutive
  <2>7. waiting'.block1
    <3>1. Fits(waiting') /\ waiting'.num < Blocks[waiting'.transfer]
      BY <2>2 DEF Sent, Fresh, Fits
    <3> QED BY <2>1, <2>2, <3>1 DEF Fits
  <2> QED BY <1>6, <2>2, <2>5, <2>6, <2>7
<1>11. CASE pings' = pings + 1
  BY <1>1, <1>11
<1>12. CASE Stale /\ waiting = NULL /\ UNCHANGED <<waiting, outcome>>
  BY <1>1, <1>2, <1>5, <1>12 DEF InStep, TypeInv, TypeOK
<1> QED BY <1>1, <1>7, <1>8, <1>9, <1>10, <1>11, <1>12, OthersCases

LEMMA StepNext == StepInv /\ [Next]_vars => StepInv'
<1> SUFFICES ASSUME StepInv, [Next]_vars PROVE StepInv'
  OBVIOUS
<1>1. WholeInv' /\ InOrder'
  BY WholeNext, InOrderNext DEF StepInv, WholeInv, OrderInv
<1>2. ASSUME ~overtaken', pings' = 0, ~wrapped' PROVE InStep'
  <2>1. ~wrapped /\ pings = 0
    BY <1>2, Before DEF StepInv, WholeInv
  <2> QED BY <1>2, <2>1, HandlerInStep, OthersInStep
<1> QED BY <1>1, <1>2 DEF StepInv

LEMMA StepInit == Init => StepInv
<1>1. Init => InStep
  BY DEF Init, InStep, Consecutive, AnsweredIsStored, Known
<1> QED BY <1>1, WholeInit, OrderInit DEF StepInv, OrderInv

\* While no datagram overtakes another, no ping takes a message id and none is used
\* again, no client is told to begin again, whatever is lost and repeated.
THEOREM NoneIncomplete == Spec => []NoNeedlessIncomplete
<1>1. StepInv => NoNeedlessIncomplete
  BY DEF StepInv, InStep, NoNeedlessIncomplete
<1> QED BY <1>1, StepInit, StepNext, PTL DEF Spec
=============================================================================
