------------------------- MODULE UserScript_proofs -------------------------
(* Proofs about UserScript, for any bodies and any number of calls. *)
EXTENDS UserScript, SequenceTheorems, TLAPS

Point   == [measurement : Part, sensor : {NULL} \cup Part, value : Int]
DbName  == Part \cup {<<"main">>}
Writing == [pack : Seq(Record), points : Seq(Point), db : DbName]

\* The records of a body up to the n-th that have a name.
NamedUpTo(p, n) == {i \in Named(p) : i <= n}

\* The script's globals and the base name are those of the records so far.
Parsed ==
  stage # "idle" /\ data # Garbled =>
    /\ basename = BaseAt(data, next - 1)
    /\ Mean(body, data, NamedUpTo(data, next - 1))
    /\ Names(db, data, NamedUpTo(data, next - 1))

\* Each call takes one reference, and releases one or two.
Counted ==
  /\ calls \in 0..MaxCalls
  /\ stage = "idle" => held \in -calls..0 /\ Len(written) <= calls
  /\ stage # "idle" => held \in 2 - calls..1 /\ Len(written) < calls

Typed ==
  /\ stage \in {"idle", "parse", "write"} /\ data \in Packs \cup {<<>>}
  /\ next \in 1..(IF data = Garbled THEN 1 ELSE Len(data) + 1)
  /\ stage = "write" => data # Garbled /\ next = Len(data) + 1
  /\ alive \in BOOLEAN /\ basename \in Name
  /\ body \in Seq(Point) /\ db \in DbName /\ written \in Seq(Writing)

Inv == Typed /\ Counted /\ Parsed /\ WrittenIsMeant /\ DbIsNamed

-----------------------------------------------------------------------------
(* Names.                                                                  *)

LEMMA NameIs ==
  ASSUME NEW s \in Name
  PROVE  /\ s \in Seq(Part) /\ Len(s) \in Nat \ {0} /\ DOMAIN s = 1..Len(s)
         /\ \A i \in 1..Len(s) : s[i] \in Part
BY DEF Name

LEMMA JoinIsName ==
  ASSUME NEW base \in Name, NEW name \in Name
  PROVE  Join(base, name) \in Name
<1>1. Last(base) \in Part /\ Head(name) \in Part
  BY NameIs DEF Last
<1>2. Last(base) \o Head(name) \in Part
  BY <1>1 DEF Part
<1>3. Front(base) \in Seq(Part)
  BY NameIs, SubSeqProperties DEF Front
<1>4. Tail(name) \in Seq(Part)
  BY NameIs
<1> DEFINE m == <<Last(base) \o Head(name)>>
<1>5. m \in Seq(Part) /\ Len(m) = 1
  BY <1>2
<1> HIDE DEF m
<1>7. /\ (Front(base) \o m) \o Tail(name) \in Seq(Part)
      /\ Len((Front(base) \o m) \o Tail(name)) = Len(Front(base)) + 1 + Len(Tail(name))
  <2> DEFINE f == Front(base)
             t == Tail(name)
  <2>1. f \in Seq(Part) /\ t \in Seq(Part)
    BY <1>3, <1>4
  <2> HIDE DEF f, t
  <2>2. f \o m \in Seq(Part) /\ Len(f \o m) = Len(f) + 1
    <3>1. m \in Seq(Part)
      BY <1>5
    <3>2. f \o m \in Seq(Part) /\ Len(f \o m) = Len(f) + Len(m)
      BY <2>1, <3>1
    <3> QED BY <1>5, <3>2
  <2>3. (f \o m) \o t \in Seq(Part) /\ Len((f \o m) \o t) = Len(f) + 1 + Len(t)
    <3> DEFINE fm == f \o m
    <3>1. fm \in Seq(Part)
      BY <2>2
    <3> HIDE DEF fm
    <3>2. fm \o t \in Seq(Part) /\ Len(fm \o t) = Len(fm) + Len(t)
      BY <2>1, <3>1
    <3> QED BY <2>2, <3>2 DEF fm
  <2> QED BY <2>3 DEF f, t
<1>8. Len(Front(base)) \in Nat /\ Len(Tail(name)) \in Nat
  BY <1>3, <1>4
<1>9. Front(base) \o m \o Tail(name) # <<>>
  BY <1>7, <1>8
<1> QED BY <1>7, <1>9 DEF Join, Name, m

LEMMA PointAndDb ==
  ASSUME NEW name \in Name, NEW v \in {NULL} \cup Int
  PROVE  get_body(name, v) \in Point /\ get_db_name(name) \in DbName
<1>1. Last(name) \in Part
  BY NameIs DEF Last
<1>2. Len(name) >= 2 => name[Len(name) - 1] \in Part
  BY NameIs
<1>3. Len(name) >= 3 => name[Len(name) - 2] \in Part
  BY NameIs
<1> QED BY <1>1, <1>2, <1>3 DEF get_body, get_db_name, Point, DbName

\* What a record means depends on the records up to it only.
LEMMA BaseGoesOn ==
  ASSUME NEW p \in Seq(Record), NEW n \in 1..Len(p)
  PROVE  BaseAt(p, n) = IF p[n].bn = NULL THEN BaseAt(p, n - 1) ELSE p[n].bn
<1> DEFINE Given(i) == {k \in 1..i : p[k].bn # NULL}
<1>1. Len(p) \in Nat
  OBVIOUS
<1>2. CASE p[n].bn = NULL
  <2>1. Given(n) = Given(n - 1)
    BY <1>1, <1>2
  <2> QED BY <1>2, <2>1 DEF BaseAt
<1>3. CASE p[n].bn # NULL
  <2>1. n \in Given(n) /\ Given(n) \subseteq 1..n
    BY <1>1, <1>3
  <2>2. Max(Given(n)) = n
    <3>1. \A x \in Given(n) : (\A y \in Given(n) : x >= y) <=> x = n
      BY <2>1
    <3> HIDE DEF Given
    <3> QED BY <2>1, <3>1 DEF Max
  <2> QED BY <1>3, <2>1, <2>2 DEF BaseAt
<1> QED BY <1>2, <1>3

LEMMA NamesGoOn ==
  ASSUME NEW p \in Seq(Record), NEW n \in 1..Len(p)
  PROVE  /\ NamedUpTo(p, n) = IF p[n].n = NULL THEN NamedUpTo(p, n - 1)
                                               ELSE NamedUpTo(p, n - 1) \cup {n}
         /\ n \notin NamedUpTo(p, n - 1)
         /\ \A i \in NamedUpTo(p, n - 1) : i \in Nat /\ i < n
BY DEF NamedUpTo, Named

LEMMA NoneAndAll ==
  ASSUME NEW p \in Seq(Record)
  PROVE  NamedUpTo(p, 0) = {} /\ NamedUpTo(p, Len(p)) = Named(p)
BY DEF NamedUpTo, Named

-----------------------------------------------------------------------------
(* Points.                                                                 *)

\* The script's list with the point of one more record.
LEMMA MeansOneMore ==
  ASSUME NEW p \in Seq(Record), NEW n \in 1..Len(p), p[n].n # NULL,
         NEW points \in Seq(Point), Mean(points, p, NamedUpTo(p, n - 1)),
         NEW point \in Point, point = get_body(FullName(p, n), p[n].v)
  PROVE  Mean(Append(points, point), p, NamedUpTo(p, n))
<1> DEFINE N == NamedUpTo(p, n - 1)
           L == Len(points)
           more == Append(points, point)
<1>1. PICK at \in [DOMAIN points -> N] :
        /\ Range(at) = N
        /\ \A k, l \in DOMAIN points : k < l => at[k] < at[l]
        /\ \A k \in DOMAIN points : points[k] = get_body(FullName(p, at[k]), p[at[k]].v)
  BY DEF Mean
<1>2. NamedUpTo(p, n) = N \cup {n} /\ \A i \in N : i \in Nat /\ i < n
  BY NamesGoOn
<1>3. /\ L \in Nat /\ DOMAIN points = 1..L /\ DOMAIN more = 1..L + 1
      /\ \A k \in 1..L : more[k] = points[k]
      /\ more[L + 1] = point
  OBVIOUS
<1> DEFINE to == [k \in 1..L + 1 |-> IF k = L + 1 THEN n ELSE at[k]]
<1> HIDE DEF N, L, more
<1>4. /\ to[L + 1] = n /\ \A k \in 1..L : to[k] = at[k] /\ at[k] \in N
      /\ to \in [DOMAIN more -> N \cup {n}] /\ DOMAIN to = 1..L + 1
  BY <1>1, <1>3
<1>5. Range(to) = N \cup {n}
  <2>1. \A i \in N : \E k \in 1..L : at[k] = i
    BY <1>1, <1>3 DEF Range
  <2> HIDE DEF to
  <2>2. \A i \in N \cup {n} : \E k \in 1..L + 1 : to[k] = i
    BY <1>3, <1>4, <2>1
  <2> QED BY <1>3, <1>4, <2>2 DEF Range
<1> HIDE DEF to
<1>6. \A k, l \in DOMAIN more : k < l => to[k] < to[l]
  <2>1. ASSUME NEW k \in 1..L PROVE to[k] < to[L + 1]
    BY <1>2, <1>4
  <2>2. ASSUME NEW k \in 1..L, NEW l \in 1..L, k < l PROVE to[k] < to[l]
    <3>1. at[k] < at[l]
      BY <1>1, <1>3, <2>2
    <3> QED BY <1>4, <3>1
  <2> QED BY <1>3, <2>1, <2>2
<1>7. \A k \in DOMAIN more : more[k] = get_body(FullName(p, to[k]), p[to[k]].v)
  <2>1. more[L + 1] = get_body(FullName(p, to[L + 1]), p[to[L + 1]].v)
    BY <1>3, <1>4
  <2>2. ASSUME NEW k \in 1..L PROVE more[k] = get_body(FullName(p, to[k]), p[to[k]].v)
    BY <1>1, <1>3, <1>4
  <2> QED BY <1>3, <2>1, <2>2
<1>8. Mean(more, p, N \cup {n})
  BY <1>4, <1>5, <1>6, <1>7 DEF Mean
<1> QED BY <1>2, <1>8 DEF more

LEMMA NothingMeant ==
  ASSUME NEW p
  PROVE  Mean(<<>>, p, {}) /\ Names(<<>>, p, {})
<1>1. Names(<<>>, p, {})
  BY DEF Names
<1> DEFINE at == [k \in {} |-> k]
<1>2. DOMAIN <<>> = {}
  OBVIOUS
<1>3. at \in [DOMAIN <<>> -> {}] /\ Range(at) = {}
  BY <1>2 DEF Range
<1>4. Mean(<<>>, p, {})
  BY <1>2, <1>3 DEF Mean
<1> QED BY <1>1, <1>4

-----------------------------------------------------------------------------
(* The steps.                                                              *)

LEMMA RecordIs ==
  ASSUME NEW p \in Seq(Record), NEW i \in 1..Len(p)
  PROVE  /\ p[i].bn \in {NULL} \cup Name /\ p[i].n \in {NULL} \cup Name
         /\ p[i].v \in {NULL} \cup Int /\ p[i].valid \in BOOLEAN
<1>1. p[i] \in Record
  OBVIOUS
<1> QED BY <1>1 DEF Record

LEMMA DataIs ==
  ASSUME Typed, data # Garbled
  PROVE  data \in Seq(Record) /\ Len(data) \in Nat /\ next \in 1..Len(data) + 1
<1>1. data \in Seq(Record)
  <2>1. CASE data \in Packs
    BY <2>1, ScriptAssumption
  <2>2. CASE data = <<>>
    BY <2>2
  <2> QED BY <2>1, <2>2 DEF Typed
<1> QED BY <1>1 DEF Typed

LEMMA Unparsed ==
  ASSUME Inv, UNCHANGED <<globals, data, next, basename, written, body, db>>, Typed', Counted',
         stage' # "idle" => stage # "idle"
  PROVE  Inv'
BY DEF Inv, Parsed, WrittenIsMeant, DbIsNamed

LEMMA InitInv == Init => Inv
<1> SUFFICES ASSUME Init PROVE Inv
  OBVIOUS
<1>1. Empty \in Name
  <2>1. <<>> \in Part
    BY DEF Part
  <2> QED BY <2>1 DEF Empty, Name
<1>2. next \in 1..(IF data = Garbled THEN 1 ELSE Len(data) + 1)
  <2>1. data = <<>> /\ next = 1
    BY DEF Init
  <2> QED BY <2>1
<1>3. Typed
  <2>1. db \in DbName
    BY DEF Init, DbName, Part
  <2> QED BY <1>1, <1>2, <2>1 DEF Init, Typed
<1>4. Counted
  BY ScriptAssumption DEF Init, Counted
<1> QED BY <1>3, <1>4 DEF Init, Inv, Parsed, WrittenIsMeant, DbIsNamed

LEMMA CallBegins ==
  ASSUME Inv, NEW pack \in Packs, process_data(pack)
  PROVE  Inv'
<1>1. /\ stage = "idle" /\ calls < MaxCalls /\ calls' = calls + 1 /\ held' = held + 1
      /\ stage' = "parse" /\ data' = pack /\ next' = 1 /\ basename' = Empty
      /\ db' = <<>> /\ body' = <<>> /\ UNCHANGED <<alive, written>>
  BY DEF process_data, Reset
<1>2. Typed'
  <2>1. Empty \in Name
    <3>1. <<>> \in Part
      BY DEF Part
    <3> QED BY <3>1 DEF Empty, Name
  <2>2. next' \in 1..(IF data' = Garbled THEN 1 ELSE Len(data') + 1)
    <3>1. pack # Garbled => Len(pack) \in Nat
      BY ScriptAssumption
    <3> QED BY <1>1, <3>1
  <2>3. db' \in DbName /\ body' \in Seq(Point)
    BY <1>1 DEF DbName, Part
  <2> QED BY <1>1, <2>1, <2>2, <2>3 DEF Inv, Typed
<1>3. Counted'
  <2>1. held \in -calls..0 /\ Len(written) <= calls /\ calls \in 0..MaxCalls
        /\ Len(written) \in Nat
    BY <1>1 DEF Inv, Counted, Typed
  <2> QED BY <1>1, <2>1, ScriptAssumption DEF Counted
<1>4. Parsed'
  <2> SUFFICES ASSUME data' # Garbled
               PROVE  /\ basename' = BaseAt(data', 0)
                      /\ Mean(body', data', NamedUpTo(data', 0))
                      /\ Names(db', data', NamedUpTo(data', 0))
    BY <1>1 DEF Parsed
  <2>1. NamedUpTo(pack, 0) = {}
    BY <1>1, ScriptAssumption, NoneAndAll
  <2>2. BaseAt(pack, 0) = Empty
    BY DEF BaseAt
  <2> QED BY <1>1, <2>1, <2>2, NothingMeant
<1> QED BY <1>1, <1>2, <1>3, <1>4 DEF Inv, WrittenIsMeant, DbIsNamed

LEMMA RecordParsed ==
  ASSUME Inv, ParseRecord
  PROVE  Inv'
<1>1. /\ stage = "parse" /\ data # Garbled /\ next <= Len(data) /\ next' = next + 1
      /\ UNCHANGED <<calls, stage, data, held, alive, written>>
  BY DEF ParseRecord
<1>2. data \in Seq(Record) /\ next \in 1..Len(data) /\ Len(data) \in Nat
  BY <1>1, DataIs DEF Inv
<1> DEFINE record == data[next]
           base == IF record.bn = NULL THEN basename ELSE record.bn
           name == Join(base, record.n)
<1>3. /\ basename = BaseAt(data, next - 1)
      /\ Mean(body, data, NamedUpTo(data, next - 1))
      /\ Names(db, data, NamedUpTo(data, next - 1))
  BY <1>1 DEF Inv, Parsed
<1>4. base \in Name /\ basename' = base
  <2>1. basename' = base
    BY DEF ParseRecord
  <2> QED BY <1>2, <2>1, RecordIs DEF Inv, Typed
<1>5. base = BaseAt(data, next)
  BY <1>2, <1>3, BaseGoesOn
<1>6. /\ record.n = NULL => UNCHANGED globals
      /\ record.n # NULL => parser_callback(name, record.v)
  BY DEF ParseRecord
<1> HIDE DEF base
<1>7. name = FullName(data, next)
  BY <1>5 DEF FullName
<1> HIDE DEF name
<1>8. record.n # NULL => name \in Name
  BY <1>2, <1>4, RecordIs, JoinIsName DEF name
<1>9. CASE record.n = NULL
  <2>1. body' = body /\ db' = db
    BY <1>6, <1>9 DEF globals
  <2>2. NamedUpTo(data, next) = NamedUpTo(data, next - 1)
    BY <1>2, <1>9, NamesGoOn
  <2>3. Mean(body', data, NamedUpTo(data, next)) /\ Names(db', data, NamedUpTo(data, next))
    BY <1>3, <2>1, <2>2
  <2>4. Parsed'
    BY <1>1, <1>2, <1>4, <1>5, <2>3 DEF Parsed
  <2>5. Typed'
    BY <1>1, <1>2, <1>4, <2>1 DEF Inv, Typed
  <2> QED BY <1>1, <2>4, <2>5 DEF Inv, Counted, WrittenIsMeant, DbIsNamed
<1>10. CASE record.n # NULL
  <2> DEFINE point == get_body(name, record.v)
  <2>1. db' = get_db_name(name) /\ body' = Append(body, point)
    BY <1>6, <1>10 DEF parser_callback
  <2>2. point \in Point /\ get_db_name(name) \in DbName
    BY <1>2, <1>8, <1>10, RecordIs, PointAndDb
  <2>3. point = get_body(FullName(data, next), data[next].v)
    BY <1>7
  <2> HIDE DEF point
  <2>4. body \in Seq(Point)
    BY DEF Inv, Typed
  <2>5. Mean(body', data, NamedUpTo(data, next))
    BY <1>2, <1>3, <1>10, <2>1, <2>2, <2>3, <2>4, MeansOneMore
  <2>6. Names(db', data, NamedUpTo(data, next))
    <3>1. next \in NamedUpTo(data, next)
      BY <1>2, <1>10, NamesGoOn
    <3> QED BY <1>7, <2>1, <3>1 DEF Names
  <2>7. Parsed'
    BY <1>1, <1>2, <1>4, <1>5, <2>5, <2>6 DEF Parsed
  <2>8. body' \in Seq(Point)
    BY <2>1, <2>2, <2>4
  <2>9. Typed'
    BY <1>1, <1>2, <1>4, <2>1, <2>2, <2>8 DEF Inv, Typed
  <2> QED BY <1>1, <2>7, <2>9 DEF Inv, Counted, WrittenIsMeant, DbIsNamed
<1> QED BY <1>9, <1>10

LEMMA Written ==
  ASSUME Inv, Write
  PROVE  Inv'
<1> DEFINE w == [pack |-> data, points |-> body, db |-> db]
<1>1. /\ stage = "write" /\ stage' = "idle" /\ held' = held - 1 /\ written' = Append(written, w)
      /\ UNCHANGED <<globals, calls, data, next, basename, alive, body, db>>
  BY DEF Write, globals
<1>2. data # Garbled /\ next = Len(data) + 1
  BY <1>1 DEF Inv, Typed
<1>3. data \in Seq(Record) /\ Len(data) \in Nat
  BY <1>2, DataIs DEF Inv
<1>4. Mean(body, data, Named(data)) /\ Names(db, data, Named(data))
  <2>1. NamedUpTo(data, next - 1) = Named(data)
    BY <1>2, <1>3, NoneAndAll
  <2> QED BY <1>1, <1>2, <2>1 DEF Inv, Parsed
<1>5. w \in Writing /\ w.pack = data /\ w.points = body /\ w.db = db
  BY <1>3 DEF Inv, Typed, Writing
<1> HIDE DEF w
<1>6. written \in Seq(Writing)
  BY DEF Inv, Typed
<1>7. /\ written' \in Seq(Writing) /\ Len(written') = Len(written) + 1 /\ Len(written) \in Nat
      /\ DOMAIN written' = 1..Len(written) + 1 /\ DOMAIN written = 1..Len(written)
      /\ \A i \in 1..Len(written) : written'[i] = written[i]
      /\ written'[Len(written) + 1] = w
  BY <1>1, <1>5, <1>6
<1>8. Typed'
  BY <1>1, <1>7 DEF Inv, Typed
<1>9. Counted'
  <2>1. held \in 2 - calls..1 /\ Len(written) < calls /\ calls \in 0..MaxCalls
    BY <1>1 DEF Inv, Counted
  <2> QED BY <1>1, <1>7, <2>1, ScriptAssumption DEF Counted
<1>10. WrittenIsMeant'
  <2>1. \A i \in DOMAIN written : Mean(written[i].points, written[i].pack, Named(written[i].pack))
    BY DEF Inv, WrittenIsMeant
  <2> QED BY <1>4, <1>5, <1>7, <2>1 DEF WrittenIsMeant
<1>11. DbIsNamed'
  <2>1. \A i \in DOMAIN written : Names(written[i].db, written[i].pack, Named(written[i].pack))
    BY DEF Inv, DbIsNamed
  <2> QED BY <1>4, <1>5, <1>7, <2>1 DEF DbIsNamed
<1> QED BY <1>1, <1>8, <1>9, <1>10, <1>11 DEF Inv, Parsed

LEMMA NextInv == Inv /\ [Next]_vars => Inv'
<1> SUFFICES ASSUME Inv, [Next]_vars PROVE Inv'
  OBVIOUS
<1>1. CASE ParsingEnds
  <2>1. /\ stage = "parse" /\ data # Garbled /\ next > Len(data) /\ stage' = "write"
        /\ UNCHANGED <<globals, body, db, calls, data, next, basename, held, alive, written>>
    BY <1>1 DEF ParsingEnds, globals
  <2>2. next \in 1..Len(data) + 1 /\ Len(data) \in Nat
    BY <2>1, DataIs DEF Inv
  <2>3. Typed'
    BY <2>1, <2>2 DEF Inv, Typed
  <2>4. Counted'
    BY <2>1 DEF Inv, Counted
  <2> QED BY <2>1, <2>3, <2>4, Unparsed
<1>2. CASE Raise
  <2>1. /\ stage \in {"parse", "write"} /\ stage' = "idle" /\ held' = held - 2 /\ alive' \in BOOLEAN
        /\ UNCHANGED <<globals, body, db, calls, data, next, basename, written>>
    BY <1>2 DEF Raise, globals
  <2>2. Typed'
    BY <2>1 DEF Inv, Typed
  <2>3. Counted'
    <3>1. held \in 2 - calls..1 /\ Len(written) < calls /\ calls \in 0..MaxCalls /\ Len(written) \in Nat
      BY <2>1 DEF Inv, Counted, Typed
    <3> QED BY <2>1, <3>1, ScriptAssumption DEF Counted
  <2> QED BY <2>1, <2>2, <2>3, Unparsed
<1>3. CASE UNCHANGED vars
  <2>1. UNCHANGED <<globals, body, db, stage, data, next, basename, held, calls, alive, written>>
    BY <1>3 DEF vars, globals
  <2>2. Typed' /\ Counted'
    BY <2>1 DEF Inv, Typed, Counted
  <2> QED BY <2>1, <2>2, Unparsed
<1> QED BY <1>1, <1>2, <1>3, CallBegins, RecordParsed, Written DEF Next

LEMMA AlwaysInv == Spec => []Inv
BY InitInv, NextInv, PTL DEF Spec

-----------------------------------------------------------------------------

\* Every variable keeps its type: the parser stays within the body, and however
\* calls end, each releases one reference too many at most.
THEOREM TypeCorrect == Spec => []TypeOK
<1>1. Inv => TypeOK
  <2> SUFFICES ASSUME Inv PROVE TypeOK
    OBVIOUS
  <2>1. held \in -MaxCalls..1 /\ Len(written) <= MaxCalls
    <3>1. Len(written) \in Nat
      BY DEF Inv, Typed
    <3>2. calls \in 0..MaxCalls /\ (held \in -calls..0 \/ held \in 2 - calls..1)
          /\ Len(written) <= calls
      BY <3>1 DEF Inv, Counted
    <3> QED BY <3>1, <3>2, ScriptAssumption
  <2>2. \A i \in DOMAIN body : DOMAIN body[i] = {"measurement", "sensor", "value"}
    <3>1. \A i \in DOMAIN body : body[i] \in Point
      BY DEF Inv, Typed
    <3> QED BY <3>1 DEF Point
  <2> QED BY <2>1, <2>2 DEF Inv, Typed, TypeOK
<1> QED BY <1>1, AlwaysInv, PTL

\* What process_data writes of a body is what its records mean by themselves, for
\* any sequence of bodies, of which any may end with an exception.
THEOREM WritesWhatIsMeant == Spec => []WrittenIsMeant
BY AlwaysInv, PTL DEF Inv

\* A record of the body that is written has named the database it is written to.
THEOREM WritesWhereNamed == Spec => []DbIsNamed
BY AlwaysInv, PTL DEF Inv
=============================================================================
