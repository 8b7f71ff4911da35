------------------------ MODULE ContextTable_proofs ------------------------
(* Lemmas about the table of contexts. *)
EXTENDS ContextTable, FiniteSetTheorems, WellFoundedInduction, TLAPS

\* What a descriptor stands for in a table.
At(list, d) == IF d \in 0..Len(list) - 1 THEN list[d + 1] ELSE NULL

\* Each context that has not been freed is in the table, once, and nothing else is;
\* the table is no longer than contexts were created.
Named ==
  /\ \A i \in DOMAIN context_list : context_list[i] \in live \cup {NULL}
  /\ \A c \in live : \E i \in DOMAIN context_list : context_list[i] = c
  /\ \A i, j \in DOMAIN context_list :
       context_list[i] = context_list[j] /\ context_list[i] # NULL => i = j
  /\ live \subseteq 1..created
  /\ Len(context_list) <= created

-----------------------------------------------------------------------------

\* A set of natural numbers has a least element.
LEMMA MinOfSome ==
  ASSUME NEW S, S \subseteq Nat, S # {}
  PROVE  Min(S) \in S /\ \A n \in S : Min(S) <= n
<1> DEFINE Upto == {0..n : n \in S}
<1>1. Upto \subseteq FiniteSubsetsOf(Nat) /\ Upto # {}
  <2>1. ASSUME NEW n \in S PROVE 0..n \in SUBSET Nat /\ IsFiniteSet(0..n)
    <3>1. n \in Int /\ 0 \in Int
      OBVIOUS
    <3> QED BY <3>1, FS_Interval
  <2> QED BY <2>1 DEF FiniteSubsetsOf
<1>2. IsWellFoundedOn(StrictSubsetOrdering(Nat), FiniteSubsetsOf(Nat))
  BY FS_StrictSubsetOrderingWellFounded
<1>3. PICK I \in Upto : \A J \in Upto : <<J, I>> \notin StrictSubsetOrdering(Nat)
  <2> HIDE DEF Upto
  <2> QED BY <1>1, <1>2, WFMin
<1>4. PICK m \in S : I = 0..m
  OBVIOUS
<1>5. ASSUME NEW n \in S, n < m PROVE FALSE
  <2>1. 0..n \in Upto
    OBVIOUS
  <2>2. 0..n \subseteq 0..m /\ m \in 0..m /\ m \notin 0..n
    BY <1>5
  <2>3. 0..n \in SUBSET Nat /\ 0..m \in SUBSET Nat /\ 0..n # 0..m
    BY <2>2
  <2>4. <<0..n, 0..m>> \in StrictSubsetOrdering(Nat)
    BY <2>2, <2>3 DEF StrictSubsetOrdering
  <2> HIDE DEF Upto
  <2> QED BY <2>1, <2>4, <1>3, <1>4
<1>6. \A n \in S : m <= n
  BY <1>5
<1> QED BY <1>6 DEF Min

LEMMA ContextAtIs ==
  ASSUME NEW d \in Int
  PROVE  ContextAt(d) = At(context_list, d)
BY DEF ContextAt, context_descriptor_invalid, At

\* The next descriptor is that of a free spot, or the one behind the last.
LEMMA NewSpot ==
  ASSUME TableTypeOK
  PROVE  /\ NewDescriptor \in 0..Len(context_list)
         /\ FreeSpots = {} => NewDescriptor = Len(context_list)
         /\ FreeSpots # {} => /\ NewDescriptor < Len(context_list)
                              /\ context_list[NewDescriptor + 1] = NULL
<1>1. Len(context_list) \in Nat
  BY DEF TableTypeOK
<1>2. CASE FreeSpots = {}
  BY <1>1, <1>2 DEF NewDescriptor
<1>3. CASE FreeSpots # {}
  <2>1. FreeSpots \subseteq 1..Len(context_list)
    BY DEF FreeSpots, TableTypeOK
  <2>2. Min(FreeSpots) \in FreeSpots
    <3>1. FreeSpots \subseteq Nat
      BY <1>1, <2>1
    <3> QED BY <1>3, <3>1, MinOfSome
  <2>3. context_list[Min(FreeSpots)] = NULL
    BY <2>2 DEF FreeSpots
  <2>4. Min(FreeSpots) \in 1..Len(context_list)
    BY <2>1, <2>2
  <2>5. NewDescriptor = Min(FreeSpots) - 1
    BY <1>3 DEF NewDescriptor
  <2> HIDE DEF NewDescriptor
  <2> QED BY <1>1, <1>3, <2>3, <2>4, <2>5
<1> QED BY <1>2, <1>3

\* A context that is created gets the next descriptor; others keep theirs, and the
\* table grows by one at most, and only when it has no free spot.
LEMMA CreateInTable ==
  ASSUME TableTypeOK, Named, NEW things, CreateContext(things)
  PROVE  /\ NewDescriptor \in 0..MaxContexts - 1
         /\ created + 1 \in Context /\ created + 1 \notin live
         /\ At(context_list', NewDescriptor) = created + 1
         /\ At(context_list, NewDescriptor) = NULL
         /\ \A d \in Int : d # NewDescriptor => At(context_list', d) = At(context_list, d)
         /\ context_list' \in Seq(Context \cup {NULL})
         /\ Len(context_list') <= Len(context_list) + 1
         /\ Len(context_list') # Len(context_list) => FreeSpots = {}
         /\ Named'
<1> DEFINE n == created + 1
           d0 == NewDescriptor
<1>1. n \in Context /\ n \notin live /\ n # NULL /\ created \in Nat
  BY TableAssumption DEF TableTypeOK, CreateContext, Context, Named
<1>2. context_list \in Seq(Context \cup {NULL}) /\ Len(context_list) \in Nat
  BY DEF TableTypeOK
<1>3. d0 \in 0..Len(context_list) /\ d0 \in 0..MaxContexts - 1
  <2>1. Len(context_list) \in 0..MaxContexts - 1
    BY <1>1, <1>2, TableAssumption DEF Named, CreateContext
  <2> QED BY <1>2, <2>1, TableAssumption, NewSpot
<1>4. CASE d0 = Len(context_list)
  <2>1. context_list' = Append(context_list, n) /\ FreeSpots = {}
    BY <1>4, <1>2, NewSpot DEF CreateContext
  <2>2. /\ context_list' \in Seq(Context \cup {NULL})
        /\ Len(context_list') = Len(context_list) + 1
        /\ context_list'[Len(context_list) + 1] = n
        /\ \A i \in 1..Len(context_list) : context_list'[i] = context_list[i]
        /\ DOMAIN context_list' = 1..Len(context_list) + 1
        /\ DOMAIN context_list = 1..Len(context_list)
    BY <2>1, <1>1, <1>2
  <2>3. /\ At(context_list', d0) = n /\ At(context_list, d0) = NULL
        /\ \A d \in Int : d # d0 => At(context_list', d) = At(context_list, d)
    BY <1>2, <1>3, <1>4, <2>2 DEF At
  <2>4. live' = live \cup {n} /\ created' = n
    BY DEF CreateContext
  <2>5. Named'
    <3>1. \A i \in DOMAIN context_list' : context_list'[i] \in live' \cup {NULL}
      BY <1>2, <2>2, <2>4 DEF Named
    <3>2. \A c \in live' : \E i \in DOMAIN context_list' : context_list'[i] = c
      BY <1>2, <2>2, <2>4 DEF Named
    <3>3. \A i, j \in DOMAIN context_list' :
             context_list'[i] = context_list'[j] /\ context_list'[i] # NULL => i = j
      BY <1>1, <1>2, <2>2, <2>4 DEF Named
    <3>4. live' \subseteq 1..created' /\ Len(context_list') <= created'
      BY <1>1, <1>2, <2>2, <2>4 DEF Named
    <3> QED BY <3>1, <3>2, <3>3, <3>4 DEF Named
  <2> QED BY <1>1, <1>2, <1>3, <2>1, <2>2, <2>3, <2>5
<1>5. CASE d0 # Len(context_list)
  <2>1. context_list' = [context_list EXCEPT ![d0 + 1] = n]
        /\ d0 + 1 \in 1..Len(context_list) /\ context_list[d0 + 1] = NULL
    BY <1>5, <1>2, <1>3, NewSpot DEF CreateContext
  <2>2. /\ context_list' \in Seq(Context \cup {NULL})
        /\ Len(context_list') = Len(context_list)
        /\ context_list'[d0 + 1] = n
        /\ \A i \in 1..Len(context_list) : i # d0 + 1 => context_list'[i] = context_list[i]
        /\ DOMAIN context_list' = 1..Len(context_list)
        /\ DOMAIN context_list = 1..Len(context_list)
    BY <2>1, <1>1, <1>2
  <2>3. /\ At(context_list', d0) = n /\ At(context_list, d0) = NULL
        /\ \A d \in Int : d # d0 => At(context_list', d) = At(context_list, d)
    <3>1. At(context_list', d0) = n /\ At(context_list, d0) = NULL
      <4>1. d0 \in 0..Len(context_list) - 1
        BY <1>2, <1>3, <1>5
      <4> HIDE DEF d0, n
      <4> QED BY <4>1, <2>1, <2>2 DEF At
    <3>2. ASSUME NEW d \in Int, d # d0 PROVE At(context_list', d) = At(context_list, d)
      <4>1. d \in 0..Len(context_list) - 1 =>
              d + 1 \in 1..Len(context_list) /\ d + 1 # d0 + 1
        BY <1>2, <1>3, <3>2
      <4> QED BY <4>1, <2>2 DEF At
    <3> QED BY <3>1, <3>2
  <2>4. live' = live \cup {n} /\ created' = n
    BY DEF CreateContext
  <2>5. Named'
    <3>1. \A i \in DOMAIN context_list' : context_list'[i] \in live' \cup {NULL}
      BY <1>2, <2>2, <2>4 DEF Named
    <3>2. \A c \in live' : \E i \in DOMAIN context_list' : context_list'[i] = c
      <4>1. NULL \notin live
        BY <1>1, TableAssumption DEF Named, TableTypeOK
      <4>2. ASSUME NEW c \in live PROVE \E i \in DOMAIN context_list' : context_list'[i] = c
        <5>1. PICK i \in DOMAIN context_list : context_list[i] = c
          BY DEF Named
        <5>2. i # d0 + 1
          BY <4>1, <5>1, <2>1
        <5> QED BY <5>1, <5>2, <2>2
      <4> QED BY <4>2, <2>1, <2>2, <2>4
    <3>3. \A i, j \in DOMAIN context_list' :
             context_list'[i] = context_list'[j] /\ context_list'[i] # NULL => i = j
      BY <1>1, <1>2, <2>2, <2>4 DEF Named
    <3>4. live' \subseteq 1..created' /\ Len(context_list') <= created'
      BY <1>1, <1>2, <2>2, <2>4 DEF Named
    <3> QED BY <3>1, <3>2, <3>3, <3>4 DEF Named
  <2> QED BY <1>1, <1>2, <1>3, <2>2, <2>3, <2>5
<1> QED BY <1>4, <1>5

\* Releasing a context frees its spot; others keep theirs.
LEMMA ReleaseInTable ==
  ASSUME TableTypeOK, Named, NEW d \in Int, At(context_list, d) # NULL, ReleaseContext(d)
  PROVE  /\ live' = live \ {At(context_list, d)} /\ UNCHANGED created
         /\ attached' = [c \in Context |->
                           IF c = At(context_list, d) THEN {} ELSE attached[c]]
         /\ At(context_list', d) = NULL
         /\ \A e \in Int : e # d => At(context_list', e) = At(context_list, e)
         /\ context_list' \in Seq(Context \cup {NULL})
         /\ Len(context_list') = Len(context_list)
         /\ Named'
<1> DEFINE x == At(context_list, d)
<1>1. context_list \in Seq(Context \cup {NULL}) /\ Len(context_list) \in Nat
  BY DEF TableTypeOK
<1>2. d + 1 \in 1..Len(context_list) /\ context_list[d + 1] = x
  BY <1>1 DEF At
<1>3. ~context_descriptor_invalid(d) /\ ContextAt(d) = x
  BY <1>1, <1>2 DEF context_descriptor_invalid, ContextAt, At
<1>4. /\ context_list' = [context_list EXCEPT ![d + 1] = NULL]
      /\ live' = live \ {x} /\ UNCHANGED created
      /\ attached' = [c \in Context |-> IF c = x THEN {} ELSE attached[c]]
  BY <1>3 DEF ReleaseContext
<1>5. /\ context_list' \in Seq(Context \cup {NULL})
      /\ Len(context_list') = Len(context_list)
      /\ context_list'[d + 1] = NULL
      /\ \A i \in 1..Len(context_list) : i # d + 1 => context_list'[i] = context_list[i]
      /\ DOMAIN context_list' = 1..Len(context_list)
      /\ DOMAIN context_list = 1..Len(context_list)
  BY <1>1, <1>2, <1>4
<1>6. /\ At(context_list', d) = NULL
      /\ \A e \in Int : e # d => At(context_list', e) = At(context_list, e)
  BY <1>1, <1>2, <1>5 DEF At
<1>7. Named'
  <2>1. \A i \in DOMAIN context_list' : context_list'[i] \in live' \cup {NULL}
    BY <1>1, <1>2, <1>4, <1>5 DEF Named
  <2>2. \A c \in live' : \E i \in DOMAIN context_list' : context_list'[i] = c
    BY <1>1, <1>2, <1>4, <1>5 DEF Named
  <2>3. \A i, j \in DOMAIN context_list' :
           context_list'[i] = context_list'[j] /\ context_list'[i] # NULL => i = j
    BY <1>1, <1>2, <1>5 DEF Named
  <2>4. live' \subseteq 1..created' /\ Len(context_list') <= created'
    BY <1>4, <1>5 DEF Named
  <2> QED BY <2>1, <2>2, <2>3, <2>4 DEF Named
<1> QED BY <1>4, <1>5, <1>6, <1>7

\* A table without a free spot is as long as there are contexts.
LEMMA FullTable ==
  ASSUME TableTypeOK, Named
  PROVE  /\ IsFiniteSet(live)
         /\ FreeSpots = {} => Len(context_list) = Cardinality(live)
<1>1. context_list \in Seq(Context \cup {NULL}) /\ Len(context_list) \in Nat
      /\ DOMAIN context_list = 1..Len(context_list)
  BY DEF TableTypeOK
<1>2. IsFiniteSet(live)
  <2>1. IsFiniteSet(Context)
    BY FS_Interval, TableAssumption DEF Context
  <2> QED BY <2>1, FS_Subset DEF TableTypeOK
<1>3. ASSUME FreeSpots = {} PROVE Len(context_list) = Cardinality(live)
  <2>1. \A i \in DOMAIN context_list : context_list[i] \in live
    BY <1>3 DEF FreeSpots, Named
  <2>2. context_list \in [1..Len(context_list) -> live]
    BY <1>1, <2>1
  <2>3. context_list \in Bijection(1..Len(context_list), live)
    <3>1. \A i, j \in 1..Len(context_list) : context_list[i] = context_list[j] => i = j
      BY <1>1, <1>3 DEF Named, FreeSpots
    <3> QED BY <1>1, <2>2, <3>1 DEF Named, Bijection, Injection, Surjection, IsInjective
  <2>4. ExistsBijection(1..Len(context_list), live)
    BY <2>3 DEF ExistsBijection
  <2>5. IsFiniteSet(1..Len(context_list)) /\ Cardinality(1..Len(context_list)) = Len(context_list)
    BY <1>1, FS_Interval
  <2> QED BY <2>4, <2>5, FS_Bijection
<1> QED BY <1>2, <1>3
=============================================================================
