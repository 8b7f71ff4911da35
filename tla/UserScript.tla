----------------------------- MODULE UserScript -----------------------------
(***************************************************************************)
(* One body after the other through python_process_data and user_script:   *)
(* the SenML records of the body are translated one by one into points in  *)
(* the script's global list, and the list is written to one database.  The *)
(* server's thread does this within its PUT handler.  A call that does not *)
(* reach the script, because there is none or its argument cannot be built,*)
(* changes nothing and is left out.                                        *)
(*                                                                         *)
(* A name is the sequence of its parts between colons, and a part the      *)
(* sequence of the pieces it was put together from: the empty name is one  *)
(* empty part.  Time stamps and units are left out.  CPython, cbor2 and the*)
(* database are external.                                                  *)
(***************************************************************************)
EXTENDS Integers, Sequences, SequencesExt

CONSTANTS
  Packs,     \* the bodies: sequences of records, or Garbled
  Garbled,   \* a body that is not CBOR
  MaxCalls,  \* bound: bodies in the life of the process
  NULL       \* a field that is not given

VARIABLES
  body, db,  \* the script's globals
  stage,     \* where the call is: "idle", "parse" or "write"
  data,      \* its body
  next,      \* the record it has come to
  basename,  \* the base name so far
  held,      \* references to arguments: taken minus released
  calls,     \* calls so far
  alive,     \* FALSE once the process has died
  written    \* history: what was written, and of which body

globals == <<body, db>>
vars    == <<globals, stage, data, next, basename, held, calls, alive, written>>

Part   == Seq(STRING)
Name   == Seq(Part) \ {<<>>}
Record == [bn : {NULL} \cup Name, n : {NULL} \cup Name, v : {NULL} \cup Int, valid : BOOLEAN]
Empty  == <<<<>>>>   \* the empty string

ASSUME ScriptAssumption ==
  /\ MaxCalls \in Nat
  /\ \A p \in Packs \ {Garbled} : p \in Seq(Record)
  /\ NULL \notin Name

-----------------------------------------------------------------------------
(* Names and points.                                                       *)

\* Strings are joined: the last part of the base and the first of the name are one.
Join(base, name) == Front(base) \o <<Last(base) \o Head(name)>> \o Tail(name)

\* The database is named by the third part from the end.
get_db_name(name) == IF Len(name) >= 3 THEN name[Len(name) - 2] ELSE <<"main">>

\* The measurement is the last part and the tag the one before it; a value that is
\* not given is 0.
get_body(name, v) ==
  [measurement |-> Last(name),
   sensor |-> IF Len(name) >= 2 THEN name[Len(name) - 1] ELSE NULL,
   value |-> IF v = NULL THEN 0 ELSE v]

TypeOK ==
  /\ stage \in {"idle", "parse", "write"} /\ data \in Packs \cup {<<>>}
  /\ next \in 1..(IF data = Garbled THEN 1 ELSE Len(data) + 1)
  /\ held \in -MaxCalls..1 /\ alive \in BOOLEAN
  /\ \A i \in DOMAIN body : DOMAIN body[i] = {"measurement", "sensor", "value"}
  /\ Len(written) <= MaxCalls

Init ==
  /\ body = <<>> /\ db = <<>> /\ stage = "idle" /\ data = <<>> /\ next = 1
  /\ basename = Empty /\ held = 0 /\ alive = TRUE /\ written = <<>>
  /\ calls = 0

-----------------------------------------------------------------------------
(* python_process_data and process_data.                                   *)

\* MUTANT: the list is not reset.
ResetDbOnly == db' = <<>> /\ UNCHANGED body

Reset == db' = <<>> /\ body' = <<>>

\* The argument is built and the script called.
process_data(pack) ==
  /\ alive /\ stage = "idle" /\ calls < MaxCalls
  /\ calls' = calls + 1 /\ held' = held + 1
  /\ stage' = "parse" /\ data' = pack /\ next' = 1 /\ basename' = Empty
  /\ Reset
  /\ UNCHANGED <<alive, written>>

\* MUTANT: the database is named by what get_body leaves of the name.
CallbackBodyFirst(name, v) ==
  /\ db' = get_db_name(<<Last(name)>>)
  /\ body' = Append(body, get_body(name, v))

parser_callback(name, v) ==
  /\ db' = get_db_name(name)
  /\ body' = Append(body, get_body(name, v))

\* A record of parse_cbor; one without a name only sets the base name.
ParseRecord ==
  /\ alive /\ stage = "parse" /\ data # Garbled /\ next <= Len(data)
  /\ data[next].valid
  /\ LET record == data[next]
         base == IF record.bn = NULL THEN basename ELSE record.bn IN
       /\ basename' = base
       /\ IF record.n = NULL THEN UNCHANGED globals
                             ELSE parser_callback(Join(base, record.n), record.v)
  /\ next' = next + 1
  /\ UNCHANGED <<calls, stage, data, held, alive, written>>

ParsingEnds ==
  /\ alive /\ stage = "parse" /\ data # Garbled /\ next > Len(data)
  /\ stage' = "write"
  /\ UNCHANGED <<globals, calls, data, next, basename, held, alive, written>>

\* MUTANT: the argument is not released.
WriteKeepsArgument ==
  /\ alive /\ stage = "write"
  /\ stage' = "idle"
  /\ written' = Append(written, [pack |-> data, points |-> body, db |-> db])
  /\ UNCHANGED <<globals, calls, data, next, basename, held, alive>>

Write ==
  /\ alive /\ stage = "write"
  /\ stage' = "idle" /\ held' = held - 1
  /\ written' = Append(written, [pack |-> data, points |-> body, db |-> db])
  /\ UNCHANGED <<globals, calls, data, next, basename, alive>>

\* What is not CBOR, a record with an unknown key or a time stamp that is none, and
\* a database that does not answer raise an exception.  The script is left as it
\* stands, and the argument is released twice, which the process may not survive.
Raise ==
  /\ alive
  /\ \/ stage = "parse" /\ data = Garbled
     \/ stage = "parse" /\ data # Garbled /\ next <= Len(data) /\ ~data[next].valid
     \/ stage = "write"
  /\ stage' = "idle" /\ held' = held - 2
  /\ alive' \in BOOLEAN
  /\ UNCHANGED <<globals, calls, data, next, basename, written>>

Next ==
  \/ \E pack \in Packs : process_data(pack)
  \/ ParseRecord \/ ParsingEnds \/ Write \/ Raise

Spec == Init /\ [][Next]_vars

-----------------------------------------------------------------------------
(* What a pack means, all at once.                                         *)

Named(p) == {i \in DOMAIN p : p[i].n # NULL}

\* A base name holds from its record on until another is given.
BaseAt(p, i) ==
  LET given == {k \in 1..i : p[k].bn # NULL} IN
  IF given = {} THEN Empty ELSE p[Max(given)].bn

FullName(p, i) == Join(BaseAt(p, i), p[i].n)

\* The points are those of the given records, each once and in order.
Mean(points, p, records) ==
  \E at \in [DOMAIN points -> records] :
    /\ Range(at) = records
    /\ \A k, l \in DOMAIN points : k < l => at[k] < at[l]
    /\ \A k \in DOMAIN points : points[k] = get_body(FullName(p, at[k]), p[at[k]].v)

\* A database that one of the given records names; without any no database is named.
Names(name, p, records) ==
  name \in IF records = {} THEN {<<>>} ELSE {get_db_name(FullName(p, k)) : k \in records}

\* What is written of a body is what its records mean, each once and in order:
\* neither the list nor the base name holds on to anything of an earlier body, and
\* of one that raised an exception on its way least of all.
WrittenIsMeant ==
  \A i \in DOMAIN written : Mean(written[i].points, written[i].pack, Named(written[i].pack))

\* The points are written to the database that a record of this same body names;
\* if all name one, it is that.  Without points no database is named.
DbIsNamed ==
  \A i \in DOMAIN written : Names(written[i].db, written[i].pack, Named(written[i].pack))
=============================================================================
