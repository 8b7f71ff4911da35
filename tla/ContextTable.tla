---------------------------- MODULE ContextTable ----------------------------
(***************************************************************************)
(* The table of libcoap contexts behind the descriptors of common::CoAP.   *)
(* A descriptor is an index into context_list, counted from 0; the spot of *)
(* a context that was released is given to the next one.  Every operation  *)
(* holds coap_lock while it looks at the table, so each is one step.       *)
(*                                                                         *)
(* libcoap is external: a context is a heap object, named here by the order*)
(* of creation, to which an endpoint, resources and handlers are attached. *)
(* Creating one fails when memory has run out, and at the bound.           *)
(***************************************************************************)
EXTENDS Integers, Sequences, FiniteSetsExt

CONSTANTS
  MaxContexts,  \* bound: contexts created in the life of the process
  NULL          \* nullptr: a free spot of the table, no context

Context == 1..MaxContexts
Attachment == {"endpoint", "data", "test", "response", "nack", "pong"}

ASSUME TableAssumption == MaxContexts \in Nat /\ NULL \notin Context

VARIABLES
  context_list,  \* the table
  created,       \* contexts created so far
  live,          \* contexts that have not been freed
  attached       \* what is attached to each context

table == <<context_list, created, live, attached>>

TableTypeOK ==
  /\ context_list \in Seq(Context \cup {NULL})
  /\ created \in 0..MaxContexts
  /\ live \subseteq Context
  /\ attached \in [Context -> SUBSET Attachment]

TableInit ==
  /\ context_list = <<>> /\ created = 0 /\ live = {}
  /\ attached = [c \in Context |-> {}]

\* -1 is invalid, and every other negative number is a large one when compared
\* with the size of the table.
context_descriptor_invalid(d) ==
  d \notin 0..Len(context_list) - 1 \/ context_list[d + 1] = NULL

ContextAt(d) == IF context_descriptor_invalid(d) THEN NULL ELSE context_list[d + 1]

FreeSpots == {i \in DOMAIN context_list : context_list[i] = NULL}

\* MUTANTS: free spots are not looked for; the last spot is taken for the one after.
NewDescriptorAtEnd == Len(context_list)
NewDescriptorAtLast == IF context_list = <<>> THEN 0 ELSE Len(context_list) - 1

\* The descriptor the next context gets.
NewDescriptor == IF FreeSpots = {} THEN Len(context_list) ELSE Min(FreeSpots) - 1

\* The table once a context has been created and released.
WithFreeSpot == IF FreeSpots = {} THEN Append(context_list, NULL) ELSE context_list

\* A context is created and things attached to it.
CreateContext(things) ==
  /\ created < MaxContexts
  /\ created' = created + 1
  /\ live' = live \cup {created + 1}
  /\ attached' = [attached EXCEPT ![created + 1] = things]
  /\ context_list' = IF NewDescriptor = Len(context_list)
                       THEN Append(context_list, created + 1)
                       ELSE [context_list EXCEPT ![NewDescriptor + 1] = created + 1]

ReleaseContext(d) ==
  /\ live' = live \ {ContextAt(d)}
  /\ attached' = [c \in Context |-> IF c = ContextAt(d) THEN {} ELSE attached[c]]
  /\ context_list' = IF context_descriptor_invalid(d) THEN context_list
                     ELSE [context_list EXCEPT ![d + 1] = NULL]
  /\ UNCHANGED created

\* ~CoAP, when statics are destroyed.
FreeAll ==
  /\ context_list' = <<>> /\ live' = live \ {context_list[i] : i \in DOMAIN context_list}
  /\ UNCHANGED <<created, attached>>
=============================================================================
