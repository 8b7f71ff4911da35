------------------------------- MODULE Hooks -------------------------------
(***************************************************************************)
(* The start and stop hooks of the two services: contexts and what is      *)
(* attached to them, the contexts the SessionManager has bound, the        *)
(* sessions made from the lines of the relay's configuration, and the      *)
(* embedded Python interpreter.  Main's thread runs them, while the thread *)
(* of the service they belong to does not exist.                           *)
(*                                                                         *)
(* A line of the configuration is the sequence of its fields between       *)
(* colons; an empty line has none.  A Session is named by its line.        *)
(* CPython is external; of its objects the module and its name matter, to  *)
(* which the bridge holds references.                                      *)
(***************************************************************************)
EXTENDS ContextTable, Functions

CONSTANT ConfigFile   \* the relay's configuration: a sequence of lines

Services == {"server", "relay"}
Line     == DOMAIN ConfigFile
NoContext == -1
Descriptor == NoContext..MaxContexts - 1

ASSUME HooksAssumption ==
  /\ ConfigFile \in Seq(Seq(STRING))
  /\ NULL \notin {"function", "stale"}

VARIABLES
  coap_context,        \* the field of this name of each service
  context_set,         \* SessionManager: descriptors that are bound
  context_sessions_map,\* SessionManager: <<descriptor, Session>> pairs
  sessions,            \* Relay::sessions
  next_line,           \* the line enable_relay will handle next
  configuration_data,  \* endpoints remembered while lines are read
  python_enabled,      \* whether a script was given
  g_python_enabled,
  interpreter,         \* Py_IsInitialized
  pFunc,               \* NULL, the script's function, or a stale pointer
  references           \* references the bridge holds: module and name

binding == <<context_set, context_sessions_map>>
config  == <<sessions, next_line, configuration_data>>
python  == <<python_enabled, g_python_enabled, interpreter, pFunc, references>>
hookvars == <<table, coap_context, binding, config, python>>

HooksTypeOK ==
  /\ TableTypeOK
  /\ coap_context \in [Services -> Descriptor]
  /\ context_set \subseteq Descriptor
  /\ context_sessions_map \subseteq (Descriptor \X Line)
  /\ sessions \in Seq(Line) /\ next_line \in 1..Len(ConfigFile) + 1
  /\ configuration_data \subseteq (STRING \X Seq(STRING))
  /\ python_enabled \in BOOLEAN /\ g_python_enabled \in BOOLEAN
  /\ interpreter \in BOOLEAN /\ pFunc \in {NULL, "function", "stale"}
  /\ references \in [{"pModule", "pName"} -> 0..1]

HooksInit ==
  /\ TableInit
  /\ coap_context = [s \in Services |-> NoContext]
  /\ context_set = {} /\ context_sessions_map = {}
  /\ sessions = <<>> /\ next_line = 1 /\ configuration_data = {}
  /\ python_enabled \in BOOLEAN /\ g_python_enabled = FALSE
  /\ interpreter = FALSE /\ pFunc = NULL
  /\ references = [p \in {"pModule", "pName"} |-> 0]

SetContext(s, d) == coap_context' = [coap_context EXCEPT ![s] = d]

\* What a context needs to serve its service.
Needs(s) == IF s = "server" THEN {"endpoint", "data", "test"}
                            ELSE {"response", "nack", "pong"}

-----------------------------------------------------------------------------
(* Server: enable_coap, disable_coap.                                      *)

\* What is attached to a context when the endpoint or, later, a resource cannot
\* be made; the context stays in the table.
LeftBehind == {{}, {"endpoint"}}

server_enable_coap(ok) ==
  /\ \/ /\ ok
        /\ CreateContext(Needs("server")) /\ SetContext("server", NewDescriptor)
     \/ /\ ~ok /\ UNCHANGED table /\ SetContext("server", NoContext)
     \/ /\ ~ok
        /\ \E things \in LeftBehind : CreateContext(things)
        /\ SetContext("server", NewDescriptor)
  /\ UNCHANGED <<binding, config, python>>

server_disable_coap ==
  /\ ReleaseContext(coap_context["server"])
  /\ UNCHANGED <<coap_context, binding, config, python>>

-----------------------------------------------------------------------------
(* Relay: enable_coap, disable_coap, over the SessionManager.              *)

\* BindContext refuses a descriptor it knows already; the context goes again, and
\* only its spot remains.
relay_enable_coap(ok) ==
  /\ IF ok THEN /\ NewDescriptor \notin context_set
                /\ context_set' = context_set \cup {NewDescriptor}
                /\ CreateContext(Needs("relay")) /\ SetContext("relay", NewDescriptor)
           ELSE /\ \E refused \in {FALSE, (NewDescriptor \in context_set)} :
                     context_list' = IF refused THEN WithFreeSpot ELSE context_list
                /\ SetContext("relay", NoContext)
                /\ UNCHANGED <<created, live, attached, context_set>>
  /\ UNCHANGED <<context_sessions_map, config, python>>

\* MUTANT: the descriptor stays bound.
UnbindSessionsOnly(d) ==
  /\ context_set' = context_set
  /\ context_sessions_map' = {x \in context_sessions_map : x[1] # d}

\* remove_all_sessions reads every Session under the context, and disable_relay has
\* deleted them by then: the process dies of it, or it finds what it looks for.
UnbindReadsDeleted(d) ==
  d \in context_set /\ \E x \in context_sessions_map : x[1] = d /\ x[2] \notin Range(sessions)

\* UnbindContext, with remove_all_sessions.
UnbindContext(d) ==
  /\ context_set' = context_set \ {d}
  /\ context_sessions_map' = IF d \in context_set
                             THEN {x \in context_sessions_map : x[1] # d}
                             ELSE context_sessions_map

relay_disable_coap ==
  /\ UnbindContext(coap_context["relay"])
  /\ ReleaseContext(coap_context["relay"])
  /\ SetContext("relay", NoContext)
  /\ UNCHANGED <<config, python>>

-----------------------------------------------------------------------------
(* Relay: enable_relay, line by line, and disable_relay.                   *)

\* Host and port; the port is what follows the first colon.
Endpoint(line) ==
  <<ConfigFile[line][1],
    IF Len(ConfigFile[line]) = 1 THEN <<"5683">> ELSE Tail(ConfigFile[line])>>

AlreadyRead(line) == Endpoint(line) \in configuration_data

\* ManageSession refuses sessions of a context that is not bound.
ManageSession(d, line) ==
  context_sessions_map' = context_sessions_map \cup {<<d, line>>}

\* connects is whether Session::Connect succeeds.
configuration_line_handler(connects) ==
  LET d == coap_context["relay"]
      added == /\ ConfigFile[next_line] # <<>> /\ ~AlreadyRead(next_line)
               /\ connects /\ d \in context_set IN
  /\ next_line \in Line /\ next_line' = next_line + 1
  /\ IF added THEN ManageSession(d, next_line) /\ sessions' = Append(sessions, next_line)
              ELSE UNCHANGED <<sessions, context_sessions_map>>
  /\ UNCHANGED <<table, coap_context, context_set, configuration_data, python>>

\* No line is left, or the file cannot be read further, or not be opened at all;
\* the hook succeeds in each case.
enable_relay ==
  /\ next_line' = 1 /\ configuration_data' = {}
  /\ UNCHANGED <<table, coap_context, binding, sessions, python>>

disable_relay ==
  /\ sessions' = <<>>
  /\ UNCHANGED <<table, coap_context, binding, next_line, configuration_data, python>>

-----------------------------------------------------------------------------
(* Server: enable_python, disable_python.                                  *)

Hold(n) == references' = [p \in DOMAIN references |-> references[p] + n]

\* MUTANTS: pFunc is set only when it is found; a failed import keeps the name.
FindOnly(ok) ==
  /\ interpreter' = TRUE
  /\ IF ok THEN Hold(1) /\ pFunc' \in {pFunc, "function"}
           ELSE UNCHANGED <<references, pFunc>>

KeepName(ok) ==
  /\ interpreter' = TRUE
  /\ IF ok THEN Hold(1) /\ pFunc' \in {NULL, "function"}
           ELSE /\ references' = [references EXCEPT !["pName"] = @ + 1]
                /\ UNCHANGED pFunc

\* Importing gives a reference to the name and one to the module; when it fails
\* what was taken is given back, and pFunc is as before.  A script without
\* process_data gives a null pFunc and no error.
initialize_python(ok) ==
  /\ interpreter' = TRUE
  /\ IF ok THEN Hold(1) /\ pFunc' \in {NULL, "function"}
           ELSE UNCHANGED <<references, pFunc>>

enable_python(ok) ==
  /\ IF python_enabled THEN initialize_python(ok)
                       ELSE ok /\ UNCHANGED <<interpreter, pFunc, references>>
  /\ g_python_enabled' = (python_enabled /\ ok)
  /\ UNCHANGED <<table, coap_context, binding, config, python_enabled>>

\* uninitialize_python: pFunc, a borrowed pointer, is left as it is.
uninitialize_python ==
  /\ Hold(-1) /\ interpreter' = FALSE
  /\ pFunc' = IF pFunc = NULL THEN NULL ELSE "stale"

disable_python ==
  /\ g_python_enabled' = FALSE
  /\ IF python_enabled THEN uninitialize_python
                       ELSE UNCHANGED <<interpreter, pFunc, references>>
  /\ UNCHANGED <<table, coap_context, binding, config, python_enabled>>
=============================================================================
