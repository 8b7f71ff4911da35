------------------------------ MODULE Backend ------------------------------
(***************************************************************************)
(* The process: main with its commands, its clean-up and its signal        *)
(* handler, over the two Services, server and relay, each with two hooks.  *)
(*                                                                         *)
(* Main's thread makes one call after the other: calls holds what it has   *)
(* still to do before it is at its prompt again.  The signal handler runs  *)
(* on that thread, wherever it is, and does not come back.  A thread of a  *)
(* Service is in libcoap's IO while io_context holds the context it got.   *)
(* Waits of Start do not return spuriously here; Service has that case.    *)
(***************************************************************************)
EXTENDS Hooks

VARIABLES
  calls,       \* calls main has still to make, the one under way first
  relay, msg_queue,  \* what main's pointers point to
  asked,       \* history: how the process was asked to end
  process,     \* whether it runs, destroys its statics, has ended or crashed
  held,        \* Services whose mutex an interrupted Start has locked
  io_context,  \* the context each Service's thread does IO with
  server_caller, server_hook, server_reloading, server_result,
  server_running, server_thread, server_up,
  relay_caller, relay_hook, relay_reloading, relay_result,
  relay_running, relay_thread, relay_up

Server == INSTANCE Service WITH
  NHooks <- 2, caller <- server_caller, hook <- server_hook,
  reloading <- server_reloading, result <- server_result,
  service_running <- server_running, thread <- server_thread,
  up <- server_up, spurious <- ~TRUE

Relay == INSTANCE Service WITH
  NHooks <- 2, caller <- relay_caller, hook <- relay_hook,
  reloading <- relay_reloading, result <- relay_result,
  service_running <- relay_running, thread <- relay_thread,
  up <- relay_up, spurious <- ~TRUE

servervars == <<server_caller, server_hook, server_reloading, server_result,
                server_running, server_thread, server_up>>
relayvars  == <<relay_caller, relay_hook, relay_reloading, relay_result,
                relay_running, relay_thread, relay_up>>
pointers   == <<relay, msg_queue>>
vars == <<hookvars, calls, pointers, asked, process, held, io_context, servervars, relayvars>>

Call == {"relay_first_start", "relay_start", "relay_stop", "relay_reload",
         "server_first_start", "server_start", "server_stop", "server_reload",
         "delete_relay", "delete_queue", "exit"}

TypeOK ==
  /\ HooksTypeOK /\ Server!TypeOK /\ Relay!TypeOK
  /\ calls \in Seq(Call)
  /\ relay \in {"none", "present", "deleted"}
  /\ msg_queue \in {"none", "present", "deleted"}
  /\ asked \in {"no", "quit", "quiet", "busy"}
  /\ process \in {"running", "destroyed", "ended", "crashed"}
  /\ held \subseteq Services
  /\ io_context \in [Services -> Context \cup {NULL}]

\* main up to its first call; whether there is a relay is an option.
Init ==
  /\ HooksInit /\ Server!Init /\ Relay!Init
  /\ \E r \in {"none", "present"} :
       /\ relay = r /\ msg_queue = r
       /\ calls = IF r = "none" THEN <<"server_first_start">>
                                ELSE <<"relay_first_start", "server_first_start">>
  /\ asked = "no" /\ process = "running" /\ held = {}
  /\ io_context = [s \in Services |-> NULL]

-----------------------------------------------------------------------------
(* Calls of main.                                                          *)

state == <<asked, process, held>>

Idle == server_caller = "idle" /\ relay_caller = "idle"

AtCall(call) == process = "running" /\ calls # <<>> /\ Head(calls) = call

\* What is left to do when the call under way has ended so: main returns when the
\* first start of a Service fails, and ~Service has only begun when its Stop is over.
Rest(how) ==
  IF Head(calls) \in {"delete_relay", "exit"} THEN calls
  ELSE IF Head(calls) = "relay_first_start" /\ how # "started"
    THEN <<"delete_relay", "delete_queue", "exit">>
  ELSE IF Head(calls) = "server_first_start" /\ how # "started" THEN <<"exit">>
  ELSE Tail(calls)

MakeCall(caller, how) == calls' = IF caller = "idle" THEN Rest(how) ELSE calls

\* When main returns or exits, the destruction of the server stops it; and deleting
\* the relay does so with it.
CallServer ==
  /\ Idle
  /\ \/ (AtCall("server_first_start") \/ AtCall("server_start")) /\ Server!Start
     \/ /\ AtCall("server_stop") \/ (AtCall("exit") /\ server_running)
        /\ Server!Stop /\ ~server_reloading'
     \/ /\ AtCall("server_reload")
        /\ IF server_running THEN Server!Stop /\ server_reloading' ELSE Server!Start
  /\ MakeCall(server_caller', server_result')
  /\ UNCHANGED <<hookvars, pointers, state, io_context, relayvars>>

CallRelay ==
  /\ Idle /\ relay = "present"
  /\ \/ (AtCall("relay_first_start") \/ AtCall("relay_start")) /\ Relay!Start
     \/ /\ AtCall("relay_stop") \/ (AtCall("delete_relay") /\ relay_running)
        /\ Relay!Stop /\ ~relay_reloading'
     \/ /\ AtCall("relay_reload")
        /\ IF relay_running THEN Relay!Stop /\ relay_reloading' ELSE Relay!Start
  /\ MakeCall(relay_caller', relay_result')
  /\ UNCHANGED <<hookvars, pointers, state, io_context, servervars>>

\* A call on a null or deleted relay.
CallNoRelay ==
  /\ Idle /\ relay # "present"
  /\ AtCall("relay_stop") \/ AtCall("relay_reload")
  /\ process' = "crashed"
  /\ UNCHANGED <<hookvars, calls, pointers, asked, held, io_context, servervars, relayvars>>

\* Within a call of the server's: the n-th hook of Service is the server's n-th.
ServerProceeds ==
  /\ process = "running"
  /\ \/ /\ Server!StartHook
        /\ IF server_hook = 1 THEN server_enable_coap(TRUE) ELSE enable_python(TRUE)
     \/ /\ Server!StartHookFails
        /\ IF server_hook = 1 THEN server_enable_coap(FALSE) ELSE enable_python(FALSE)
     \/ /\ Server!Abort \/ Server!StopHooks
        /\ \/ server_hook = 2 /\ disable_python
           \/ server_hook = 1 /\ server_disable_coap
           \/ server_hook = 0 /\ UNCHANGED hookvars
     \/ /\ Server!Spawn \/ Server!LockMutex \/ Server!Wait \/ Server!StartReturns
           \/ Server!Join
        /\ UNCHANGED hookvars
  /\ MakeCall(server_caller', server_result')
  /\ UNCHANGED <<pointers, state, io_context, relayvars>>

\* Within a call of the relay's; its second hook reads the configuration.
RelayProceeds ==
  /\ process = "running"
  /\ \/ /\ Relay!StartHook
        /\ IF relay_hook = 1 THEN relay_enable_coap(TRUE) ELSE enable_relay
     \/ /\ relay_caller = "start_hooks" /\ relay_hook = 2 /\ UNCHANGED relayvars
        /\ \E connects \in BOOLEAN : configuration_line_handler(connects)
     \/ relay_hook = 1 /\ Relay!StartHookFails /\ relay_enable_coap(FALSE)
     \/ /\ Relay!Abort \/ Relay!StopHooks
        /\ \/ relay_hook = 2 /\ disable_relay
           \/ relay_hook = 1 /\ relay_disable_coap
           \/ relay_hook = 0 /\ UNCHANGED hookvars
     \/ /\ Relay!Spawn \/ Relay!LockMutex \/ Relay!Wait \/ Relay!StartReturns
           \/ Relay!Join
        /\ UNCHANGED hookvars
  /\ MakeCall(relay_caller', relay_result')
  /\ UNCHANGED <<pointers, state, io_context, servervars>>

\* The hook that unbinds the relay's context reads the Sessions that the hook
\* before it has deleted, and the process dies of it.
UnbindCrash ==
  /\ process = "running" /\ relay_caller = "stop_hooks" /\ relay_hook = 1
  /\ UnbindReadsDeleted(coap_context["relay"])
  /\ process' = "crashed"
  /\ UNCHANGED <<hookvars, calls, pointers, asked, held, io_context, servervars, relayvars>>

-----------------------------------------------------------------------------
(* The prompt, the clean-up and the end.                                   *)

\* MUTANT: the queue goes before the server that fills it is stopped.
CleanupQueueFirst ==
  (IF msg_queue = "none" THEN <<>> ELSE <<"delete_queue">>)
    \o <<"server_stop">>
    \o (IF relay = "none" THEN <<>> ELSE <<"relay_stop", "delete_relay">>)
    \o <<"exit">>

\* MUTANT: the relay is stopped after it has been deleted.
CleanupDeleteFirst ==
  <<"server_stop">>
    \o (IF relay = "none" THEN <<>> ELSE <<"delete_relay", "relay_stop">>)
    \o (IF msg_queue = "none" THEN <<>> ELSE <<"delete_queue">>)
    \o <<"exit">>

\* cleanup, and the exit or the return from main behind it.  Neither it nor main
\* sets a pointer to null after deleting.  Before the server's first start there is no
\* pointer to it, and stopping a server that does not run does nothing either.
Cleanup ==
  <<"server_stop">>
    \o (IF relay = "none" THEN <<>> ELSE <<"relay_stop", "delete_relay">>)
    \o (IF msg_queue = "none" THEN <<>> ELSE <<"delete_queue">>)
    \o <<"exit">>

Command ==
  /\ process = "running" /\ calls = <<>> /\ Idle
  /\ \/ /\ calls' = (IF relay = "none" THEN <<>> ELSE <<"relay_start">>)
                      \o <<"server_start">>
        /\ UNCHANGED asked
     \/ calls' = <<"server_stop", "relay_stop">> /\ UNCHANGED asked
     \/ calls' = <<"server_reload", "relay_reload">> /\ UNCHANGED asked
     \/ calls' = Cleanup /\ asked' = "quit"
  /\ UNCHANGED <<hookvars, pointers, process, held, io_context, servervars, relayvars>>

\* Main waits for a command, or for a Service that has said that it runs.
Quiet ==
  \/ calls = <<>>
  \/ asked = "no" /\ \/ server_caller = "waiting" /\ server_running
                     \/ relay_caller = "waiting" /\ relay_running

\* SIGINT; close_handler is not interrupted in its turn.
Interrupt ==
  /\ process = "running" /\ asked \in {"no", "quit"}
  /\ asked' = (IF Quiet THEN "quiet" ELSE "busy")
  /\ calls' = Cleanup /\ server_caller' = "idle" /\ relay_caller' = "idle"
  /\ server_reloading' = FALSE /\ relay_reloading' = FALSE
  /\ held' = (IF server_caller = "locked" THEN {"server"} ELSE {})
               \cup (IF relay_caller = "locked" THEN {"relay"} ELSE {})
  /\ UNCHANGED <<hookvars, pointers, process, io_context,
                 server_hook, server_result, server_running, server_thread,
                 server_up, relay_hook, relay_result, relay_running,
                 relay_thread, relay_up>>

\* ~Service has stopped the relay before, if it counted as running (CallRelay).  A
\* std::thread that is still joinable when it is destroyed terminates the process,
\* and a thread or a Stop that finds Relay's own members destroyed may.
delete_relay ==
  /\ AtCall("delete_relay") /\ Idle
  /\ \/ /\ relay = "present" /\ relay_thread = "none"
        /\ relay' = "deleted" /\ calls' = Tail(calls) /\ UNCHANGED process
     \/ /\ relay # "present" \/ relay_thread # "none"
        /\ process' = "crashed" /\ UNCHANGED <<relay, calls>>
  /\ UNCHANGED <<hookvars, msg_queue, asked, held, io_context, servervars, relayvars>>

delete_queue ==
  /\ AtCall("delete_queue") /\ Idle
  /\ calls' = Tail(calls)
  /\ IF msg_queue = "present"
       THEN msg_queue' = "deleted" /\ UNCHANGED process
       ELSE process' = "crashed" /\ UNCHANGED msg_queue
  /\ UNCHANGED <<hookvars, relay, asked, held, io_context, servervars, relayvars>>

\* The statics, among them Server and CoAP, are destroyed; ~Service as above, and
\* what Stop needs of CoAP may have gone before it.
Exit ==
  /\ AtCall("exit") /\ Idle
  /\ \/ /\ server_thread = "none"
        /\ process' = "destroyed" /\ calls' = Tail(calls) /\ FreeAll
        /\ UNCHANGED <<coap_context, binding, config, python>>
     \/ /\ server_thread # "none"
        /\ process' = "crashed" /\ UNCHANGED <<calls, hookvars>>
  /\ UNCHANGED <<pointers, asked, held, io_context, servervars, relayvars>>

\* Until the process has gone, a thread that still does IO may find its context
\* freed.
End ==
  /\ process = "destroyed"
  /\ \/ process' = "ended"
     \/ process' = "crashed" /\ \E s \in Services : io_context[s] \notin live \cup {NULL}
  /\ UNCHANGED <<hookvars, calls, pointers, asked, held, io_context, servervars, relayvars>>

-----------------------------------------------------------------------------
(* The threads of the Services: service_loop over run.                     *)

\* run has taken the context behind the descriptor and enters IO.
EnterIO(s) ==
  /\ io_context[s] = NULL /\ ContextAt(coap_context[s]) # NULL
  /\ io_context' = [io_context EXCEPT ![s] = ContextAt(coap_context[s])]

\* IO is over, or there was no context to do it with.
LeaveIO(s) ==
  /\ io_context[s] # NULL \/ ContextAt(coap_context[s]) = NULL
  /\ io_context' = [io_context EXCEPT ![s] = NULL]

Alive == process \in {"running", "destroyed"}

ServerThread ==
  /\ Alive
  /\ \/ /\ \/ Server!AnnounceRunning \/ Server!NotifyOne \/ Server!CheckRunning
           \/ "server" \notin held /\ Server!LockAndUnlock
        /\ UNCHANGED io_context
     \/ server_thread = "run" /\ EnterIO("server") /\ UNCHANGED servervars
     \/ LeaveIO("server") /\ Server!RunReturns
  /\ UNCHANGED <<hookvars, calls, pointers, state, relayvars>>

RelayThread ==
  /\ Alive
  /\ \/ /\ \/ Relay!AnnounceRunning \/ Relay!NotifyOne \/ Relay!CheckRunning
           \/ "relay" \notin held /\ Relay!LockAndUnlock
        /\ UNCHANGED io_context
     \/ relay_thread = "run" /\ EnterIO("relay") /\ UNCHANGED relayvars
     \/ LeaveIO("relay") /\ Relay!RunReturns
  /\ UNCHANGED <<hookvars, calls, pointers, state, servervars>>

-----------------------------------------------------------------------------

Main ==
  \/ CallServer \/ CallRelay \/ CallNoRelay
  \/ ServerProceeds \/ RelayProceeds \/ UnbindCrash
  \/ delete_relay \/ delete_queue \/ Exit \/ End

Next == Main \/ Command \/ Interrupt \/ ServerThread \/ RelayThread

Spec == Init /\ [][Next]_vars

\* All three threads are scheduled, and IO, which has a time-out, returns.
FairSpec == Spec /\ WF_vars(Main) /\ WF_vars(ServerThread) /\ WF_vars(RelayThread)

-----------------------------------------------------------------------------

\* Contexts of which an enable_coap that failed half-way has left hold.
Incomplete == {c \in live : attached[c] \in LeftBehind}

Owns(s) == IF s = "server" THEN server_up[1] = 1 ELSE relay_up[1] = 1

\* A thread does IO only with its own Service's context, which is not freed and
\* has everything attached, and the two threads never with the same one, although
\* descriptors are used again, over restarts, hooks that fail and the clean-up
\* wherever it breaks in.
IOOnLiveContext ==
  process = "running" =>
    /\ \A s \in Services : io_context[s] # NULL =>
         /\ io_context[s] \in live /\ attached[io_context[s]] = Needs(s)
         /\ io_context[s] = ContextAt(coap_context[s])
    /\ io_context["server"] = io_context["relay"] => io_context["server"] = NULL

\* The table names each context that has not been freed once and no other; each
\* is the context of a Service whose hook is up, but for the incomplete ones; and
\* however often Services restart the table does not grow but by those.
ContextsOwned ==
  process = "running" =>
    /\ \A c \in live : \E i \in DOMAIN context_list :
         \A j \in DOMAIN context_list : context_list[j] = c <=> j = i
    /\ \A i \in DOMAIN context_list : context_list[i] \in live \cup {NULL}
    /\ \A c \in live \ Incomplete : \E s \in Services :
         Owns(s) /\ ContextAt(coap_context[s]) = c
    /\ Len(context_list) <= 2 + Cardinality(Incomplete)

\* What the SessionManager holds is what the relay has: its context is bound while
\* its hook is up, with exactly its sessions, and a line of the configuration has
\* one at most.  So no start is refused for what an earlier one has left, nor sends
\* twice for it.  A hook that was interrupted may leave anything.
BoundIsOwned ==
  process = "running" /\ asked # "busy" =>
    /\ context_set = IF Owns("relay") THEN {coap_context["relay"]} ELSE {}
    /\ relay_caller # "stop_hooks" =>
         context_sessions_map = {coap_context["relay"]} \X Range(sessions)
    /\ \A i, j \in DOMAIN sessions : i < j => sessions[i] < sessions[j]

\* The queue that the PUT handler fills and the relay empties is deleted after
\* both threads have gone.
QueueOutlivesUsers ==
  process = "running" /\ asked # "busy" /\ msg_queue = "deleted" =>
    server_thread = "none" /\ relay_thread = "none"

\* While the server's thread may call the script the interpreter runs, the script
\* is the one that was imported last, and one reference to it is held; main's
\* thread is not in the interpreter then.  A server that is down holds nothing.
ScriptIsAlive ==
  process = "running" /\ asked # "busy" =>
    /\ server_thread = "run" /\ g_python_enabled =>
         /\ interpreter /\ pFunc # "stale"
         /\ \A p \in DOMAIN references : references[p] = 1
         /\ server_caller \notin {"start_hooks", "abort", "stop_hooks"}
    /\ server_thread = "none" /\ server_caller = "idle" =>
         ~g_python_enabled /\ \A p \in DOMAIN references : references[p] = 0

\* The command quit, and an interrupt while main waits, end the process: no join
\* waits for ever, nothing is deleted twice or used behind its deletion, but for the
\* Sessions that the relay's last hook reads.  An interrupt of the clean-up or of a
\* call at work may fail to.
EndsWhenAsked ==
  asked \in {"quit", "quiet"} ~>
    \/ process = "ended" \/ asked = "busy"
    \/ /\ process = "crashed" /\ relay_caller = "stop_hooks" /\ relay_hook = 1
       /\ UnbindReadsDeleted(coap_context["relay"])

=============================================================================
