--------------------------- MODULE Backend_proofs ---------------------------
(* Proofs about Backend, for any configuration and any bound of contexts.  *)
EXTENDS Backend, ContextTable_proofs, SequenceTheorems

SP == INSTANCE Service_proofs WITH
  NHooks <- 2, caller <- server_caller, hook <- server_hook,
  reloading <- server_reloading, result <- server_result,
  service_running <- server_running, thread <- server_thread,
  up <- server_up, spurious <- ~TRUE

RP == INSTANCE Service_proofs WITH
  NHooks <- 2, caller <- relay_caller, hook <- relay_hook,
  reloading <- relay_reloading, result <- relay_result,
  service_running <- relay_running, thread <- relay_thread,
  up <- relay_up, spurious <- ~TRUE

-----------------------------------------------------------------------------
(* The inductive invariant.                                                *)

\* The calls in which a Service may be at work, the ends of its life included.
ServerStops == {"server_stop", "exit"}
RelayStops  == {"relay_stop", "delete_relay"}
ServerCalls == {"server_first_start", "server_start", "server_reload"} \cup ServerStops
RelayCalls  == {"relay_first_start", "relay_start", "relay_reload"} \cup RelayStops

\* What main may have to do at its end, once it was asked to end.
Deletes == <<"delete_relay", "delete_queue", "exit">>
StopRelay == <<"relay_stop", "delete_relay", "delete_queue", "exit">>
StopBoth == <<"server_stop", "relay_stop", "delete_relay", "delete_queue", "exit">>
Closing == {StopBoth, StopRelay, Deletes, <<"delete_queue", "exit">>,
            <<"server_stop", "exit">>, <<"exit">>}

\* What main may have to do.
Lists ==
  {<<>>, <<"relay_first_start", "server_first_start">>, <<"server_first_start">>,
   <<"relay_start", "server_start">>, <<"server_start">>,
   <<"server_stop", "relay_stop">>, <<"relay_stop">>,
   <<"server_reload", "relay_reload">>, <<"relay_reload">>} \cup Closing

\* A Service is at work on main's call, and on one only.
Calls ==
  /\ calls \in Lists
  /\ asked # "no" /\ process = "running" => calls \in Closing
  /\ relay = "none" <=> msg_queue = "none"
  /\ server_caller = "idle" \/ relay_caller = "idle"
  /\ server_caller # "idle" => calls # <<>> /\ Head(calls) \in ServerCalls
  /\ relay_caller # "idle" => calls # <<>> /\ Head(calls) \in RelayCalls
  /\ server_caller # "idle" /\ Head(calls) \in ServerStops =>
       server_caller \in {"join", "stop_hooks"} /\ ~server_reloading
  /\ relay_caller # "idle" /\ Head(calls) \in RelayStops =>
       relay_caller \in {"join", "stop_hooks"} /\ ~relay_reloading
  /\ relay_caller = "abort" => relay_hook = 0

\* Who is down when what is next, as long as no call was cut short.
Phases ==
  /\ SP!Settled /\ RP!Settled
  /\ msg_queue = "deleted" =>
       (calls = <<"exit">> \/ process # "running") /\ Idle /\ SP!AllDownNow /\ RP!AllDownNow
  /\ calls \in {<<"delete_queue", "exit">>, Deletes} =>
       Idle /\ SP!AllDownNow /\ RP!AllDownNow
  /\ calls = StopRelay => server_caller = "idle" /\ SP!AllDownNow
  /\ calls = <<"relay_first_start", "server_first_start">> =>
       /\ server_caller = "idle" /\ SP!AllDownNow
       /\ relay_caller = "idle" => RP!AllDownNow

\* Each context is in the table once; the complete ones are those of the Services
\* whose first hook is up.
Contexts ==
  /\ Named
  /\ Len(context_list) <= 2 + Cardinality(Incomplete)
  /\ \A c \in live : attached[c] \in LeftBehind \cup {Needs("server"), Needs("relay")}

Owned ==
  /\ \A s \in Services : Owns(s) =>
       /\ ContextAt(coap_context[s]) \in live
       /\ attached[ContextAt(coap_context[s])] = Needs(s)
  /\ \A s \in Services, c \in live : attached[c] = Needs(s) =>
       Owns(s) /\ c = ContextAt(coap_context[s])

InIO ==
  \A s \in Services : io_context[s] # NULL => io_context[s] = ContextAt(coap_context[s])

Threads ==
  /\ io_context["server"] # NULL => server_thread = "run"
  /\ io_context["relay"] # NULL => relay_thread = "run"

Bound ==
  /\ context_set = IF Owns("relay") THEN {coap_context["relay"]} ELSE {}
  /\ ~Owns("relay") => sessions = <<>> /\ context_sessions_map = {}
  /\ \A x \in context_sessions_map : x[1] = coap_context["relay"]
  /\ relay_caller = "stop_hooks" /\ relay_hook < 2 => sessions = <<>>
  /\ \A i, j \in DOMAIN sessions : i < j => sessions[i] < sessions[j]
  /\ relay_caller = "start_hooks" /\ relay_hook = 2 =>
       \A i \in DOMAIN sessions : sessions[i] < next_line

Managed ==
  relay_caller # "stop_hooks" =>
     context_sessions_map = {coap_context["relay"]} \X Range(sessions)

Script ==
  /\ server_up[2] = 1 =>
       /\ g_python_enabled = python_enabled
       /\ python_enabled => interpreter /\ pFunc # "stale"
       /\ \A p \in DOMAIN references : references[p] = IF python_enabled THEN 1 ELSE 0
  /\ server_up[2] = 0 => ~g_python_enabled /\ \A p \in DOMAIN references : references[p] = 0

Inv ==
  /\ TypeOK /\ SP!Agree /\ RP!Agree
  /\ Calls /\ Threads /\ Script /\ Bound
  /\ asked # "busy" => Phases /\ Managed
  /\ process = "running" => Contexts /\ Owned /\ InIO

-----------------------------------------------------------------------------
(* Main's calls.                                                           *)

LEMMA JoinTwo ==
  ASSUME NEW a, NEW b
  PROVE  <<a>> \o <<b>> = <<a, b>>
<1> DEFINE s == <<a>> \o <<b>>
           t == <<a, b>>
           S == {a, b}
<1>1. s \in Seq(S) /\ t \in Seq(S) /\ Len(s) = 2 /\ Len(t) = 2
  OBVIOUS
<1>2. s[1] = t[1] /\ s[2] = t[2]
  OBVIOUS
<1>3. \A i \in 1..Len(s) : s[i] = t[i]
  BY <1>1, <1>2
<1> QED BY <1>1, <1>3, SeqEqual

LEMMA JoinOneTwo ==
  ASSUME NEW a, NEW b, NEW c
  PROVE  <<a>> \o <<b, c>> = <<a, b, c>>
<1> DEFINE s == <<a>> \o <<b, c>>
           t == <<a, b, c>>
           S == {a, b, c}
<1>1. s \in Seq(S) /\ t \in Seq(S) /\ Len(s) = 3 /\ Len(t) = 3
  OBVIOUS
<1>2. s[1] = t[1] /\ s[2] = t[2] /\ s[3] = t[3]
  OBVIOUS
<1>3. \A i \in 1..Len(s) : s[i] = t[i]
  BY <1>1, <1>2
<1> QED BY <1>1, <1>3, SeqEqual

LEMMA JoinThreeOne ==
  ASSUME NEW a, NEW b, NEW c, NEW d
  PROVE  <<a, b, c>> \o <<d>> = <<a, b, c, d>>
<1> DEFINE s == <<a, b, c>> \o <<d>>
           t == <<a, b, c, d>>
           S == {a, b, c, d}
<1>1. s \in Seq(S) /\ t \in Seq(S) /\ Len(s) = 4 /\ Len(t) = 4
  OBVIOUS
<1>2. s[1] = t[1] /\ s[2] = t[2] /\ s[3] = t[3] /\ s[4] = t[4]
  OBVIOUS
<1>3. \A i \in 1..Len(s) : s[i] = t[i]
  BY <1>1, <1>2
<1> QED BY <1>1, <1>3, SeqEqual

LEMMA JoinFourOne ==
  ASSUME NEW a, NEW b, NEW c, NEW d, NEW e
  PROVE  <<a, b, c, d>> \o <<e>> = <<a, b, c, d, e>>
<1> DEFINE s == <<a, b, c, d>> \o <<e>>
           t == <<a, b, c, d, e>>
           S == {a, b, c, d, e}
<1>1. s \in Seq(S) /\ t \in Seq(S) /\ Len(s) = 5 /\ Len(t) = 5
  OBVIOUS
<1>2. s[1] = t[1] /\ s[2] = t[2] /\ s[3] = t[3] /\ s[4] = t[4] /\ s[5] = t[5]
  OBVIOUS
<1>3. \A i \in 1..Len(s) : s[i] = t[i]
  BY <1>1, <1>2
<1> QED BY <1>1, <1>3, SeqEqual

LEMMA CleanupIs ==
  ASSUME relay = "none" <=> msg_queue = "none"
  PROVE  Cleanup = IF relay = "none" THEN <<"server_stop", "exit">> ELSE StopBoth
<1>1. CASE relay = "none"
  <2>1. Cleanup = <<"server_stop">> \o <<>> \o <<>> \o <<"exit">>
    BY <1>1, Zenon DEF Cleanup
  <2>2. <<"server_stop">> \in Seq({"server_stop"})
    OBVIOUS
  <2>3. <<"server_stop">> \o <<>> = <<"server_stop">>
    BY <2>2, ConcatEmptySeq
  <2> QED BY <1>1, <2>1, <2>3, JoinTwo
<1>2. CASE relay # "none"
  <2>1. Cleanup = <<"server_stop">> \o <<"relay_stop", "delete_relay">> \o <<"delete_queue">> \o <<"exit">>
    BY <1>2, Zenon DEF Cleanup
  <2>2. <<"server_stop">> \o <<"relay_stop", "delete_relay">> = <<"server_stop", "relay_stop", "delete_relay">>
    BY JoinOneTwo
  <2>3. <<"server_stop", "relay_stop", "delete_relay">> \o <<"delete_queue">>
          = <<"server_stop", "relay_stop", "delete_relay", "delete_queue">>
    BY JoinThreeOne
  <2>4. <<"server_stop", "relay_stop", "delete_relay", "delete_queue">> \o <<"exit">>
          = <<"server_stop", "relay_stop", "delete_relay", "delete_queue", "exit">>
    BY JoinFourOne
  <2> QED BY <1>2, <2>1, <2>2, <2>3, <2>4 DEF StopBoth
<1> QED BY <1>1, <1>2

LEMMA ListHeads ==
  ASSUME calls \in Lists, calls # <<>>
  PROVE  /\ Head(calls) \in Call
         /\ Head(calls) = "relay_first_start" => Tail(calls) = <<"server_first_start">>
         /\ Head(calls) = "delete_relay" => calls = Deletes /\ Tail(calls) = <<"delete_queue", "exit">>
         /\ Head(calls) = "delete_queue" =>
              calls = <<"delete_queue", "exit">> /\ Tail(calls) = <<"exit">>
         /\ Head(calls) = "exit" => calls = <<"exit">> /\ Tail(calls) = <<>>
         /\ Tail(calls) \in Lists
         /\ calls \in Closing /\ Head(calls) # "exit" => Tail(calls) \in Closing
<1> USE DEF Closing, Deletes, StopRelay, StopBoth
<1>1. CASE calls \in Closing
  <2>1. CASE calls = StopBoth
    BY <2>1 DEF Call, Lists
  <2>2. CASE calls = StopRelay
    BY <2>2 DEF Call, Lists
  <2>3. CASE calls = Deletes
    BY <2>3 DEF Call, Lists
  <2>4. CASE calls = <<"delete_queue", "exit">>
    BY <2>4 DEF Call, Lists
  <2>5. CASE calls = <<"server_stop", "exit">>
    BY <2>5 DEF Call, Lists
  <2>6. CASE calls = <<"exit">>
    BY <2>6 DEF Call, Lists
  <2> QED BY <1>1, <2>1, <2>2, <2>3, <2>4, <2>5, <2>6
<1>2. CASE calls = <<"relay_first_start", "server_first_start">>
  BY <1>2 DEF Call, Lists
<1>3. CASE calls = <<"server_first_start">>
  BY <1>3 DEF Call, Lists
<1>4. CASE calls = <<"relay_start", "server_start">>
  BY <1>4 DEF Call, Lists
<1>5. CASE calls = <<"server_start">>
  BY <1>5 DEF Call, Lists
<1>6. CASE calls = <<"server_stop", "relay_stop">>
  BY <1>6 DEF Call, Lists
<1>7. CASE calls = <<"relay_stop">>
  BY <1>7 DEF Call, Lists
<1>8. CASE calls = <<"server_reload", "relay_reload">>
  BY <1>8 DEF Call, Lists
<1>9. CASE calls = <<"relay_reload">>
  BY <1>9 DEF Call, Lists
<1> QED BY <1>1, <1>2, <1>3, <1>4, <1>5, <1>6, <1>7, <1>8, <1>9 DEF Lists

-----------------------------------------------------------------------------
(* The two Services.                                                       *)

LEMMA ServerCall ==
  ASSUME SP!Steady, CallServer, AtCall("server_stop") \/ AtCall("exit") \/ SP!Settled
  PROVE  SP!Steady' /\ (SP!Settled => SP!Settled')
<1>1. Server!Start => SP!Start
  BY DEF Server!Start, SP!Start, Server!EnterStart, SP!EnterStart, Server!Return, SP!Return,
         Server!history, SP!history
<1>2. Server!Stop => SP!Stop
  BY DEF Server!Stop, SP!Stop, Server!Return, SP!Return, Server!history, SP!history
<1>3. AtCall("server_stop") \/ AtCall("exit") => SP!Stop
  BY <1>2 DEF CallServer, AtCall
<1> QED BY <1>1, <1>2, <1>3, SP!StartSteady, SP!StopSteady DEF CallServer

LEMMA RelayCall ==
  ASSUME RP!Steady, CallRelay, AtCall("relay_stop") \/ AtCall("delete_relay") \/ RP!Settled
  PROVE  RP!Steady' /\ (RP!Settled => RP!Settled')
<1>1. Relay!Start => RP!Start
  BY DEF Relay!Start, RP!Start, Relay!EnterStart, RP!EnterStart, Relay!Return, RP!Return,
         Relay!history, RP!history
<1>2. Relay!Stop => RP!Stop
  BY DEF Relay!Stop, RP!Stop, Relay!Return, RP!Return, Relay!history, RP!history
<1>3. AtCall("relay_stop") \/ AtCall("delete_relay") => RP!Stop
  BY <1>2 DEF CallRelay, AtCall
<1> QED BY <1>1, <1>2, <1>3, RP!StartSteady, RP!StopSteady DEF CallRelay

LEMMA ServerProceeding ==
  ASSUME SP!Steady, ServerProceeds
  PROVE  SP!Steady' /\ SP!Settled'
<1>1. \/ Server!StartHook \/ Server!StartHookFails \/ Server!Abort \/ Server!StopHooks
      \/ Server!Spawn \/ Server!LockMutex \/ Server!Wait \/ Server!StartReturns
      \/ Server!Join
  BY DEF ServerProceeds
<1>2. SP!Proceed
  BY <1>1 DEF SP!Proceed, Server!history, SP!history, Server!Hooks, SP!Hooks,
         Server!Return, SP!Return, Server!StartHook, SP!StartHook,
         Server!StartHookFails, SP!StartHookFails, Server!Abort, SP!Abort,
         Server!StopHook, SP!StopHook, Server!StopHooks, SP!StopHooks,
         Server!LeaveStop, SP!LeaveStop, Server!EnterStart, SP!EnterStart,
         Server!Spawn, SP!Spawn, Server!LockMutex, SP!LockMutex, Server!Wait, SP!Wait,
         Server!StartReturns, SP!StartReturns, Server!Join, SP!Join
<1> QED BY <1>2, SP!ProceedSteady

LEMMA RelayProceeding ==
  ASSUME RP!Steady, RelayProceeds
  PROVE  RP!Steady' /\ RP!Settled'
<1>1. \/ Relay!StartHook \/ Relay!StartHookFails \/ Relay!Abort \/ Relay!StopHooks
      \/ Relay!Spawn \/ Relay!LockMutex \/ Relay!Wait \/ Relay!StartReturns
      \/ Relay!Join
      \/ relay_caller = "start_hooks" /\ UNCHANGED relayvars
  BY DEF RelayProceeds
<1>2. CASE relay_caller = "start_hooks" /\ UNCHANGED relayvars
  BY <1>2, RP!UnchangedSteady DEF relayvars, RP!vars, RP!history, RP!Settled
<1>3. CASE ~(relay_caller = "start_hooks" /\ UNCHANGED relayvars)
  <2>1. RP!Proceed
    BY <1>1, <1>3 DEF RP!Proceed, Relay!history, RP!history, Relay!Hooks, RP!Hooks,
         Relay!Return, RP!Return, Relay!StartHook, RP!StartHook,
         Relay!StartHookFails, RP!StartHookFails, Relay!Abort, RP!Abort,
         Relay!StopHook, RP!StopHook, Relay!StopHooks, RP!StopHooks,
         Relay!LeaveStop, RP!LeaveStop, Relay!EnterStart, RP!EnterStart,
         Relay!Spawn, RP!Spawn, Relay!LockMutex, RP!LockMutex, Relay!Wait, RP!Wait,
         Relay!StartReturns, RP!StartReturns, Relay!Join, RP!Join
  <2> QED BY <2>1, RP!ProceedSteady
<1> QED BY <1>2, <1>3

LEMMA ServerThreadSteady ==
  ASSUME SP!Steady, ServerThread
  PROVE  SP!Steady' /\ (SP!Settled => SP!Settled')
<1>1. SP!ThreadSteps \/ UNCHANGED servervars
  BY DEF ServerThread, SP!ThreadSteps, Server!history, SP!history,
         Server!AnnounceRunning, SP!AnnounceRunning, Server!LockAndUnlock, SP!LockAndUnlock,
         Server!NotifyOne, SP!NotifyOne, Server!CheckRunning, SP!CheckRunning,
         Server!RunReturns, SP!RunReturns
<1> QED BY <1>1, SP!ThreadSteady, SP!UnchangedSteady DEF servervars, SP!vars, SP!history

LEMMA RelayThreadSteady ==
  ASSUME RP!Steady, RelayThread
  PROVE  RP!Steady' /\ (RP!Settled => RP!Settled')
<1>1. RP!ThreadSteps \/ UNCHANGED relayvars
  BY DEF RelayThread, RP!ThreadSteps, Relay!history, RP!history,
         Relay!AnnounceRunning, RP!AnnounceRunning, Relay!LockAndUnlock, RP!LockAndUnlock,
         Relay!NotifyOne, RP!NotifyOne, Relay!CheckRunning, RP!CheckRunning,
         Relay!RunReturns, RP!RunReturns
<1> QED BY <1>1, RP!ThreadSteady, RP!UnchangedSteady DEF relayvars, RP!vars, RP!history

\* What a step of main within a call of the server's, or the relay's, does to the
\* list of calls and to where the call is.
ServerWorks ==
  /\ process = "running" /\ calls # <<>> /\ Head(calls) \in ServerCalls
  /\ relay_caller = "idle"
  /\ MakeCall(server_caller', server_result')
  /\ UNCHANGED <<pointers, state, relayvars>>
  /\ Head(calls) \in ServerStops =>
       /\ server_caller' \in {"idle", "join", "stop_hooks"} /\ ~server_reloading'
       /\ server_caller' = "idle" => ~server_running'
  /\ Head(calls) = "exit" => ~(Idle /\ SP!AllDownNow)

RelayWorks ==
  /\ process = "running" /\ calls # <<>> /\ Head(calls) \in RelayCalls
  /\ server_caller = "idle"
  /\ MakeCall(relay_caller', relay_result')
  /\ UNCHANGED <<pointers, state, servervars>>
  /\ relay_caller' = "abort" => relay_hook' = 0
  /\ Head(calls) \in RelayStops =>
       /\ relay_caller' \in {"idle", "join", "stop_hooks"} /\ ~relay_reloading'
       /\ relay_caller' = "idle" => ~relay_running'
  /\ Head(calls) = "delete_relay" => ~(Idle /\ RP!AllDownNow)
  /\ asked # "busy" /\ Head(calls) = "relay_first_start"
       /\ relay_caller' = "idle" /\ relay_result' # "started" => ~relay_running'

LEMMA CallServerWorks ==
  ASSUME SP!Steady, Calls, CallServer
  PROVE  ServerWorks
<1>1. process = "running" /\ calls # <<>> /\ Head(calls) \in ServerCalls
  BY DEF CallServer, AtCall, ServerCalls, ServerStops
<1>2. Head(calls) \in ServerStops => Server!Stop /\ ~server_reloading'
  BY DEF CallServer, AtCall, ServerStops
<1>4. Head(calls) = "exit" => ~SP!AllDownNow
  BY DEF CallServer, AtCall, SP!AllDownNow
<1>3. Server!Stop => /\ server_caller' \in {"idle", "join"}
                     /\ server_caller' = "idle" => ~server_running'
  BY DEF Server!Stop, Server!Return
<1> QED BY <1>1, <1>2, <1>3, <1>4 DEF CallServer, Idle, ServerWorks

LEMMA CallRelayWorks ==
  ASSUME RP!Steady, Calls, CallRelay, asked # "busy" => Phases
  PROVE  RelayWorks
<1>1. process = "running" /\ calls # <<>> /\ Head(calls) \in RelayCalls
  BY DEF CallRelay, AtCall, RelayCalls, RelayStops
<1>2. Head(calls) \in RelayStops => Relay!Stop /\ ~relay_reloading'
  BY DEF CallRelay, AtCall, RelayStops
<1>7. Head(calls) = "delete_relay" => ~RP!AllDownNow
  BY DEF CallRelay, AtCall, RP!AllDownNow
<1>3. Relay!Stop => /\ relay_caller' \in {"idle", "join"}
                    /\ relay_caller' = "idle" => ~relay_running'
  BY DEF Relay!Stop, Relay!Return
<1>4. Relay!Start => relay_caller' \in {"idle", "start_hooks"}
  BY DEF Relay!Start, Relay!EnterStart, Relay!Return
<1>5. relay_caller' # "abort"
  BY <1>3, <1>4 DEF CallRelay
<1>6. ASSUME asked # "busy", Head(calls) = "relay_first_start", relay_caller' = "idle"
      PROVE  ~relay_running'
  <2>1. calls = <<"relay_first_start", "server_first_start">>
    BY <1>1, <1>6 DEF Calls, Lists, Closing, Deletes, StopRelay, StopBoth
  <2>2. ~relay_running
    BY <1>6, <2>1 DEF Phases, RP!AllDownNow, CallRelay, Idle
  <2>3. Relay!Start
    BY <1>6 DEF CallRelay, AtCall
  <2> QED BY <2>2, <2>3 DEF Relay!Start
<1> QED BY <1>1, <1>2, <1>3, <1>5, <1>6, <1>7 DEF CallRelay, Idle, RelayWorks

LEMMA ServerProceedsWorks ==
  ASSUME SP!Steady, Calls, ServerProceeds
  PROVE  ServerWorks
<1> USE DEF Server!Return, Server!history
<1>1. server_caller \in {"start_hooks", "abort", "lock", "locked", "woken", "join", "stop_hooks"}
  BY DEF ServerProceeds, Server!StartHook, Server!StartHookFails, Server!Abort,
         Server!StopHooks, Server!Spawn, Server!LockMutex, Server!Wait,
         Server!StartReturns, Server!Join
<1>2. calls # <<>> /\ Head(calls) \in ServerCalls /\ relay_caller = "idle"
  BY <1>1 DEF Calls
<1>3. ASSUME Head(calls) \in ServerStops
      PROVE  /\ server_caller' \in {"idle", "join", "stop_hooks"} /\ ~server_reloading'
             /\ server_caller' = "idle" => ~server_running'
  <2>1. server_caller \in {"join", "stop_hooks"} /\ ~server_reloading
    BY <1>1, <1>3 DEF Calls
  <2>2. Server!Join \/ Server!StopHooks
    BY <2>1 DEF ServerProceeds, Server!StartHook, Server!StartHookFails, Server!Abort,
                Server!Spawn, Server!LockMutex, Server!Wait, Server!StartReturns
  <2>3. CASE Server!Join
    BY <2>1, <2>3 DEF Server!Join
  <2>4. CASE Server!StopHooks
    <3>1. ~server_running /\ ~server_running'
      BY <2>4 DEF Server!StopHooks, SP!Steady, SP!Agree
    <3> QED BY <2>1, <2>4, <3>1 DEF Server!StopHooks, Server!StopHook, Server!LeaveStop
  <2> QED BY <2>2, <2>3, <2>4
<1> QED BY <1>1, <1>2, <1>3 DEF ServerProceeds, ServerWorks, Idle

LEMMA RelayProceedsWorks ==
  ASSUME RP!Steady, Calls, RelayProceeds
  PROVE  RelayWorks
<1> USE DEF Relay!Return, Relay!history
<1>1. relay_caller \in {"start_hooks", "abort", "lock", "locked", "woken", "join", "stop_hooks"}
  BY DEF RelayProceeds, Relay!StartHook, Relay!StartHookFails, Relay!Abort,
         Relay!StopHooks, Relay!Spawn, Relay!LockMutex, Relay!Wait,
         Relay!StartReturns, Relay!Join
<1>2. calls # <<>> /\ Head(calls) \in RelayCalls /\ server_caller = "idle"
  BY <1>1 DEF Calls
<1>3. ASSUME Head(calls) \in RelayStops
      PROVE  /\ relay_caller' \in {"idle", "join", "stop_hooks"} /\ ~relay_reloading'
             /\ relay_caller' = "idle" => ~relay_running'
  <2>1. relay_caller \in {"join", "stop_hooks"} /\ ~relay_reloading
    BY <1>1, <1>3 DEF Calls
  <2>2. Relay!Join \/ Relay!StopHooks
    BY <2>1 DEF RelayProceeds, Relay!StartHook, Relay!StartHookFails, Relay!Abort,
                Relay!Spawn, Relay!LockMutex, Relay!Wait, Relay!StartReturns
  <2>3. CASE Relay!Join
    BY <2>1, <2>3 DEF Relay!Join
  <2>4. CASE Relay!StopHooks
    <3>1. ~relay_running /\ ~relay_running'
      BY <2>4 DEF Relay!StopHooks, RP!Steady, RP!Agree
    <3> QED BY <2>1, <2>4, <3>1 DEF Relay!StopHooks, Relay!StopHook, Relay!LeaveStop
  <2> QED BY <2>2, <2>3, <2>4
<1>4. \/ relay_caller' = relay_caller \/ Relay!Abort \/ Relay!StopHooks
      \/ relay_hook = 1 /\ Relay!StartHookFails
      \/ relay_caller' = "idle" /\ relay_result' = "started"
      \/ relay_caller' \in {"lock", "terminated", "locked", "waiting", "stop_hooks"}
  BY DEF RelayProceeds, relayvars, Relay!StartHook, Relay!Spawn, Relay!LockMutex,
         Relay!Wait, Relay!StartReturns, Relay!Join
<1>5. relay_caller' = "abort" => relay_hook' = 0
  <2> SUFFICES ASSUME relay_caller' = "abort" PROVE relay_hook' = 0
    OBVIOUS
  <2>1. CASE relay_hook = 1 /\ Relay!StartHookFails
    BY <2>1 DEF Relay!StartHookFails
  <2>2. CASE Relay!StopHooks
    BY <2>2 DEF Relay!StopHooks, Relay!StopHook, Relay!LeaveStop, Relay!EnterStart
  <2>3. CASE relay_caller = "abort"
    <3>1. relay_hook = 0 /\ Relay!Abort
      BY <2>3 DEF Calls, RelayProceeds, Relay!StartHook, Relay!StartHookFails,
                  Relay!StopHooks, Relay!Spawn, Relay!LockMutex, Relay!Wait,
                  Relay!StartReturns, Relay!Join
    <3> QED BY <3>1 DEF Relay!Abort, Relay!Hooks
  <2> QED BY <1>4, <2>1, <2>2, <2>3 DEF Relay!Abort
<1>6. relay_caller' = "idle" /\ relay_result' # "started" => ~relay_running'
  <2> SUFFICES ASSUME relay_caller' = "idle", relay_result' # "started" PROVE ~relay_running'
    OBVIOUS
  <2>1. Relay!Abort \/ Relay!StopHooks
    BY <1>1, <1>4 DEF Relay!StartHookFails
  <2>2. ~relay_running /\ relay_running' = relay_running
    BY <2>1 DEF Relay!Abort, Relay!StopHooks, RP!Steady, RP!Agree
  <2> QED BY <2>2
<1> QED BY <1>1, <1>2, <1>3, <1>5, <1>6 DEF RelayProceeds, RelayWorks, Idle

\* Where the lists go on.
LEMMA ListRest ==
  ASSUME calls \in Lists, calls # <<>>, NEW how, Head(calls) \in ServerCalls \cup RelayCalls
  PROVE  /\ Rest(how) \in Lists
         /\ calls \in Closing => Rest(how) \in Closing
BY ListHeads DEF Rest, Lists, Closing, Deletes, ServerCalls, RelayCalls, ServerStops, RelayStops

LEMMA ServerRest ==
  ASSUME calls \in Lists, calls # <<>>, NEW how, Head(calls) \in ServerCalls
  PROVE  \/ Rest(how) \in {<<>>, <<"exit">>, <<"relay_stop">>, <<"relay_reload">>}
         \/ Rest(how) = StopRelay /\ Head(calls) = "server_stop"
<1> USE DEF Rest, StopRelay
<1>1. CASE calls = StopBoth
  <2>1. Head(calls) = "server_stop" /\ Tail(calls) = StopRelay
    BY <1>1 DEF StopBoth
  <2> QED BY <2>1
<1>2. CASE calls = <<"server_stop", "exit">>
  BY <1>2
<1>7. CASE calls = <<"exit">>
  BY <1>7
<1>3. CASE calls = <<"server_stop", "relay_stop">>
  BY <1>3
<1>4. CASE calls = <<"server_first_start">>
  BY <1>4
<1>5. CASE calls = <<"server_start">>
  BY <1>5
<1>6. CASE calls = <<"server_reload", "relay_reload">>
  BY <1>6
<1> QED BY <1>1, <1>2, <1>3, <1>4, <1>5, <1>6, <1>7
   DEF Lists, Closing, Deletes, ServerCalls, ServerStops

LEMMA RelayRest ==
  ASSUME calls \in Lists, calls # <<>>, NEW how, Head(calls) \in RelayCalls
  PROVE  \/ Rest(how) \in {<<>>, <<"server_first_start">>, <<"server_start">>}
         \/ /\ Rest(how) = Deletes
            /\ \/ calls = StopRelay /\ Head(calls) = "relay_stop"
               \/ calls = Deletes /\ Head(calls) = "delete_relay"
               \/ /\ calls = <<"relay_first_start", "server_first_start">>
                  /\ Head(calls) = "relay_first_start" /\ how # "started"
<1> USE DEF Rest, Deletes
<1>1. CASE calls = StopRelay
  BY <1>1 DEF StopRelay
<1>2. CASE calls = <<"relay_first_start", "server_first_start">>
  BY <1>2
<1>3. CASE calls = <<"relay_start", "server_start">>
  BY <1>3
<1>4. CASE calls = <<"relay_stop">>
  BY <1>4
<1>5. CASE calls = <<"relay_reload">>
  BY <1>5
<1>6. CASE calls = Deletes
  BY <1>6
<1> QED BY <1>1, <1>2, <1>3, <1>4, <1>5, <1>6 DEF Lists, Closing, StopBoth, RelayCalls, RelayStops

LEMMA ServerWorksCalls ==
  ASSUME Calls, ServerWorks
  PROVE  Calls'
<1>1. calls \in Lists /\ Head(calls) \notin RelayCalls
  BY DEF Calls, ServerWorks, ServerCalls, RelayCalls, ServerStops, RelayStops
<1>2. calls' \in Lists /\ (calls \in Closing => calls' \in Closing)
  BY <1>1, ListRest DEF ServerWorks, MakeCall
<1>3. server_caller' # "idle" => calls' = calls
  BY DEF ServerWorks, MakeCall
<1>4. relay_caller' = "idle" /\ UNCHANGED <<asked, process, relay, msg_queue>>
  BY DEF ServerWorks, relayvars, state, pointers
<1> QED BY <1>1, <1>2, <1>3, <1>4 DEF Calls, ServerWorks

LEMMA RelayWorksCalls ==
  ASSUME Calls, RelayWorks
  PROVE  Calls'
<1>1. calls \in Lists /\ Head(calls) \notin ServerCalls
  BY DEF Calls, RelayWorks, ServerCalls, RelayCalls, ServerStops, RelayStops
<1>2. calls' \in Lists /\ (calls \in Closing => calls' \in Closing)
  BY <1>1, ListRest DEF RelayWorks, MakeCall
<1>3. relay_caller' # "idle" => calls' = calls
  BY DEF RelayWorks, MakeCall
<1>4. server_caller' = "idle" /\ UNCHANGED <<asked, process, relay, msg_queue>>
  BY DEF RelayWorks, servervars, state, pointers
<1> QED BY <1>1, <1>2, <1>3, <1>4 DEF Calls, RelayWorks

\* The lists a phase is about begin with other calls than those at work.
LEMMA PhaseHeads ==
  /\ Head(<<"exit">>) = "exit" /\ Head(<<"delete_queue", "exit">>) = "delete_queue"
  /\ Head(Deletes) = "delete_relay" /\ Head(StopRelay) = "relay_stop"
  /\ Head(<<"relay_first_start", "server_first_start">>) = "relay_first_start"
BY DEF Deletes, StopRelay

\* The lists are different.
LEMMA PhaseLists ==
  /\ {<<>>, <<"exit">>, <<"relay_stop">>, <<"relay_reload">>, StopRelay,
      <<"server_first_start">>, <<"server_start">>} \cap
       {<<"delete_queue", "exit">>, Deletes,
        <<"relay_first_start", "server_first_start">>} = {}
  /\ StopRelay \notin {<<>>, <<"exit">>, <<"relay_stop">>, <<"relay_reload">>, Deletes,
                       <<"server_first_start">>, <<"server_start">>}
  /\ Deletes # <<"relay_first_start", "server_first_start">>
BY DEF Deletes, StopRelay

LEMMA ServerWorksPhases ==
  ASSUME Calls, Phases, ServerWorks, SP!Settled'
  PROVE  Phases'
<1>1. calls \in Lists /\ calls # <<>> /\ Head(calls) \notin RelayCalls
      /\ Head(calls) \notin {"delete_relay", "delete_queue"}
      /\ Head(calls) \in ServerCalls
  BY DEF Calls, ServerWorks, ServerCalls, RelayCalls, ServerStops, RelayStops
<1>2. msg_queue' = msg_queue /\ msg_queue # "deleted"
  BY <1>1, PhaseHeads DEF ServerWorks, Phases, pointers
<1>3. UNCHANGED relayvars /\ RP!Settled'
  BY DEF ServerWorks, Phases, relayvars, RP!Settled, RP!AllDownNow, RP!AllDown
<1>4. CASE server_caller' # "idle"
  <2>1. calls' = calls
    BY <1>4 DEF ServerWorks, MakeCall
  <2> QED BY <1>1, <1>2, <1>3, <2>1, PhaseHeads DEF Phases, RelayCalls, RelayStops
<1>5. CASE server_caller' = "idle"
  <2>1. calls' = Rest(server_result')
    BY <1>5 DEF ServerWorks, MakeCall
  <2>2. \/ calls' \in {<<>>, <<"exit">>, <<"relay_stop">>, <<"relay_reload">>}
        \/ calls' = StopRelay /\ Head(calls) = "server_stop"
    BY <1>1, <2>1, ServerRest
  <2>3. Head(calls) = "server_stop" => SP!AllDownNow'
    BY <1>5 DEF ServerWorks, ServerStops, SP!Settled, SP!AllDownNow
  <2> QED BY <1>2, <1>3, <1>5, <2>2, <2>3, PhaseLists DEF Phases
<1> QED BY <1>4, <1>5

LEMMA RelayWorksPhases ==
  ASSUME Calls, Phases, RelayWorks, RP!Settled', asked # "busy"
  PROVE  Phases'
<1>1. calls \in Lists /\ calls # <<>> /\ Head(calls) \notin ServerCalls
      /\ Head(calls) \notin {"exit", "delete_queue"}
      /\ Head(calls) \in RelayCalls
  BY DEF Calls, RelayWorks, ServerCalls, RelayCalls, ServerStops, RelayStops
<1>6. calls # Deletes
  BY PhaseHeads DEF RelayWorks, Phases
<1>2. msg_queue' = msg_queue /\ msg_queue # "deleted"
  BY <1>1, PhaseHeads DEF RelayWorks, Phases, pointers
<1>3. UNCHANGED servervars /\ SP!Settled' /\ (SP!AllDownNow => SP!AllDownNow')
      /\ server_caller' = server_caller
  BY DEF RelayWorks, Phases, servervars, SP!Settled, SP!AllDownNow, SP!AllDown
<1>4. CASE relay_caller' # "idle"
  <2>1. calls' = calls
    BY <1>4 DEF RelayWorks, MakeCall
  <2> QED BY <1>1, <1>2, <1>3, <1>4, <1>6, <2>1, PhaseHeads DEF Phases
<1>5. CASE relay_caller' = "idle"
  <2>1. calls' = Rest(relay_result')
    BY <1>5 DEF RelayWorks, MakeCall
  <2>2. CASE calls' \in {<<>>, <<"server_first_start">>, <<"server_start">>}
    BY <1>2, <1>3, <2>2, PhaseLists DEF Phases
  <2>3. CASE calls' \notin {<<>>, <<"server_first_start">>, <<"server_start">>}
    <3>1. /\ calls' = Deletes
          /\ \/ calls = StopRelay /\ Head(calls) = "relay_stop"
             \/ /\ calls = <<"relay_first_start", "server_first_start">>
                /\ Head(calls) = "relay_first_start" /\ relay_result' # "started"
      BY <1>1, <1>6, <2>1, <2>3, RelayRest
    <3>2. server_caller = "idle" /\ SP!AllDownNow
      BY <3>1 DEF Phases
    <3>3. RP!AllDownNow'
      BY <1>5, <3>1 DEF RelayWorks, RelayStops, RP!Settled, RP!AllDownNow
    <3> QED BY <1>2, <1>3, <1>5, <3>1, <3>2, <3>3, PhaseLists DEF Phases, Idle
  <2> QED BY <2>2, <2>3
<1> QED BY <1>4, <1>5

-----------------------------------------------------------------------------
(* The steps, as far as they do not concern what hooks do.                 *)

LEMMA BothSteady == Inv => SP!Steady /\ RP!Steady
BY DEF Inv, TypeOK, SP!Steady, RP!Steady, Server!TypeOK, SP!TypeOK, Relay!TypeOK, RP!TypeOK,
       Server!Busy, SP!Busy, Relay!Busy, RP!Busy, Server!Hooks, SP!Hooks, Relay!Hooks, RP!Hooks

LEMMA SteadyTypes ==
  /\ SP!Steady' => Server!TypeOK' /\ SP!Agree'
  /\ RP!Steady' => Relay!TypeOK' /\ RP!Agree'
BY DEF SP!Steady, RP!Steady, Server!TypeOK, SP!TypeOK, Relay!TypeOK, RP!TypeOK,
       Server!Busy, SP!Busy, Relay!Busy, RP!Busy, Server!Hooks, SP!Hooks, Relay!Hooks, RP!Hooks

\* Steps of main that are not in a call of a Service.
Beside ==
  CallNoRelay \/ UnbindCrash \/ Command \/ delete_relay \/ delete_queue \/ Exit \/ End

LEMMA BesideFrame ==
  ASSUME Beside
  PROVE  UNCHANGED <<servervars, relayvars, io_context, held>>
BY DEF Beside, CallNoRelay, UnbindCrash, Command, delete_relay, delete_queue, Exit, End

\* Starts are not called for once the process was asked to end.
LEMMA StartsInTime ==
  ASSUME Calls, process = "running", calls # <<>>,
         Head(calls) \in {"server_first_start", "server_start", "server_reload",
                          "relay_first_start", "relay_start", "relay_reload"}
  PROVE  asked = "no"
<1>1. calls \notin Closing
  BY DEF Closing, Deletes, StopRelay, StopBoth
<1> QED BY <1>1 DEF Calls

LEMMA NextSteady ==
  ASSUME Inv, [Next]_vars
  PROVE  SP!Steady' /\ RP!Steady'
<1>0. SP!Steady /\ RP!Steady
  BY BothSteady
<1>1. UNCHANGED servervars => SP!Steady'
  BY <1>0, SP!UnchangedSteady DEF servervars, SP!vars, SP!history
<1>2. UNCHANGED relayvars => RP!Steady'
  BY <1>0, RP!UnchangedSteady DEF relayvars, RP!vars, RP!history
<1>3. CASE CallServer
  <2>1. AtCall("server_stop") \/ AtCall("exit") \/ SP!Settled
    BY <1>3, StartsInTime DEF Inv, Phases, CallServer, AtCall
  <2> QED BY <1>0, <1>2, <1>3, <2>1, ServerCall DEF CallServer
<1>4. CASE CallRelay
  <2>1. AtCall("relay_stop") \/ AtCall("delete_relay") \/ RP!Settled
    BY <1>4, StartsInTime DEF Inv, Phases, CallRelay, AtCall
  <2> QED BY <1>0, <1>1, <1>4, <2>1, RelayCall DEF CallRelay
<1>5. CASE ServerProceeds
  BY <1>0, <1>2, <1>5, ServerProceeding DEF ServerProceeds
<1>6. CASE RelayProceeds
  BY <1>0, <1>1, <1>6, RelayProceeding DEF RelayProceeds
<1>7. CASE Beside
  BY <1>1, <1>2, <1>7, BesideFrame
<1>8. CASE Interrupt
  BY <1>0, <1>8, SP!CutShort, RP!CutShort DEF Interrupt, SP!history, RP!history
<1>9. CASE ServerThread
  BY <1>0, <1>2, <1>9, ServerThreadSteady DEF ServerThread
<1>10. CASE RelayThread
  BY <1>0, <1>1, <1>10, RelayThreadSteady DEF RelayThread
<1>11. CASE UNCHANGED vars
  BY <1>1, <1>2, <1>11 DEF vars
<1> QED BY <1>3, <1>4, <1>5, <1>6, <1>7, <1>8, <1>9, <1>10, <1>11 DEF Next, Main, Beside

\* A step of a Service's thread, as main's thread sees it.
LEMMA ThreadSeen ==
  /\ ServerThread => \/ UNCHANGED <<server_caller, server_reloading>>
                     \/ /\ server_caller = "waiting" /\ server_caller' = "woken"
                        /\ UNCHANGED server_reloading
  /\ RelayThread => /\ UNCHANGED relay_hook
                    /\ \/ UNCHANGED <<relay_caller, relay_reloading>>
                       \/ /\ relay_caller = "waiting" /\ relay_caller' = "woken"
                          /\ UNCHANGED relay_reloading
BY DEF ServerThread, RelayThread, servervars, relayvars, Server!history, Relay!history,
       Server!AnnounceRunning, Server!LockAndUnlock, Server!NotifyOne, Server!CheckRunning,
       Server!RunReturns, Relay!AnnounceRunning, Relay!LockAndUnlock, Relay!NotifyOne,
       Relay!CheckRunning, Relay!RunReturns

LEMMA BesideCalls ==
  ASSUME Calls, Beside
  PROVE  Calls'
<1>0. UNCHANGED <<server_caller, relay_caller, server_reloading, relay_reloading, relay_hook>>
  BY BesideFrame DEF servervars, relayvars
<1>1. CASE CallNoRelay \/ UnbindCrash \/ End
  <2>1. UNCHANGED <<calls, relay, msg_queue, asked>> /\ process' # "running"
    BY <1>1 DEF CallNoRelay, UnbindCrash, End, pointers
  <2> QED BY <1>0, <2>1 DEF Calls
<1>2. CASE Command
  <2>1. calls = <<>> /\ process = "running" /\ Idle
    BY <1>2 DEF Command
  <2>2. asked = "no"
    BY <2>1 DEF Calls, Closing, Deletes, StopRelay, StopBoth
  <2>3. UNCHANGED <<relay, msg_queue, process>>
    BY <1>2 DEF Command, pointers
  <2>4. <<>> \o <<"server_start">> = <<"server_start">>
        /\ <<"relay_start">> \o <<"server_start">> = <<"relay_start", "server_start">>
    BY <<"server_start">> \in Seq({"server_start"}), ConcatEmptySeq, JoinTwo
  <2>5. Cleanup \in Closing
    BY CleanupIs DEF Calls, Closing
  <2>6. calls' \in Lists /\ (asked' = "no" \/ calls' \in Closing)
    BY <1>2, <2>2, <2>4, <2>5 DEF Command, Lists
  <2> QED BY <1>0, <2>1, <2>3, <2>6 DEF Calls, Idle
<1>3. CASE delete_relay \/ delete_queue \/ Exit
  <2>1. /\ calls # <<>> /\ process = "running" /\ Idle /\ UNCHANGED asked
        /\ Head(calls) \in {"delete_relay", "delete_queue", "exit"}
    BY <1>3 DEF delete_relay, delete_queue, Exit, AtCall
  <2>2. relay' = "none" <=> msg_queue' = "none"
    BY <1>3 DEF delete_relay, delete_queue, Exit, Calls, pointers
  <2>5. calls' = Tail(calls) \/ (calls' = calls /\ process' # "running")
    BY <1>3 DEF delete_relay, delete_queue, Exit
  <2>3. calls' \in Lists
    BY <2>1, <2>5, ListHeads DEF Calls
  <2>4. asked # "no" /\ process' = "running" => calls' \in Closing
    <3>1. Exit => process' # "running"
      BY DEF Exit
    <3>2. Head(calls) = "exit" => Exit
      BY <1>3 DEF delete_relay, delete_queue, AtCall
    <3> QED BY <2>1, <2>5, <3>1, <3>2, ListHeads DEF Calls
  <2> QED BY <1>0, <2>1, <2>2, <2>3, <2>4 DEF Calls, Idle
<1> QED BY <1>1, <1>2, <1>3 DEF Beside

LEMMA NextCalls ==
  ASSUME Inv, [Next]_vars
  PROVE  Calls'
<1>0. SP!Steady /\ RP!Steady /\ Calls /\ (asked # "busy" => Phases)
  BY BothSteady DEF Inv
<1>1. CASE CallServer \/ ServerProceeds
  BY <1>0, <1>1, CallServerWorks, ServerProceedsWorks, ServerWorksCalls
<1>2. CASE CallRelay \/ RelayProceeds
  BY <1>0, <1>2, CallRelayWorks, RelayProceedsWorks, RelayWorksCalls
<1>3. CASE Beside
  BY <1>0, <1>3, BesideCalls
<1>4. CASE Interrupt
  <2>1. calls' \in Closing /\ calls' \in Lists
    BY <1>0, <1>4, CleanupIs DEF Interrupt, Calls, Closing, Lists
  <2>2. /\ server_caller' = "idle" /\ relay_caller' = "idle"
        /\ UNCHANGED <<relay, msg_queue>>
    BY <1>4 DEF Interrupt, pointers
  <2> QED BY <1>0, <2>1, <2>2 DEF Calls
<1>5. CASE ServerThread
  BY <1>0, <1>5, ThreadSeen DEF ServerThread, Calls, relayvars, pointers, state
<1>6. CASE RelayThread
  BY <1>0, <1>6, ThreadSeen DEF RelayThread, Calls, servervars, pointers, state
<1>7. CASE UNCHANGED vars
  BY <1>0, <1>7 DEF vars, Calls, servervars, relayvars, pointers
<1> QED BY <1>1, <1>2, <1>3, <1>4, <1>5, <1>6, <1>7 DEF Next, Main, Beside

LEMMA ServerDownStays ==
  ASSUME UNCHANGED servervars
  PROVE  (SP!AllDownNow => SP!AllDownNow') /\ (SP!Settled => SP!Settled')
BY DEF servervars, SP!AllDownNow, SP!Settled, SP!AllDown

LEMMA RelayDownStays ==
  ASSUME UNCHANGED relayvars
  PROVE  (RP!AllDownNow => RP!AllDownNow') /\ (RP!Settled => RP!Settled')
BY DEF relayvars, RP!AllDownNow, RP!Settled, RP!AllDown

LEMMA BesidePhases ==
  ASSUME Calls, Phases, Beside
  PROVE  Phases'
<1>1. /\ UNCHANGED <<servervars, relayvars, server_caller, relay_caller>>
      /\ SP!Settled' /\ RP!Settled' /\ (SP!AllDownNow => SP!AllDownNow')
      /\ (RP!AllDownNow => RP!AllDownNow')
  BY BesideFrame, ServerDownStays, RelayDownStays DEF Phases, servervars, relayvars
<1>2. CASE CallNoRelay \/ UnbindCrash \/ End
  BY <1>1, <1>2 DEF Phases, CallNoRelay, UnbindCrash, End, pointers, Idle
<1>3. CASE Command
  <2>1. calls = <<>> /\ process = "running" /\ msg_queue' = msg_queue /\ Idle
    BY <1>3 DEF Command, pointers
  <2>2. msg_queue' # "deleted"
    BY <2>1 DEF Phases
  <2>3. calls' \in {<<>> \o <<"server_start">>, <<"relay_start">> \o <<"server_start">>,
                    <<"server_stop", "relay_stop">>, <<"server_reload", "relay_reload">>,
                    Cleanup}
    BY <1>3 DEF Command
  <2>4. Head(calls') \in {"server_start", "relay_start", "server_stop", "server_reload"}
    <3>1. Head(<<>> \o <<"server_start">>) = "server_start"
      BY <<"server_start">> \in Seq({"server_start"}), ConcatEmptySeq
    <3>2. Head(<<"relay_start">> \o <<"server_start">>) = "relay_start"
      BY JoinTwo
    <3>3. Head(Cleanup) = "server_stop"
      BY CleanupIs DEF Calls, StopBoth
    <3> QED BY <2>3, <3>1, <3>2, <3>3
  <2> QED BY <1>1, <2>2, <2>4, PhaseHeads DEF Phases
<1>4. CASE delete_relay
  <2>1. calls = Deletes /\ msg_queue' = msg_queue
    BY <1>4, ListHeads DEF delete_relay, AtCall, Calls
  <2>2. Idle /\ SP!AllDownNow /\ RP!AllDownNow
    BY <2>1 DEF Phases
  <2>3. calls # <<"exit">> /\ process = "running"
    BY <1>4, <2>1, PhaseHeads DEF delete_relay, AtCall
  <2>4. msg_queue' # "deleted"
    BY <2>1, <2>3 DEF Phases
  <2>5. calls' = <<"delete_queue", "exit">> \/ calls' = Deletes
    BY <1>4, <2>1, ListHeads DEF delete_relay, AtCall, Calls
  <2> QED BY <1>1, <2>2, <2>4, <2>5, PhaseLists DEF Phases, Idle
<1>5. CASE delete_queue
  <2>1. calls = <<"delete_queue", "exit">> /\ calls' = <<"exit">>
    BY <1>5, ListHeads DEF delete_queue, AtCall, Calls
  <2>2. Idle /\ SP!AllDownNow /\ RP!AllDownNow
    BY <2>1 DEF Phases
  <2> QED BY <1>1, <2>1, <2>2, PhaseLists DEF Phases, Idle
<1>6. CASE Exit
  <2>1. calls' \in {<<>>, <<"exit">>} /\ msg_queue' = msg_queue /\ process' # "running"
    BY <1>6, ListHeads DEF Exit, AtCall, Calls, pointers
  <2> QED BY <1>1, <2>1, PhaseLists DEF Phases, Idle
<1> QED BY <1>2, <1>3, <1>4, <1>5, <1>6 DEF Beside

LEMMA InterruptPhases ==
  ASSUME SP!Steady, RP!Steady, Calls, Phases, Interrupt, asked' # "busy"
  PROVE  Phases'
<1>1. Quiet /\ process = "running"
  BY DEF Interrupt
<1>2. UNCHANGED <<server_running, server_thread, server_up, relay_running, relay_thread,
                  relay_up, msg_queue>>
  BY DEF Interrupt, pointers
<1>3. server_caller = "idle" \/ server_running
  BY <1>1 DEF Quiet, Calls
<1>4. relay_caller = "idle" \/ relay_running
  BY <1>1 DEF Quiet, Calls
<1>5. SP!Settled' /\ RP!Settled'
  BY <1>2, <1>3, <1>4 DEF Phases, SP!Settled, RP!Settled, SP!AllDownNow, RP!AllDownNow,
                          SP!AllDown, RP!AllDown
<1>6. Head(calls') = "server_stop"
  BY CleanupIs DEF Calls, StopBoth, Interrupt
<1>7. msg_queue # "deleted"
  BY <1>1 DEF Quiet, Phases, Idle
<1> QED BY <1>2, <1>5, <1>6, <1>7, PhaseHeads DEF Phases

LEMMA ServerThreadPhases ==
  ASSUME SP!Steady, Phases, ServerThread
  PROVE  Phases'
<1>1. UNCHANGED <<relayvars, relay_caller, calls, msg_queue, process>>
  BY DEF ServerThread, relayvars, pointers, state
<1>2. SP!Settled' /\ RP!Settled' /\ (RP!AllDownNow => RP!AllDownNow')
  BY <1>1, ServerThreadSteady, RelayDownStays DEF Phases
<1>3. server_thread # "none"
  BY DEF ServerThread, Server!AnnounceRunning, Server!LockAndUnlock, Server!NotifyOne,
         Server!CheckRunning, Server!RunReturns
<1>4. ~SP!AllDownNow
  BY <1>3 DEF SP!AllDownNow
<1> QED BY <1>1, <1>2, <1>4 DEF Phases, Idle

LEMMA RelayThreadPhases ==
  ASSUME RP!Steady, Phases, RelayThread
  PROVE  Phases'
<1>1. UNCHANGED <<servervars, server_caller, calls, msg_queue, process>>
  BY DEF RelayThread, servervars, pointers, state
<1>2. SP!Settled' /\ RP!Settled' /\ (SP!AllDownNow => SP!AllDownNow')
  BY <1>1, RelayThreadSteady, ServerDownStays DEF Phases
<1>3. relay_thread # "none"
  BY DEF RelayThread, Relay!AnnounceRunning, Relay!LockAndUnlock, Relay!NotifyOne,
         Relay!CheckRunning, Relay!RunReturns
<1>4. ~RP!AllDownNow
  BY <1>3 DEF RP!AllDownNow
<1>5. relay_caller = "idle" => relay_caller' = "idle"
  BY ThreadSeen
<1> QED BY <1>1, <1>2, <1>4, <1>5, ThreadSeen DEF Phases, Idle

LEMMA NextPhases ==
  ASSUME Inv, [Next]_vars, asked' # "busy"
  PROVE  Phases'
<1>0. SP!Steady /\ RP!Steady /\ Calls /\ (asked # "busy" => Phases)
  BY BothSteady DEF Inv
<1>1. asked # "busy"
  <2>1. Command => asked = "no"
    BY <1>0 DEF Command, Calls, Closing, Deletes, StopRelay, StopBoth
  <2> QED
    BY <2>1 DEF Next, Main, vars, CallServer, CallRelay, CallNoRelay, UnbindCrash, ServerProceeds,
                RelayProceeds, delete_relay, delete_queue, Exit, End, Interrupt,
                ServerThread, RelayThread, state
<1>2. CASE CallServer
  <2>1. SP!Settled'
    BY <1>0, <1>1, <1>2, ServerCall DEF Phases
  <2> QED BY <1>0, <1>1, <1>2, <2>1, CallServerWorks, ServerWorksPhases
<1>3. CASE ServerProceeds
  BY <1>0, <1>1, <1>3, ServerProceeding, ServerProceedsWorks, ServerWorksPhases
<1>4. CASE CallRelay
  <2>1. RP!Settled'
    BY <1>0, <1>1, <1>4, RelayCall DEF Phases
  <2> QED BY <1>0, <1>1, <1>4, <2>1, CallRelayWorks, RelayWorksPhases
<1>5. CASE RelayProceeds
  BY <1>0, <1>1, <1>5, RelayProceeding, RelayProceedsWorks, RelayWorksPhases
<1>6. CASE Beside
  BY <1>0, <1>1, <1>6, BesidePhases
<1>7. CASE Interrupt
  BY <1>0, <1>1, <1>7, InterruptPhases
<1>8. CASE ServerThread \/ RelayThread
  BY <1>0, <1>1, <1>8, ServerThreadPhases, RelayThreadPhases
<1>9. CASE UNCHANGED vars
  BY <1>0, <1>1, <1>9, ServerDownStays, RelayDownStays
     DEF vars, servervars, relayvars, pointers, Phases, Idle
<1> QED BY <1>2, <1>3, <1>4, <1>5, <1>6, <1>7, <1>8, <1>9 DEF Next, Main, Beside

-----------------------------------------------------------------------------
(* What hooks do with contexts.                                            *)

LEMMA NeedsDiffer ==
  /\ Needs("server") # Needs("relay")
  /\ \A s \in Services : Needs(s) \notin LeftBehind /\ Needs(s) \in SUBSET Attachment
  /\ LeftBehind \subseteq SUBSET Attachment
<1>1. /\ "data" \in Needs("server") /\ "data" \notin Needs("relay")
      /\ "nack" \in Needs("relay")
  BY DEF Needs
<1>2. \A S \in LeftBehind : "data" \notin S /\ "nack" \notin S
  BY DEF LeftBehind
<1>3. Needs("server") \in SUBSET Attachment /\ Needs("relay") \in SUBSET Attachment
  BY DEF Needs, Attachment
<1>4. LeftBehind \subseteq SUBSET Attachment
  BY DEF LeftBehind, Attachment
<1> QED BY <1>1, <1>2, <1>3, <1>4 DEF Services

\* Contexts, Owned and InIO in terms of what a descriptor stands for.
Has(s) == At(context_list, coap_context[s])

LEMMA HasIs ==
  ASSUME coap_context \in [Services -> Descriptor]
  PROVE  \A s \in Services : ContextAt(coap_context[s]) = Has(s)
<1>1. \A s \in Services : coap_context[s] \in Int
  BY TableAssumption DEF Descriptor, NoContext
<1> QED BY <1>1, ContextAtIs DEF Has

Holding ==
  /\ HooksTypeOK /\ Contexts
  /\ \A s \in Services : Owns(s) => Has(s) \in live /\ attached[Has(s)] = Needs(s)
  /\ \A s \in Services : \A c \in live : attached[c] = Needs(s) => Owns(s) /\ c = Has(s)
  /\ \A s \in Services : io_context[s] # NULL => io_context[s] = Has(s)

LEMMA HoldingIs ==
  /\ HooksTypeOK /\ Contexts /\ Owned /\ InIO => Holding
  /\ Holding => HooksTypeOK /\ Contexts /\ Owned /\ InIO
BY HasIs DEF Holding, Owned, InIO, HooksTypeOK

\* The table, and what belongs to the other Service, when one creates a context.
LEMMA CreatesContext ==
  ASSUME Holding, NEW s \in Services, NEW things \in LeftBehind \cup {Needs(s)},
         ~Owns(s), CreateContext(things), SetContext(s, NewDescriptor),
         \A r \in Services \ {s} : Owns(r)' <=> Owns(r),
         Owns(s)' <=> things = Needs(s),
         io_context[s] = NULL, io_context' = io_context,
         context_set' \subseteq context_set \cup {NewDescriptor},
         UNCHANGED <<context_sessions_map, config, python>>
  PROVE  Holding'
<1> DEFINE n == created + 1
<1> USE NeedsDiffer
<1>1. TableTypeOK /\ Named /\ coap_context \in [Services -> Descriptor]
  BY DEF Holding, HooksTypeOK, Contexts
<1>2. /\ NewDescriptor \in 0..MaxContexts - 1
      /\ n \in Context /\ n \notin live
      /\ At(context_list', NewDescriptor) = n
      /\ At(context_list, NewDescriptor) = NULL
      /\ \A d \in Int : d # NewDescriptor => At(context_list', d) = At(context_list, d)
      /\ context_list' \in Seq(Context \cup {NULL})
      /\ Len(context_list') <= Len(context_list) + 1
      /\ Len(context_list') # Len(context_list) => FreeSpots = {}
      /\ Named'
  BY <1>1, CreateInTable
<1>3. /\ live' = live \cup {n} /\ created' = n
      /\ attached' = [attached EXCEPT ![n] = things]
      /\ created < MaxContexts
  BY DEF CreateContext
<1>4. /\ attached'[n] = things
      /\ \A c \in live : attached'[c] = attached[c]
  BY <1>1, <1>2, <1>3 DEF TableTypeOK
<1>5. HooksTypeOK'
  <2>1. TableTypeOK'
    BY <1>1, <1>2, <1>3, TableAssumption DEF TableTypeOK
  <2>2. coap_context' \in [Services -> Descriptor]
    BY <1>1, <1>2, TableAssumption DEF SetContext, Descriptor, NoContext
  <2>3. context_set' \subseteq Descriptor
    BY <1>2, TableAssumption DEF Holding, HooksTypeOK, Descriptor, NoContext
  <2> QED BY <2>1, <2>2, <2>3 DEF Holding, HooksTypeOK, config, python
<1>6. Contexts'
  <2>1. \A c \in live' : attached'[c] \in LeftBehind \cup {Needs("server"), Needs("relay")}
    BY <1>3, <1>4 DEF Holding, Contexts, Services
  <2>2. Incomplete' = IF things \in LeftBehind THEN Incomplete \cup {n} ELSE Incomplete
    BY <1>2, <1>3, <1>4 DEF Incomplete
  <2>3. IsFiniteSet(live) /\ (FreeSpots = {} => Len(context_list) = Cardinality(live))
    BY <1>1, FullTable
  <2>4. IsFiniteSet(Incomplete) /\ Cardinality(Incomplete) \in Nat
    BY <2>3, FS_Subset, FS_CardinalityType DEF Incomplete
  <2>5. /\ Cardinality(Incomplete') \in Nat
        /\ Cardinality(Incomplete') >= Cardinality(Incomplete)
    <3>1. CASE things \in LeftBehind
      <4>1. \/ Cardinality(Incomplete \cup {n}) = Cardinality(Incomplete)
            \/ Cardinality(Incomplete \cup {n}) = Cardinality(Incomplete) + 1
        BY <2>4, FS_AddElement
      <4>2. Incomplete' = Incomplete \cup {n}
        BY <2>2, <3>1
      <4> QED BY <2>4, <4>1, <4>2
    <3>2. CASE things \notin LeftBehind
      BY <2>2, <2>4, <3>2
    <3> QED BY <3>1, <3>2
  <2>6. ASSUME FreeSpots = {} PROVE Len(context_list) <= 1 + Cardinality(Incomplete)
    <3>1. PICK r \in Services : r # s
      BY DEF Services
    <3>2. \A c \in live : c \in Incomplete \/ c = Has(r)
      BY <3>1 DEF Holding, Contexts, Incomplete, Services
    <3>3. live \subseteq Incomplete \cup {Has(r)}
      BY <3>2
    <3>4. IsFiniteSet(Incomplete \cup {Has(r)})
          /\ Cardinality(Incomplete \cup {Has(r)}) <= Cardinality(Incomplete) + 1
      <4>1. /\ IsFiniteSet(Incomplete \cup {Has(r)})
            /\ \/ Cardinality(Incomplete \cup {Has(r)}) = Cardinality(Incomplete)
               \/ Cardinality(Incomplete \cup {Has(r)}) = Cardinality(Incomplete) + 1
        BY <2>4, FS_AddElement
      <4> QED BY <2>4, <4>1
    <3>5. Cardinality(live) <= Cardinality(Incomplete \cup {Has(r)})
      BY <3>3, <3>4, FS_Subset
    <3>6. Cardinality(live) \in Nat /\ Cardinality(Incomplete \cup {Has(r)}) \in Nat
      BY <2>3, <3>4, FS_CardinalityType
    <3> QED BY <2>3, <2>4, <2>6, <3>4, <3>5, <3>6
  <2>7. Len(context_list') <= 2 + Cardinality(Incomplete')
    <3>1. Len(context_list) \in Nat /\ Len(context_list') \in Nat
          /\ Len(context_list) <= 2 + Cardinality(Incomplete)
      BY <1>1, <1>2 DEF TableTypeOK, Holding, Contexts
    <3> QED BY <1>2, <2>4, <2>5, <2>6, <3>1
  <2> QED BY <1>2, <2>1, <2>7 DEF Contexts
<1>7. /\ Has(s)' = n
      /\ \A r \in Services \ {s} : Has(r) # NULL => Has(r)' = Has(r)
  <2>1. \A r \in Services : coap_context[r] \in Int
    BY <1>1, TableAssumption DEF Descriptor, NoContext
  <2>2. /\ coap_context'[s] = NewDescriptor
        /\ \A r \in Services \ {s} : coap_context'[r] = coap_context[r]
    BY <1>1 DEF SetContext
  <2> QED BY <1>2, <2>1, <2>2 DEF Has
<1>8. NULL \notin live
  BY <1>1, TableAssumption DEF TableTypeOK
<1>9. \A r \in Services : Owns(r)' => Has(r)' \in live' /\ attached'[Has(r)'] = Needs(r)
  <2>1. Owns(s)' => Has(s)' \in live' /\ attached'[Has(s)'] = Needs(s)
    BY <1>3, <1>4, <1>7
  <2>2. ASSUME NEW r \in Services \ {s}, Owns(r)'
        PROVE  Has(r)' \in live' /\ attached'[Has(r)'] = Needs(r)
    BY <1>3, <1>4, <1>7, <1>8, <2>2 DEF Holding
  <2> QED BY <2>1, <2>2
<1>10. \A r \in Services : \A c \in live' : attached'[c] = Needs(r) => Owns(r)' /\ c = Has(r)'
  <2>1. ASSUME NEW r \in Services, attached'[n] = Needs(r) PROVE Owns(r)' /\ n = Has(r)'
    <3>1. r = s /\ things = Needs(s)
      BY <1>4, <2>1 DEF Services
    <3> QED BY <3>1, <1>7
  <2>2. ASSUME NEW r \in Services, NEW c \in live, attached'[c] = Needs(r)
        PROVE Owns(r)' /\ c = Has(r)'
    <3>1. Owns(r) /\ c = Has(r) /\ r # s
      BY <1>4, <2>2 DEF Holding
    <3> QED BY <3>1, <1>7, <1>8
  <2> QED BY <1>3, <2>1, <2>2
<1>11. \A r \in Services : io_context'[r] # NULL => io_context'[r] = Has(r)'
  BY <1>7 DEF Holding
<1> QED BY <1>5, <1>6, <1>9, <1>10, <1>11 DEF Holding

\* When a Service releases its context.
LEMMA ReleasesContext ==
  ASSUME Holding, NEW s \in Services, Owns(s), ~Owns(s)', ReleaseContext(coap_context[s]),
         coap_context' \in {coap_context, [coap_context EXCEPT ![s] = NoContext]},
         \A r \in Services \ {s} : Owns(r)' <=> Owns(r),
         \A r \in Services : io_context[r] # NULL => r # s /\ Owns(r),
         io_context' = io_context,
         context_set' \subseteq context_set,
         context_sessions_map' \subseteq context_sessions_map,
         UNCHANGED <<config, python>>
  PROVE  Holding'
<1> DEFINE d == coap_context[s]
<1> USE NeedsDiffer
<1>1. TableTypeOK /\ Named /\ coap_context \in [Services -> Descriptor]
      /\ \A r \in Services : coap_context[r] \in Int
  BY TableAssumption DEF Holding, HooksTypeOK, Contexts, Descriptor, NoContext
<1>2. Has(s) \in live /\ Has(s) \in Context /\ Has(s) # NULL /\ NULL \notin live
  BY <1>1, TableAssumption DEF Holding, TableTypeOK
<1>3. /\ live' = live \ {Has(s)} /\ UNCHANGED created
      /\ attached' = [c \in Context |-> IF c = Has(s) THEN {} ELSE attached[c]]
      /\ At(context_list', d) = NULL
      /\ \A e \in Int : e # d => At(context_list', e) = At(context_list, e)
      /\ context_list' \in Seq(Context \cup {NULL})
      /\ Len(context_list') = Len(context_list)
      /\ Named'
  BY <1>1, <1>2, ReleaseInTable DEF Has
<1>4. \A c \in live' : attached'[c] = attached[c] /\ c \in live
  BY <1>1, <1>3 DEF TableTypeOK
<1>5. HooksTypeOK'
  <2>1. TableTypeOK'
    BY <1>1, <1>3 DEF TableTypeOK, Attachment
  <2>2. coap_context' \in [Services -> Descriptor]
    BY <1>1, TableAssumption DEF Descriptor, NoContext
  <2>3. context_set' \subseteq Descriptor /\ context_sessions_map' \subseteq (Descriptor \X Line)
    BY DEF Holding, HooksTypeOK
  <2> QED BY <2>1, <2>2, <2>3 DEF Holding, HooksTypeOK, config, python
<1>6. Contexts'
  <2>1. Incomplete' = Incomplete
    <3>1. Has(s) \notin Incomplete
      BY DEF Holding, Incomplete
    <3> QED BY <1>3, <1>4, <3>1 DEF Incomplete
  <2> QED BY <1>3, <1>4, <2>1 DEF Contexts, Holding
<1>7. \A r \in Services \ {s} : coap_context'[r] = coap_context[r]
  BY <1>1
<1>8. ASSUME NEW r \in Services \ {s}, Has(r) \in live, attached[Has(r)] = Needs(r)
      PROVE  Has(r)' = Has(r) /\ Has(r) # Has(s)
  <2>1. Has(r) # Has(s)
    BY <1>8 DEF Holding, Services
  <2>2. coap_context[r] # d
    BY <2>1 DEF Has
  <2> QED BY <1>1, <1>3, <1>7, <2>1, <2>2 DEF Has
<1>9. \A r \in Services : Owns(r)' => Has(r)' \in live' /\ attached'[Has(r)'] = Needs(r)
  <2>1. ASSUME NEW r \in Services, Owns(r)'
        PROVE  Has(r)' \in live' /\ attached'[Has(r)'] = Needs(r)
    <3>1. r \in Services \ {s} /\ Owns(r)
      BY <2>1
    <3>2. Has(r) \in live /\ attached[Has(r)] = Needs(r)
      BY <3>1 DEF Holding
    <3> QED BY <1>3, <1>4, <1>8, <3>1, <3>2
  <2> QED BY <2>1
<1>10. \A r \in Services : \A c \in live' : attached'[c] = Needs(r) => Owns(r)' /\ c = Has(r)'
  <2>1. ASSUME NEW r \in Services, NEW c \in live', attached'[c] = Needs(r)
        PROVE  Owns(r)' /\ c = Has(r)'
    <3>1. Owns(r) /\ c = Has(r) /\ c \in live /\ attached[c] = Needs(r) /\ c # Has(s)
      BY <1>3, <1>4, <2>1 DEF Holding
    <3>2. r # s
      BY <3>1
    <3> QED BY <1>8, <3>1, <3>2
  <2> QED BY <2>1
<1>11. \A r \in Services : io_context'[r] # NULL => io_context'[r] = Has(r)'
  <2>1. ASSUME NEW r \in Services, io_context'[r] # NULL PROVE io_context'[r] = Has(r)'
    <3>1. r \in Services \ {s} /\ io_context[r] = Has(r) /\ Owns(r)
      BY <2>1 DEF Holding
    <3>2. Has(r)' = Has(r)
      BY <1>8, <3>1 DEF Holding
    <3> QED BY <3>1, <3>2
  <2> QED BY <2>1
<1> QED BY <1>5, <1>6, <1>9, <1>10, <1>11 DEF Holding

-----------------------------------------------------------------------------
(* The steps of the Services by the hook they run.                         *)

Up(up, h, n) == up'[h] = n /\ \A g \in {1, 2} \ {h} : up'[g] = up[g]

ServerHook ==
  \/ server_up[1] = 0 /\ Up(server_up, 1, 1) /\ server_enable_coap(TRUE)
  \/ server_up[1] = 0 /\ server_up' = server_up /\ server_enable_coap(FALSE)
  \/ server_up[2] = 0 /\ Up(server_up, 2, 1) /\ enable_python(TRUE)
  \/ server_up[2] = 0 /\ server_up' = server_up /\ enable_python(FALSE)
  \/ server_up[2] = 1 /\ Up(server_up, 2, 0) /\ disable_python
  \/ server_up[1] = 1 /\ Up(server_up, 1, 0) /\ server_disable_coap

LEMMA ServerHookSteps ==
  ASSUME SP!Steady, ServerProceeds
  PROVE  \/ server_thread = "none" /\ ServerHook
         \/ UNCHANGED <<hookvars, server_up>>
<1> USE DEF SP!Steady, SP!Agree, Server!history
<1>0. /\ server_up \in [1..2 -> Int]
      /\ \A k \in 0..2 : SP!UpTo(k) => /\ server_up[1] = IF 1 <= k THEN 1 ELSE 0
                                     /\ server_up[2] = IF 2 <= k THEN 1 ELSE 0
  BY DEF SP!TypeOK, SP!Hooks, SP!UpTo
<1>1. CASE Server!StartHook /\ IF server_hook = 1 THEN server_enable_coap(TRUE) ELSE enable_python(TRUE)
  <2>1. server_thread = "none" /\ server_hook \in {1, 2} /\ SP!UpTo(server_hook - 1)
        /\ server_up' = [server_up EXCEPT ![server_hook] = @ + 1]
    BY <1>1 DEF Server!StartHook, Server!Hooks
  <2>2. CASE server_hook = 1
    <3>1. server_up[1] = 0 /\ Up(server_up, 1, 1)
      BY <1>0, <2>1, <2>2 DEF Up
    <3> QED BY <1>1, <2>1, <2>2, <3>1 DEF ServerHook
  <2>3. CASE server_hook = 2
    <3>1. server_up[2] = 0 /\ server_up[1] = 1 /\ Up(server_up, 2, 1)
      BY <1>0, <2>1, <2>3 DEF Up
    <3> QED BY <1>1, <2>1, <2>3, <3>1 DEF ServerHook
  <2> QED BY <2>1, <2>2, <2>3
<1>2. CASE Server!StartHookFails /\ IF server_hook = 1 THEN server_enable_coap(FALSE) ELSE enable_python(FALSE)
  <2>1. server_thread = "none" /\ server_hook \in {1, 2} /\ SP!UpTo(server_hook - 1)
        /\ server_up' = server_up
    BY <1>2 DEF Server!StartHookFails, Server!Hooks
  <2>2. CASE server_hook = 1
    <3>1. server_up[1] = 0
      BY <1>0, <2>1, <2>2
    <3> QED BY <1>2, <2>1, <2>2, <3>1 DEF ServerHook
  <2>3. CASE server_hook = 2
    <3>1. server_up[2] = 0
      BY <1>0, <2>1, <2>3
    <3> QED BY <1>2, <2>1, <2>3, <3>1 DEF ServerHook
  <2> QED BY <2>1, <2>2, <2>3
<1>3. CASE /\ Server!Abort \/ Server!StopHooks
           /\ \/ server_hook = 2 /\ disable_python
              \/ server_hook = 1 /\ server_disable_coap
              \/ server_hook = 0 /\ UNCHANGED hookvars
  <2>1. server_thread = "none" /\ server_hook \in 0..2 /\ SP!UpTo(server_hook)
    BY <1>3 DEF Server!Abort, Server!StopHooks
  <2>2. server_hook \in {1, 2} => server_up' = [server_up EXCEPT ![server_hook] = @ - 1]
    BY <1>3 DEF Server!Abort, Server!StopHooks, Server!StopHook, Server!Hooks
  <2>3. server_hook = 0 => server_up' = server_up
    BY <1>3 DEF Server!Abort, Server!StopHooks, Server!Hooks
  <2>4. CASE server_hook = 1
    <3>1. server_up[1] = 1 /\ Up(server_up, 1, 0)
      BY <1>0, <2>1, <2>2, <2>4 DEF Up
    <3>2. server_disable_coap
      BY <1>3, <2>4
    <3> QED BY <2>1, <3>1, <3>2 DEF ServerHook
  <2>5. CASE server_hook = 2
    <3>1. server_up[2] = 1 /\ server_up[1] = 1 /\ Up(server_up, 2, 0)
      BY <1>0, <2>1, <2>2, <2>5 DEF Up
    <3> QED BY <1>3, <2>1, <2>2, <2>5, <3>1 DEF ServerHook
  <2>6. CASE server_hook = 0
    BY <1>3, <2>3, <2>6
  <2> QED BY <2>1, <2>4, <2>5, <2>6
<1>4. CASE /\ Server!Spawn \/ Server!LockMutex \/ Server!Wait \/ Server!StartReturns
              \/ Server!Join
           /\ UNCHANGED hookvars
  BY <1>4 DEF Server!Spawn, Server!LockMutex, Server!Wait, Server!StartReturns, Server!Join
<1> QED BY <1>1, <1>2, <1>3, <1>4 DEF ServerProceeds

StartsHook(h) == relay_caller = "start_hooks" /\ relay_hook = h /\ UNCHANGED relay_caller
StopsHook(h) ==
  /\ relay_caller = "stop_hooks" /\ relay_hook = h
  /\ UNCHANGED relay_caller /\ relay_hook' = h - 1

RelayHook ==
  \/ /\ relay_up[1] = 0 /\ Up(relay_up, 1, 1) /\ relay_enable_coap(TRUE)
     /\ StartsHook(1) /\ relay_hook' = 2
  \/ /\ relay_up[1] = 0 /\ relay_up' = relay_up /\ relay_enable_coap(FALSE)
     /\ relay_caller = "start_hooks" /\ relay_hook = 1 /\ relay_caller' = "abort"
  \/ /\ relay_up[2] = 0 /\ Up(relay_up, 2, 1) /\ enable_relay
     /\ relay_up[1] = 1 /\ StartsHook(2) /\ relay_hook' = 3
  \/ /\ relay_up' = relay_up /\ \E connects \in BOOLEAN : configuration_line_handler(connects)
     /\ relay_up[1] = 1 /\ StartsHook(2) /\ relay_hook' = 2
  \/ relay_up[2] = 1 /\ Up(relay_up, 2, 0) /\ disable_relay /\ relay_up[1] = 1 /\ StopsHook(2)
  \/ relay_up[1] = 1 /\ Up(relay_up, 1, 0) /\ relay_disable_coap /\ StopsHook(1)

LEMMA RelayHookSteps ==
  ASSUME RP!Steady, Calls, RelayProceeds
  PROVE  \/ relay_thread = "none" /\ RelayHook
         \/ /\ UNCHANGED <<hookvars, relay_up>>
            /\ relay_caller' = "stop_hooks" => relay_hook' = 2
            /\ relay_caller' = "start_hooks" => relay_hook' # 2
            /\ relay_caller = "stop_hooks" => relay_up[1] = 0
<1> USE DEF RP!Steady, RP!Agree, Relay!history
<1>0. /\ relay_up \in [1..2 -> Int]
      /\ \A k \in 0..2 : RP!UpTo(k) => /\ relay_up[1] = IF 1 <= k THEN 1 ELSE 0
                                     /\ relay_up[2] = IF 2 <= k THEN 1 ELSE 0
  BY DEF RP!TypeOK, RP!Hooks, RP!UpTo
<1>1. CASE Relay!StartHook /\ IF relay_hook = 1 THEN relay_enable_coap(TRUE) ELSE enable_relay
  <2>1. relay_thread = "none" /\ relay_hook \in {1, 2} /\ RP!UpTo(relay_hook - 1)
        /\ relay_up' = [relay_up EXCEPT ![relay_hook] = @ + 1]
        /\ relay_caller = "start_hooks" /\ UNCHANGED relay_caller
        /\ relay_hook' = relay_hook + 1
    BY <1>1 DEF Relay!StartHook, Relay!Hooks
  <2>2. CASE relay_hook = 1
    <3>1. relay_up[1] = 0 /\ Up(relay_up, 1, 1)
      BY <1>0, <2>1, <2>2 DEF Up
    <3>2. relay_enable_coap(TRUE)
      BY <1>1, <2>2
    <3>3. StartsHook(1) /\ relay_hook' = 2
      BY <2>1, <2>2 DEF StartsHook
    <3> QED BY <2>1, <3>1, <3>2, <3>3 DEF RelayHook
  <2>3. CASE relay_hook = 2
    <3>1. relay_up[2] = 0 /\ relay_up[1] = 1 /\ Up(relay_up, 2, 1)
      BY <1>0, <2>1, <2>3 DEF Up
    <3> QED BY <1>1, <2>1, <2>3, <3>1 DEF RelayHook, StartsHook
  <2> QED BY <2>1, <2>2, <2>3
<1>2. CASE /\ relay_caller = "start_hooks" /\ relay_hook = 2 /\ UNCHANGED relayvars
           /\ \E connects \in BOOLEAN : configuration_line_handler(connects)
  <2>1. relay_thread = "none" /\ RP!UpTo(1)
    BY <1>2
  <2>2. relay_up[1] = 1
    BY <1>0, <2>1
  <2> QED BY <1>2, <2>1, <2>2 DEF RelayHook, StartsHook, relayvars
<1>3. CASE relay_hook = 1 /\ Relay!StartHookFails /\ relay_enable_coap(FALSE)
  <2>1. /\ relay_thread = "none" /\ RP!UpTo(0) /\ relay_up' = relay_up
        /\ relay_caller = "start_hooks" /\ relay_caller' = "abort"
    BY <1>3 DEF Relay!StartHookFails
  <2>2. relay_up[1] = 0
    BY <1>0, <2>1
  <2> QED BY <1>3, <2>1, <2>2 DEF RelayHook
<1>4. CASE /\ Relay!Abort \/ Relay!StopHooks
           /\ \/ relay_hook = 2 /\ disable_relay
              \/ relay_hook = 1 /\ relay_disable_coap
              \/ relay_hook = 0 /\ UNCHANGED hookvars
  <2>1. relay_thread = "none" /\ relay_hook \in 0..2 /\ RP!UpTo(relay_hook)
        /\ relay_caller \in {"abort", "stop_hooks"}
    BY <1>4 DEF Relay!Abort, Relay!StopHooks
  <2>2. relay_hook \in {1, 2} =>
          /\ relay_caller = "stop_hooks" /\ UNCHANGED relay_caller
          /\ relay_up' = [relay_up EXCEPT ![relay_hook] = @ - 1]
          /\ relay_hook' = relay_hook - 1
    BY <1>4, <2>1 DEF Relay!StopHooks, Relay!StopHook, Relay!Abort, Relay!Hooks, Calls
  <2>3. relay_hook = 0 =>
          /\ relay_up' = relay_up /\ relay_up[1] = 0
          /\ relay_caller' \in {"idle", "start_hooks"}
          /\ relay_caller' = "start_hooks" => relay_hook' = 1
    BY <1>0, <1>4, <2>1 DEF Relay!Hooks, Relay!Abort, Relay!StopHooks, Relay!LeaveStop, Relay!EnterStart, Relay!Return
  <2>4. CASE relay_hook = 1
    <3>1. relay_up[1] = 1 /\ Up(relay_up, 1, 0)
      BY <1>0, <2>1, <2>2, <2>4 DEF Up
    <3> QED BY <1>4, <2>1, <2>2, <2>4, <3>1 DEF RelayHook, StopsHook
  <2>5. CASE relay_hook = 2
    <3>1. relay_up[2] = 1 /\ relay_up[1] = 1 /\ Up(relay_up, 2, 0)
      BY <1>0, <2>1, <2>2, <2>5 DEF Up
    <3> QED BY <1>4, <2>1, <2>2, <2>5, <3>1 DEF RelayHook, StopsHook
  <2>6. CASE relay_hook = 0
    BY <1>4, <2>1, <2>3, <2>6
  <2> QED BY <2>1, <2>4, <2>5, <2>6
<1>5. CASE /\ Relay!Spawn \/ Relay!LockMutex \/ Relay!Wait \/ Relay!StartReturns
              \/ Relay!Join
           /\ UNCHANGED hookvars
  <2>1. /\ relay_up' = relay_up /\ relay_caller # "stop_hooks"
        /\ relay_caller' # "start_hooks"
        /\ relay_caller' = "stop_hooks" => relay_hook' = 2
    BY <1>5 DEF Relay!Spawn, Relay!LockMutex, Relay!Wait, Relay!StartReturns, Relay!Join,
                Relay!Return
  <2> QED BY <1>5, <2>1
<1> QED BY <1>1, <1>2, <1>3, <1>4, <1>5 DEF RelayProceeds

\* A step that leaves the table alone.
LEMMA KeepsContexts ==
  ASSUME Holding, UNCHANGED table, HooksTypeOK',
         \A r \in Services : Owns(r)' <=> Owns(r),
         \A r \in Services : \/ coap_context'[r] = coap_context[r]
                             \/ ~Owns(r) /\ io_context[r] = NULL,
         \A r \in Services : io_context'[r] # NULL =>
           io_context'[r] = io_context[r] \/ io_context'[r] = Has(r)'
  PROVE  Holding'
<1>1. Contexts'
  BY DEF Holding, Contexts, table, Named, Incomplete
<1>2. UNCHANGED <<context_list, live, attached>>
  BY DEF table
<1>3. \A r \in Services : coap_context'[r] = coap_context[r] => Has(r)' = Has(r)
  BY <1>2 DEF Has
<1> QED BY <1>1, <1>2, <1>3 DEF Holding

\* A thread that does IO belongs to a Service whose hooks are up.
LEMMA IOOwned ==
  ASSUME Inv
  PROVE  /\ \A s \in Services : io_context[s] # NULL => Owns(s)
         /\ server_thread = "none" => io_context["server"] = NULL
         /\ relay_thread = "none" => io_context["relay"] = NULL
<1>1. io_context["server"] # NULL => server_thread = "run" /\ server_up[1] = 1
  BY DEF Inv, Threads, SP!Agree, SP!AllUp, SP!Hooks
<1>2. io_context["relay"] # NULL => relay_thread = "run" /\ relay_up[1] = 1
  BY DEF Inv, Threads, RP!Agree, RP!AllUp, RP!Hooks
<1> QED BY <1>1, <1>2 DEF Owns, Services

LEMMA OwnsIs ==
  /\ "server" \in Services /\ "relay" \in Services
  /\ Owns("server") <=> server_up[1] = 1
  /\ Owns("relay") <=> relay_up[1] = 1
  /\ Owns("server")' <=> server_up'[1] = 1
  /\ Owns("relay")' <=> relay_up'[1] = 1
BY DEF Owns, Services

LEMMA ServerHookHolds ==
  ASSUME Inv, Holding, server_thread = "none", ServerHook, UNCHANGED <<relay_up, io_context>>
  PROVE  Holding'
<1> USE OwnsIs
<1>1. io_context["server"] = NULL /\ \A r \in Services : io_context[r] # NULL => Owns(r)
  BY IOOwned
<1>2. \A r \in Services \ {"server"} : r = "relay" /\ (Owns(r)' <=> Owns(r))
  BY DEF Services
<1>3. CASE server_up[1] = 0 /\ Up(server_up, 1, 1) /\ server_enable_coap(TRUE)
  <2>1. CreateContext(Needs("server")) /\ SetContext("server", NewDescriptor)
        /\ UNCHANGED <<context_set, context_sessions_map, config, python>>
    BY <1>3 DEF server_enable_coap, binding
  <2> QED BY <1>1, <1>2, <1>3, <2>1, CreatesContext DEF Up
<1>4. CASE server_up[1] = 0 /\ server_up' = server_up /\ server_enable_coap(FALSE)
  <2>1. /\ \/ UNCHANGED table /\ SetContext("server", NoContext)
           \/ /\ \E things \in LeftBehind : CreateContext(things)
              /\ SetContext("server", NewDescriptor)
        /\ UNCHANGED <<context_set, context_sessions_map, config, python>>
    BY <1>4 DEF server_enable_coap, binding
  <2>2. CASE UNCHANGED table /\ SetContext("server", NoContext)
    <3>1. coap_context \in [Services -> Descriptor] /\ NoContext \in Descriptor
      BY TableAssumption DEF Holding, HooksTypeOK, Descriptor, NoContext
    <3>2. coap_context' \in [Services -> Descriptor] /\ coap_context'["relay"] = coap_context["relay"]
      BY <2>2, <3>1 DEF SetContext
    <3>3. HooksTypeOK'
      BY <2>1, <2>2, <3>2 DEF Holding, HooksTypeOK, table, config, python, TableTypeOK
    <3> QED BY <1>1, <1>2, <1>4, <2>2, <3>2, <3>3, KeepsContexts
  <2>3. CASE \E things \in LeftBehind : CreateContext(things) /\ SetContext("server", NewDescriptor)
    <3>1. PICK things \in LeftBehind : CreateContext(things) /\ SetContext("server", NewDescriptor)
      BY <2>3
    <3>2. things # Needs("server") /\ things \in LeftBehind \cup {Needs("server")}
      BY NeedsDiffer
    <3>3. ~Owns("server") /\ (Owns("server")' <=> things = Needs("server"))
      BY <1>4, <3>2
    <3> QED BY <1>1, <1>2, <2>1, <3>1, <3>2, <3>3, CreatesContext
  <2> QED BY <2>1, <2>2, <2>3
<1>5. ASSUME UNCHANGED <<table, coap_context, binding, config, python_enabled>>,
             g_python_enabled' \in BOOLEAN, interpreter' \in BOOLEAN,
             pFunc' \in {NULL, "function", "stale"},
             references' \in [{"pModule", "pName"} -> 0..1],
             server_up'[1] = server_up[1]
      PROVE  Holding'
  <2>1. HooksTypeOK'
    BY <1>5 DEF Holding, HooksTypeOK, table, binding, config, TableTypeOK
  <2> QED BY <1>1, <1>2, <1>5, <2>1, KeepsContexts
<1>6. /\ references \in [{"pModule", "pName"} -> 0..1] /\ python_enabled \in BOOLEAN
      /\ pFunc \in {NULL, "function", "stale"} /\ interpreter \in BOOLEAN
  BY DEF Holding, HooksTypeOK
<1>7. CASE server_up[2] = 0 /\ Up(server_up, 2, 1) /\ enable_python(TRUE)
  <2>1. references = [p \in {"pModule", "pName"} |-> 0]
    BY <1>6, <1>7 DEF Inv, Script
  <2>2. references' \in [{"pModule", "pName"} -> 0..1]
    BY <1>6, <1>7, <2>1 DEF enable_python, initialize_python, Hold
  <2>3. UNCHANGED <<table, coap_context, binding, config, python_enabled>>
    BY <1>7 DEF enable_python
  <2>4. g_python_enabled' \in BOOLEAN
    BY <1>7 DEF enable_python
  <2>5. interpreter' \in BOOLEAN
    BY <1>6, <1>7 DEF enable_python, initialize_python
  <2>6. pFunc' \in {NULL, "function", "stale"}
    BY <1>6, <1>7 DEF enable_python, initialize_python
  <2>7. server_up'[1] = server_up[1]
    BY <1>7 DEF Up
  <2> QED BY <1>5, <2>2, <2>3, <2>4, <2>5, <2>6, <2>7
<1>8. CASE server_up[2] = 0 /\ server_up' = server_up /\ enable_python(FALSE)
  BY <1>5, <1>6, <1>8 DEF enable_python, initialize_python
<1>9. CASE server_up[2] = 1 /\ Up(server_up, 2, 0) /\ disable_python
  <2>1. references' \in [{"pModule", "pName"} -> 0..1]
    <3>1. CASE python_enabled
      <4>1. references = [p \in {"pModule", "pName"} |-> 1]
        BY <1>6, <1>9, <3>1 DEF Inv, Script
      <4> QED BY <1>9, <3>1, <4>1 DEF disable_python, uninitialize_python, Hold
    <3>2. CASE ~python_enabled
      BY <1>6, <1>9, <3>2 DEF disable_python
    <3> QED BY <3>1, <3>2
  <2>2. UNCHANGED <<table, coap_context, binding, config, python_enabled>>
    BY <1>9 DEF disable_python
  <2>3. g_python_enabled' \in BOOLEAN
    BY <1>9 DEF disable_python
  <2>4. interpreter' \in BOOLEAN
    BY <1>6, <1>9 DEF disable_python, uninitialize_python
  <2>5. pFunc' \in {NULL, "function", "stale"}
    BY <1>6, <1>9 DEF disable_python, uninitialize_python
  <2>6. server_up'[1] = server_up[1]
    BY <1>9 DEF Up
  <2> QED BY <1>5, <2>1, <2>2, <2>3, <2>4, <2>5, <2>6
<1>10. CASE server_up[1] = 1 /\ Up(server_up, 1, 0) /\ server_disable_coap
  <2>1. /\ ReleaseContext(coap_context["server"]) /\ coap_context' = coap_context
        /\ UNCHANGED <<context_set, context_sessions_map, config, python>>
    BY <1>10 DEF server_disable_coap, binding
  <2>2. Owns("server") /\ ~Owns("server")'
    BY <1>10 DEF Up
  <2> QED BY <1>1, <1>2, <2>1, <2>2, ReleasesContext
<1> QED BY <1>3, <1>4, <1>7, <1>8, <1>9, <1>10 DEF ServerHook

\* What a line of the configuration gives a session to.
LEMMA LineHandled ==
  ASSUME HooksTypeOK, NEW connects \in BOOLEAN, configuration_line_handler(connects)
  PROVE  /\ next_line \in Line /\ next_line' = next_line + 1
         /\ next_line' \in 1..Len(ConfigFile) + 1
         /\ \/ UNCHANGED <<sessions, context_sessions_map>>
            \/ /\ coap_context["relay"] \in context_set
               /\ sessions' = Append(sessions, next_line)
               /\ context_sessions_map' =
                    context_sessions_map \cup {<<coap_context["relay"], next_line>>}
         /\ UNCHANGED <<table, coap_context, context_set, configuration_data, python>>
<1>1. Line = 1..Len(ConfigFile) /\ Len(ConfigFile) \in Nat
  BY HooksAssumption DEF Line
<1>2. next_line \in Line /\ next_line' = next_line + 1
  BY DEF configuration_line_handler
<1>3. next_line' \in 1..Len(ConfigFile) + 1
  BY <1>1, <1>2
<1>4. UNCHANGED <<table, coap_context, context_set, configuration_data, python>>
  BY DEF configuration_line_handler
<1>5. \/ UNCHANGED <<sessions, context_sessions_map>>
      \/ /\ coap_context["relay"] \in context_set
         /\ sessions' = Append(sessions, next_line)
         /\ context_sessions_map' =
              context_sessions_map \cup {<<coap_context["relay"], next_line>>}
  BY DEF configuration_line_handler, ManageSession
<1> QED BY <1>2, <1>3, <1>4, <1>5

LEMMA RelayHookHolds ==
  ASSUME Inv, Holding, relay_thread = "none", RelayHook, UNCHANGED <<server_up, io_context>>
  PROVE  Holding'
<1> USE OwnsIs
<1>1. io_context["relay"] = NULL /\ \A r \in Services : io_context[r] # NULL => Owns(r)
  BY IOOwned
<1>2. \A r \in Services \ {"relay"} : r = "server" /\ (Owns(r)' <=> Owns(r))
  BY DEF Services
<1>3. CASE relay_up[1] = 0 /\ Up(relay_up, 1, 1) /\ relay_enable_coap(TRUE)
  <2>1. CreateContext(Needs("relay")) /\ SetContext("relay", NewDescriptor)
        /\ context_set' = context_set \cup {NewDescriptor}
        /\ UNCHANGED <<context_sessions_map, config, python>>
    BY <1>3 DEF relay_enable_coap
  <2> QED BY <1>1, <1>2, <1>3, <2>1, CreatesContext DEF Up
<1>4. ASSUME UNCHANGED table, HooksTypeOK', relay_up'[1] = relay_up[1],
             coap_context'["server"] = coap_context["server"],
             coap_context'["relay"] = coap_context["relay"] \/ relay_up[1] = 0
      PROVE  Holding'
  BY <1>1, <1>2, <1>4, KeepsContexts
<1>5. CASE relay_up[1] = 0 /\ relay_up' = relay_up /\ relay_enable_coap(FALSE)
  <2>1. context_set = {}
    BY <1>5 DEF Inv, Bound
  <2>2. UNCHANGED <<table, context_set>>
    BY <1>5, <2>1 DEF relay_enable_coap, table
  <2>3. SetContext("relay", NoContext) /\ UNCHANGED <<context_sessions_map, config, python>>
    BY <1>5 DEF relay_enable_coap
  <2>4. coap_context \in [Services -> Descriptor] /\ NoContext \in Descriptor
    BY TableAssumption DEF Holding, HooksTypeOK, Descriptor, NoContext
  <2>5. coap_context' \in [Services -> Descriptor] /\ coap_context'["server"] = coap_context["server"]
    BY <2>3, <2>4 DEF SetContext
  <2>6. HooksTypeOK'
    BY <2>2, <2>3, <2>5 DEF Holding, HooksTypeOK, table, config, python, TableTypeOK
  <2> QED BY <1>4, <1>5, <2>2, <2>5, <2>6
<1>6. CASE relay_up[2] = 0 /\ Up(relay_up, 2, 1) /\ enable_relay
  <2>1. UNCHANGED <<table, coap_context, binding, sessions, python>>
        /\ next_line' = 1 /\ configuration_data' = {}
    BY <1>6 DEF enable_relay
  <2>2. next_line' \in 1..Len(ConfigFile) + 1
    BY <2>1, HooksAssumption
  <2>3. HooksTypeOK'
    BY <2>1, <2>2 DEF Holding, HooksTypeOK, table, binding, python, TableTypeOK
  <2> QED BY <1>4, <1>6, <2>1, <2>3 DEF Up
<1>7. CASE relay_up' = relay_up /\ \E connects \in BOOLEAN : configuration_line_handler(connects)
  <2>1. HooksTypeOK
    BY DEF Holding
  <2>2. /\ next_line \in Line
        /\ next_line' \in 1..Len(ConfigFile) + 1
        /\ \/ UNCHANGED <<sessions, context_sessions_map>>
           \/ /\ sessions' = Append(sessions, next_line)
              /\ context_sessions_map' =
                   context_sessions_map \cup {<<coap_context["relay"], next_line>>}
        /\ UNCHANGED <<table, coap_context, context_set, configuration_data, python>>
    BY <1>7, <2>1, LineHandled
  <2>3. sessions' \in Seq(Line)
    BY <2>1, <2>2 DEF HooksTypeOK
  <2>4. context_sessions_map' \subseteq (Descriptor \X Line)
    BY <2>1, <2>2 DEF HooksTypeOK, Services
  <2>5. HooksTypeOK'
    BY <2>1, <2>2, <2>3, <2>4 DEF HooksTypeOK, table, python, TableTypeOK
  <2> QED BY <1>4, <1>7, <2>2, <2>5
<1>8. CASE relay_up[2] = 1 /\ Up(relay_up, 2, 0) /\ disable_relay
  <2>1. UNCHANGED <<table, coap_context, binding, next_line, configuration_data, python>>
        /\ sessions' = <<>>
    BY <1>8 DEF disable_relay
  <2>2. HooksTypeOK'
    BY <2>1 DEF Holding, HooksTypeOK, table, binding, python, TableTypeOK
  <2> QED BY <1>4, <1>8, <2>1, <2>2 DEF Up
<1>9. CASE relay_up[1] = 1 /\ Up(relay_up, 1, 0) /\ relay_disable_coap
  <2>1. /\ ReleaseContext(coap_context["relay"])
        /\ coap_context' = [coap_context EXCEPT !["relay"] = NoContext]
        /\ context_set' \subseteq context_set
        /\ context_sessions_map' \subseteq context_sessions_map
        /\ UNCHANGED <<config, python>>
    BY <1>9 DEF relay_disable_coap, UnbindContext, SetContext
  <2>2. Owns("relay") /\ ~Owns("relay")'
    BY <1>9 DEF Up
  <2> QED BY <1>1, <1>2, <2>1, <2>2, ReleasesContext
<1> QED BY <1>3, <1>5, <1>6, <1>7, <1>8, <1>9 DEF RelayHook

\* A thread enters IO with the context of its own Service, and leaves it.
LEMMA ThreadHolds ==
  ASSUME Inv, Holding, ServerThread \/ RelayThread
  PROVE  Holding'
<1>1. UNCHANGED <<table, hookvars>> /\ UNCHANGED <<server_up, relay_up>>
  BY DEF ServerThread, RelayThread, hookvars, servervars, relayvars, Server!history, Relay!history,
         Server!AnnounceRunning, Server!LockAndUnlock, Server!NotifyOne, Server!CheckRunning,
         Server!RunReturns, Relay!AnnounceRunning, Relay!LockAndUnlock, Relay!NotifyOne,
         Relay!CheckRunning, Relay!RunReturns
<1>2. HooksTypeOK' /\ \A s \in Services : Owns(s)' <=> Owns(s)
  BY <1>1 DEF Holding, HooksTypeOK, TableTypeOK, Owns, hookvars, table, binding, config, python
<1>3. coap_context' = coap_context /\ context_list' = context_list
  BY <1>1 DEF hookvars, table
<1>4. io_context \in [Services -> Context \cup {NULL}]
  BY DEF Inv, TypeOK
<1>5. \A s \in Services : ContextAt(coap_context[s]) = Has(s) /\ Has(s)' = Has(s)
  BY <1>3, HasIs DEF Holding, HooksTypeOK, Has
<1>6. \/ UNCHANGED io_context
      \/ \E s \in Services : EnterIO(s) \/ LeaveIO(s)
  BY DEF ServerThread, RelayThread, Services
<1>7. \A s \in Services : io_context'[s] # NULL =>
        io_context'[s] = io_context[s] \/ io_context'[s] = Has(s)'
  BY <1>4, <1>5, <1>6 DEF EnterIO, LeaveIO
<1> QED BY <1>1, <1>2, <1>3, <1>7, KeepsContexts

LEMMA ServerUpStays ==
  ASSUME CallServer \/ ServerThread
  PROVE  UNCHANGED server_up
BY DEF CallServer, ServerThread, servervars, Server!Start, Server!EnterStart, Server!Stop,
       Server!Return, Server!history, Server!AnnounceRunning, Server!LockAndUnlock,
       Server!NotifyOne, Server!CheckRunning, Server!RunReturns

\* What a call of the relay's, when it begins, and a step of its thread leave alone.
LEMMA RelayUpStays ==
  ASSUME CallRelay \/ RelayThread
  PROVE  /\ UNCHANGED relay_up
         /\ \/ UNCHANGED <<relay_caller, relay_hook>>
            \/ /\ relay_caller \in {"idle", "waiting"}
               /\ relay_caller' # "stop_hooks"
               /\ relay_caller' = "start_hooks" => relay_hook' = 1
<1>1. CASE CallRelay
  BY <1>1 DEF CallRelay, Relay!Start, Relay!EnterStart, Relay!Stop, Relay!Return, Relay!history
<1>2. CASE RelayThread
  BY <1>2 DEF RelayThread, relayvars, Relay!history, Relay!AnnounceRunning,
              Relay!LockAndUnlock, Relay!NotifyOne, Relay!CheckRunning, Relay!RunReturns
<1> QED BY <1>1, <1>2

\* Steps that are not in a call of a Service, which leave hooks alone unless the
\* process is over.
LEMMA HooksStay ==
  ASSUME Beside \/ Interrupt \/ UNCHANGED vars
  PROVE  /\ UNCHANGED <<coap_context, binding, config, python, server_up, relay_up, io_context>>
         /\ process' = "running" => process = "running" /\ UNCHANGED hookvars
         /\ UNCHANGED hookvars \/ FreeAll
<1>1. CASE Beside
  <2>1. UNCHANGED <<server_up, relay_up, io_context>>
    BY <1>1, BesideFrame DEF servervars, relayvars
  <2>2. CASE Exit
    BY <2>1, <2>2 DEF Exit, hookvars, AtCall
  <2>3. CASE CallNoRelay \/ UnbindCrash \/ Command \/ delete_relay \/ delete_queue \/ End
    BY <2>1, <2>3 DEF CallNoRelay, UnbindCrash, Command, delete_relay, delete_queue, End, hookvars, AtCall
  <2> QED BY <1>1, <2>2, <2>3 DEF Beside
<1>2. CASE Interrupt
  BY <1>2 DEF Interrupt, hookvars
<1>3. CASE UNCHANGED vars
  BY <1>3 DEF vars, servervars, relayvars, hookvars
<1> QED BY <1>1, <1>2, <1>3

LEMMA NextHolding ==
  ASSUME Inv, [Next]_vars, process' = "running"
  PROVE  Holding'
<1>1. process = "running" => Holding
  BY HoldingIs DEF Inv, TypeOK
<1>2. SP!Steady /\ RP!Steady /\ Calls
  BY BothSteady DEF Inv
<1>3. ASSUME process = "running", UNCHANGED <<hookvars, server_up, relay_up, io_context>>
      PROVE  Holding'
  <2>1. UNCHANGED table /\ coap_context' = coap_context
    BY <1>3 DEF hookvars
  <2>2. HooksTypeOK'
    BY <1>1, <1>3 DEF hookvars, Holding, HooksTypeOK, TableTypeOK, table, binding, config, python
  <2>3. \A s \in Services : Owns(s)' <=> Owns(s)
    BY <1>3 DEF Owns
  <2> QED BY <1>1, <1>3, <2>1, <2>2, <2>3, KeepsContexts
<1>4. CASE CallServer
  <2>1. UNCHANGED relay_up /\ process = process'
    BY <1>4 DEF CallServer, relayvars, state
  <2> QED BY <1>3, <1>4, <2>1, ServerUpStays DEF CallServer
<1>5. CASE CallRelay
  <2>1. UNCHANGED server_up /\ process = process'
    BY <1>5 DEF CallRelay, servervars, state
  <2> QED BY <1>3, <1>5, <2>1, RelayUpStays DEF CallRelay
<1>6. CASE ServerProceeds
  <2>1. UNCHANGED <<relay_up, io_context>> /\ process = "running"
    BY <1>6 DEF ServerProceeds, relayvars
  <2> QED BY <1>1, <1>2, <1>3, <1>6, <2>1, ServerHookSteps, ServerHookHolds
<1>7. CASE RelayProceeds
  <2>1. UNCHANGED <<server_up, io_context>> /\ process = "running"
    BY <1>7 DEF RelayProceeds, servervars
  <2> QED BY <1>1, <1>2, <1>3, <1>7, <2>1, RelayHookSteps, RelayHookHolds
<1>8. CASE ServerThread \/ RelayThread
  <2>1. process = process'
    BY <1>8 DEF ServerThread, RelayThread, state
  <2> QED BY <1>1, <1>8, <2>1, ThreadHolds
<1>9. CASE Beside \/ Interrupt \/ UNCHANGED vars
  BY <1>3, <1>9, HooksStay
<1> QED BY <1>4, <1>5, <1>6, <1>7, <1>8, <1>9 DEF Next, Main, Beside

-----------------------------------------------------------------------------
(* What is bound, the script, and the threads.                             *)

\* A step that leaves alone what Bound and Managed speak of.
LEMMA BoundStays ==
  ASSUME UNCHANGED <<binding, config, relay_up>>,
         coap_context'["relay"] = coap_context["relay"],
         \/ UNCHANGED <<relay_caller, relay_hook>>
         \/ /\ relay_caller' = "stop_hooks" => relay_hook' = 2
            /\ relay_caller' = "start_hooks" => relay_hook' # 2
  PROVE  /\ Bound => Bound'
         /\ Managed /\ (relay_caller = "stop_hooks" => relay_caller' = "stop_hooks") => Managed'
<1>1. UNCHANGED <<context_set, context_sessions_map, sessions, next_line>>
  BY DEF binding, config
<1>2. Owns("relay")' <=> Owns("relay")
  BY OwnsIs
<1>3. ASSUME Bound PROVE Bound'
  BY <1>1, <1>2, <1>3 DEF Bound
<1>4. ASSUME Managed, relay_caller = "stop_hooks" => relay_caller' = "stop_hooks"
      PROVE  Managed'
  BY <1>1, <1>4 DEF Managed, Range
<1> QED BY <1>3, <1>4

\* The map of a relay that is down is that of no sessions.
LEMMA DownManaged ==
  ASSUME Bound, ~Owns("relay")
  PROVE  sessions = <<>> /\ context_sessions_map = {} /\ context_set = {}
         /\ Managed
BY DEF Bound, Managed, Range

\* The relay's hooks bind, and give back, all there is.
LEMMA HookBinds ==
  ASSUME HooksTypeOK, Bound, RelayHook
  PROVE  Bound' /\ (Managed => Managed')
<1> USE OwnsIs
<1>0. sessions \in Seq(Line) /\ coap_context \in [Services -> Descriptor]
  BY DEF HooksTypeOK
<1>1. CASE /\ relay_up[1] = 0 /\ Up(relay_up, 1, 1) /\ relay_enable_coap(TRUE)
           /\ StartsHook(1) /\ relay_hook' = 2
  <2>1. sessions = <<>> /\ context_sessions_map = {} /\ context_set = {} /\ ~Owns("relay")
    BY <1>1, DownManaged
  <2>2. Owns("relay")' /\ relay_caller' = "start_hooks"
    BY <1>1 DEF Up, StartsHook
  <2>3. /\ sessions' = <<>> /\ context_sessions_map' = {}
        /\ context_set' = {NewDescriptor} /\ coap_context'["relay"] = NewDescriptor
    BY <1>0, <1>1, <2>1 DEF relay_enable_coap, SetContext, config
  <2>4. Bound'
    BY <2>2, <2>3 DEF Bound
  <2>5. Managed'
    BY <2>3 DEF Managed, Range
  <2> QED BY <2>4, <2>5
<1>2. CASE /\ relay_up[1] = 0 /\ relay_up' = relay_up /\ relay_enable_coap(FALSE)
           /\ relay_caller = "start_hooks" /\ relay_hook = 1 /\ relay_caller' = "abort"
  <2>1. sessions = <<>> /\ context_sessions_map = {} /\ context_set = {} /\ ~Owns("relay")
    BY <1>2, DownManaged
  <2>2. ~Owns("relay")'
    BY <1>2
  <2>3. sessions' = <<>> /\ context_sessions_map' = {} /\ context_set' = {}
    BY <1>2, <2>1 DEF relay_enable_coap, config
  <2>4. Bound'
    BY <1>2, <2>2, <2>3 DEF Bound
  <2>5. Managed'
    BY <2>3 DEF Managed, Range
  <2> QED BY <2>4, <2>5
<1>3. CASE /\ relay_up[2] = 0 /\ Up(relay_up, 2, 1) /\ enable_relay
           /\ relay_up[1] = 1 /\ StartsHook(2) /\ relay_hook' = 3
  <2>1. /\ UNCHANGED <<context_set, context_sessions_map, sessions, coap_context>>
        /\ Owns("relay")' /\ Owns("relay")
        /\ relay_caller' = "start_hooks" /\ relay_caller = "start_hooks"
    BY <1>3 DEF enable_relay, binding, Up, StartsHook
  <2>2. Bound'
    BY <1>3, <2>1 DEF Bound
  <2> QED BY <2>1, <2>2 DEF Managed, Range
<1>4. CASE /\ relay_up' = relay_up /\ \E connects \in BOOLEAN : configuration_line_handler(connects)
           /\ relay_up[1] = 1 /\ StartsHook(2) /\ relay_hook' = 2
  <2>1. /\ next_line \in Line /\ next_line' = next_line + 1
        /\ \/ UNCHANGED <<sessions, context_sessions_map>>
           \/ /\ sessions' = Append(sessions, next_line)
              /\ context_sessions_map' =
                   context_sessions_map \cup {<<coap_context["relay"], next_line>>}
        /\ UNCHANGED <<coap_context, context_set>>
    BY <1>4, LineHandled
  <2>2. Line \subseteq Nat /\ next_line \in Nat
    BY <2>1, HooksAssumption DEF Line
  <2>3. /\ Owns("relay") /\ Owns("relay")' /\ relay_caller = "start_hooks" /\ relay_hook = 2
        /\ relay_caller' = "start_hooks"
    BY <1>4 DEF StartsHook
  <2>4. /\ \A i \in DOMAIN sessions : sessions[i] < next_line /\ sessions[i] \in Nat
        /\ \A i, j \in DOMAIN sessions : i < j => sessions[i] < sessions[j]
    <3>1. \A i \in DOMAIN sessions : sessions[i] \in Line
      BY <1>0
    <3>2. \A i \in DOMAIN sessions : sessions[i] < next_line
      BY <2>3 DEF Bound
    <3>3. \A i, j \in DOMAIN sessions : i < j => sessions[i] < sessions[j]
      BY DEF Bound
    <3> QED BY <2>2, <3>1, <3>2, <3>3
  <2>5. CASE UNCHANGED <<sessions, context_sessions_map>>
    <3>1. \A i \in DOMAIN sessions' : sessions'[i] < next_line'
      BY <2>1, <2>2, <2>4, <2>5
    <3>2. Bound'
      BY <2>1, <2>3, <2>5, <3>1 DEF Bound
    <3> QED BY <2>1, <2>3, <2>5, <3>2 DEF Managed, Range
  <2>6. CASE /\ sessions' = Append(sessions, next_line)
             /\ context_sessions_map' =
                  context_sessions_map \cup {<<coap_context["relay"], next_line>>}
    <3>1. /\ Len(sessions) \in Nat /\ DOMAIN sessions = 1..Len(sessions)
          /\ DOMAIN sessions' = 1..Len(sessions) + 1
          /\ \A i \in 1..Len(sessions) : sessions'[i] = sessions[i]
          /\ sessions'[Len(sessions) + 1] = next_line
      BY <1>0, <2>1, <2>6
    <3>2. \A i \in DOMAIN sessions' : sessions'[i] < next_line'
      BY <2>1, <2>2, <2>4, <3>1
    <3>3. \A i, j \in DOMAIN sessions' : i < j => sessions'[i] < sessions'[j]
      BY <2>2, <2>4, <3>1
    <3>4. \A x \in context_sessions_map' : x[1] = coap_context'["relay"]
      BY <2>1, <2>6 DEF Bound
    <3>5. Bound'
      BY <2>1, <2>3, <3>2, <3>3, <3>4 DEF Bound
    <3>6. Range(sessions)' = Range(sessions) \cup {next_line}
      BY <3>1 DEF Range
    <3>7. Managed => Managed'
      BY <2>1, <2>3, <2>6, <3>6 DEF Managed
    <3> QED BY <3>5, <3>7
  <2> QED BY <2>1, <2>5, <2>6
<1>5. CASE relay_up[2] = 1 /\ Up(relay_up, 2, 0) /\ disable_relay /\ relay_up[1] = 1 /\ StopsHook(2)
  <2>1. /\ UNCHANGED <<context_set, context_sessions_map, coap_context>>
        /\ sessions' = <<>> /\ Owns("relay")' /\ Owns("relay")
        /\ relay_caller' = "stop_hooks"
    BY <1>5 DEF disable_relay, binding, Up, StopsHook
  <2> QED BY <2>1 DEF Bound, Managed
<1>6. CASE relay_up[1] = 1 /\ Up(relay_up, 1, 0) /\ relay_disable_coap /\ StopsHook(1)
  <2>1. /\ Owns("relay") /\ ~Owns("relay")'
        /\ relay_caller' = "stop_hooks" /\ relay_caller = "stop_hooks" /\ relay_hook < 2
    BY <1>6 DEF Up, StopsHook
  <2>2. sessions = <<>> /\ context_set = {coap_context["relay"]}
        /\ \A x \in context_sessions_map : x[1] = coap_context["relay"]
    BY <2>1 DEF Bound
  <2>3. sessions' = <<>> /\ context_set' = {} /\ context_sessions_map' = {}
    BY <1>6, <2>2 DEF relay_disable_coap, UnbindContext, config
  <2> QED BY <2>1, <2>3 DEF Bound, Managed
<1> QED BY <1>1, <1>2, <1>3, <1>4, <1>5, <1>6 DEF RelayHook

LEMMA NextBound ==
  ASSUME Inv, [Next]_vars
  PROVE  Bound' /\ (asked' # "busy" => Managed')
<1>1. HooksTypeOK /\ Bound /\ Calls /\ RP!Steady /\ SP!Steady /\ (asked # "busy" => Managed)
  BY BothSteady DEF Inv, TypeOK
<1>2. coap_context \in [Services -> Descriptor]
  BY <1>1 DEF HooksTypeOK
<1>3. CASE Interrupt
  <2>1. /\ relay_caller' = "idle" /\ asked \in {"no", "quit"}
        /\ asked' = (IF Quiet THEN "quiet" ELSE "busy")
        /\ UNCHANGED <<binding, config, relay_up, coap_context>>
    BY <1>3, HooksStay DEF Interrupt
  <2>2. Quiet => relay_caller # "stop_hooks"
    BY <1>1 DEF Quiet, Calls
  <2> QED BY <1>1, <2>1, <2>2, BoundStays
<1>4. ~Interrupt => asked' = asked \/ asked # "busy"
  <2>1. Command => asked = "no"
    BY <1>1 DEF Command, Calls, Closing, Deletes, StopRelay, StopBoth
  <2> QED
    BY <2>1 DEF Next, Main, vars, CallServer, CallRelay, CallNoRelay, UnbindCrash, ServerProceeds,
                RelayProceeds, delete_relay, delete_queue, Exit, End,
                ServerThread, RelayThread, state
<1>5. CASE CallServer \/ ServerThread
  <2>1. UNCHANGED <<binding, config, coap_context, relay_up, relay_caller, relay_hook>>
    BY <1>5 DEF CallServer, ServerThread, hookvars, relayvars
  <2> QED BY <1>1, <1>3, <1>4, <2>1, BoundStays
<1>6. CASE CallRelay \/ RelayThread
  <2>1. UNCHANGED <<binding, config, coap_context>>
    BY <1>6 DEF CallRelay, RelayThread, hookvars
  <2> QED BY <1>1, <1>3, <1>4, <1>6, <2>1, RelayUpStays, BoundStays
<1>7. CASE ServerProceeds
  <2>1. UNCHANGED <<relay_up, relay_caller, relay_hook>>
    BY <1>7 DEF ServerProceeds, relayvars
  <2>2. UNCHANGED <<binding, config>> /\ coap_context'["relay"] = coap_context["relay"]
    <3>1. CASE UNCHANGED hookvars
      BY <3>1 DEF hookvars
    <3>2. CASE ServerHook
      BY <1>2, <3>2 DEF ServerHook, server_enable_coap, enable_python, disable_python,
                        server_disable_coap, SetContext, Services
    <3> QED BY <1>1, <1>7, <3>1, <3>2, ServerHookSteps
  <2> QED BY <1>1, <1>3, <1>4, <2>1, <2>2, BoundStays
<1>8. CASE RelayProceeds
  <2>1. CASE RelayHook
    BY <1>1, <1>3, <1>4, <2>1, HookBinds
  <2>2. CASE /\ UNCHANGED <<hookvars, relay_up>>
             /\ relay_caller' = "stop_hooks" => relay_hook' = 2
             /\ relay_caller' = "start_hooks" => relay_hook' # 2
             /\ relay_caller = "stop_hooks" => relay_up[1] = 0
    <3>1. UNCHANGED <<binding, config, coap_context>>
      BY <2>2 DEF hookvars
    <3>2. Bound'
      BY <1>1, <2>2, <3>1, BoundStays
    <3>3. CASE relay_caller = "stop_hooks"
      <4>1. ~Owns("relay")'
        BY <2>2, <3>3, OwnsIs
      <4> QED BY <3>2, <4>1 DEF Bound, Managed, Range
    <3>4. CASE relay_caller # "stop_hooks"
      BY <1>1, <1>3, <1>4, <2>2, <3>1, <3>4, BoundStays
    <3> QED BY <3>2, <3>3, <3>4
  <2> QED BY <1>1, <1>8, <2>1, <2>2, RelayHookSteps
<1>9. CASE Beside \/ UNCHANGED vars
  <2>1. UNCHANGED <<binding, config, coap_context, relay_up, relay_caller, relay_hook>>
    BY <1>9, HooksStay, BesideFrame DEF vars, relayvars
  <2> QED BY <1>1, <1>3, <1>4, <2>1, BoundStays
<1> QED BY <1>3, <1>5, <1>6, <1>7, <1>8, <1>9 DEF Next, Main, Beside

\* The interpreter goes up and down with the second hook of the server's.
LEMMA NextScript ==
  ASSUME Inv, [Next]_vars
  PROVE  Script'
<1>1. /\ HooksTypeOK /\ Script /\ SP!Steady
  BY BothSteady DEF Inv, TypeOK
<1>2. ASSUME UNCHANGED python, server_up'[2] = server_up[2] PROVE Script'
  BY <1>1, <1>2 DEF Script, python
<1>3. /\ references \in [{"pModule", "pName"} -> 0..1] /\ python_enabled \in BOOLEAN
  BY <1>1 DEF HooksTypeOK
<1>4. CASE ServerHook
  <2>1. CASE \/ Up(server_up, 1, 1) /\ server_enable_coap(TRUE)
             \/ server_up' = server_up /\ server_enable_coap(FALSE)
             \/ Up(server_up, 1, 0) /\ server_disable_coap
    BY <1>2, <2>1 DEF Up, server_enable_coap, server_disable_coap
  <2>2. CASE server_up[2] = 0 /\ Up(server_up, 2, 1) /\ enable_python(TRUE)
    <3>1. references = [p \in {"pModule", "pName"} |-> 0] /\ ~g_python_enabled
      BY <1>1, <1>3, <2>2 DEF Script
    <3>2. UNCHANGED python_enabled /\ g_python_enabled' = python_enabled
      BY <1>3, <2>2 DEF enable_python
    <3>3. server_up'[2] = 1
      BY <2>2 DEF Up
    <3>4. CASE python_enabled
      <4>1. interpreter' = TRUE /\ pFunc' \in {NULL, "function"} /\ Hold(1)
        BY <2>2, <3>4 DEF enable_python, initialize_python
      <4>2. references' = [p \in {"pModule", "pName"} |-> 1]
        BY <3>1, <4>1 DEF Hold
      <4>3. "stale" # NULL
        BY HooksAssumption
      <4> QED BY <3>2, <3>3, <3>4, <4>1, <4>2, <4>3 DEF Script
    <3>5. CASE ~python_enabled
      <4>1. references' = references
        BY <2>2, <3>5 DEF enable_python
      <4> QED BY <3>1, <3>2, <3>3, <3>5, <4>1 DEF Script
    <3> QED BY <3>4, <3>5
  <2>3. CASE server_up[2] = 0 /\ server_up' = server_up /\ enable_python(FALSE)
    <3>1. ~g_python_enabled' /\ references' = references
      BY <2>3 DEF enable_python, initialize_python
    <3> QED BY <1>1, <2>3, <3>1 DEF Script
  <2>4. CASE server_up[2] = 1 /\ Up(server_up, 2, 0) /\ disable_python
    <3>1. ~g_python_enabled' /\ server_up'[2] = 0
      BY <2>4 DEF disable_python, Up
    <3>2. CASE python_enabled
      <4>1. references = [p \in {"pModule", "pName"} |-> 1] /\ Hold(-1)
        BY <1>1, <1>3, <2>4, <3>2 DEF Script, disable_python, uninitialize_python
      <4>2. references' = [p \in {"pModule", "pName"} |-> 0]
        BY <4>1 DEF Hold
      <4> QED BY <3>1, <4>2 DEF Script
    <3>3. CASE ~python_enabled
      <4>1. references = [p \in {"pModule", "pName"} |-> 0] /\ references' = references
        BY <1>1, <1>3, <2>4, <3>3 DEF Script, disable_python
      <4> QED BY <3>1, <4>1 DEF Script
    <3> QED BY <3>2, <3>3
  <2> QED BY <1>4, <2>1, <2>2, <2>3, <2>4 DEF ServerHook
<1>5. CASE ServerProceeds
  <2>1. UNCHANGED <<hookvars, server_up>> => Script'
    BY <1>2 DEF hookvars
  <2> QED BY <1>1, <1>4, <1>5, <2>1, ServerHookSteps
<1>6. CASE RelayProceeds
  <2>1. UNCHANGED server_up
    BY <1>6 DEF RelayProceeds, servervars
  <2>2. UNCHANGED python
    <3>1. CASE RelayHook
      BY <3>1 DEF RelayHook, relay_enable_coap, relay_disable_coap, enable_relay,
                  disable_relay, configuration_line_handler
    <3>2. RP!Steady /\ Calls
      BY BothSteady DEF Inv
    <3> QED BY <1>6, <3>1, <3>2, RelayHookSteps DEF hookvars
  <2> QED BY <1>2, <2>1, <2>2
<1>7. CASE CallServer \/ CallRelay \/ ServerThread \/ RelayThread
  <2>1. UNCHANGED hookvars
    BY <1>7 DEF CallServer, CallRelay, ServerThread, RelayThread
  <2>2. UNCHANGED server_up
    BY <1>7, ServerUpStays DEF CallRelay, RelayThread, servervars
  <2> QED BY <1>2, <2>1, <2>2 DEF hookvars
<1>8. CASE Beside \/ Interrupt \/ UNCHANGED vars
  BY <1>2, <1>8, HooksStay
<1> QED BY <1>5, <1>6, <1>7, <1>8 DEF Next, Main, Beside

\* Where the thread of a Service is is changed by itself, but for its spawning and
\* its joining.
LEMMA NextThreads ==
  ASSUME Inv, [Next]_vars
  PROVE  Threads'
<1>1. Threads /\ io_context \in [Services -> Context \cup {NULL}]
  BY DEF Inv, TypeOK
<1>2. CASE CallServer \/ CallRelay \/ ServerProceeds \/ RelayProceeds
  <2>1. UNCHANGED io_context
    BY <1>2 DEF CallServer, CallRelay, ServerProceeds, RelayProceeds
  <2>2. server_thread = "run" => server_thread' = "run"
    BY <1>2 DEF CallServer, CallRelay, ServerProceeds, RelayProceeds, servervars,
         Server!Start, Server!Stop, Server!StartHook, Server!StartHookFails, Server!Abort,
         Server!StopHooks, Server!Spawn, Server!LockMutex, Server!Wait,
         Server!StartReturns, Server!Join
  <2>3. relay_thread = "run" => relay_thread' = "run"
    BY <1>2 DEF CallServer, CallRelay, ServerProceeds, RelayProceeds, relayvars,
         Relay!Start, Relay!Stop, Relay!StartHook, Relay!StartHookFails, Relay!Abort,
         Relay!StopHooks, Relay!Spawn, Relay!LockMutex, Relay!Wait,
         Relay!StartReturns, Relay!Join
  <2> QED BY <1>1, <2>1, <2>2, <2>3 DEF Threads
<1>3. CASE ServerThread
  <2>1. UNCHANGED relay_thread
    BY <1>3 DEF ServerThread, relayvars
  <2>2. CASE UNCHANGED io_context /\ server_thread # "run"
    BY <1>1, <2>1, <2>2 DEF Threads
  <2>3. CASE server_thread = "run" /\ EnterIO("server") /\ UNCHANGED servervars
    <3>1. server_thread' = "run" /\ io_context'["relay"] = io_context["relay"]
      BY <1>1, <2>3 DEF EnterIO, servervars, Services
    <3> QED BY <1>1, <2>1, <3>1 DEF Threads
  <2>4. CASE LeaveIO("server")
    <3>1. io_context'["server"] = NULL /\ io_context'["relay"] = io_context["relay"]
      BY <1>1, <2>4 DEF LeaveIO, Services
    <3> QED BY <1>1, <2>1, <3>1 DEF Threads
  <2> QED BY <1>3, <2>2, <2>3, <2>4 DEF ServerThread, Server!AnnounceRunning,
        Server!LockAndUnlock, Server!NotifyOne, Server!CheckRunning
<1>4. CASE RelayThread
  <2>1. UNCHANGED server_thread
    BY <1>4 DEF RelayThread, servervars
  <2>2. CASE UNCHANGED io_context /\ relay_thread # "run"
    BY <1>1, <2>1, <2>2 DEF Threads
  <2>3. CASE relay_thread = "run" /\ EnterIO("relay") /\ UNCHANGED relayvars
    <3>1. relay_thread' = "run" /\ io_context'["server"] = io_context["server"]
      BY <1>1, <2>3 DEF EnterIO, relayvars, Services
    <3> QED BY <1>1, <2>1, <3>1 DEF Threads
  <2>4. CASE LeaveIO("relay")
    <3>1. io_context'["relay"] = NULL /\ io_context'["server"] = io_context["server"]
      BY <1>1, <2>4 DEF LeaveIO, Services
    <3> QED BY <1>1, <2>1, <3>1 DEF Threads
  <2> QED BY <1>4, <2>2, <2>3, <2>4 DEF RelayThread, Relay!AnnounceRunning,
        Relay!LockAndUnlock, Relay!NotifyOne, Relay!CheckRunning
<1>5. CASE Beside \/ Interrupt \/ UNCHANGED vars
  <2>1. UNCHANGED <<server_thread, relay_thread>>
    BY <1>5, BesideFrame DEF Interrupt, vars, servervars, relayvars
  <2> QED BY <1>1, <1>5, <2>1, HooksStay DEF Threads
<1> QED BY <1>2, <1>3, <1>4, <1>5 DEF Next, Main, Beside

-----------------------------------------------------------------------------
(* The invariant is inductive.                                             *)

LEMMA ListsTyped == \A list \in Lists : list \in Seq(Call)
<1> USE DEF Call
<1>1. Deletes \in Seq(Call)
  BY DEF Deletes
<1>2. StopRelay \in Seq(Call)
  BY DEF StopRelay
<1>3. StopBoth \in Seq(Call)
  BY DEF StopBoth
<1>4. <<>> \in Seq(Call)
  OBVIOUS
<1>5. <<"relay_first_start", "server_first_start">> \in Seq(Call)
  OBVIOUS
<1>6. <<"server_first_start">> \in Seq(Call)
  OBVIOUS
<1>7. <<"relay_start", "server_start">> \in Seq(Call)
  OBVIOUS
<1>8. <<"server_start">> \in Seq(Call)
  OBVIOUS
<1>9. <<"server_stop", "relay_stop">> \in Seq(Call)
  OBVIOUS
<1>10. <<"relay_stop">> \in Seq(Call)
  OBVIOUS
<1>11. <<"server_reload", "relay_reload">> \in Seq(Call)
  OBVIOUS
<1>12. <<"relay_reload">> \in Seq(Call)
  OBVIOUS
<1>13. <<"delete_queue", "exit">> \in Seq(Call)
  OBVIOUS
<1>14. <<"server_stop", "exit">> \in Seq(Call)
  OBVIOUS
<1>15. <<"exit">> \in Seq(Call)
  OBVIOUS
<1> HIDE DEF Call
<1> QED
  BY <1>1, <1>2, <1>3, <1>4, <1>5, <1>6, <1>7, <1>8, <1>9, <1>10, <1>11, <1>12, <1>13, <1>14, <1>15 DEF Lists, Closing

LEMMA NextType ==
  ASSUME Inv, [Next]_vars
  PROVE  TypeOK'
<1>1. Server!TypeOK' /\ Relay!TypeOK'
  BY NextSteady, SteadyTypes
<1>2. calls' \in Seq(Call)
  BY NextCalls, ListsTyped DEF Calls
<1>3. HooksTypeOK'
  <2>1. CASE process' = "running"
    BY <2>1, NextHolding DEF Holding
  <2>2. CASE UNCHANGED hookvars
    BY <2>2 DEF Inv, TypeOK, HooksTypeOK, TableTypeOK, hookvars, table, binding, config, python
  <2>3. CASE FreeAll /\ UNCHANGED <<coap_context, binding, config, python>>
    <3>1. TableTypeOK'
      BY <2>3 DEF Inv, TypeOK, HooksTypeOK, TableTypeOK, FreeAll
    <3> QED BY <2>3, <3>1 DEF Inv, TypeOK, HooksTypeOK, binding, config, python
  <2>4. CASE process' # "running" /\ ~(Beside \/ Interrupt \/ UNCHANGED vars)
    <3>1. ServerThread \/ RelayThread \/ CallServer \/ CallRelay \/ ServerProceeds \/ RelayProceeds
      BY <2>4 DEF Next, Main, Beside
    <3>2. process' = process
      BY <3>1 DEF ServerThread, RelayThread, CallServer, CallRelay, ServerProceeds,
                  RelayProceeds, state
    <3>3. ServerThread \/ RelayThread \/ CallServer \/ CallRelay
      BY <2>4, <3>1, <3>2 DEF ServerProceeds, RelayProceeds
    <3> QED BY <2>2, <3>3 DEF ServerThread, RelayThread, CallServer, CallRelay
  <2> QED BY <2>1, <2>2, <2>3, <2>4, HooksStay
<1>4. io_context' \in [Services -> Context \cup {NULL}]
  <2>1. io_context \in [Services -> Context \cup {NULL}] /\ TableTypeOK
    BY DEF Inv, TypeOK, HooksTypeOK
  <2>2. \A s \in Services : ContextAt(coap_context[s]) \in Context \cup {NULL}
    <3>1. \A d : ~context_descriptor_invalid(d) => context_list[d + 1] \in Context \cup {NULL}
      BY <2>1 DEF context_descriptor_invalid, TableTypeOK
    <3> QED BY <3>1 DEF ContextAt
  <2>3. \/ UNCHANGED io_context
        \/ \E s \in Services : EnterIO(s) \/ LeaveIO(s)
    <3>1. CASE ServerThread \/ RelayThread
      BY <3>1 DEF ServerThread, RelayThread, Services
    <3>2. CASE ~(ServerThread \/ RelayThread)
      BY <3>2, HooksStay DEF Next, Main, Beside, CallServer, CallRelay, ServerProceeds, RelayProceeds
    <3> QED BY <3>1, <3>2
  <2> QED BY <2>1, <2>2, <2>3 DEF EnterIO, LeaveIO
<1>5. /\ relay' \in {"none", "present", "deleted"}
      /\ msg_queue' \in {"none", "present", "deleted"}
      /\ asked' \in {"no", "quit", "quiet", "busy"}
      /\ process' \in {"running", "destroyed", "ended", "crashed"}
      /\ held' \subseteq Services
  <2>0. /\ relay \in {"none", "present", "deleted"}
        /\ msg_queue \in {"none", "present", "deleted"}
        /\ asked \in {"no", "quit", "quiet", "busy"}
        /\ process \in {"running", "destroyed", "ended", "crashed"}
        /\ held \subseteq Services
    BY DEF Inv, TypeOK
  <2>1. CASE UNCHANGED <<pointers, state>>
    BY <2>0, <2>1 DEF pointers, state
  <2>2. CASE Interrupt
    BY <2>0, <2>2 DEF Interrupt, pointers, Services
  <2>3. CASE Beside
    BY <2>0, <2>3 DEF Beside, CallNoRelay, UnbindCrash, Command, delete_relay, delete_queue, Exit, End, pointers
  <2> QED BY <2>1, <2>2, <2>3 DEF Next, Main, Beside, vars, state, CallServer, CallRelay,
        ServerProceeds, RelayProceeds, ServerThread, RelayThread
<1> QED BY <1>1, <1>2, <1>3, <1>4, <1>5 DEF TypeOK

LEMMA InitInv == Init => Inv
<1> SUFFICES ASSUME Init PROVE Inv
  OBVIOUS
<1>1. SP!Steady /\ SP!Settled /\ RP!Steady /\ RP!Settled
  BY SP!InitSteady, RP!InitSteady DEF Init, Server!Init, Relay!Init, SP!Init, RP!Init,
     Server!Hooks, SP!Hooks, Relay!Hooks, RP!Hooks
<1>2. /\ server_caller = "idle" /\ relay_caller = "idle"
      /\ server_thread = "none" /\ relay_thread = "none" /\ ~server_running /\ ~relay_running
      /\ server_up = [h \in 1..2 |-> 0] /\ relay_up = [h \in 1..2 |-> 0]
  BY DEF Init, Server!Init, Relay!Init, Server!Hooks, Relay!Hooks
<1>3. ~Owns("server") /\ ~Owns("relay")
  BY <1>2 DEF Owns
<1>4. /\ context_list = <<>> /\ created = 0 /\ live = {}
      /\ attached = [c \in Context |-> {}]
      /\ coap_context = [s \in Services |-> NoContext]
      /\ context_set = {} /\ context_sessions_map = {}
      /\ sessions = <<>> /\ next_line = 1 /\ configuration_data = {}
      /\ python_enabled \in BOOLEAN /\ g_python_enabled = FALSE
      /\ interpreter = FALSE /\ pFunc = NULL
      /\ references = [p \in {"pModule", "pName"} |-> 0]
  BY DEF Init, HooksInit, TableInit
<1>5. /\ relay \in {"none", "present"} /\ msg_queue = relay
      /\ calls \in {<<"server_first_start">>, <<"relay_first_start", "server_first_start">>}
      /\ asked = "no" /\ process = "running" /\ held = {}
      /\ io_context = [s \in Services |-> NULL]
  BY DEF Init
<1>6. HooksTypeOK
  <2>1. TableTypeOK
    BY <1>4, TableAssumption DEF TableTypeOK
  <2>2. coap_context \in [Services -> Descriptor]
    BY <1>4, TableAssumption DEF Descriptor, NoContext
  <2>3. next_line \in 1..Len(ConfigFile) + 1
    <3>1. Len(ConfigFile) \in Nat
      BY HooksAssumption
    <3> QED BY <1>4, <3>1
  <2>4. sessions \in Seq(Line)
    BY <1>4
  <2>5. references \in [{"pModule", "pName"} -> 0..1]
    BY <1>4
  <2>6. /\ context_set \subseteq Descriptor
        /\ context_sessions_map \subseteq (Descriptor \X Line)
        /\ configuration_data \subseteq (STRING \X Seq(STRING))
    BY <1>4
  <2>7. /\ python_enabled \in BOOLEAN /\ g_python_enabled \in BOOLEAN
        /\ interpreter \in BOOLEAN /\ pFunc \in {NULL, "function", "stale"}
    BY <1>4
  <2> QED BY <2>1, <2>2, <2>3, <2>4, <2>5, <2>6, <2>7 DEF HooksTypeOK
<1>7. TypeOK
  <2>1. Server!TypeOK /\ Relay!TypeOK
    BY <1>1 DEF SP!Steady, RP!Steady, Server!TypeOK, SP!TypeOK, Relay!TypeOK, RP!TypeOK,
       Server!Busy, SP!Busy, Relay!Busy, RP!Busy, Server!Hooks, SP!Hooks, Relay!Hooks, RP!Hooks
  <2>2. calls \in Lists
    BY <1>5 DEF Lists
  <2> QED BY <1>5, <1>6, <2>1, <2>2, ListsTyped DEF TypeOK
<1>8. Calls
  <2>1. calls \in Lists
    BY <1>5 DEF Lists
  <2> QED BY <1>2, <1>5, <2>1 DEF Calls
<1>9. Threads /\ Script /\ Bound /\ Managed
  <2>1. Threads
    BY <1>5 DEF Threads, Services
  <2>2. Script
    BY <1>2, <1>4 DEF Script
  <2>3. Bound
    BY <1>2, <1>3, <1>4 DEF Bound
  <2> QED BY <1>3, <2>1, <2>2, <2>3, DownManaged
<1>10. Phases
  <2>1. SP!AllDownNow /\ RP!AllDownNow
    BY <1>2 DEF SP!AllDownNow, RP!AllDownNow, SP!AllDown, RP!AllDown, SP!UpTo, RP!UpTo,
                SP!Hooks, RP!Hooks
  <2>2. calls # StopRelay
    BY <1>5 DEF StopRelay
  <2> QED BY <1>1, <1>2, <1>5, <2>1, <2>2 DEF Phases, Idle
<1>11. Contexts /\ Owned /\ InIO
  <2>1. Named
    BY <1>4 DEF Named
  <2>2. Incomplete = {} /\ Cardinality({}) = 0
    BY <1>4, FS_EmptySet DEF Incomplete
  <2>3. Contexts
    BY <1>4, <2>1, <2>2 DEF Contexts
  <2> QED BY <1>3, <1>4, <1>5, <2>3, <1>2 DEF Owned, InIO, Services
<1> QED BY <1>1, <1>5, <1>7, <1>8, <1>9, <1>10, <1>11 DEF Inv, SP!Steady, RP!Steady

LEMMA NextInv == Inv /\ [Next]_vars => Inv'
<1> SUFFICES ASSUME Inv, [Next]_vars PROVE Inv'
  OBVIOUS
<1>1. TypeOK' /\ Calls' /\ Threads' /\ Script' /\ Bound'
  BY NextType, NextCalls, NextThreads, NextScript, NextBound
<1>2. SP!Agree' /\ RP!Agree'
  BY NextSteady, SteadyTypes
<1>3. asked' # "busy" => Phases' /\ Managed'
  BY NextPhases, NextBound
<1>4. process' = "running" => Contexts' /\ Owned' /\ InIO'
  <2>1. Holding' => Contexts' /\ Owned' /\ InIO'
    <3>1. ASSUME Holding' PROVE \A s \in Services : ContextAt(coap_context[s])' = Has(s)'
      <4>1. \A s \in Services : coap_context'[s] \in Int
        BY <3>1, TableAssumption DEF Holding, HooksTypeOK, Descriptor, NoContext
      <4> QED BY <4>1 DEF Has, At, ContextAt, context_descriptor_invalid
    <3> QED BY <3>1 DEF Holding, Owned, InIO
  <2> QED BY <2>1, NextHolding
<1> QED BY <1>1, <1>2, <1>3, <1>4 DEF Inv

LEMMA AlwaysInv == Spec => []Inv
BY InitInv, NextInv, PTL DEF Spec

-----------------------------------------------------------------------------
(* The theorems.                                                           *)

\* Every variable of the process keeps its type; among them a descriptor is no
\* larger than the table gets, and each line that is read is one there is.
THEOREM ProcessTypes == Spec => []TypeOK
BY AlwaysInv, PTL DEF Inv

\* run of the one Service and of the other never do IO on a context that was freed,
\* that is not complete, or that is the other's; with it goes, as descriptors are
\* given again, that a stale one is never used.
THEOREM IOIsOnLiveContexts == Spec => []IOOnLiveContext
<1>1. Inv => IOOnLiveContext
  <2> SUFFICES ASSUME Inv, process = "running" PROVE IOOnLiveContext
    BY DEF IOOnLiveContext
  <2>1. Contexts /\ Owned /\ InIO
    BY DEF Inv
  <2>2. \A s \in Services : io_context[s] # NULL =>
          /\ io_context[s] \in live /\ attached[io_context[s]] = Needs(s)
          /\ io_context[s] = ContextAt(coap_context[s])
    BY <2>1, IOOwned DEF Owned, InIO
  <2>3. io_context["server"] = io_context["relay"] => io_context["server"] = NULL
    BY <2>2, NeedsDiffer DEF Services
  <2> QED BY <2>2, <2>3 DEF IOOnLiveContext
<1> QED BY <1>1, AlwaysInv, PTL

\* The table of contexts neither loses one nor names one twice, and what starts
\* and stops, in whatever order and however often, leave in it is only what an
\* enable_coap that failed half-way has left.
THEOREM ContextsAreOwned == Spec => []ContextsOwned
<1>1. Inv => ContextsOwned
  <2> SUFFICES ASSUME Inv, process = "running" PROVE ContextsOwned
    BY DEF ContextsOwned
  <2>1. Contexts /\ Owned
    BY DEF Inv
  <2>2. \A c \in live : \E i \in DOMAIN context_list :
          \A j \in DOMAIN context_list : context_list[j] = c <=> j = i
    <3>1. NULL \notin live
      BY TableAssumption DEF Inv, TypeOK, HooksTypeOK, TableTypeOK
    <3> QED BY <2>1, <3>1 DEF Contexts, Named
  <2>3. \A c \in live \ Incomplete : \E s \in Services :
          Owns(s) /\ ContextAt(coap_context[s]) = c
    BY <2>1 DEF Contexts, Owned, Incomplete, Services
  <2> QED BY <2>1, <2>2, <2>3 DEF ContextsOwned, Contexts, Named
<1> QED BY <1>1, AlwaysInv, PTL

\* What the SessionManager holds at any moment is what the relay has, so that no
\* start of the relay is refused for what a stop has left behind.
THEOREM OnlyTheOwnedIsBound == Spec => []BoundIsOwned
<1>1. Inv => BoundIsOwned
  BY DEF Inv, Bound, Managed, BoundIsOwned
<1> QED BY <1>1, AlwaysInv, PTL

\* MessageQueue is deleted when neither the server's PUT handler nor the relay can
\* use it again.
THEOREM QueueIsDeletedLast == Spec => []QueueOutlivesUsers
<1>1. Inv => QueueOutlivesUsers
  BY DEF Inv, Phases, QueueOutlivesUsers, SP!AllDownNow, RP!AllDownNow
<1> QED BY <1>1, AlwaysInv, PTL

\* process_data is called in an interpreter that runs, with the function of the
\* module that is imported, and never while main's thread starts or ends Python.
THEOREM ScriptIsCalledAlive == Spec => []ScriptIsAlive
<1>1. Inv => ScriptIsAlive
  <2> SUFFICES ASSUME Inv, process = "running", asked # "busy" PROVE ScriptIsAlive
    BY DEF ScriptIsAlive
  <2>1. SP!Agree /\ Script /\ SP!Settled
    BY DEF Inv, Phases
  <2>2. /\ SP!AllUp => server_up[2] = 1
        /\ SP!AllDown => server_up[2] = 0
    BY DEF SP!AllUp, SP!AllDown, SP!UpTo, SP!Hooks
  <2>3. ASSUME server_thread = "run", g_python_enabled
        PROVE  /\ interpreter /\ pFunc # "stale"
               /\ \A p \in DOMAIN references : references[p] = 1
               /\ server_caller \notin {"start_hooks", "abort", "stop_hooks"}
    <3>1. server_up[2] = 1 /\ server_caller \notin {"start_hooks", "abort", "stop_hooks"}
      BY <2>1, <2>2, <2>3 DEF SP!Agree
    <3> QED BY <2>1, <2>3, <3>1 DEF Script
  <2>4. ASSUME server_thread = "none", server_caller = "idle"
        PROVE  ~g_python_enabled /\ \A p \in DOMAIN references : references[p] = 0
    <3>1. SP!AllDownNow
      BY <2>1, <2>4 DEF SP!Agree, SP!Settled, SP!Busily
    <3> QED BY <2>1, <2>2, <3>1 DEF Script, SP!AllDownNow
  <2> QED BY <2>3, <2>4 DEF ScriptIsAlive
<1> QED BY <1>1, AlwaysInv, PTL
=============================================================================
