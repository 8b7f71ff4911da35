------------------------------ MODULE Service ------------------------------
(***************************************************************************)
(* common::Service: Start runs the start hooks in order and then the service*)
(* thread, Stop ends the thread and runs the stop hooks in reverse order,  *)
(* Reload does one after the other.  Relay and Server are Services.        *)
(*                                                                         *)
(* Two threads: the caller, main's, which makes one call after the other,  *)
(* and the service thread.  They share service_running and meet at the     *)
(* condition variable service_notifier, on which Start waits without a     *)
(* predicate.                                                              *)
(***************************************************************************)
EXTENDS Integers

CONSTANT NHooks   \* how many pairs of hooks the service has

Hooks == 1..NHooks

ASSUME ServiceAssumption == NHooks \in Nat

VARIABLES
  caller,           \* where the calling thread is
  hook,             \* the hook it has come to
  reloading,        \* whether the Stop under way is Reload's
  result,           \* history: how the last call returned
  service_running,
  thread,           \* where service_thread is; "none" if it is not joinable
  up,               \* history: start hooks that succeeded minus stop hooks
  spurious          \* history: whether a wait returned without a notification

history == <<up, spurious>>
vars == <<caller, hook, reloading, result, service_running, thread, history>>

Busy == {"start_hooks", "abort", "lock", "locked", "waiting", "woken",
         "join", "stop_hooks"}

TypeOK ==
  /\ caller \in Busy \cup {"idle", "terminated"}
  /\ hook \in 0..NHooks + 1
  /\ reloading \in BOOLEAN /\ service_running \in BOOLEAN
  /\ result \in {"none", "started", "refused", "failed", "stopped"}
  /\ thread \in {"none", "created", "lock", "notify", "check", "run", "exited"}
  /\ up \in [Hooks -> Int] /\ spurious \in BOOLEAN

Init ==
  /\ caller = "idle" /\ hook = 0 /\ reloading = FALSE /\ result = "none"
  /\ service_running = FALSE /\ thread = "none"
  /\ up = [h \in Hooks |-> 0] /\ spurious = FALSE

Return(how) == caller' = "idle" /\ result' = how

-----------------------------------------------------------------------------
(* Service::Start.                                                         *)

\* The call itself, with caller' already idle or on its way.
EnterStart ==
  IF service_running THEN Return("refused") /\ UNCHANGED hook
                     ELSE caller' = "start_hooks" /\ hook' = 1 /\ UNCHANGED result

Start ==
  /\ caller = "idle"
  /\ EnterStart
  /\ UNCHANGED <<reloading, service_running, thread, history>>

StartHook ==
  /\ caller = "start_hooks" /\ hook \in Hooks
  /\ up' = [up EXCEPT ![hook] = @ + 1]
  /\ hook' = hook + 1
  /\ UNCHANGED <<caller, reloading, result, service_running, thread, spurious>>

\* MUTANTS: the hook that failed is stopped as well; one hook too few is.
AbortFromFailed ==
  /\ caller = "start_hooks" /\ hook \in Hooks
  /\ caller' = "abort" /\ hook' = hook
  /\ UNCHANGED <<reloading, result, service_running, thread, history>>

AbortOneLess ==
  /\ caller = "start_hooks" /\ hook \in Hooks
  /\ caller' = "abort" /\ hook' = hook - 2
  /\ UNCHANGED <<reloading, result, service_running, thread, history>>

\* The hooks before the one that failed are to be stopped.
StartHookFails ==
  /\ caller = "start_hooks" /\ hook \in Hooks
  /\ caller' = "abort" /\ hook' = hook - 1
  /\ UNCHANGED <<reloading, result, service_running, thread, history>>

StopHook ==
  /\ up' = [up EXCEPT ![hook] = @ - 1]
  /\ hook' = hook - 1

Abort ==
  /\ caller = "abort"
  /\ IF hook \in Hooks THEN StopHook /\ UNCHANGED <<caller, result>>
                       ELSE Return("failed") /\ UNCHANGED <<hook, up>>
  /\ UNCHANGED <<reloading, service_running, thread, spurious>>

\* Assigning to a std::thread that is joinable terminates the process.
Spawn ==
  /\ caller = "start_hooks" /\ hook \notin Hooks
  /\ IF thread = "none" THEN caller' = "lock" /\ thread' = "created"
                        ELSE caller' = "terminated" /\ UNCHANGED thread
  /\ UNCHANGED <<hook, reloading, result, service_running, history>>

LockMutex ==
  /\ caller = "lock"
  /\ caller' = "locked"
  /\ UNCHANGED <<hook, reloading, result, service_running, thread, history>>

Wait ==
  /\ caller = "locked"
  /\ caller' = "waiting"
  /\ UNCHANGED <<hook, reloading, result, service_running, thread, history>>

WakeSpuriously ==
  /\ caller = "waiting"
  /\ caller' = "woken" /\ spurious' = TRUE
  /\ UNCHANGED <<hook, reloading, result, service_running, thread, up>>

StartReturns ==
  /\ caller = "woken"
  /\ Return("started")
  /\ UNCHANGED <<hook, reloading, service_running, thread, history>>

-----------------------------------------------------------------------------
(* Service::Stop and Service::Reload.                                      *)

\* Stop is over: Reload goes on with Start.
LeaveStop ==
  IF reloading THEN EnterStart /\ reloading' = FALSE
               ELSE Return("stopped") /\ UNCHANGED <<hook, reloading>>

Stop ==
  /\ caller = "idle"
  /\ IF service_running
       THEN /\ service_running' = FALSE /\ caller' = "join"
            /\ reloading' \in BOOLEAN
            /\ UNCHANGED <<hook, result>>
       ELSE /\ Return("stopped")
            /\ UNCHANGED <<hook, reloading, service_running>>
  /\ UNCHANGED <<thread, history>>

\* MUTANTS: the thread is not waited for; the last hook is not stopped.
Detach ==
  /\ caller = "join"
  /\ caller' = "stop_hooks" /\ hook' = NHooks
  /\ UNCHANGED <<reloading, result, service_running, thread, history>>

JoinSkipLast ==
  /\ caller = "join" /\ thread = "exited"
  /\ thread' = "none"
  /\ caller' = "stop_hooks" /\ hook' = IF NHooks = 0 THEN 0 ELSE NHooks - 1
  /\ UNCHANGED <<reloading, result, service_running, history>>

Join ==
  /\ caller = "join" /\ thread = "exited"
  /\ thread' = "none"
  /\ caller' = "stop_hooks" /\ hook' = NHooks
  /\ UNCHANGED <<reloading, result, service_running, history>>

StopHooks ==
  /\ caller = "stop_hooks"
  /\ IF hook \in Hooks THEN StopHook /\ UNCHANGED <<caller, result, reloading>>
                       ELSE LeaveStop /\ UNCHANGED up
  /\ UNCHANGED <<service_running, thread, spurious>>

-----------------------------------------------------------------------------
(* Service::service_loop.                                                  *)

AnnounceRunning ==
  /\ thread = "created"
  /\ service_running' = TRUE
  /\ thread' = "lock"
  /\ UNCHANGED <<caller, hook, reloading, result, history>>

\* MUTANT: the flag is not checked when the thread starts its loop again.
CheckNothing ==
  /\ thread = "check"
  /\ thread' = "run"
  /\ UNCHANGED <<caller, hook, reloading, result, service_running, history>>

\* The mutex is the caller's between its locking and its waiting.
LockAndUnlock ==
  /\ thread = "lock" /\ caller # "locked"
  /\ thread' = "notify"
  /\ UNCHANGED <<caller, hook, reloading, result, service_running, history>>

\* A notification that finds nobody waiting is lost.
NotifyOne ==
  /\ thread = "notify"
  /\ thread' = "check"
  /\ caller' = IF caller = "waiting" THEN "woken" ELSE caller
  /\ UNCHANGED <<hook, reloading, result, service_running, history>>

CheckRunning ==
  /\ thread = "check"
  /\ thread' = IF service_running THEN "run" ELSE "exited"
  /\ UNCHANGED <<caller, hook, reloading, result, service_running, history>>

RunReturns ==
  /\ thread = "run"
  /\ thread' = "check"
  /\ UNCHANGED <<caller, hook, reloading, result, service_running, history>>

-----------------------------------------------------------------------------

\* What the calling thread does once it is in a call.
Proceed ==
  \/ StartHook \/ StartHookFails \/ Abort \/ Spawn
  \/ LockMutex \/ Wait \/ StartReturns
  \/ Join \/ StopHooks

service_loop ==
  caller # "terminated" /\
    (AnnounceRunning \/ LockAndUnlock \/ NotifyOne \/ CheckRunning \/ RunReturns)

Next == Start \/ Stop \/ Proceed \/ WakeSpuriously \/ service_loop

Spec == Init /\ [][Next]_vars

\* Both threads are scheduled; run, which waits for IO with a timeout, returns.
FairSpec == Spec /\ WF_vars(Proceed) /\ WF_vars(service_loop)

-----------------------------------------------------------------------------

\* As long as no wait has returned without a notification:
Notified(P) == ~spurious => P

\* While the service is active, and whenever run executes, every start hook has
\* succeeded and no stop hook has run: no call of run sees a released context.
RunUnderHooks ==
  Notified(service_running \/ thread = "run" => \A h \in Hooks : up[h] = 1)

\* Hooks are nested: a stop hook runs once for a start hook that succeeded, and
\* only when those after it have been stopped.
HooksNested ==
  Notified(\A h \in Hooks : /\ up[h] \in {0, 1}
                            /\ h > 1 /\ up[h] = 1 => up[h - 1] = 1)

\* When Start has failed or Stop has returned nothing is left of the service:
\* no thread and no hook.
EndedIsClean ==
  Notified(caller = "idle" /\ result \in {"failed", "stopped"} =>
             ~service_running /\ thread = "none" /\ \A h \in Hooks : up[h] = 0)

\* Stop returns: the thread sees that it is to end, and ends.
StopReturns == caller = "join" ~> caller \in {"idle", "start_hooks"}

-----------------------------------------------------------------------------
(* What comments say and the code does not do.                             *)

\* service.hpp:48 "Conditional variable to make the Start method block until the
\* service started.": and no longer.
StartUnblocks == caller = "waiting" ~> caller # "waiting"
=============================================================================
