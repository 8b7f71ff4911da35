--------------------------- MODULE Service_proofs ---------------------------
(* Proofs about Service, for any number of hooks. *)
EXTENDS Service, TLAPS

AllUp == \A h \in Hooks : up[h] = 1
AllDown == \A h \in Hooks : up[h] = 0

\* The hooks up to the n-th are up and the others are not.
UpTo(n) == \A h \in Hooks : up[h] = IF h <= n THEN 1 ELSE 0

\* service_running and the service thread agree with where the caller is: this
\* relates the two threads, and is what makes the properties inductive.
Together ==
  /\ caller = "idle" /\ result \in {"started", "refused"} =>
       service_running /\ thread \in {"check", "run"} /\ AllUp
  /\ caller = "idle" /\ result \notin {"started", "refused"} =>
       ~service_running /\ thread = "none" /\ AllDown
  /\ caller = "start_hooks" =>
       ~service_running /\ thread = "none" /\ hook \in 1..NHooks + 1 /\ UpTo(hook - 1)
  /\ caller \in {"abort", "stop_hooks"} =>
       ~service_running /\ thread = "none" /\ hook \in 0..NHooks /\ UpTo(hook)
  /\ caller \in {"lock", "locked", "waiting"} =>
       /\ thread \in {"created", "lock", "notify", "check", "run"}
       /\ service_running <=> thread # "created"
       /\ AllUp
  /\ caller = "woken" => service_running /\ thread \in {"check", "run"} /\ AllUp
  /\ caller = "join" => ~service_running /\ thread \in {"check", "run", "exited"} /\ AllUp
  /\ caller # "terminated"

Inv == TypeOK /\ Together

\* A spurious wake-up ends the agreement, not the types.
SafeInv == TypeOK /\ Notified(Together)

USE DEF history

-----------------------------------------------------------------------------
(* Inv is inductive.                                                       *)

LEMMA InitInv == Init => Inv
<1> SUFFICES ASSUME Init PROVE Inv
  OBVIOUS
<1>1. TypeOK
  <2>1. up \in [Hooks -> Int]
    BY DEF Init
  <2>2. hook \in 0..NHooks + 1
    BY ServiceAssumption DEF Init
  <2> QED BY <2>1, <2>2 DEF Init, TypeOK
<1>2. Together
  BY DEF Init, Together, AllDown
<1> QED BY <1>1, <1>2 DEF Inv

\* Calling Start keeps Inv when no thread is left by then, or the service runs.
LEMMA EnterStartInv ==
  ASSUME Inv, EnterStart, UNCHANGED <<service_running, thread, history>>, reloading' \in BOOLEAN,
         \/ caller = "idle"
         \/ ~service_running /\ thread = "none" /\ AllDown
  PROVE  Inv'
<1>1. CASE service_running
  BY <1>1, ServiceAssumption
     DEF Inv, TypeOK, Together, EnterStart, Return, AllUp, Busy
<1>2. CASE ~service_running
  <2>1. thread = "none" /\ AllDown
    BY <1>2 DEF Inv, Together, TypeOK
  <2>2. caller' = "start_hooks" /\ hook' = 1 /\ result' = result
    BY <1>2 DEF EnterStart
  <2>3. UpTo(hook - 1)'
    BY <2>1, <2>2 DEF UpTo, AllDown, Hooks
  <2>4. hook' \in 0..NHooks + 1 /\ hook' \in 1..NHooks + 1
    BY <2>2, ServiceAssumption
  <2> QED BY <1>2, <2>1, <2>2, <2>3, <2>4 DEF Inv, TypeOK, Together, Busy
<1> QED BY <1>1, <1>2 DEF Inv, TypeOK

\* Stopping hook n when the hooks up to n are up leaves those below it.
LEMMA StopHookDown ==
  ASSUME Inv, UpTo(hook), hook \in Hooks, StopHook
  PROVE  /\ UpTo(hook)' /\ up' \in [Hooks -> Int]
         /\ hook' \in 0..NHooks /\ hook' \in 0..NHooks + 1
BY ServiceAssumption DEF Inv, TypeOK, UpTo, StopHook, Hooks

LEMMA StartingInv ==
  ASSUME Inv, StartHook \/ StartHookFails \/ Abort \/ Spawn
  PROVE  Inv'
<1>1. CASE StartHook
  <2>1. UpTo(hook - 1)' /\ up' \in [Hooks -> Int] /\ hook' \in 1..NHooks + 1
    BY <1>1, ServiceAssumption DEF Inv, TypeOK, Together, UpTo, StartHook, Hooks
  <2> QED BY <1>1, <2>1 DEF Inv, TypeOK, Together, StartHook, Hooks
<1>2. CASE StartHookFails
  <2>1. UpTo(hook)' /\ hook' \in 0..NHooks /\ hook' \in 0..NHooks + 1
    BY <1>2, ServiceAssumption DEF Inv, TypeOK, Together, UpTo, StartHookFails, Hooks
  <2> QED BY <1>2, <2>1 DEF Inv, TypeOK, Together, StartHookFails, Busy
<1>3. CASE Abort
  <2>1. UpTo(hook)
    BY <1>3 DEF Abort, Inv, Together
  <2>2. CASE hook \in Hooks
    BY <1>3, <2>1, <2>2, StopHookDown DEF Inv, TypeOK, Together, Abort, StopHook
  <2>3. CASE hook \notin Hooks
    <3>1. hook = 0 /\ AllDown
      BY <1>3, <2>1, <2>3, ServiceAssumption DEF Inv, Together, Abort, UpTo, AllDown, Hooks
    <3> QED BY <1>3, <2>3, <3>1 DEF Inv, TypeOK, Together, Abort, Return, AllDown
  <2> QED BY <2>2, <2>3
<1>4. CASE Spawn
  <2>1. AllUp
    BY <1>4, ServiceAssumption DEF Inv, Together, TypeOK, Spawn, UpTo, AllUp, Hooks
  <2> QED BY <1>4, <2>1 DEF Inv, TypeOK, Together, Spawn, Busy, AllUp
<1> QED BY <1>1, <1>2, <1>3, <1>4

LEMMA WaitingInv ==
  ASSUME Inv, LockMutex \/ Wait \/ StartReturns
  PROVE  Inv'
BY DEF Inv, TypeOK, Together, LockMutex, Wait, StartReturns, Return, Busy, AllUp

LEMMA StopInv ==
  ASSUME Inv, Stop
  PROVE  Inv'
BY DEF Inv, TypeOK, Together, Stop, Return, Busy, AllUp, AllDown

LEMMA StoppingInv ==
  ASSUME Inv, Join \/ StopHooks
  PROVE  Inv'
<1>1. CASE Join
  <2>1. UpTo(hook)' /\ hook' \in 0..NHooks /\ hook' \in 0..NHooks + 1
    BY <1>1, ServiceAssumption DEF Inv, TypeOK, Together, UpTo, AllUp, Join, Hooks
  <2> QED BY <1>1, <2>1 DEF Inv, TypeOK, Together, Join, Busy
<1>2. CASE StopHooks
  <2>1. UpTo(hook)
    BY <1>2 DEF StopHooks, Inv, Together
  <2>2. CASE hook \in Hooks
    BY <1>2, <2>1, <2>2, StopHookDown DEF Inv, TypeOK, Together, StopHooks, StopHook
  <2>3. CASE hook \notin Hooks
    <3>1. AllDown /\ ~service_running /\ thread = "none"
      BY <1>2, <2>1, <2>3, ServiceAssumption
         DEF Inv, Together, StopHooks, UpTo, AllDown, Hooks
    <3>2. CASE reloading
      BY <1>2, <2>3, <3>1, <3>2, EnterStartInv DEF StopHooks, LeaveStop
    <3>3. CASE ~reloading
      BY <1>2, <2>3, <3>1, <3>3 DEF StopHooks, LeaveStop, Inv, TypeOK, Together, Return, AllDown
    <3> QED BY <3>2, <3>3
  <2> QED BY <2>2, <2>3
<1> QED BY <1>1, <1>2

LEMMA ThreadInv ==
  ASSUME Inv, service_loop
  PROVE  Inv'
<1> USE DEF Inv, TypeOK, Together, AllUp, AllDown, UpTo
<1>1. CASE AnnounceRunning
  BY <1>1 DEF AnnounceRunning, Busy
<1>2. CASE LockAndUnlock
  BY <1>2 DEF LockAndUnlock, Busy
<1>3. CASE NotifyOne
  <2>1. CASE caller = "waiting"
    BY <1>3, <2>1 DEF NotifyOne, Busy
  <2>2. CASE caller # "waiting"
    BY <1>3, <2>2 DEF NotifyOne, Busy
  <2> QED BY <2>1, <2>2
<1>4. CASE CheckRunning
  BY <1>4 DEF CheckRunning, Busy
<1>5. CASE RunReturns
  BY <1>5 DEF RunReturns, Busy
<1> QED BY <1>1, <1>2, <1>3, <1>4, <1>5 DEF service_loop

LEMMA NextInv ==
  ASSUME Inv, [Next]_vars, ~WakeSpuriously
  PROVE  Inv'
<1>1. CASE UNCHANGED vars
  BY <1>1 DEF Inv, TypeOK, Together, vars, AllUp, AllDown, UpTo
<1>2. CASE Start
  BY <1>2, EnterStartInv DEF Start, Inv, TypeOK
<1>3. CASE Stop
  BY <1>3, StopInv
<1>4. CASE Proceed
  BY <1>4, StartingInv, WaitingInv, StoppingInv DEF Proceed
<1>5. CASE service_loop
  BY <1>5, ThreadInv
<1> QED BY <1>1, <1>2, <1>3, <1>4, <1>5 DEF Next

\* Types do not depend on the agreement.
LEMMA NextType == TypeOK /\ [Next]_vars => TypeOK'
<1> SUFFICES ASSUME TypeOK, [Next]_vars PROVE TypeOK'
  OBVIOUS
<1> USE ServiceAssumption DEF TypeOK, Busy, Hooks
<1>1. CASE UNCHANGED vars
  BY <1>1 DEF vars
<1>2. CASE Start
  BY <1>2 DEF Start, EnterStart, Return
<1>3. CASE Stop
  BY <1>3 DEF Stop, Return
<1>4. CASE StartHook \/ StartHookFails \/ Spawn
  BY <1>4 DEF StartHook, StartHookFails, Spawn
<1>5. CASE Abort
  BY <1>5 DEF Abort, StopHook, Return
<1>6. CASE LockMutex \/ Wait \/ StartReturns \/ WakeSpuriously
  BY <1>6 DEF LockMutex, Wait, StartReturns, WakeSpuriously, Return
<1>7. CASE Join
  BY <1>7 DEF Join
<1>8. CASE StopHooks
  <2>1. CASE hook \in Hooks
    BY <1>8, <2>1 DEF StopHooks, StopHook
  <2>2. CASE hook \notin Hooks
    <3>1. CASE reloading /\ ~service_running
      <4>1. /\ caller' = "start_hooks" /\ hook' = 1 /\ reloading' = FALSE
            /\ UNCHANGED <<result, service_running, thread, up, spurious>>
        BY <1>8, <2>2, <3>1 DEF StopHooks, LeaveStop, EnterStart
      <4>2. hook' \in 0..NHooks + 1
        BY <4>1
      <4> QED BY <4>1, <4>2
    <3>2. CASE ~(reloading /\ ~service_running)
      BY <1>8, <2>2, <3>2 DEF StopHooks, LeaveStop, EnterStart, Return
    <3> QED BY <3>1, <3>2
  <2> QED BY <2>1, <2>2
<1>9. CASE service_loop
  BY <1>9 DEF service_loop, AnnounceRunning, LockAndUnlock, NotifyOne, CheckRunning,
              RunReturns
<1> QED BY <1>1, <1>2, <1>3, <1>4, <1>5, <1>6, <1>7, <1>8, <1>9 DEF Next, Proceed

LEMMA StaysSpurious == spurious /\ [Next]_vars => spurious'
BY DEF Next, vars, Start, Stop, Proceed, StartHook, StartHookFails, Abort, Spawn, LockMutex,
       Wait, StartReturns, Join, StopHooks, WakeSpuriously, service_loop, AnnounceRunning,
       LockAndUnlock, NotifyOne, CheckRunning, RunReturns

LEMMA NextSafe == SafeInv /\ [Next]_vars => SafeInv'
<1> SUFFICES ASSUME SafeInv, [Next]_vars PROVE SafeInv'
  OBVIOUS
<1>1. TypeOK'
  BY NextType DEF SafeInv
<1>2. CASE spurious
  BY <1>1, <1>2, StaysSpurious DEF SafeInv, Notified
<1>3. CASE WakeSpuriously
  BY <1>1, <1>3 DEF WakeSpuriously, SafeInv, Notified
<1>4. CASE ~spurious /\ ~WakeSpuriously
  BY <1>4, NextInv DEF SafeInv, Notified, Inv
<1> QED BY <1>2, <1>3, <1>4

\* Every variable keeps its type, spurious wake-ups or not: no loop over the
\* hooks runs past either end.
THEOREM TypeCorrect == Spec => []TypeOK
<1>1. Init => TypeOK
  BY InitInv DEF Inv
<1> QED BY <1>1, NextType, PTL DEF Spec

LEMMA AlwaysSafe == Spec => []SafeInv
<1>1. Init => SafeInv
  BY InitInv DEF Inv, SafeInv, Notified
<1> QED BY <1>1, NextSafe, PTL DEF Spec

\* Some first hooks are up and the others down: AllUp and AllDown are extremes.
LEMMA SomeUp == Inv => \E n \in 0..NHooks : UpTo(n)
<1>1. AllUp => UpTo(NHooks)
  BY ServiceAssumption DEF AllUp, UpTo, Hooks
<1>2. AllDown => UpTo(0)
  BY ServiceAssumption DEF AllDown, UpTo, Hooks
<1>3. hook \in 1..NHooks + 1 => hook - 1 \in 0..NHooks
  BY ServiceAssumption
<1>4. hook \in 0..NHooks /\ UpTo(hook) => \E n \in 0..NHooks : UpTo(n)
  OBVIOUS
<1>5. AllUp \/ AllDown => \E n \in 0..NHooks : UpTo(n)
  BY <1>1, <1>2, ServiceAssumption
<1> SUFFICES ASSUME Inv PROVE \E n \in 0..NHooks : UpTo(n)
  OBVIOUS
<1>6. CASE caller \in {"idle", "lock", "locked", "waiting", "woken", "join"}
  BY <1>5, <1>6 DEF Inv, Together
<1>7. CASE caller = "start_hooks"
  BY <1>3, <1>7 DEF Inv, Together
<1>8. CASE caller \in {"abort", "stop_hooks"}
  BY <1>4, <1>8 DEF Inv, Together
<1> QED BY <1>6, <1>7, <1>8 DEF Inv, TypeOK, Together, Busy

-----------------------------------------------------------------------------

\* run never executes, and the service never counts as active, but between the
\* last start hook and the first stop hook.
THEOREM RunsUnderHooks == Spec => []RunUnderHooks
<1>1. SafeInv => RunUnderHooks
  <2> SUFFICES ASSUME Inv, service_running \/ thread = "run" PROVE AllUp
    BY DEF SafeInv, Inv, Notified, RunUnderHooks, AllUp
  <2>1. caller \notin {"start_hooks", "abort", "stop_hooks", "terminated"}
    BY DEF Inv, Together
  <2>2. CASE caller = "idle"
    BY <2>2 DEF Inv, Together
  <2>3. CASE caller \in {"lock", "locked", "waiting", "woken", "join"}
    BY <2>3 DEF Inv, Together
  <2> QED BY <2>1, <2>2, <2>3 DEF Inv, TypeOK, Busy
<1> QED BY <1>1, AlwaysSafe, PTL

\* Hooks are stopped in reverse order, each once and none that did not succeed,
\* also when Start fails half-way.
THEOREM HooksAreNested == Spec => []HooksNested
<1>1. SafeInv => HooksNested
  <2> SUFFICES ASSUME Inv
               PROVE  \A h \in Hooks : /\ up[h] \in {0, 1}
                                       /\ h > 1 /\ up[h] = 1 => up[h - 1] = 1
    BY DEF SafeInv, Inv, Notified, HooksNested
  <2> QED BY SomeUp, ServiceAssumption DEF UpTo, Hooks
<1> QED BY <1>1, AlwaysSafe, PTL

\* A Start that failed and a Stop leave no thread and no hook behind.
THEOREM EndsClean == Spec => []EndedIsClean
<1>1. SafeInv => EndedIsClean
  BY DEF SafeInv, Notified, Together, EndedIsClean, AllDown
<1> QED BY <1>1, AlwaysSafe, PTL

-----------------------------------------------------------------------------
(* What holds even when calls are abandoned half-way, as an interrupt that *)
(* ends the process does to them.                                          *)

Busily == {"lock", "notify", "check", "run"}

\* Together without what a call leaves when it has returned: this may have been
\* cut short.
Agree ==
  /\ caller = "idle" => \E n \in 0..NHooks : UpTo(n)
  /\ caller = "start_hooks" =>
       ~service_running /\ thread = "none" /\ hook \in 1..NHooks + 1 /\ UpTo(hook - 1)
  /\ caller \in {"abort", "stop_hooks"} =>
       ~service_running /\ thread = "none" /\ hook \in 0..NHooks /\ UpTo(hook)
  /\ caller \in {"lock", "locked", "waiting"} =>
       AllUp /\ thread \in Busily \cup {"created"}
  /\ caller = "woken" => service_running /\ AllUp
  /\ caller = "join" => ~service_running /\ thread \in Busily \cup {"exited"}
  /\ caller # "terminated"
  /\ thread # "none" => AllUp
  /\ thread = "created" => ~service_running /\ caller \in {"lock", "locked", "waiting", "idle"}
  /\ thread = "exited" => ~service_running
  /\ thread \in Busily /\ caller # "join" => service_running \/ caller = "idle"
  /\ service_running => thread \in Busily
  /\ reloading => caller \in {"join", "stop_hooks"}

AllDownNow == ~service_running /\ thread = "none" /\ AllDown

\* What a call that was not cut short leaves.
Settled == caller = "idle" => AllDownNow \/ service_running

Steady == TypeOK /\ Agree

LEMMA InitSteady == Init => Steady /\ Settled
<1> SUFFICES ASSUME Init PROVE Steady /\ Settled
  OBVIOUS
<1>1. TypeOK
  BY InitInv DEF Inv
<1>2. UpTo(0) /\ AllDown /\ 0 \in 0..NHooks
  BY ServiceAssumption DEF Init, UpTo, AllDown, Hooks
<1>3. \E n \in 0..NHooks : UpTo(n)
  BY <1>2
<1> QED BY <1>1, <1>2, <1>3 DEF Init, Steady, Agree, Settled, AllDownNow, Busily

\* The caller leaves its call where it stands.
LEMMA CutShort ==
  ASSUME Steady, caller' = "idle", reloading' = FALSE,
         UNCHANGED <<hook, result, service_running, thread, history>>
  PROVE  Steady'
<1>1. TypeOK'
  BY DEF Steady, TypeOK
<1>2. \E n \in 0..NHooks : UpTo(n)
  <2>1. AllUp => UpTo(NHooks)
    BY ServiceAssumption DEF AllUp, UpTo, Hooks
  <2>2. CASE caller = "start_hooks"
    <3>1. hook - 1 \in 0..NHooks /\ UpTo(hook - 1)
      BY <2>2, ServiceAssumption DEF Steady, Agree
    <3> QED BY <3>1
  <2>3. CASE caller \in {"idle", "abort", "stop_hooks"}
    BY <2>3 DEF Steady, Agree
  <2>4. CASE caller \in {"lock", "locked", "waiting", "woken"}
    BY <2>1, <2>4, ServiceAssumption DEF Steady, Agree
  <2>5. CASE caller = "join"
    BY <2>1, <2>5, ServiceAssumption DEF Steady, Agree, Busily
  <2> QED BY <2>2, <2>3, <2>4, <2>5 DEF Steady, Agree, TypeOK, Busy
<1>3. (\E n \in 0..NHooks : UpTo(n))'
  BY <1>2 DEF UpTo
<1>4. (thread # "none" => AllUp)'
  BY DEF Steady, Agree, AllUp
<1> QED BY <1>1, <1>3, <1>4 DEF Steady, Agree, Busily

LEMMA UnchangedSteady ==
  ASSUME Steady, UNCHANGED vars
  PROVE  Steady' /\ (Settled => Settled')
BY DEF Steady, Agree, Settled, AllDownNow, TypeOK, vars, AllUp, AllDown, UpTo

\* A service that is down is started: it is at its first hook.
LEMMA EnterStartSteady ==
  ASSUME Steady, AllDownNow, EnterStart, reloading' = FALSE,
         UNCHANGED <<service_running, thread, history>>
  PROVE  Agree' /\ Settled'
<1>1. caller' = "start_hooks" /\ hook' = 1 /\ hook' - 1 = 0 /\ hook' \in 1..NHooks + 1
  BY ServiceAssumption DEF EnterStart, AllDownNow
<1>2. UpTo(hook - 1)'
  BY <1>1 DEF UpTo, AllDownNow, AllDown, Hooks
<1>3. service_running' = FALSE /\ thread' = "none"
  BY DEF AllDownNow, Steady, TypeOK
<1> QED BY <1>1, <1>2, <1>3 DEF Agree, Settled, Busily

LEMMA StartSteady ==
  ASSUME Steady, Settled, Start
  PROVE  Steady' /\ Settled'
<1>1. TypeOK'
  BY NextType DEF Next, Steady
<1>2. CASE service_running
  <2>1. caller = "idle" /\ caller' = "idle" /\ UNCHANGED <<reloading, service_running, thread, up>>
    BY <1>2 DEF Start, EnterStart, Return
  <2>2. (AllUp => AllUp') /\ (\E n \in 0..NHooks : UpTo(n))'
    BY <2>1 DEF Steady, Agree, AllUp, UpTo
  <2> QED BY <1>1, <1>2, <2>1, <2>2 DEF Steady, Agree, Settled
<1>3. CASE ~service_running
  <2>1. AllDownNow /\ reloading' = FALSE
    BY <1>3 DEF Start, Settled, Steady, Agree, TypeOK
  <2> QED BY <1>1, <1>3, <2>1, EnterStartSteady DEF Start, Steady
<1> QED BY <1>2, <1>3

LEMMA StopSteady ==
  ASSUME Steady, Stop
  PROVE  Steady' /\ (Settled => Settled')
<1>1. TypeOK'
  BY NextType DEF Next, Steady
<1>2. CASE service_running
  BY <1>1, <1>2 DEF Stop, Steady, Agree, Settled, AllUp, UpTo, Busily
<1>3. CASE ~service_running
  BY <1>1, <1>3 DEF Stop, Return, Steady, Agree, Settled, AllDownNow, AllDown, AllUp, UpTo
<1> QED BY <1>2, <1>3

\* Stopping hook n when the hooks up to n are up leaves those below it.
LEMMA StopHookSteady ==
  ASSUME TypeOK, UpTo(hook), hook \in Hooks, StopHook
  PROVE  UpTo(hook)' /\ hook' \in 0..NHooks
BY ServiceAssumption DEF TypeOK, UpTo, StopHook, Hooks

LEMMA StartingSteady ==
  ASSUME Steady, StartHook \/ StartHookFails \/ Abort \/ Spawn
  PROVE  Agree' /\ Settled'
<1> USE DEF Steady
<1>1. CASE StartHook
  <2>1. UpTo(hook - 1)' /\ hook' \in 1..NHooks + 1
    BY <1>1, ServiceAssumption DEF TypeOK, Agree, UpTo, StartHook, Hooks
  <2> QED BY <1>1, <2>1 DEF Agree, Settled, StartHook, Busily
<1>2. CASE StartHookFails
  <2>1. UpTo(hook)' /\ hook' \in 0..NHooks
    BY <1>2, ServiceAssumption DEF TypeOK, Agree, UpTo, StartHookFails, Hooks
  <2> QED BY <1>2, <2>1 DEF Agree, Settled, StartHookFails, Busily
<1>3. CASE Abort
  <2>1. UpTo(hook) /\ hook \in 0..NHooks
    BY <1>3 DEF Abort, Agree
  <2>2. CASE hook \in Hooks
    BY <1>3, <2>1, <2>2, StopHookSteady DEF Agree, Settled, Abort, StopHook, Busily
  <2>3. CASE hook \notin Hooks
    <3>1. hook = 0 /\ AllDown /\ 0 \in 0..NHooks
      BY <1>3, <2>1, <2>3, ServiceAssumption DEF UpTo, AllDown, Hooks
    <3>2. UpTo(0)' /\ AllDown'
      BY <1>3, <2>1, <2>3, <3>1 DEF Abort, UpTo, AllDown
    <3>3. (\E n \in 0..NHooks : UpTo(n))'
      BY <3>1, <3>2
    <3> QED BY <1>3, <2>3, <3>2, <3>3
            DEF Agree, Settled, AllDownNow, Abort, Return, Busily, TypeOK
  <2> QED BY <2>2, <2>3
<1>4. CASE Spawn
  <2>1. AllUp
    BY <1>4, ServiceAssumption DEF Agree, TypeOK, Spawn, UpTo, AllUp, Hooks
  <2>2. AllUp'
    BY <1>4, <2>1 DEF Spawn, AllUp
  <2> QED BY <1>4, <2>2 DEF Agree, Settled, Spawn, Busily
<1> QED BY <1>1, <1>2, <1>3, <1>4

LEMMA WaitingSteady ==
  ASSUME Steady, LockMutex \/ Wait \/ StartReturns
  PROVE  Agree' /\ Settled'
<1> USE DEF Steady
<1>1. CASE LockMutex \/ Wait
  <2>1. AllUp => AllUp'
    BY <1>1 DEF LockMutex, Wait, AllUp
  <2> QED BY <1>1, <2>1 DEF Agree, Settled, LockMutex, Wait, Busily
<1>2. CASE StartReturns
  <2>1. AllUp /\ AllUp'
    BY <1>2 DEF StartReturns, AllUp, Agree
  <2>2. UpTo(NHooks)' /\ NHooks \in 0..NHooks
    BY <2>1, ServiceAssumption DEF AllUp, UpTo, Hooks
  <2>3. (\E n \in 0..NHooks : UpTo(n))'
    BY <2>2
  <2> QED BY <1>2, <2>1, <2>3 DEF Agree, Settled, StartReturns, Return, Busily
<1> QED BY <1>1, <1>2

LEMMA StoppingSteady ==
  ASSUME Steady, Join \/ StopHooks
  PROVE  Agree' /\ Settled'
<1> USE DEF Steady
<1>1. CASE Join
  <2>1. UpTo(hook)' /\ hook' \in 0..NHooks
    BY <1>1, ServiceAssumption DEF TypeOK, Agree, UpTo, AllUp, Join, Hooks
  <2> QED BY <1>1, <2>1 DEF Agree, Settled, Join, Busily
<1>2. CASE StopHooks
  <2>1. UpTo(hook) /\ hook \in 0..NHooks /\ ~service_running /\ thread = "none"
    BY <1>2 DEF StopHooks, Agree
  <2>2. CASE hook \in Hooks
    BY <1>2, <2>1, <2>2, StopHookSteady DEF Agree, Settled, StopHooks, StopHook, Busily
  <2>3. CASE hook \notin Hooks
    <3>1. hook = 0 /\ AllDown /\ AllDownNow /\ 0 \in 0..NHooks
      BY <1>2, <2>1, <2>3, ServiceAssumption DEF UpTo, AllDown, AllDownNow, Hooks
    <3>2. CASE reloading
      BY <1>2, <2>3, <3>1, <3>2, EnterStartSteady DEF StopHooks, LeaveStop
    <3>3. CASE ~reloading
      <4>1. UpTo(0)' /\ AllDown'
        BY <1>2, <2>1, <2>3, <3>1 DEF StopHooks, UpTo, AllDown
      <4>2. (\E n \in 0..NHooks : UpTo(n))'
        BY <3>1, <4>1
      <4> QED BY <1>2, <2>1, <2>3, <3>3, <4>1, <4>2
              DEF Agree, Settled, AllDownNow, StopHooks, LeaveStop, Return, Busily
    <3> QED BY <3>2, <3>3
  <2> QED BY <2>2, <2>3
<1> QED BY <1>1, <1>2

LEMMA ProceedSteady ==
  ASSUME Steady, Proceed
  PROVE  Steady' /\ Settled'
<1>1. TypeOK'
  BY NextType DEF Next, Steady
<1> QED BY <1>1, StartingSteady, WaitingSteady, StoppingSteady DEF Proceed, Steady

ThreadSteps == AnnounceRunning \/ LockAndUnlock \/ NotifyOne \/ CheckRunning \/ RunReturns

LEMMA ThreadSteady ==
  ASSUME Steady, ThreadSteps
  PROVE  Steady' /\ (Settled => Settled')
<1>0. TypeOK'
  BY NextType DEF ThreadSteps, Next, service_loop, Steady, Agree
<1>1. /\ UNCHANGED <<hook, up, reloading>>
      /\ UpTo(hook) => UpTo(hook)'
      /\ AllUp => AllUp'
      /\ AllDown => AllDown'
      /\ (\E n \in 0..NHooks : UpTo(n)) => (\E n \in 0..NHooks : UpTo(n))'
  BY DEF ThreadSteps, AnnounceRunning, LockAndUnlock, NotifyOne, CheckRunning, RunReturns,
         UpTo, AllUp, AllDown
<1>2. thread # "none" /\ AllUp
  BY DEF ThreadSteps, AnnounceRunning, LockAndUnlock, NotifyOne, CheckRunning, RunReturns,
         Steady, Agree
<1>5. caller \notin {"start_hooks", "abort", "stop_hooks", "terminated"}
  BY <1>2 DEF Steady, Agree
<1>3. caller' = caller \/ (caller = "waiting" /\ caller' = "woken" /\ NotifyOne)
  BY DEF ThreadSteps, AnnounceRunning, LockAndUnlock, NotifyOne, CheckRunning, RunReturns
<1>4. CASE AnnounceRunning
  BY <1>4, <1>0, <1>1, <1>2, <1>5 DEF AnnounceRunning, Steady, Agree, Settled, Busily
<1>6. CASE LockAndUnlock
  BY <1>6, <1>0, <1>1, <1>2, <1>5 DEF LockAndUnlock, Steady, Agree, Settled, Busily, AllDownNow
<1>7. CASE NotifyOne
  BY <1>7, <1>0, <1>1, <1>2, <1>3, <1>5 DEF NotifyOne, Steady, Agree, Settled, Busily, AllDownNow
<1>8. CASE CheckRunning
  BY <1>8, <1>0, <1>1, <1>2, <1>5
     DEF CheckRunning, Steady, Agree, Settled, Busily, AllDownNow
<1>9. CASE RunReturns
  BY <1>9, <1>0, <1>1, <1>2, <1>5 DEF RunReturns, Steady, Agree, Settled, Busily, AllDownNow
<1> QED BY <1>4, <1>6, <1>7, <1>8, <1>9 DEF ThreadSteps
=============================================================================
