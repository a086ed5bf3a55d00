--------------------- MODULE AsyncCommandRuntimeProofs ---------------------
(***************************************************************************)
(* Proofs about AsyncCommandRuntime, for any number of workers and calls,  *)
(* any set of awaited workers and any methods.                             *)
(***************************************************************************)
EXTENDS AsyncCommandRuntime, TLAPS

\* A call has a number, and Main disposes the runtime only on its way out: the
\* facts TypeOK and TurnExclusion need to be preserved by every step.
CallsBegun == \A t \in Threads : pc[t] \in InCall => calls[t] # 0

DisposedLast ==
  /\ mainPc = "disposing" => disposed < 7
  /\ mainPc \notin {"disposing", "left"} => disposed = 0

TurnInv == TypeOK /\ CallsBegun /\ DisposedLast /\ TurnExclusion

-----------------------------------------------------------------------------
\* Counting one more run of a call keeps runs a table of naturals.
LEMMA CountsOne ==
  ASSUME NEW S, NEW f \in [S -> Nat], NEW n
  PROVE  [f EXCEPT ![n] = @ + 1] \in [S -> Nat]
<1>1. CASE n \in S
  BY <1>1
<1>2. CASE n \notin S
  BY <1>2
<1> QED
  BY <1>1, <1>2

\* Counting one more run keeps the history a table of numbers, whatever the call.
LEMMA CountsRuns ==
  ASSUME NEW S, NEW r \in [Threads -> [S -> Nat]], NEW t, NEW n
  PROVE  [r EXCEPT ![t][n] = @ + 1] \in [Threads -> [S -> Nat]]
<1> DEFINE row == [r[t] EXCEPT ![n] = @ + 1]
<1>1. t \in Threads => row \in [S -> Nat]
  BY CountsOne
<1>2. [r EXCEPT ![t] = row] \in [Threads -> [S -> Nat]]
  <2> HIDE DEF row
  <2> QED
    BY <1>1
<1> QED
  BY <1>2

\* Counting a run changes the count of that call and of no other.
LEMMA CountedAt ==
  ASSUME NEW S, NEW r \in [Threads -> [S -> Nat]], NEW t \in Threads, NEW n \in S
  PROVE  /\ [r EXCEPT ![t][n] = @ + 1][t][n] = r[t][n] + 1
         /\ \A k \in S : k # n => [r EXCEPT ![t][n] = @ + 1][t][k] = r[t][k]
         /\ \A u \in Threads : u # t => [r EXCEPT ![t][n] = @ + 1][u] = r[u]
  OBVIOUS

\* The initial states satisfy the invariant: the semaphore is free, nobody holds.
LEMMA InitTurnInv == Init => TurnInv
<1> SUFFICES ASSUME Init PROVE TurnInv
  OBVIOUS
<1>1. TypeOK
  <2>1. (CHOOSE m \in Methods : TRUE) \in Methods
    BY ConstantsAssumption
  <2>2. calls \in [Threads -> 0..MaxCalls] /\ runs \in [Threads -> [1..MaxCalls -> Nat]]
    BY ConstantsAssumption DEF Init
  <2>3. method \in [Threads -> Methods] /\ pc \in [Threads -> {"idle"} \cup InCall \cup TaskOver]
    BY <2>1 DEF Init
  <2>4. mainPc \in MainStates /\ disposed \in 0..7 /\ semaphore \in 0..1
    BY DEF Init, MainStates
  <2> QED
    BY <2>2, <2>3, <2>4 DEF Init, TypeOK
<1>2. CallsBegun /\ DisposedLast
  BY DEF Init, CallsBegun, DisposedLast, InCall, Holding
<1>3. TurnExclusion
  BY DEF Init, TurnExclusion, Holders, Holding, Semaphore, Lifetime
<1> QED
  BY <1>1, <1>2, <1>3 DEF TurnInv

\* Beginning a call puts the caller before the semaphore, so it moves no turn.
LEMMA CallTurnInv ==
  ASSUME TurnInv, NEW t \in Threads, AnyCall(t)
  PROVE  TurnInv'
<1>1. PICK m \in Methods : Call(t, m)
  BY DEF AnyCall, ShouldContinue, ShouldProcess, ThrowTerminatingError,
     TransactionAvailable, WriteCommandDetail, WriteDebug, WriteError,
     WriteInformation, WriteObject, WriteProgress, WriteVerbose, WriteWarning,
     ExecuteSync, Call
<1>2. calls[t] \in 0..MaxCalls /\ calls[t] < MaxCalls /\ pc[t] = "idle" /\ MaxCalls \in Nat
  BY <1>1, ConstantsAssumption DEF TurnInv, TypeOK, Call
<1>3. \/ pc' = pc
      \/ pc' = [pc EXCEPT ![t] = "turn"]
      \/ pc' = [pc EXCEPT ![t] = "faulted"]
  BY <1>1 DEF Call, Goto, Throw
<1>4. TypeOK'
  <2>1. calls' \in [Threads -> 0..MaxCalls] /\ method' \in [Threads -> Methods]
    BY <1>1, <1>2 DEF Call, TurnInv, TypeOK
  <2>2. pc' \in [Threads -> {"idle"} \cup InCall \cup TaskOver]
    BY <1>3 DEF TurnInv, TypeOK, InCall, TaskOver
  <2>3. runs' \in [Threads -> [1..MaxCalls -> Nat]]
    <3>1. runs \in [Threads -> [1..MaxCalls -> Nat]]
      BY DEF TurnInv, TypeOK
    <3>2. [runs EXCEPT ![t][calls'[t]] = @ + 1] \in [Threads -> [1..MaxCalls -> Nat]]
      BY <3>1, CountsRuns
    <3> QED
      BY <1>1, <3>1, <3>2 DEF Call, CallThrough
  <2> QED
    BY <1>1, <2>1, <2>2, <2>3 DEF Call, TurnInv, TypeOK, Delegate
<1>5. CallsBegun'
  BY <1>1, <1>2, <1>3 DEF Call, TurnInv, TypeOK, CallsBegun, InCall, Holding
<1>6. DisposedLast'
  BY <1>1 DEF Call, TurnInv, DisposedLast
<1>7. Holders' = Holders
  BY <1>2, <1>3 DEF TurnInv, TypeOK, Holders, Holding
<1>8. TurnExclusion'
  BY <1>1, <1>7 DEF Call, TurnInv, TurnExclusion, Semaphore, Lifetime
<1> QED
  BY <1>4, <1>5, <1>6, <1>8 DEF TurnInv

\* No step inside a call leaks or doubles the turn: each exception that skips
\* the release can only be raised once the semaphore has been disposed.
LEMMA CallStepTurnInv ==
  ASSUME TurnInv, NEW t \in Threads, CallStep(t)
  PROVE  TurnInv'
<1> USE DEF TurnInv
<1>1. pc[t] \in InCall /\ calls' = calls /\ mainPc' = mainPc /\ disposed' = disposed
  BY DEF CallStep, EnterWait, Acquire, ResetCompleted, SetDelegate, SignalReady,
     EnterWaitAny, LeaveWaitAny, ReleaseAndReturn, InCall, Holding
<1>2. PICK s \in {"idle"} \cup InCall \cup TaskOver : pc' = [pc EXCEPT ![t] = s]
  BY DEF CallStep, EnterWait, Acquire, ResetCompleted, SetDelegate, SignalReady,
     EnterWaitAny, LeaveWaitAny, ReleaseAndReturn, TakeTurn, Goto, Throw,
     ThrowCanceled, InCall, Holding, TaskOver
<1>3. CallsBegun' /\ DisposedLast'
  BY <1>1, <1>2 DEF CallsBegun, DisposedLast, TypeOK
<1>4. Holders' = IF s \in Holding THEN Holders \cup {t} ELSE Holders \ {t}
  BY <1>2 DEF TypeOK, Holders
<1>5. Semaphore' = Semaphore /\ CompletedEvent' = CompletedEvent
  BY <1>1 DEF Semaphore, CompletedEvent, Lifetime
<1>6. CompletedEvent # "live" => Semaphore = "null"
  BY DEF Semaphore, CompletedEvent, Lifetime, TypeOK
<1>7. s = pc'[t]
  BY <1>2 DEF TypeOK
<1>8. semaphore' \in 0..1 /\ TurnExclusion'
  <2>1. CASE EnterWait(t)
    BY <2>1, <1>4, <1>5, <1>7 DEF EnterWait, TakeTurn, Goto, Throw, ThrowCanceled, TypeOK,
       TurnExclusion, Holding, Holders
  <2>2. CASE Acquire(t)
    BY <2>2, <1>4, <1>5, <1>7 DEF Acquire, TakeTurn, Goto, ThrowCanceled, TypeOK,
       TurnExclusion, Holding, Holders
  <2>3. CASE ReleaseAndReturn(t)
    <3>1. pc[t] = "release" /\ pc'[t] \in {"idle", "faulted"}
      BY <2>3, <1>2 DEF ReleaseAndReturn, Goto, Throw, TypeOK
    <3>2. t \in Holders /\ Holders' = Holders \ {t}
      BY <3>1, <1>4, <1>7 DEF Holders, Holding
    <3>3. \/ Semaphore = "live" /\ semaphore' = semaphore + 1
          \/ Semaphore # "live" /\ semaphore' = semaphore
      BY <2>3 DEF ReleaseAndReturn
    <3>4. Semaphore = "live" => semaphore = 0 /\ Holders' = {}
      BY <3>2 DEF TurnExclusion
    <3> QED
      BY <3>2, <3>3, <3>4, <1>5 DEF TypeOK, TurnExclusion
  <2>4. CASE ResetCompleted(t)
    <3>1. pc[t] = "reset" /\ semaphore' = semaphore /\ t \in Holders
      BY <2>4 DEF ResetCompleted, Holders, Holding
    <3>2. CASE CompletedEvent = "live"
      <4>1. pc'[t] = "set"
        BY <2>4, <3>2, <1>2 DEF ResetCompleted, Goto, TypeOK
      <4>2. Holders' = Holders
        BY <3>1, <4>1, <1>4, <1>7 DEF Holding
      <4> QED
        BY <3>1, <4>2, <1>5 DEF TypeOK, TurnExclusion
    <3>3. CASE CompletedEvent # "live"
      BY <3>1, <3>3, <1>5, <1>6 DEF TypeOK, TurnExclusion
    <3> QED
      BY <3>2, <3>3
  <2>5. CASE EnterWaitAny(t)
    BY <2>5, <1>4, <1>5, <1>6, <1>7 DEF EnterWaitAny, Goto, Throw, TypeOK,
       TurnExclusion, Holding, Holders
  <2>6. CASE SignalReady(t)
    <3>1. ReadyToRunEvent = "null" => Semaphore = "null"
      BY DEF Semaphore, ReadyToRunEvent, Lifetime, TypeOK
    <3> QED
      BY <2>6, <3>1, <1>4, <1>5, <1>7 DEF SignalReady, Goto, Throw, TypeOK,
         TurnExclusion, Holding, Holders
  <2>7. CASE SetDelegate(t)
    BY <2>7, <1>4, <1>5, <1>7 DEF SetDelegate, Goto, TypeOK, TurnExclusion,
       Holding, Holders
  <2>8. CASE LeaveWaitAny(t)
    BY <2>8, <1>4, <1>5, <1>7 DEF LeaveWaitAny, Goto, TypeOK, TurnExclusion,
       Holding, Holders
  <2> QED
    BY <2>1, <2>2, <2>3, <2>4, <2>5, <2>6, <2>7, <2>8 DEF CallStep
<1>9. TypeOK'
  <2>1. pc' \in [Threads -> {"idle"} \cup InCall \cup TaskOver]
    BY <1>2 DEF TypeOK
  <2>2. readyToRun' \in BOOLEAN /\ completed' \in BOOLEAN
    BY DEF CallStep, EnterWait, Acquire, ResetCompleted, SetDelegate, SignalReady,
       EnterWaitAny, LeaveWaitAny, ReleaseAndReturn, TypeOK
  <2>3. runOnMainThread' \in Delegate \cup {NoDelegate}
    <3>1. calls[t] \in 1..MaxCalls
      BY <1>1, ConstantsAssumption DEF CallsBegun, TypeOK
    <3>2. [thread |-> t, call |-> calls[t], method |-> method[t]] \in Delegate
      BY <3>1 DEF Delegate, TypeOK
    <3> QED
      BY <3>2 DEF CallStep, EnterWait, Acquire, ResetCompleted, SetDelegate,
         SignalReady, EnterWaitAny, LeaveWaitAny, ReleaseAndReturn, TypeOK
  <2>4. UNCHANGED <<calls, method, mainPc, running, runs, outcome, cancelled, disposed>>
    BY DEF CallStep, EnterWait, Acquire, ResetCompleted, SetDelegate, SignalReady,
       EnterWaitAny, LeaveWaitAny, ReleaseAndReturn
  <2> QED
    BY <1>8, <2>1, <2>2, <2>3, <2>4 DEF TypeOK, Delegate
<1> QED
  BY <1>3, <1>8, <1>9

\* Threads that leave a disposed semaphore's queue or end their task held no turn.
LEMMA LeaveTurnInv ==
  ASSUME TurnInv, NEW t \in Threads, WokenAfterDispose(t) \/ EndTask(t)
  PROVE  TurnInv'
<1> USE DEF TurnInv
<1>1. PICK s \in TaskOver : pc' = [pc EXCEPT ![t] = s]
  BY DEF WokenAfterDispose, EndTask, Goto, ThrowCanceled, TaskOver
<1>2. /\ pc[t] \in {"queued", "idle"}
      /\ UNCHANGED <<calls, method, semaphore, readyToRun, completed, runOnMainThread,
                     mainPc, running, runs, outcome, cancelled, disposed>>
  BY DEF WokenAfterDispose, EndTask
<1>3. Holders' = Holders
  BY <1>1, <1>2 DEF TypeOK, Holders, Holding, TaskOver
<1>4. TypeOK'
  BY <1>1, <1>2 DEF TypeOK, Delegate
<1>5. CallsBegun' /\ DisposedLast'
  BY <1>1, <1>2 DEF TypeOK, CallsBegun, DisposedLast, InCall, Holding, TaskOver
<1>6. TurnExclusion'
  BY <1>2, <1>3 DEF TurnExclusion, Semaphore, Lifetime
<1> QED
  BY <1>4, <1>5, <1>6

\* Main and the canceller never touch the turn; Dispose only takes the semaphore
\* away, which makes TurnExclusion weaker.
LEMMA MainTurnInv ==
  ASSUME TurnInv, MainStep \/ Cancel
  PROVE  TurnInv'
<1> USE DEF TurnInv
<1>1. UNCHANGED <<pc, calls, method, semaphore, runOnMainThread>>
  BY DEF MainStep, EnterWaitLoop, WakeMain, CheckReady, ResetReady, InvokeDelegate,
     DelegateReturns, DelegateThrows, SetCompleted, EndLoop, Dispose, Cancel
<1>2. /\ readyToRun' \in BOOLEAN /\ completed' \in BOOLEAN /\ cancelled' \in BOOLEAN
      /\ outcome' \in {"none", "delegate", "task"}
  BY DEF MainStep, EnterWaitLoop, WakeMain, CheckReady, ResetReady, InvokeDelegate,
     DelegateReturns, DelegateThrows, SetCompleted, EndLoop, Dispose, Cancel, TypeOK
<1>3. mainPc' \in MainStates /\ running' \in Delegate \cup {NoDelegate}
  BY DEF MainStep, EnterWaitLoop, WakeMain, CheckReady, ResetReady, InvokeDelegate,
     DelegateReturns, DelegateThrows, SetCompleted, EndLoop, Dispose, Cancel,
     MainGoto, MainStates, TypeOK
<1>4. runs' \in [Threads -> [1..MaxCalls -> Nat]]
  <2>1. [runs EXCEPT ![running.thread][running.call] = @ + 1]
          \in [Threads -> [1..MaxCalls -> Nat]]
    BY CountsRuns DEF TypeOK
  <2> QED
    BY <2>1 DEF MainStep, EnterWaitLoop, WakeMain, CheckReady, ResetReady,
       InvokeDelegate, DelegateReturns, DelegateThrows, SetCompleted, EndLoop,
       Dispose, Cancel, TypeOK
<1>5. /\ disposed' \in 0..7 /\ DisposedLast'
      /\ disposed' = disposed \/ (mainPc = "disposing" /\ disposed' = disposed + 1)
  BY DEF MainStep, EnterWaitLoop, WakeMain, CheckReady, ResetReady, InvokeDelegate,
     DelegateReturns, DelegateThrows, SetCompleted, EndLoop, Dispose, Cancel,
     MainGoto, DisposedLast, TypeOK
<1>6. TypeOK'
  BY <1>1, <1>2, <1>3, <1>4, <1>5 DEF TypeOK, Delegate
<1>7. CallsBegun'
  BY <1>1 DEF CallsBegun
<1>8. TurnExclusion'
  <2>1. Holders' = Holders /\ semaphore' = semaphore
    BY <1>1 DEF Holders
  <2>2. /\ Semaphore' = "live" => Semaphore = "live"
        /\ Semaphore' # "null" => Semaphore # "null"
    BY <1>5 DEF Semaphore, Lifetime, TypeOK
  <2> QED
    BY <2>1, <2>2 DEF TurnExclusion
<1> QED
  BY <1>5, <1>6, <1>7, <1>8

\* Every step of every thread keeps the invariant of the turn.
LEMMA NextTurnInv == TurnInv /\ [Next]_vars => TurnInv'
<1> SUFFICES ASSUME TurnInv, [Next]_vars PROVE TurnInv'
  OBVIOUS
<1>1. ASSUME NEW t \in Threads, AnyCall(t) PROVE TurnInv'
  BY <1>1, CallTurnInv
<1>2. ASSUME NEW t \in Threads, CallStep(t) PROVE TurnInv'
  BY <1>2, CallStepTurnInv
<1>3. ASSUME NEW t \in Threads, WokenAfterDispose(t) \/ EndTask(t) PROVE TurnInv'
  BY <1>3, LeaveTurnInv
<1>4. CASE MainStep \/ Cancel
  BY <1>4, MainTurnInv
<1>5. CASE UNCHANGED vars
  BY <1>5 DEF vars, TurnInv, TypeOK, Delegate, CallsBegun, DisposedLast,
     TurnExclusion, Holders, Semaphore, Lifetime
<1> QED
  BY <1>1, <1>2, <1>3, <1>4, <1>5 DEF Next

\* The invariant of the turn holds in every reachable state.
LEMMA TurnInvariant == Spec => []TurnInv
<1> QED
  BY InitTurnInv, NextTurnInv, PTL DEF Spec

-----------------------------------------------------------------------------
\* The state of the runtime keeps its type: in particular the semaphore, created
\* with a maximum of one, is never released above it.
THEOREM TypeCorrect == Spec => []TypeOK
<1>1. TurnInv => TypeOK
  BY DEF TurnInv
<1> QED
  BY <1>1, TurnInvariant, PTL

\* WaitOurTurn and WaitForCompletion give the turn to one thread at a time, and
\* no exception or cancellation loses it, as long as the semaphore exists.
THEOREM OneTurnAtATime == Spec => []TurnExclusion
<1>1. TurnInv => TurnExclusion
  BY DEF TurnInv
<1> QED
  BY <1>1, TurnInvariant, PTL

-----------------------------------------------------------------------------
(* The service of a request.  Until a cancellation, and while Main listens,  *)
(* the two events, runOnMainThread and Main's position say how far the       *)
(* request of the one waiting thread has come.                               *)

Waiting == {"await", "blocked"}
Serving == {"reset", "invoke", "running", "complete"}

CallOf(d, t) == d.thread = t /\ d.call = calls[t]
RunsOf(t) == runs[t][calls[t]]

\* Requested, picked up, running, run, and completed.
Phase(t) ==
  \/ /\ readyToRun /\ ~completed /\ CallOf(runOnMainThread, t) /\ RunsOf(t) = 0
     /\ mainPc \notin Serving \/ mainPc = "reset"
  \/ /\ ~readyToRun /\ ~completed /\ CallOf(runOnMainThread, t) /\ RunsOf(t) = 0
     /\ mainPc = "invoke"
  \/ /\ ~readyToRun /\ ~completed /\ CallOf(running, t) /\ RunsOf(t) = 0
     /\ mainPc = "running"
  \/ /\ ~readyToRun /\ ~completed /\ CallOf(running, t) /\ RunsOf(t) = 1
     /\ mainPc = "complete"
  \/ ~readyToRun /\ completed /\ mainPc \notin Serving /\ RunsOf(t) = 1

Progress(t) ==
  /\ pc[t] \in {"turn", "queued", "reset", "set", "ready"} => RunsOf(t) = 0
  /\ pc[t] \in {"set", "ready"} => ~completed
  /\ pc[t] = "ready" => CallOf(runOnMainThread, t)
  /\ pc[t] \in Waiting => Phase(t)
  /\ pc[t] = "release" => RunsOf(t) = 1

Signalled == readyToRun \/ mainPc \in Serving => \E t \in Workers : pc[t] \in Waiting

Once == \A t \in Threads, n \in 1..MaxCalls :
          runs[t][n] <= 1 /\ (n > calls[t] => runs[t][n] = 0)

ServiceInv ==
  /\ pc[Main] = "idle"
  /\ ~cancelled => Once
  /\ Intact => Signalled /\ \A t \in Workers : Progress(t)

\* No call has begun, so nothing is signalled, picked up or served.
LEMMA InitServiceInv == Init => ServiceInv
<1> SUFFICES ASSUME Init PROVE ServiceInv
  OBVIOUS
<1>1. Once
  BY ConstantsAssumption DEF Init, Once
<1>2. Signalled /\ \A t \in Workers : Progress(t)
  BY DEF Init, Signalled, Progress, Threads, Serving, Waiting
<1> QED
  BY <1>1, <1>2 DEF ServiceInv, Init, Threads

\* The thread past the semaphore is the only one while the runtime is intact.
LEMMA OneHolder ==
  ASSUME TurnInv, Intact, NEW s \in Threads, NEW t \in Threads,
         pc[s] \in Holding, pc[t] \in Holding
  PROVE  s = t
<1>1. Semaphore = "live"
  BY DEF TurnInv, DisposedLast, Intact, Semaphore, Lifetime
<1> QED
  BY <1>1 DEF TurnInv, TurnExclusion, Holders

\* A new call has a number whose delegate never ran; Main's own calls run at once.
LEMMA CallServiceInv ==
  ASSUME TurnInv, ServiceInv, NEW t \in Threads, AnyCall(t)
  PROVE  ServiceInv'
<1>1. PICK m \in Methods : Call(t, m)
  BY DEF AnyCall, ShouldContinue, ShouldProcess, ThrowTerminatingError,
     TransactionAvailable, WriteCommandDetail, WriteDebug, WriteError,
     WriteInformation, WriteObject, WriteProgress, WriteVerbose, WriteWarning,
     ExecuteSync, Call
<1>2. /\ calls[t] + 1 \in 1..MaxCalls /\ pc[t] = "idle"
      /\ calls \in [Threads -> 0..MaxCalls] /\ calls' = [calls EXCEPT ![t] = @ + 1]
      /\ pc \in [Threads -> {"idle"} \cup InCall \cup TaskOver]
      /\ runs \in [Threads -> [1..MaxCalls -> Nat]]
      /\ UNCHANGED <<semaphore, readyToRun, completed, runOnMainThread, mainPc,
                     running, cancelled, disposed>>
  BY <1>1, ConstantsAssumption DEF Call, TurnInv, TypeOK
<1>3. \/ t = Main /\ pc' = pc /\ runs' = [runs EXCEPT ![t][calls[t] + 1] = @ + 1]
      \/ /\ t \in Workers /\ runs' = runs
         /\ \E s \in {"turn", "faulted"} : pc' = [pc EXCEPT ![t] = s]
  BY <1>1, <1>2 DEF Call, OnOriginalThread, CallThrough, Goto, Throw, Threads
<1>4. pc'[Main] = "idle"
  BY <1>2, <1>3, ConstantsAssumption DEF ServiceInv, Threads
<1>5. ASSUME ~cancelled PROVE Once'
  <2>1. Once /\ MaxCalls \in Nat
    BY <1>5, ConstantsAssumption DEF ServiceInv
  <2>2. SUFFICES ASSUME NEW u \in Threads, NEW n \in 1..MaxCalls
                 PROVE  runs'[u][n] <= 1 /\ (n > calls'[u] => runs'[u][n] = 0)
    BY DEF Once
  <2>3. CASE u # t
    BY <1>2, <1>3, <2>1, <2>3 DEF Once
  <2>4. CASE u = t
    <3>1. calls'[t] = calls[t] + 1 /\ (n > calls[t] => runs[t][n] = 0) /\ runs[t][n] <= 1
      BY <1>2, <2>1, <2>4 DEF Once
    <3>2. runs'[t][n] = runs[t][n] \/ (n = calls[t] + 1 /\ runs'[t][n] = runs[t][n] + 1)
      <4>1. CASE runs' = [runs EXCEPT ![t][calls[t] + 1] = @ + 1]
        BY <1>2, <4>1, CountedAt
      <4> QED
        BY <1>3, <4>1
    <3> QED
      BY <1>2, <2>1, <2>4, <3>1, <3>2
  <2> QED
    BY <2>3, <2>4
<1>6. ASSUME Intact PROVE (Signalled /\ \A u \in Workers : Progress(u))'
  <2>1. Signalled /\ Once /\ \A u \in Workers : Progress(u)
    BY <1>6 DEF ServiceInv, Intact
  <2>2. \A u \in Workers : pc[u] \in Waiting => pc'[u] = pc[u]
    BY <1>2, <1>3 DEF Threads, Waiting
  <2>3. Signalled'
    BY <1>2, <2>1, <2>2 DEF Signalled
  <2>4. ASSUME NEW u \in Workers, u # t PROVE Progress(u)'
    <3>1. pc'[u] = pc[u] /\ calls'[u] = calls[u] /\ runs'[u] = runs[u]
      BY <1>2, <1>3, <2>4 DEF Threads
    <3> QED
      BY <1>2, <2>1, <3>1 DEF Progress, Phase, CallOf, RunsOf
  <2>5. ASSUME t \in Workers PROVE Progress(t)'
    <3>1. pc'[t] \in {"turn", "faulted"} /\ RunsOf(t)' = 0
      BY <1>2, <1>3, <2>1, <2>5, ConstantsAssumption DEF Once, RunsOf
    <3> QED
      BY <3>1 DEF Progress, Waiting
  <2> QED
    BY <2>3, <2>4, <2>5
<1> QED
  BY <1>2, <1>4, <1>5, <1>6 DEF ServiceInv, Intact

\* A thread inside a call moves its own request along, and being the only one past
\* the semaphore it disturbs nobody else's.
LEMMA CallStepServiceInv ==
  ASSUME TurnInv, ServiceInv, NEW t \in Threads, CallStep(t)
  PROVE  ServiceInv'
<1>1. /\ pc \in [Threads -> {"idle"} \cup InCall \cup TaskOver] /\ t \in Workers
      /\ UNCHANGED <<calls, mainPc, running, runs, cancelled, disposed>>
  <2>1. pc[t] \in InCall
    BY DEF CallStep, EnterWait, Acquire, ResetCompleted, SetDelegate, SignalReady,
       EnterWaitAny, LeaveWaitAny, ReleaseAndReturn, InCall, Holding
  <2> QED
    BY <2>1 DEF CallStep, EnterWait, Acquire, ResetCompleted, SetDelegate,
       SignalReady, EnterWaitAny, LeaveWaitAny, ReleaseAndReturn, TurnInv, TypeOK,
       ServiceInv, Threads, InCall, Holding
<1>2. PICK s : pc' = [pc EXCEPT ![t] = s]
  BY DEF CallStep, EnterWait, Acquire, ResetCompleted, SetDelegate, SignalReady,
     EnterWaitAny, LeaveWaitAny, ReleaseAndReturn, TakeTurn, Goto, Throw, ThrowCanceled
<1>3. pc'[Main] = "idle" /\ Main # t /\ pc'[t] = s
  BY <1>1, <1>2, ConstantsAssumption DEF ServiceInv, Threads
<1>4. Once' = Once
  BY <1>1 DEF Once
<1>5. ASSUME Intact PROVE (Signalled /\ \A u \in Workers : Progress(u))'
  <2>1. Signalled /\ ~cancelled /\ \A u \in Workers : Progress(u)
    BY <1>5 DEF ServiceInv, Intact
  <2>2. Semaphore = "live" /\ CompletedEvent = "live" /\ ReadyToRunEvent = "live"
    BY <1>5 DEF TurnInv, DisposedLast, Intact, Semaphore, CompletedEvent,
       ReadyToRunEvent, Lifetime
  <2>3. \A u \in Workers : u # t =>
          /\ pc'[u] = pc[u] /\ calls'[u] = calls[u] /\ RunsOf(u)' = RunsOf(u)
    BY <1>1, <1>2 DEF Threads, RunsOf
  <2>4. RunsOf(t)' = RunsOf(t) /\ calls'[t] = calls[t]
    BY <1>1 DEF RunsOf
  <2>5. \A u \in Workers : pc[t] \in Holding /\ pc[u] \in Holding => u = t
    BY <1>1, <1>5, OneHolder DEF Threads
  <2>6. CASE EnterWait(t) \/ Acquire(t) \/ EnterWaitAny(t) \/ ReleaseAndReturn(t)
    <3>1. UNCHANGED <<readyToRun, completed, runOnMainThread>>
      BY <2>6 DEF EnterWait, Acquire, EnterWaitAny, ReleaseAndReturn
    <3>2. \A u \in Workers \ {t} : Progress(u)'
      BY <1>1, <2>1, <2>3, <3>1 DEF Progress, Phase, CallOf
    <3>3. /\ pc[t] \in Waiting <=> pc'[t] \in Waiting
          /\ pc'[t] \in {"queued", "reset"} => RunsOf(t) = 0
          /\ pc'[t] \in {"queued", "reset", "blocked", "idle", "faulted", "canceled"}
      BY <1>1, <1>3, <2>1, <2>2, <2>6 DEF EnterWait, Acquire, TakeTurn, EnterWaitAny,
         ReleaseAndReturn, Goto, Throw, ThrowCanceled, Waiting, Progress
    <3>4. Progress(t)'
      BY <1>1, <2>1, <2>4, <3>1, <3>3 DEF Progress, Phase, CallOf
    <3>5. Signalled'
      BY <1>1, <2>1, <2>3, <3>1, <3>3 DEF Signalled
    <3> QED
      BY <3>2, <3>4, <3>5
  <2>7. CASE ResetCompleted(t) \/ SetDelegate(t)
    <3>1. /\ pc[t] \in {"reset", "set"} /\ readyToRun' = readyToRun
          /\ pc'[t] = IF pc[t] = "reset" THEN "set" ELSE "ready"
          /\ completed' = FALSE
          /\ pc'[t] = "ready" => CallOf(runOnMainThread', t)
      BY <1>1, <1>3, <2>1, <2>2, <2>7 DEF ResetCompleted, SetDelegate, Goto, Progress,
         CallOf
    <3>2. \A u \in Workers \ {t} : Progress(u)'
      <4>1. \A u \in Workers \ {t} : pc[u] \notin {"set", "ready"} \cup Waiting
        BY <2>5, <3>1 DEF Holding, Waiting
      <4> QED
        BY <2>1, <2>3, <4>1 DEF Progress
    <3>3. Progress(t)'
      BY <1>1, <2>1, <2>4, <3>1 DEF Progress, Waiting, CallOf
    <3>4. Signalled'
      BY <1>1, <2>1, <2>3, <3>1 DEF Signalled, Waiting
    <3> QED
      BY <3>2, <3>3, <3>4
  <2>8. CASE SignalReady(t)
    <3>1. /\ pc[t] = "ready" /\ pc'[t] = "await" /\ readyToRun' = TRUE
          /\ UNCHANGED <<completed, runOnMainThread>>
      BY <1>1, <1>3, <2>2, <2>8 DEF SignalReady, Goto
    <3>2. \A u \in Workers \ {t} : pc[u] \notin Holding
      BY <2>5, <3>1 DEF Holding
    <3>3. mainPc \notin Serving
      BY <2>1, <3>1, <3>2 DEF Signalled, Waiting, Holding
    <3>4. Progress(t)'
      BY <1>1, <2>1, <2>4, <3>1, <3>3 DEF Progress, Phase, Waiting, CallOf
    <3>5. \A u \in Workers \ {t} : Progress(u)'
      BY <2>1, <2>3, <3>2 DEF Progress, Waiting, Holding
    <3>6. Signalled'
      BY <1>1, <3>1 DEF Signalled, Waiting
    <3> QED
      BY <3>4, <3>5, <3>6
  <2>9. CASE LeaveWaitAny(t)
    <3>1. /\ pc[t] = "blocked" /\ pc'[t] = "release" /\ completed
          /\ UNCHANGED <<readyToRun, completed, runOnMainThread>>
      BY <1>1, <1>3, <2>1, <2>9 DEF LeaveWaitAny, Goto
    <3>2. ~readyToRun /\ mainPc \notin Serving /\ RunsOf(t) = 1
      BY <1>1, <2>1, <3>1 DEF Progress, Phase, Waiting
    <3>3. Progress(t)'
      BY <2>4, <3>1, <3>2 DEF Progress, Waiting
    <3>4. \A u \in Workers \ {t} : Progress(u)'
      BY <1>1, <2>1, <2>3, <3>1 DEF Progress, Phase, CallOf
    <3>5. Signalled'
      BY <1>1, <3>1, <3>2 DEF Signalled
    <3> QED
      BY <3>3, <3>4, <3>5
  <2> QED
    BY <2>6, <2>7, <2>8, <2>9 DEF CallStep
<1> QED
  BY <1>1, <1>3, <1>4, <1>5 DEF ServiceInv, Intact

\* A worker that gives up after the disposal, or whose part of the task ends, has
\* no request under way.
LEMMA LeaveServiceInv ==
  ASSUME TurnInv, ServiceInv, NEW t \in Threads, WokenAfterDispose(t) \/ EndTask(t)
  PROVE  ServiceInv'
<1>1. PICK s \in TaskOver : pc' = [pc EXCEPT ![t] = s]
  BY DEF WokenAfterDispose, EndTask, Goto, ThrowCanceled, TaskOver
<1>2. /\ pc \in [Threads -> {"idle"} \cup InCall \cup TaskOver]
      /\ pc[t] \in {"queued", "idle"} /\ t # Main
      /\ UNCHANGED <<calls, semaphore, readyToRun, completed, runOnMainThread,
                     mainPc, running, runs, cancelled, disposed>>
  BY ConstantsAssumption DEF WokenAfterDispose, EndTask, TurnInv, TypeOK, ServiceInv
<1>3. pc'[Main] = "idle" /\ Once' = Once
  BY <1>1, <1>2 DEF ServiceInv, Once, Threads
<1>4. ASSUME Intact PROVE (Signalled /\ \A u \in Workers : Progress(u))'
  <2>1. Signalled /\ \A u \in Workers : Progress(u)
    BY <1>4 DEF ServiceInv
  <2>2. \A u \in Workers : u # t => pc'[u] = pc[u] /\ RunsOf(u)' = RunsOf(u)
    BY <1>1, <1>2 DEF Threads, RunsOf
  <2>3. pc[t] \notin Waiting /\ pc'[t] \in TaskOver
    BY <1>1, <1>2 DEF Waiting
  <2>4. Signalled'
    BY <1>2, <2>1, <2>2, <2>3 DEF Signalled
  <2>5. \A u \in Workers : Progress(u)'
    BY <1>2, <2>1, <2>2, <2>3 DEF Progress, Phase, CallOf, Waiting, TaskOver
  <2> QED
    BY <2>4, <2>5
<1> QED
  BY <1>2, <1>3, <1>4 DEF ServiceInv, Intact

\* The steps of Main that run no delegate move every waiting request to the next
\* phase; there is one waiting whenever Main serves.
LEMMA MainServiceInv ==
  ASSUME TurnInv, ServiceInv, Intact, Intact',
         MainStep, ~DelegateReturns
  PROVE  (Signalled /\ \A t \in Workers : Progress(t))'
<1>1. Signalled /\ ~cancelled /\ \A t \in Workers : Progress(t)
  BY DEF ServiceInv, Intact
<1>2. UNCHANGED <<pc, calls, runOnMainThread>>
  BY DEF MainStep, EnterWaitLoop, WakeMain, CheckReady, ResetReady, InvokeDelegate,
     DelegateReturns, DelegateThrows, SetCompleted, EndLoop, Dispose
<1>3. CASE EnterWaitLoop \/ WakeMain \/ CheckReady \/ EndLoop
  <2>1. /\ UNCHANGED <<readyToRun, completed, running, runs>>
        /\ mainPc \notin Serving
        /\ mainPc' \notin Serving \/ (mainPc' = "reset" /\ readyToRun)
    BY <1>3 DEF EnterWaitLoop, WakeMain, CheckReady, EndLoop, MainGoto, Serving
  <2>2. Signalled'
    BY <1>1, <1>2, <2>1 DEF Signalled
  <2>3. \A t \in Workers : Progress(t)'
    BY <1>1, <1>2, <2>1 DEF Progress, Phase, CallOf, RunsOf, Serving
  <2> QED
    BY <2>2, <2>3
<1>4. CASE ResetReady
  <2>1. /\ UNCHANGED <<completed, running, runs>> /\ readyToRun' = FALSE
        /\ mainPc = "reset" /\ mainPc' = "invoke"
    BY <1>4 DEF ResetReady, MainGoto
  <2> QED
    BY <1>1, <1>2, <2>1 DEF Signalled, Progress, Phase, CallOf, RunsOf, Serving
<1>5. CASE InvokeDelegate
  <2>1. /\ UNCHANGED <<readyToRun, completed, runs>> /\ running' = runOnMainThread
        /\ mainPc = "invoke" /\ mainPc' = "running"
    BY <1>5 DEF InvokeDelegate, MainGoto
  <2> QED
    BY <1>1, <1>2, <2>1 DEF Signalled, Progress, Phase, CallOf, RunsOf, Serving
<1>6. CASE SetCompleted
  <2>1. /\ UNCHANGED <<readyToRun, running, runs>> /\ completed' = TRUE
        /\ mainPc = "complete" /\ mainPc' = "loop"
    BY <1>6 DEF SetCompleted, MainGoto
  <2>2. PICK u \in Workers : pc[u] \in Waiting
    BY <1>1, <2>1 DEF Signalled, Serving
  <2>3. \A t \in Workers : pc[t] \in Holding => t = u
    BY <2>2, OneHolder DEF Threads, Waiting, Holding
  <2>4. \A t \in Workers : pc[t] \notin {"set", "ready"}
    BY <2>2, <2>3 DEF Waiting, Holding
  <2>5. ~readyToRun
    BY <1>1, <2>1, <2>2 DEF Progress, Phase, Serving
  <2> QED
    BY <1>1, <1>2, <2>1, <2>4, <2>5 DEF Signalled, Progress, Phase, CallOf, RunsOf, Serving
<1>7. CASE DelegateThrows \/ Dispose
  BY <1>7 DEF DelegateThrows, Dispose, MainGoto, Intact
<1> QED
  BY <1>3, <1>4, <1>5, <1>6, <1>7 DEF MainStep

\* The delegate that returns is the latest call of the one waiting thread, and had
\* not run before.
LEMMA ReturnServiceInv ==
  ASSUME TurnInv, ServiceInv, DelegateReturns, ~cancelled
  PROVE  (Once /\ Signalled /\ \A t \in Workers : Progress(t))'
<1>1. Once /\ Signalled /\ Intact /\ \A t \in Workers : Progress(t)
  BY DEF ServiceInv, Intact, DelegateReturns, MainGoto
<1>2. /\ mainPc = "running" /\ mainPc' = "complete"
      /\ runs' = [runs EXCEPT ![running.thread][running.call] = @ + 1]
      /\ UNCHANGED <<pc, calls, readyToRun, completed, runOnMainThread, running>>
  BY DEF DelegateReturns, MainGoto
<1>3. PICK t \in Workers : pc[t] \in Waiting
  BY <1>1, <1>2 DEF Signalled, Serving
<1>4. /\ running.thread = t /\ running.call = calls[t] /\ runs[t][calls[t]] = 0
      /\ ~readyToRun /\ ~completed
  BY <1>1, <1>2, <1>3 DEF Progress, Phase, CallOf, RunsOf, Serving
<1>5. /\ t \in Threads /\ runs \in [Threads -> [1..MaxCalls -> Nat]]
      /\ calls[t] \in 1..MaxCalls /\ calls \in [Threads -> 0..MaxCalls]
  BY <1>3, ConstantsAssumption DEF TurnInv, TypeOK, CallsBegun, InCall, Holding, Waiting,
     Threads
<1>6. /\ runs'[t][calls[t]] = 1
      /\ \A n \in 1..MaxCalls : n # calls[t] => runs'[t][n] = runs[t][n]
      /\ \A u \in Threads : u # t => runs'[u] = runs[u]
  <2>1. runs' = [runs EXCEPT ![t][calls[t]] = @ + 1]
    BY <1>2, <1>4
  <2> DEFINE counted == [runs EXCEPT ![t][calls[t]] = @ + 1]
  <2>2. /\ counted[t][calls[t]] = runs[t][calls[t]] + 1
        /\ \A n \in 1..MaxCalls : n # calls[t] => counted[t][n] = runs[t][n]
        /\ \A u \in Threads : u # t => counted[u] = runs[u]
    <3> DEFINE S == 1..MaxCalls
    <3>1. calls[t] \in S /\ runs \in [Threads -> [S -> Nat]]
      BY <1>5
    <3> HIDE DEF S
    <3>2. /\ counted[t][calls[t]] = runs[t][calls[t]] + 1
          /\ \A n \in S : n # calls[t] => counted[t][n] = runs[t][n]
          /\ \A u \in Threads : u # t => counted[u] = runs[u]
      BY <1>5, <3>1, CountedAt
    <3> QED
      BY <3>2 DEF S
  <2> HIDE DEF counted
  <2>3. runs' = counted
    BY <2>1 DEF counted
  <2> QED
    BY <1>4, <2>2, <2>3
<1>7. Once'
  BY <1>1, <1>2, <1>5, <1>6 DEF Once
<1>8. \A u \in Workers : u # t => pc[u] \notin Holding
  BY <1>1, <1>3, OneHolder DEF Threads, Waiting, Holding
<1>9. ASSUME NEW u \in Workers PROVE Progress(u)'
  <2>1. CASE u = t
    BY <1>2, <1>3, <1>4, <1>6, <2>1 DEF Progress, Phase, CallOf, RunsOf, Waiting
  <2>2. CASE u # t
    <3>1. RunsOf(u)' = RunsOf(u)
      BY <1>2, <1>6, <2>2 DEF RunsOf, Threads
    <3> QED
      BY <1>1, <1>2, <1>8, <2>2, <3>1 DEF Progress, Waiting, Holding
  <2> QED
    BY <2>1, <2>2
<1>10. Signalled'
  BY <1>2, <1>3 DEF Signalled
<1> QED
  BY <1>7, <1>9, <1>10

\* Every step of every thread keeps the invariant of the hand-over.
LEMMA NextServiceInv == TurnInv /\ ServiceInv /\ [Next]_vars => ServiceInv'
<1> SUFFICES ASSUME TurnInv, ServiceInv, [Next]_vars PROVE ServiceInv'
  OBVIOUS
<1>1. ASSUME NEW t \in Threads, AnyCall(t) PROVE ServiceInv'
  BY <1>1, CallServiceInv
<1>2. ASSUME NEW t \in Threads, CallStep(t) PROVE ServiceInv'
  BY <1>2, CallStepServiceInv
<1>3. ASSUME NEW t \in Threads, WokenAfterDispose(t) \/ EndTask(t) PROVE ServiceInv'
  BY <1>3, LeaveServiceInv
<1>4. CASE DelegateReturns
  <2>1. pc' = pc /\ cancelled' = cancelled /\ Intact' = ~cancelled
    BY <1>4 DEF DelegateReturns, MainGoto, Intact
  <2> QED
    BY <1>4, <2>1, ReturnServiceInv DEF ServiceInv
<1>5. CASE MainStep /\ ~DelegateReturns
  <2>1. UNCHANGED <<pc, calls, runs, cancelled>> /\ (Intact' => Intact)
    BY <1>5 DEF MainStep, EnterWaitLoop, WakeMain, CheckReady, ResetReady,
       InvokeDelegate, DelegateReturns, DelegateThrows, SetCompleted, EndLoop, Dispose,
       MainGoto, Intact
  <2> QED
    BY <1>5, <2>1, MainServiceInv DEF ServiceInv, Once
<1>6. CASE Cancel
  BY <1>6 DEF Cancel, ServiceInv, Intact
<1>7. CASE UNCHANGED vars
  BY <1>7 DEF vars, ServiceInv, Once, Intact, Signalled, Progress, Phase, CallOf, RunsOf
<1> QED
  BY <1>1, <1>2, <1>3, <1>4, <1>5, <1>6, <1>7 DEF Next

\* Both invariants hold in every reachable state.
LEMMA ServiceInvariant == Spec => [](TurnInv /\ ServiceInv)
<1> QED
  BY InitTurnInv, NextTurnInv, InitServiceInv, NextServiceInv, PTL DEF Spec

\* A call returns to its worker only after its delegate has run to the end on
\* Main, exactly once, as long as nothing was cancelled and Main did not leave.
THEOREM ServedFirst == Spec => []ServedBeforeReturn
<1>1. TurnInv /\ ServiceInv => ServedBeforeReturn
  BY DEF ServiceInv, ServedBeforeReturn, Progress, RunsOf
<1> QED
  BY <1>1, ServiceInvariant, PTL

\* The caller of the delegate Main picks up or runs is blocked in that very call.
THEOREM CallerWaits == Spec => []CallerWaitsWhileServed
<1>1. TurnInv /\ ServiceInv => CallerWaitsWhileServed
  <2> SUFFICES ASSUME ServiceInv, ~cancelled, mainPc \in {"invoke", "running", "complete"}
               PROVE  CallerWaitsWhileServed
    BY DEF CallerWaitsWhileServed
  <2>1. PICK t \in Workers : pc[t] \in Waiting /\ Phase(t)
    BY DEF ServiceInv, Intact, Signalled, Progress, Serving
  <2> QED
    BY <2>1 DEF CallerWaitsWhileServed, Phase, CallOf, Waiting, Serving
<1> QED
  BY <1>1, ServiceInvariant, PTL

\* Without a cancellation no delegate ever runs twice.
THEOREM AtMostOnce == Spec => []RunsAtMostOnce
<1>1. TurnInv /\ ServiceInv => RunsAtMostOnce
  BY DEF ServiceInv, Once, RunsAtMostOnce
<1> QED
  BY <1>1, ServiceInvariant, PTL

-----------------------------------------------------------------------------
(* Prompts.  A call that would prompt is refused before it can queue.       *)

PromptInv ==
  /\ \A t \in Threads : pc[t] \in InCall => ~RefusesInteractive(method[t])
  /\ runOnMainThread # NoDelegate => ~RefusesInteractive(runOnMainThread.method)

\* Only a new call names a method, and only SetDelegate hands one to Main.
LEMMA NextPromptInv == TurnInv /\ PromptInv /\ [Next]_vars => PromptInv'
<1> SUFFICES ASSUME TurnInv, PromptInv, [Next]_vars PROVE PromptInv'
  OBVIOUS
<1> USE DEF PromptInv
<1>0. pc \in [Threads -> {"idle"} \cup InCall \cup TaskOver] /\ method \in [Threads -> Methods]
  BY DEF TurnInv, TypeOK
<1>1. ASSUME NEW t \in Threads, AnyCall(t) PROVE PromptInv'
  <2>1. PICK m \in Methods : Call(t, m)
    BY <1>1 DEF AnyCall, ShouldContinue, ShouldProcess, ThrowTerminatingError,
       TransactionAvailable, WriteCommandDetail, WriteDebug, WriteError,
       WriteInformation, WriteObject, WriteProgress, WriteVerbose, WriteWarning,
       ExecuteSync, Call
  <2>2. method' = [method EXCEPT ![t] = m] /\ UNCHANGED runOnMainThread /\ pc[t] = "idle"
    BY <2>1 DEF Call
  <2>3. \/ pc' = pc
        \/ pc' = [pc EXCEPT ![t] = "turn"] /\ ~RefusesInteractive(m)
        \/ pc' = [pc EXCEPT ![t] = "faulted"]
    BY <2>1 DEF Call, Goto, Throw
  <2>4. ASSUME NEW u \in Threads, pc'[u] \in InCall PROVE ~RefusesInteractive(method'[u])
    BY <1>0, <2>2, <2>3, <2>4 DEF InCall, Holding, RefusesInteractive
  <2> QED
    BY <2>2, <2>4 DEF RefusesInteractive
<1>2. ASSUME NEW t \in Threads, SetDelegate(t) PROVE PromptInv'
  BY <1>0, <1>2 DEF SetDelegate, Goto, InCall, Holding, RefusesInteractive
<1>3. ASSUME NEW t \in Threads, CallStep(t), ~SetDelegate(t) PROVE PromptInv'
  <2>1. UNCHANGED <<method, runOnMainThread>> /\ pc[t] \in InCall
    BY <1>3 DEF CallStep, EnterWait, Acquire, ResetCompleted, SignalReady,
       EnterWaitAny, LeaveWaitAny, ReleaseAndReturn, InCall, Holding
  <2>2. PICK s : pc' = [pc EXCEPT ![t] = s]
    BY <1>3 DEF CallStep, EnterWait, Acquire, ResetCompleted, SignalReady,
       EnterWaitAny, LeaveWaitAny, ReleaseAndReturn, TakeTurn, Goto, Throw, ThrowCanceled
  <2> QED
    BY <1>0, <2>1, <2>2 DEF RefusesInteractive
<1>4. ASSUME NEW t \in Threads, WokenAfterDispose(t) \/ EndTask(t) PROVE PromptInv'
  <2>1. PICK s \in TaskOver : pc' = [pc EXCEPT ![t] = s]
    BY <1>4 DEF WokenAfterDispose, EndTask, Goto, ThrowCanceled, TaskOver
  <2> QED
    BY <1>0, <1>4, <2>1 DEF WokenAfterDispose, EndTask, TaskOver, InCall, Holding, RefusesInteractive
<1>5. CASE MainStep \/ Cancel \/ UNCHANGED vars
  BY <1>5 DEF MainStep, EnterWaitLoop, WakeMain, CheckReady, ResetReady, InvokeDelegate,
     DelegateReturns, DelegateThrows, SetCompleted, EndLoop, Dispose, Cancel, vars,
     RefusesInteractive
<1> QED
  BY <1>1, <1>2, <1>3, <1>4, <1>5 DEF Next

\* A worker's prompt never reaches Main unless the runtime allows it.
THEOREM WorkersNeverPrompt == Spec => []OnlyMainPrompts
<1>1. Init => PromptInv
  BY DEF Init, PromptInv, InCall, Holding
<1>2. PromptInv => OnlyMainPrompts
  BY DEF PromptInv, OnlyMainPrompts, RefusesInteractive
<1> QED
  BY <1>1, <1>2, NextPromptInv, TurnInvariant, PTL DEF Spec

-----------------------------------------------------------------------------
(* Leaving.  Once the task has ended by itself only workers it does not     *)
(* wait for can leave a request.                                            *)

\* A worker's request is the one runOnMainThread names from the moment it is left.
Left == mainPc \in {"disposing", "left"} /\ outcome # "delegate"
Unserved == readyToRun \/ \E t \in Threads : pc[t] = "ready"

LeftInv ==
  Left => /\ TaskCompleted
          /\ ~cancelled /\ Unserved => runOnMainThread.thread \notin Awaited

\* Main leaves its loop when the task is over: whoever still has a request in
\* the hand-over is not awaited.
LEMMA EndLoopLeftInv == TurnInv /\ ServiceInv /\ EndLoop => LeftInv'
<1> SUFFICES ASSUME TurnInv, ServiceInv, EndLoop, Left', ~cancelled, Unserved
             PROVE  LeftInv'
  BY DEF LeftInv, Left, Unserved, EndLoop, MainGoto, TaskCompleted
<1>1. TaskCompleted /\ mainPc = "loop" /\ UNCHANGED <<pc, runOnMainThread>>
  BY DEF EndLoop, MainGoto, Left
<1>2. Signalled /\ (\A t \in Workers : Progress(t)) /\ pc[Main] = "idle"
  BY <1>1 DEF ServiceInv, Intact
<1>3. PICK t \in Workers : pc[t] \in InCall /\ runOnMainThread.thread = t
  <2>1. CASE readyToRun
    BY <1>1, <1>2, <2>1 DEF Signalled, Progress, Phase, CallOf, Waiting, InCall, Holding, Serving
  <2>2. ASSUME NEW t \in Threads, pc[t] = "ready" PROVE t \in Workers /\ runOnMainThread.thread = t
    BY <1>2, <2>2 DEF Progress, CallOf, Threads
  <2> QED
    BY <2>1, <2>2 DEF Unserved, InCall, Holding
<1>4. t \notin Awaited
  BY <1>1, <1>3 DEF TaskCompleted, TaskOver, InCall, Holding
<1> QED
  BY <1>1, <1>3, <1>4 DEF LeftInv, TaskCompleted

\* After that the awaited workers do nothing.
LEMMA NextLeftInv == TurnInv /\ ServiceInv /\ LeftInv /\ [Next]_vars => LeftInv'
<1> SUFFICES ASSUME TurnInv, ServiceInv, LeftInv, [Next]_vars PROVE LeftInv'
  OBVIOUS
<1>0. pc \in [Threads -> {"idle"} \cup InCall \cup TaskOver] /\ Awaited \subseteq Threads
  BY ConstantsAssumption DEF TurnInv, TypeOK, Threads
<1>1. ASSUME NEW t \in Threads, NEW s, pc' = [pc EXCEPT ![t] = s], pc[t] \notin TaskOver,
             s # "ready", readyToRun' => readyToRun \/ pc[t] = "ready",
             UNCHANGED <<mainPc, outcome, cancelled, runOnMainThread>>
      PROVE  LeftInv'
  BY <1>0, <1>1 DEF LeftInv, Left, Unserved, TaskCompleted
<1>2. ASSUME NEW t \in Threads, AnyCall(t) PROVE LeftInv'
  <2>1. PICK m \in Methods : Call(t, m)
    BY <1>2 DEF AnyCall, ShouldContinue, ShouldProcess, ThrowTerminatingError,
       TransactionAvailable, WriteCommandDetail, WriteDebug, WriteError,
       WriteInformation, WriteObject, WriteProgress, WriteVerbose, WriteWarning,
       ExecuteSync, Call
  <2>2. /\ pc[t] \notin TaskOver
        /\ UNCHANGED <<mainPc, outcome, cancelled, readyToRun, runOnMainThread>>
    BY <2>1 DEF Call, TaskOver
  <2>3. \E s \in {"idle", "turn", "faulted"} : pc' = [pc EXCEPT ![t] = s]
    BY <1>0, <2>1 DEF Call, Goto, Throw
  <2> QED
    BY <1>1, <2>2, <2>3
<1>3. ASSUME NEW t \in Threads, SetDelegate(t) PROVE LeftInv'
  <2>1. /\ pc' = [pc EXCEPT ![t] = "ready"] /\ pc[t] = "set" /\ runOnMainThread'.thread = t
        /\ UNCHANGED <<mainPc, outcome, cancelled, readyToRun>>
    BY <1>3 DEF SetDelegate, Goto
  <2> QED
    BY <1>0, <2>1 DEF LeftInv, Left, Unserved, TaskCompleted, TaskOver
<1>4. ASSUME NEW t \in Threads, CallStep(t), ~SetDelegate(t) PROVE LeftInv'
  <2>1. /\ pc[t] \notin TaskOver
        /\ readyToRun' => readyToRun \/ pc[t] = "ready"
        /\ UNCHANGED <<mainPc, outcome, cancelled, runOnMainThread>>
    BY <1>4 DEF CallStep, EnterWait, Acquire, ResetCompleted, SignalReady,
       EnterWaitAny, LeaveWaitAny, ReleaseAndReturn, TaskOver
  <2>2. \E s \in {"idle", "canceled", "faulted", "queued", "reset", "set", "await", "blocked", "release"} :
          pc' = [pc EXCEPT ![t] = s]
    BY <1>4 DEF CallStep, EnterWait, Acquire, ResetCompleted, SignalReady,
       EnterWaitAny, LeaveWaitAny, ReleaseAndReturn, TakeTurn, Goto, Throw, ThrowCanceled
  <2> QED
    BY <1>1, <2>1, <2>2
<1>5. ASSUME NEW t \in Threads, WokenAfterDispose(t) \/ EndTask(t) PROVE LeftInv'
  <2>1. /\ pc[t] \notin TaskOver
        /\ UNCHANGED <<mainPc, outcome, cancelled, readyToRun, runOnMainThread>>
    BY <1>5 DEF WokenAfterDispose, EndTask, TaskOver
  <2>2. \E s \in TaskOver : pc' = [pc EXCEPT ![t] = s]
    BY <1>5 DEF WokenAfterDispose, EndTask, Goto, ThrowCanceled, TaskOver
  <2> QED
    BY <1>1, <2>1, <2>2 DEF TaskOver
<1>6. CASE MainStep /\ ~EndLoop
  BY <1>6 DEF MainStep, EnterWaitLoop, WakeMain, CheckReady, ResetReady, InvokeDelegate,
     DelegateReturns, DelegateThrows, SetCompleted, Dispose, MainGoto, LeftInv, Left, Unserved, TaskCompleted
<1>7. CASE Cancel \/ UNCHANGED vars
  BY <1>7 DEF Cancel, vars, LeftInv, Left, Unserved, TaskCompleted
<1> QED
  BY <1>2, <1>3, <1>4, <1>5, <1>6, <1>7, EndLoopLeftInv DEF Next, MainStep

\* When the task ends by itself Main leaves no request of its workers unserved.
THEOREM LeavesNothing == Spec => []NothingLeftBehind
<1>1. Init => LeftInv
  BY DEF Init, LeftInv, Left
<1>2. LeftInv => NothingLeftBehind
  BY DEF LeftInv, Left, Unserved, NothingLeftBehind
<1> QED
  BY <1>1, <1>2, NextLeftInv, ServiceInvariant, PTL DEF Spec

-----------------------------------------------------------------------------
(***************************************************************************)
(* AsyncCommandRuntime implements the safety part of CommandChannel: each  *)
(* step of a thread is a step of the channel, or none, under the mapping   *)
(* that AsyncCommandRuntime gives.  Its fairness stays with TLC.           *)
(***************************************************************************)

Request(t) == IF pc[t] \notin InCall THEN "none"
              ELSE IF runs[t][calls[t]] = 0 THEN "pending" ELSE "served"
Requests == [t \in Workers |-> Request(t)]

Kinds == {"none", "pending", "served"}

\* A step that changes the request of one worker changes the table at its place.
LEMMA OneRequest ==
  ASSUME NEW t \in Workers, \A u \in Workers : u # t => Request(u)' = Request(u)
  PROVE  Requests' = [Requests EXCEPT ![t] = Request(t)']
BY DEF Requests

\* Once the channel is broken a worker's request may become anything.
LEMMA AfterBreakStep ==
  ASSUME ~Intact, ~Intact', NEW t \in Workers,
         \A u \in Workers : u # t => Request(u)' = Request(u)
  PROVE  Channel!Next
<1>1. Requests' = [Requests EXCEPT ![t] = Request(t)'] /\ Request(t)' \in Kinds
  BY OneRequest DEF Request, Kinds
<1>2. ~Intact /\ UNCHANGED Intact
  BY DEF Intact
<1>3. Channel!AfterBreak(t)
  BY <1>1, <1>2 DEF Channel!AfterBreak, Requests, Request, Kinds
<1> QED
  BY <1>3 DEF Channel!Next

\* A step of an intact channel that moves one request the way the channel allows.
LEMMA IntactStep ==
  ASSUME Intact, Intact', NEW t \in Workers,
         \A u \in Workers : u # t => Request(u)' = Request(u),
         \/ Request(t)' = Request(t)
         \/ Request(t) = "none" /\ Request(t)' = "pending"
         \/ Request(t) = "pending" /\ Request(t)' = "served"
         \/ Request(t) = "served" /\ Request(t)' = "none"
  PROVE  [Channel!Next]_(Channel!vars)
<1>1. Requests' = [Requests EXCEPT ![t] = Request(t)'] /\ Requests[t] = Request(t)
  BY OneRequest DEF Requests
<1>2. CASE Request(t)' = Request(t)
  BY <1>1, <1>2 DEF Channel!vars, Requests, Request
<1>3. CASE Request(t) = "none" /\ Request(t)' = "pending"
  BY <1>1, <1>3 DEF Channel!Next, Channel!Submit, Channel!Move, Requests, Request
<1>4. CASE Request(t) = "pending" /\ Request(t)' = "served"
  BY <1>1, <1>4 DEF Channel!Next, Channel!Serve, Channel!Move, Requests, Request
<1>5. CASE Request(t) = "served" /\ Request(t)' = "none"
  BY <1>1, <1>5 DEF Channel!Next, Channel!Return, Channel!Move, Requests, Request
<1> QED
  BY <1>2, <1>3, <1>4, <1>5

\* When Main stops listening, or the token is cancelled, the requests stay.
LEMMA BreakStep ==
  ASSUME Intact, ~Intact', \A t \in Workers : Request(t)' = Request(t)
  PROVE  Channel!Next
<1>1. Intact /\ Intact' = FALSE
  BY DEF Intact
<1>2. Channel!Break
  BY <1>1 DEF Channel!Break, Request
<1> QED
  BY <1>2 DEF Channel!Next

\* A step that leaves the requests and the channel's health alone is a stutter.
LEMMA StutterStep ==
  ASSUME Intact' = Intact, \A t \in Workers : Request(t)' = Request(t)
  PROVE  UNCHANGED Channel!vars
BY DEF Channel!vars, Request

-----------------------------------------------------------------------------
(* The steps of the runtime.                                               *)

\* A step of one thread that counts no run moves at most its own request: into
\* the channel when it begins, out of it when it returns.
LEMMA WorkerStep ==
  ASSUME TurnInv, ServiceInv, NEW t \in Workers, NEW s,
         pc' = [pc EXCEPT ![t] = s], UNCHANGED <<mainPc, cancelled, runs>>,
         \A u \in Workers : u # t => calls'[u] = calls[u],
         Intact =>
           \/ s \in InCall /\ pc[t] \in InCall /\ UNCHANGED calls
           \/ s \in InCall /\ pc[t] = "idle" /\ runs[t][calls'[t]] = 0
           \/ s \notin InCall /\ pc[t] = "release" /\ UNCHANGED calls
           \/ s \notin InCall /\ pc[t] \notin InCall
  PROVE  [Channel!Next]_(Channel!vars)
<1>1. pc \in [Threads -> {"idle"} \cup InCall \cup TaskOver] /\ t \in Threads
  BY DEF TurnInv, TypeOK, Threads
<1>2. \A u \in Workers : u # t => Request(u)' = Request(u)
  BY <1>1 DEF Request, Threads
<1>3. Intact' = Intact
  BY DEF Intact
<1>4. CASE Intact
  <2>1. pc[t] = "release" => RunsOf(t) = 1
    BY <1>4 DEF ServiceInv, Progress
  <2>2. \/ Request(t)' = Request(t)
        \/ Request(t) = "none" /\ Request(t)' = "pending"
        \/ Request(t) = "served" /\ Request(t)' = "none"
    BY <1>1, <1>4, <2>1 DEF Request, RunsOf, InCall, Holding
  <2> QED
    BY <1>2, <1>3, <1>4, <2>2, IntactStep
<1>5. CASE ~Intact
  BY <1>2, <1>3, <1>5, AfterBreakStep
<1> QED
  BY <1>4, <1>5

\* A method called by a worker submits its request; one called by Main does not
\* touch the channel.
LEMMA CallChannel ==
  ASSUME TurnInv, ServiceInv, NEW t \in Threads, AnyCall(t)
  PROVE  [Channel!Next]_(Channel!vars)
<1>1. PICK m \in Methods : Call(t, m)
  BY DEF AnyCall, ShouldContinue, ShouldProcess, ThrowTerminatingError,
     TransactionAvailable, WriteCommandDetail, WriteDebug, WriteError,
     WriteInformation, WriteObject, WriteProgress, WriteVerbose, WriteWarning,
     ExecuteSync, Call
<1>2. /\ calls \in [Threads -> 0..MaxCalls] /\ calls' = [calls EXCEPT ![t] = @ + 1]
      /\ calls[t] < MaxCalls /\ MaxCalls \in Nat
      /\ pc[t] = "idle" /\ UNCHANGED <<mainPc, cancelled>>
  BY <1>1, ConstantsAssumption DEF Call, TurnInv, TypeOK
<1>3. CASE t = Main
  <2>1. pc' = pc /\ runs' = [runs EXCEPT ![Main][calls'[Main]] = @ + 1]
    BY <1>1, <1>3 DEF Call, OnOriginalThread, CallThrough
  <2>2. \A u \in Workers : runs'[u] = runs[u] /\ calls'[u] = calls[u]
    BY <1>2, <1>3, <2>1, ConstantsAssumption DEF TurnInv, TypeOK, Threads
  <2> QED
    BY <1>2, <2>1, <2>2, StutterStep DEF Intact, Request
<1>4. CASE t \in Workers
  <2>1. runs' = runs /\ \E s \in {"turn", "faulted"} : pc' = [pc EXCEPT ![t] = s]
    BY <1>1, <1>4, ConstantsAssumption DEF Call, OnOriginalThread, Goto, Throw
  <2>2. calls'[t] \in 1..MaxCalls /\ calls'[t] > calls[t]
    BY <1>2
  <2>3. Intact => runs[t][calls'[t]] = 0
    BY <2>2 DEF ServiceInv, Once, Intact
  <2>4. \A u \in Workers : u # t => calls'[u] = calls[u]
    BY <1>2 DEF Threads
  <2> QED
    BY <1>2, <1>4, <2>1, <2>3, <2>4, WorkerStep DEF InCall, Holding
<1> QED
  BY <1>3, <1>4 DEF Threads

\* Inside a call only ReleaseAndReturn ends a request while the channel is intact.
LEMMA CallStepChannel ==
  ASSUME TurnInv, ServiceInv, NEW t \in Threads, CallStep(t)
  PROVE  [Channel!Next]_(Channel!vars)
<1>1. /\ pc[t] \in InCall
      /\ UNCHANGED <<calls, mainPc, cancelled, runs>>
  BY DEF CallStep, EnterWait, Acquire, ResetCompleted, SetDelegate, SignalReady,
     EnterWaitAny, LeaveWaitAny, ReleaseAndReturn, InCall, Holding
<1>2. t \in Workers
  BY <1>1 DEF ServiceInv, Threads, InCall, Holding
<1>3. Intact => /\ Semaphore = "live" /\ ReadyToRunEvent = "live"
                /\ CompletedEvent = "live" /\ ~cancelled
  BY DEF TurnInv, TypeOK, DisposedLast, Intact, Semaphore, ReadyToRunEvent, CompletedEvent, Lifetime
<1>4. PICK s : pc' = [pc EXCEPT ![t] = s]
  BY DEF CallStep, EnterWait, Acquire, ResetCompleted, SetDelegate, SignalReady,
     EnterWaitAny, LeaveWaitAny, ReleaseAndReturn, TakeTurn, Goto, Throw, ThrowCanceled
<1>5. pc'[t] = s
  BY <1>4 DEF TurnInv, TypeOK
<1>6. ASSUME Intact PROVE s \in InCall \/ (s = "idle" /\ pc[t] = "release")
  <2>1. pc \in [Threads -> {"idle"} \cup InCall \cup TaskOver]
    BY DEF TurnInv, TypeOK
  <2>2. CASE EnterWait(t) \/ Acquire(t)
    BY <1>3, <1>5, <1>6, <2>1, <2>2 DEF EnterWait, Acquire, TakeTurn, Goto, InCall, Holding
  <2>3. CASE ResetCompleted(t) \/ SetDelegate(t) \/ SignalReady(t)
    BY <1>3, <1>5, <1>6, <2>1, <2>3 DEF ResetCompleted, SetDelegate, SignalReady, Goto, InCall, Holding
  <2>4. CASE EnterWaitAny(t) \/ LeaveWaitAny(t) \/ ReleaseAndReturn(t)
    BY <1>3, <1>5, <1>6, <2>1, <2>4 DEF EnterWaitAny, LeaveWaitAny, ReleaseAndReturn, Goto, InCall, Holding
  <2> QED
    BY <2>2, <2>3, <2>4 DEF CallStep
<1> QED
  BY <1>1, <1>2, <1>4, <1>6, WorkerStep DEF InCall, Holding

\* A worker that gives up after the disposal finds the channel broken, and one
\* whose part of the task ends has no request.
LEMMA LeaveChannel ==
  ASSUME TurnInv, ServiceInv, NEW t \in Threads, WokenAfterDispose(t) \/ EndTask(t)
  PROVE  [Channel!Next]_(Channel!vars)
<1>1. PICK s \in TaskOver : pc' = [pc EXCEPT ![t] = s]
  BY DEF WokenAfterDispose, EndTask, Goto, ThrowCanceled, TaskOver
<1>2. t \in Workers /\ UNCHANGED <<calls, mainPc, cancelled, runs>>
  BY DEF WokenAfterDispose, EndTask, ServiceInv, Threads
<1>3. Intact => pc[t] \notin InCall
  BY DEF WokenAfterDispose, EndTask, Intact, InCall, Holding
<1>4. s \notin InCall
  BY <1>1 DEF TaskOver, InCall, Holding
<1> QED
  BY <1>1, <1>2, <1>3, <1>4, WorkerStep

\* The run of a delegate serves the request of the worker that waits for it.
LEMMA ServeChannel ==
  ASSUME TurnInv, ServiceInv, DelegateReturns
  PROVE  [Channel!Next]_(Channel!vars)
<1>1. /\ mainPc = "running" /\ mainPc' = "complete" /\ UNCHANGED <<pc, calls, cancelled>>
      /\ runs' = [runs EXCEPT ![running.thread][running.call] = @ + 1]
      /\ runs \in [Threads -> [1..MaxCalls -> Nat]]
  BY DEF DelegateReturns, MainGoto, TurnInv, TypeOK
<1>2. Intact' = Intact
  BY <1>1 DEF Intact
<1>3. \A u \in Workers : u # running.thread => Request(u)' = Request(u)
  BY <1>1 DEF Request, Threads
<1>4. CASE Intact
  <2>1. PICK t \in Workers : pc[t] \in Waiting /\ CallOf(running, t) /\ RunsOf(t) = 0
    BY <1>1, <1>4 DEF ServiceInv, Signalled, Serving, Progress, Phase
  <2>2. calls[t] \in 1..MaxCalls
    BY <2>1 DEF TurnInv, CallsBegun, TypeOK, Threads, Waiting, InCall, Holding
  <2>3. runs'[t][calls[t]] = runs[t][calls[t]] + 1
    <3>1. t \in Threads /\ runs' = [runs EXCEPT ![t][calls[t]] = @ + 1]
      BY <1>1, <2>1 DEF CallOf, Threads
    <3>2. runs \in [Threads -> [1..MaxCalls -> Nat]]
      BY <1>1
    <3>3. [runs EXCEPT ![t][calls[t]] = @ + 1][t] = [runs[t] EXCEPT ![calls[t]] = @ + 1]
      BY <3>1, <3>2
    <3>4. runs[t] \in [1..MaxCalls -> Nat]
      BY <3>1, <3>2
    <3> QED
      BY <2>2, <3>1, <3>3, <3>4
  <2>4. Request(t) = "pending" /\ Request(t)' = "served"
    BY <1>1, <2>1, <2>3 DEF Request, RunsOf, Waiting, InCall, Holding
  <2> QED
    BY <1>2, <1>3, <1>4, <2>1, <2>4, IntactStep DEF CallOf
<1>5. CASE ~Intact
  <2>1. CASE running.thread \in Workers
    BY <1>2, <1>3, <1>5, <2>1, AfterBreakStep
  <2>2. CASE running.thread \notin Workers
    BY <1>2, <1>3, <2>2, StutterStep
  <2> QED
    BY <2>1, <2>2
<1> QED
  BY <1>4, <1>5

\* The other steps of Main, and a cancellation, at most break the channel.
LEMMA BreakChannel ==
  ASSUME TurnInv, \/ MainStep /\ ~DelegateReturns
                  \/ Cancel
                  \/ UNCHANGED vars
  PROVE  [Channel!Next]_(Channel!vars)
<1>1. UNCHANGED <<pc, calls, runs>>
  BY DEF MainStep, EnterWaitLoop, WakeMain, CheckReady, ResetReady, InvokeDelegate,
     DelegateThrows, SetCompleted, EndLoop, Dispose, Cancel, vars
<1>2. ~Intact => ~Intact'
  BY DEF MainStep, EnterWaitLoop, WakeMain, CheckReady, ResetReady, InvokeDelegate,
     DelegateThrows, SetCompleted, EndLoop, Dispose, MainGoto, Cancel, vars, Intact
<1>3. \A u \in Workers : Request(u)' = Request(u)
  BY <1>1 DEF Request
<1>4. CASE Intact /\ ~Intact'
  BY <1>3, <1>4, BreakStep
<1>5. CASE Intact' = Intact
  BY <1>3, <1>5, StutterStep
<1> QED
  BY <1>2, <1>4, <1>5 DEF Intact

\* Every step of the runtime is a step of the channel, or none.
LEMMA NextChannel == TurnInv /\ ServiceInv /\ [Next]_vars => [Channel!Next]_(Channel!vars)
<1> SUFFICES ASSUME TurnInv, ServiceInv, [Next]_vars PROVE [Channel!Next]_(Channel!vars)
  OBVIOUS
<1>1. ASSUME NEW t \in Threads, AnyCall(t) PROVE [Channel!Next]_(Channel!vars)
  BY <1>1, CallChannel
<1>2. ASSUME NEW t \in Threads, CallStep(t) PROVE [Channel!Next]_(Channel!vars)
  BY <1>2, CallStepChannel
<1>3. ASSUME NEW t \in Threads, WokenAfterDispose(t) \/ EndTask(t)
      PROVE  [Channel!Next]_(Channel!vars)
  BY <1>3, LeaveChannel
<1>4. CASE DelegateReturns
  BY <1>4, ServeChannel
<1>5. CASE (MainStep /\ ~DelegateReturns) \/ Cancel \/ UNCHANGED vars
  BY <1>5, BreakChannel
<1> QED
  BY <1>1, <1>2, <1>3, <1>4, <1>5 DEF Next

\* The runtime starts with no requests and an intact channel.
LEMMA InitChannel == Init => Channel!Init
<1> SUFFICES ASSUME Init PROVE Channel!Init
  OBVIOUS
<1>1. Intact = TRUE
  BY DEF Init, Intact
<1>2. \A t \in Workers : pc[t] \notin InCall
  BY DEF Init, Threads, InCall, Holding
<1> QED
  BY <1>1, <1>2 DEF Channel!Init

\* For any number of threads and calls the runtime does what the channel allows:
\* a request is served at most once, before its caller returns, until the channel
\* breaks, and a broken channel is never intact again.
THEOREM ImplementsChannelSafety == Spec => Channel!Safety
  BY InitChannel, NextChannel, ServiceInvariant, PTL DEF Spec, Channel!Safety
=============================================================================
