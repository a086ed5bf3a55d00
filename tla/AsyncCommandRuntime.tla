------------------------ MODULE AsyncCommandRuntime ------------------------
(***************************************************************************)
(* psruntime/AsyncCommandRuntime.cs: the ICommandRuntime2 a generated      *)
(* cmdlet installs around ProcessRecordAsync.  PowerShell only lets the    *)
(* pipeline thread (Main) write output, so a worker thread that calls      *)
(* WriteObject and friends takes its turn with a semaphore, leaves a       *)
(* delegate for Main, signals readyToRun and blocks on completed; Main     *)
(* serves delegates from Wait() until the cmdlet's task is over, then      *)
(* disposes the runtime, whether or not workers are still inside it.       *)
(*                                                                         *)
(* A step of the model is one statement that reads or writes state shared  *)
(* between threads.                                                        *)
(***************************************************************************)
EXTENDS Naturals, FiniteSets

CONSTANTS
  Workers,          \* thread pool threads that call the command runtime
  Awaited,          \* the workers the cmdlet's task does not complete without
  Main,             \* originalThread, the PowerShell pipeline thread
  Methods,          \* the kinds of methods the threads call, a subset of AllMethods
  AllowInteractive, \* the property of that name (false unless somebody sets it)
  MaxCalls,         \* calls a thread makes (bound)
  NoDelegate        \* runOnMainThread's initial null

\* The methods differ in two ways: those that prompt may be refused, and
\* ThrowTerminatingError always throws.
Interactive == {"prompt"}
AllMethods == Interactive \cup {"throw", "write"}

ASSUME ConstantsAssumption ==
  /\ Awaited \subseteq Workers
  /\ Main \notin Workers
  /\ Methods \subseteq AllMethods /\ Methods # {}
  /\ AllowInteractive \in BOOLEAN
  /\ MaxCalls \in Nat
  /\ NoDelegate \notin [thread : Workers \cup {Main}, call : Nat, method : AllMethods]

VARIABLES
  pc,              \* where each thread is in a call of the runtime
  calls,           \* calls each thread has begun
  method,          \* the method of each thread's latest call
  semaphore,       \* CurrentCount of the SemaphoreSlim(1, 1)
  readyToRun,      \* the event's flag
  completed,       \* the event's flag
  runOnMainThread, \* the delegate left for Main
  mainPc,          \* where Main is in ProcessRecord
  running,         \* the delegate Main picked up last
  runs,            \* history: how often each call's delegate ran to its end
  outcome,         \* what Wait threw: nothing, a delegate's exception or the task's
  cancelled,       \* the cancellation token
  disposed         \* statements of Dispose() executed

vars == <<pc, calls, method, semaphore, readyToRun, completed,
          runOnMainThread, mainPc, running, runs, outcome, cancelled, disposed>>

Threads == Workers \cup {Main}

Delegate == [thread : Threads, call : 1..MaxCalls, method : Methods]

\* A thread's progress through WaitOurTurn, the hand-over and WaitForCompletion.
Holding  == {"reset", "set", "ready", "await", "blocked", "release"}
InCall   == {"turn", "queued"} \cup Holding
TaskOver == {"completed", "faulted", "canceled"}

MainStates == {"body", "waiting", "check", "reset", "invoke", "running",
               "complete", "loop", "disposing", "left"}

TypeOK ==
  /\ pc \in [Threads -> {"idle"} \cup InCall \cup TaskOver]
  /\ calls \in [Threads -> 0..MaxCalls]
  /\ method \in [Threads -> Methods]
  /\ semaphore \in 0..1
  /\ readyToRun \in BOOLEAN /\ completed \in BOOLEAN
  /\ runOnMainThread \in Delegate \cup {NoDelegate}
  /\ running \in Delegate \cup {NoDelegate}
  /\ mainPc \in MainStates
  /\ runs \in [Threads -> [1..MaxCalls -> Nat]]
  /\ outcome \in {"none", "delegate", "task"} /\ cancelled \in BOOLEAN
  /\ disposed \in 0..7

Init ==
  /\ pc = [t \in Threads |-> "idle"]
  /\ calls = [t \in Threads |-> 0]
  /\ method = [t \in Threads |-> CHOOSE m \in Methods : TRUE]
  /\ semaphore = 1
  /\ readyToRun = FALSE /\ completed = FALSE
  /\ runOnMainThread = NoDelegate
  /\ mainPc = "body"
  /\ running = NoDelegate
  /\ runs = [t \in Threads |-> [n \in 1..MaxCalls |-> 0]]
  /\ outcome = "none" /\ cancelled = FALSE
  /\ disposed = 0

-----------------------------------------------------------------------------
(* Dispose() first gives the cmdlet its own command runtime back, then      *)
(* disposes each primitive and sets its field to null.  An object is "live",*)
(* "disposed" (its methods throw ObjectDisposedException) or "null".        *)

Installed == disposed = 0

Lifetime(first) == IF disposed < first THEN "live"
                   ELSE IF disposed = first THEN "disposed" ELSE "null"
Semaphore == Lifetime(2)
ReadyToRunEvent == Lifetime(4)
CompletedEvent == Lifetime(6)

Goto(t, to) == pc' = [pc EXCEPT ![t] = to]

\* An exception leaves the call and ends the thread's part of the task.  It
\* does not pass WaitForCompletion, so it releases nothing.
Throw(t) == Goto(t, "faulted")
ThrowCanceled_Ignored(t) == Goto(t, "reset")
ThrowCanceled(t) == Goto(t, "canceled")

-----------------------------------------------------------------------------
(* The methods of ICommandRuntime2 and ExecuteSync share one body.          *)

OnOriginalThread_Never(t) == FALSE
OnOriginalThread(t) == t = Main

RefusesInteractive_Never(m) == FALSE
RefusesInteractive(m) == m \in Interactive /\ ~AllowInteractive

CallThrough(t) == runs' = [runs EXCEPT ![t][calls'[t]] = @ + 1]

\* A call made after Dispose gave the cmdlet its own runtime back goes there,
\* and PowerShell refuses it on any thread but the pipeline's.
Call(t, m) ==
  /\ m \in Methods
  /\ pc[t] = "idle" /\ calls[t] < MaxCalls
  /\ t = Main => mainPc \in {"body", "running"}
  /\ calls' = [calls EXCEPT ![t] = @ + 1]
  /\ method' = [method EXCEPT ![t] = m]
  /\ \/ OnOriginalThread(t) /\ CallThrough(t) /\ UNCHANGED pc
     \/ /\ ~OnOriginalThread(t)
        /\ IF Installed /\ ~RefusesInteractive(m) THEN Goto(t, "turn") ELSE Throw(t)
        /\ UNCHANGED runs
  /\ UNCHANGED <<semaphore, readyToRun, completed, runOnMainThread, mainPc,
                 running, outcome, cancelled, disposed>>

ShouldContinue(t)       == Call(t, "prompt")
ShouldProcess(t)        == Call(t, "prompt")
ThrowTerminatingError(t) == Call(t, "throw")
TransactionAvailable(t) == Call(t, "write")
WriteCommandDetail(t)   == Call(t, "write")
WriteDebug(t)           == Call(t, "write")
WriteError(t)           == Call(t, "write")
WriteInformation(t)     == Call(t, "write")
WriteObject(t)          == Call(t, "write")
WriteProgress(t)        == Call(t, "write")
WriteVerbose(t)         == Call(t, "write")
WriteWarning(t)         == Call(t, "write")
ExecuteSync(t)          == Call(t, "write")

-----------------------------------------------------------------------------
(* WaitOurTurn: semaphore?.Wait(cancellationToken); completed.Reset()       *)

TakeTurn_NoCount(t) == semaphore > 0 /\ UNCHANGED semaphore /\ Goto(t, "reset")
TakeTurn(t) == semaphore > 0 /\ semaphore' = semaphore - 1 /\ Goto(t, "reset")

\* SemaphoreSlim.Wait looks at the token once at entry.
EnterWait(t) ==
  /\ pc[t] = "turn"
  /\ \/ Semaphore = "null" /\ Goto(t, "reset") /\ UNCHANGED semaphore
     \/ Semaphore = "disposed" /\ Throw(t) /\ UNCHANGED semaphore
     \/ Semaphore = "live" /\ cancelled /\ ThrowCanceled(t) /\ UNCHANGED semaphore
     \/ /\ Semaphore = "live" /\ ~cancelled
        /\ TakeTurn(t) \/ (semaphore = 0 /\ Goto(t, "queued") /\ UNCHANGED semaphore)
  /\ UNCHANGED <<calls, method, readyToRun, completed, runOnMainThread, mainPc,
                 running, runs, outcome, cancelled, disposed>>

\* A queued waiter that finds the count positive takes it, even when it was
\* the cancellation that woke it.
Acquire(t) ==
  /\ pc[t] = "queued" /\ Semaphore = "live"
  /\ \/ TakeTurn(t)
     \/ semaphore = 0 /\ cancelled /\ ThrowCanceled(t) /\ UNCHANGED semaphore
  /\ UNCHANGED <<calls, method, readyToRun, completed, runOnMainThread, mainPc,
                 running, runs, outcome, cancelled, disposed>>

\* Waiters of a disposed semaphore are never handed the count.  Whether the
\* cancellation still wakes them depends on the .NET version.
WokenAfterDispose(t) ==
  /\ pc[t] = "queued" /\ Semaphore # "live" /\ cancelled
  /\ ThrowCanceled(t)
  /\ UNCHANGED <<calls, method, semaphore, readyToRun, completed,
                 runOnMainThread, mainPc, running, runs, outcome, cancelled, disposed>>

ResetCompleted_Missing(t) ==
  /\ pc[t] = "reset" /\ Goto(t, "set")
  /\ UNCHANGED <<calls, method, semaphore, readyToRun, completed,
                 runOnMainThread, mainPc, running, runs, outcome, cancelled, disposed>>
ResetCompleted(t) ==
  /\ pc[t] = "reset"
  /\ \/ CompletedEvent = "live" /\ completed' = FALSE /\ Goto(t, "set")
     \/ CompletedEvent # "live" /\ Throw(t) /\ UNCHANGED completed
  /\ UNCHANGED <<calls, method, semaphore, readyToRun, runOnMainThread, mainPc,
                 running, runs, outcome, cancelled, disposed>>

(* The hand-over: runOnMainThread = ...; readyToRun.Set()                   *)

SetDelegate(t) ==
  /\ pc[t] = "set"
  /\ runOnMainThread' = [thread |-> t, call |-> calls[t], method |-> method[t]]
  /\ Goto(t, "ready")
  /\ UNCHANGED <<calls, method, semaphore, readyToRun, completed, mainPc,
                 running, runs, outcome, cancelled, disposed>>

\* ManualResetEventSlim.Set does not mind a disposed event.
SignalReady(t) ==
  /\ pc[t] = "ready"
  /\ \/ ReadyToRunEvent # "null" /\ readyToRun' = TRUE /\ Goto(t, "await")
     \/ ReadyToRunEvent = "null" /\ Throw(t) /\ UNCHANGED readyToRun
  /\ UNCHANGED <<calls, method, semaphore, completed, runOnMainThread, mainPc,
                 running, runs, outcome, cancelled, disposed>>

(* WaitForCompletion: WaitAny(cancellation, completed); semaphore?.Release() *)

\* A null or disposed event has no WaitHandle to wait for.
EnterWaitAny_NoWait(t) ==
  /\ pc[t] = "await" /\ Goto(t, "release")
  /\ UNCHANGED <<calls, method, semaphore, readyToRun, completed,
                 runOnMainThread, mainPc, running, runs, outcome, cancelled, disposed>>
EnterWaitAny(t) ==
  /\ pc[t] = "await"
  /\ IF CompletedEvent = "live" THEN Goto(t, "blocked") ELSE Throw(t)
  /\ UNCHANGED <<calls, method, semaphore, readyToRun, completed,
                 runOnMainThread, mainPc, running, runs, outcome, cancelled, disposed>>

LeaveWaitAny_TimesOut(t) ==
  /\ pc[t] = "blocked" /\ Goto(t, "release")
  /\ UNCHANGED <<calls, method, semaphore, readyToRun, completed,
                 runOnMainThread, mainPc, running, runs, outcome, cancelled, disposed>>
LeaveWaitAny_IgnoresToken(t) ==
  /\ pc[t] = "blocked" /\ completed /\ Goto(t, "release")
  /\ UNCHANGED <<calls, method, semaphore, readyToRun, completed,
                 runOnMainThread, mainPc, running, runs, outcome, cancelled, disposed>>
LeaveWaitAny(t) ==
  /\ pc[t] = "blocked" /\ (cancelled \/ completed)
  /\ Goto(t, "release")
  /\ UNCHANGED <<calls, method, semaphore, readyToRun, completed,
                 runOnMainThread, mainPc, running, runs, outcome, cancelled, disposed>>

ReleaseAndReturn_KeepsTurn(t) ==
  /\ pc[t] = "release" /\ Goto(t, "idle")
  /\ UNCHANGED <<calls, method, semaphore, readyToRun, completed,
                 runOnMainThread, mainPc, running, runs, outcome, cancelled, disposed>>
ReleaseAndReturn(t) ==
  /\ pc[t] = "release"
  /\ \/ Semaphore = "live" /\ semaphore' = semaphore + 1 /\ Goto(t, "idle")
     \/ Semaphore = "disposed" /\ Throw(t) /\ UNCHANGED semaphore
     \/ Semaphore = "null" /\ Goto(t, "idle") /\ UNCHANGED semaphore
  /\ UNCHANGED <<calls, method, readyToRun, completed, runOnMainThread, mainPc,
                 running, runs, outcome, cancelled, disposed>>

-----------------------------------------------------------------------------
(* The rest of the cmdlet: a worker's part of ProcessRecordAsync ends, and  *)
(* StopProcessing or the listener cancels the token.                        *)

EndTask(t) ==
  /\ t \in Workers /\ pc[t] = "idle"
  /\ \E end \in TaskOver : Goto(t, end)
  /\ UNCHANGED <<calls, method, semaphore, readyToRun, completed,
                 runOnMainThread, mainPc, running, runs, outcome, cancelled, disposed>>

Cancel ==
  /\ ~cancelled
  /\ cancelled' = TRUE
  /\ UNCHANGED <<pc, calls, method, semaphore, readyToRun, completed,
                 runOnMainThread, mainPc, running, runs, outcome, disposed>>

-----------------------------------------------------------------------------
(* Main: ProcessRecordAsync() up to its first await, then Wait(), then the  *)
(* Dispose() of the using statement.                                        *)

MainGoto(from, to) == mainPc = from /\ mainPc' = to

TaskCompleted == \A w \in Awaited : pc[w] \in TaskOver
TaskFaulted == \E w \in Awaited : pc[w] = "faulted"

EnterWaitLoop ==
  /\ MainGoto("body", "waiting") /\ pc[Main] = "idle"
  /\ UNCHANGED <<pc, calls, method, semaphore, readyToRun, completed,
                 runOnMainThread, running, runs, outcome, cancelled, disposed>>

WakeMain ==
  /\ MainGoto("waiting", "check") /\ (readyToRun \/ TaskCompleted)
  /\ UNCHANGED <<pc, calls, method, semaphore, readyToRun, completed,
                 runOnMainThread, running, runs, outcome, cancelled, disposed>>

CheckReady ==
  /\ IF readyToRun THEN MainGoto("check", "reset") ELSE MainGoto("check", "loop")
  /\ UNCHANGED <<pc, calls, method, semaphore, readyToRun, completed,
                 runOnMainThread, running, runs, outcome, cancelled, disposed>>

ResetReady_Missing ==
  /\ MainGoto("reset", "invoke")
  /\ UNCHANGED <<pc, calls, method, semaphore, readyToRun, completed,
                 runOnMainThread, running, runs, outcome, cancelled, disposed>>
ResetReady ==
  /\ MainGoto("reset", "invoke")
  /\ readyToRun' = FALSE
  /\ UNCHANGED <<pc, calls, method, semaphore, completed, runOnMainThread,
                 running, runs, outcome, cancelled, disposed>>

InvokeDelegate ==
  /\ MainGoto("invoke", "running")
  /\ running' = runOnMainThread
  /\ UNCHANGED <<pc, calls, method, semaphore, readyToRun, completed,
                 runOnMainThread, runs, outcome, cancelled, disposed>>

DelegateReturns ==
  /\ MainGoto("running", "complete") /\ pc[Main] = "idle"
  /\ running.method # "throw"
  /\ runs' = [runs EXCEPT ![running.thread][running.call] = @ + 1]
  /\ UNCHANGED <<pc, calls, method, semaphore, readyToRun, completed,
                 runOnMainThread, running, outcome, cancelled, disposed>>

DelegateThrows_Swallowed ==
  /\ MainGoto("running", "complete") /\ pc[Main] = "idle"
  /\ UNCHANGED <<pc, calls, method, semaphore, readyToRun, completed,
                 runOnMainThread, running, runs, outcome, cancelled, disposed>>
\* Any method of the pipeline may throw (the pipeline was stopped, the error
\* preference is Stop); ThrowTerminatingError always does.  Nothing in Wait
\* catches it.
DelegateThrows ==
  /\ MainGoto("running", "disposing") /\ pc[Main] = "idle"
  /\ outcome' = "delegate"
  /\ UNCHANGED <<pc, calls, method, semaphore, readyToRun, completed,
                 runOnMainThread, running, runs, cancelled, disposed>>

SetCompleted ==
  /\ MainGoto("complete", "loop")
  /\ completed' = TRUE
  /\ UNCHANGED <<pc, calls, method, semaphore, readyToRun, runOnMainThread,
                 running, runs, outcome, cancelled, disposed>>

EndLoop ==
  /\ IF TaskCompleted THEN MainGoto("loop", "disposing") ELSE MainGoto("loop", "waiting")
  /\ outcome' = IF TaskCompleted /\ TaskFaulted THEN "task" ELSE outcome
  /\ UNCHANGED <<pc, calls, method, semaphore, readyToRun, completed,
                 runOnMainThread, running, runs, cancelled, disposed>>

Dispose ==
  /\ mainPc = "disposing"
  /\ disposed' = disposed + 1
  /\ mainPc' = IF disposed' = 7 THEN "left" ELSE "disposing"
  /\ UNCHANGED <<pc, calls, method, semaphore, readyToRun, completed,
                 runOnMainThread, running, runs, outcome, cancelled>>

-----------------------------------------------------------------------------
AnyCall(t) ==
  \/ ShouldContinue(t) \/ ShouldProcess(t) \/ ThrowTerminatingError(t)
  \/ TransactionAvailable(t) \/ WriteCommandDetail(t) \/ WriteDebug(t)
  \/ WriteError(t) \/ WriteInformation(t) \/ WriteObject(t)
  \/ WriteProgress(t) \/ WriteVerbose(t) \/ WriteWarning(t) \/ ExecuteSync(t)

CallStep(t) ==
  \/ EnterWait(t) \/ Acquire(t) \/ ResetCompleted(t) \/ SetDelegate(t)
  \/ SignalReady(t) \/ EnterWaitAny(t) \/ LeaveWaitAny(t) \/ ReleaseAndReturn(t)

MainStep ==
  \/ EnterWaitLoop \/ WakeMain \/ CheckReady \/ ResetReady \/ InvokeDelegate
  \/ DelegateReturns \/ DelegateThrows \/ SetCompleted \/ EndLoop \/ Dispose

Next ==
  \/ \E t \in Threads :
       AnyCall(t) \/ CallStep(t) \/ WokenAfterDispose(t) \/ EndTask(t)
  \/ MainStep
  \/ Cancel

Spec == Init /\ [][Next]_vars

\* The scheduler runs every thread that can run, delegates end, and each part
\* of the task ends once it makes no more calls.
Fairness ==
  /\ \A t \in Threads : WF_vars(CallStep(t)) /\ WF_vars(EndTask(t))
  /\ WF_vars(MainStep)

FairSpec == Spec /\ Fairness

-----------------------------------------------------------------------------
(* Properties.                                                              *)

Holders == {t \in Threads : pc[t] \in Holding}

\* Not cancelled, and Main still serves.
Intact == ~cancelled /\ mainPc \notin {"disposing", "left"}

\* Until Dispose drops the semaphore at most one thread is past it, whatever is
\* cancelled or thrown, and while it is live the count says whether one is: no
\* exception path of a call leaks or doubles the turn.
TurnExclusion ==
  /\ Semaphore # "null" => \A s, t \in Holders : s = t
  /\ Semaphore = "live" => (semaphore = 0 <=> Holders # {})

\* A call that is about to return to its worker had its delegate run to the end,
\* exactly once: no completion left over from an earlier call lets it through
\* with the default value of its result.
ServedBeforeReturn ==
  \A t \in Workers : Intact /\ pc[t] = "release" => runs[t][calls[t]] = 1

\* While Main picks up or runs a delegate its caller is still waiting in the very
\* call that left it, so the locals the delegate captured are the caller's.
CallerWaitsWhileServed ==
  /\ mainPc = "invoke" /\ ~cancelled =>
       \E t \in Workers : pc[t] \in {"await", "blocked"} /\ runOnMainThread.thread = t
  /\ mainPc \in {"running", "complete"} /\ ~cancelled =>
       /\ pc[running.thread] \in {"await", "blocked"}
       /\ calls[running.thread] = running.call

\* Output reaches the pipeline once: without a cancellation no delegate runs
\* again, even after Main has left or a delegate threw.
RunsAtMostOnce == ~cancelled => \A t \in Threads, n \in 1..MaxCalls : runs[t][n] <= 1

\* Main never prompts for a worker: an interactive call is refused before it is
\* queued, unless the runtime was configured for it.
OnlyMainPrompts ==
  ~AllowInteractive /\ runOnMainThread # NoDelegate =>
    runOnMainThread.method \notin Interactive

\* When the task ended by itself Main does not leave with a request of one of the
\* task's own workers signalled and unserved.
NothingLeftBehind ==
  /\ mainPc \in {"disposing", "left"} /\ ~cancelled /\ outcome # "delegate"
  /\ readyToRun
  => runOnMainThread.thread \notin Awaited

\* Main gets out of ProcessRecord, whatever the threads call, from wherever, and
\* whoever cancels: it never waits for a thread that waits for it.
MainLeaves == <>(mainPc = "left")

\* An awaited worker's call ends, unless a delegate threw on Main.
AwaitedCallsEnd ==
  \A t \in Awaited : pc[t] \in InCall ~> (pc[t] \notin InCall \/ outcome = "delegate")

\* Cancelling frees the worker that has the turn, even when Main is gone.
CancellationFreesHolder ==
  \A t \in Workers : cancelled /\ pc[t] \in Holding ~> pc[t] \notin Holding

Channel == INSTANCE CommandChannel WITH
  Callers <- Workers,
  request <- [t \in Workers |->
                IF pc[t] \notin InCall THEN "none"
                ELSE IF runs[t][calls[t]] = 0 THEN "pending" ELSE "served"],
  intact <- Intact

\* The runtime implements the command channel.
ImplementsChannel == Channel!Spec

\* "otherwise, queue up the request and wait for the main thread to do the right
\* thing" (AsyncCommandRuntime.cs:558): a queued request is done once, also when
\* the command is being cancelled.
RequestDoneOnce == \A t \in Threads, n \in 1..MaxCalls : runs[t][n] <= 1

\* "wait for the result (or cancellation!)" (AsyncCommandRuntime.cs:67): a call
\* ends with one or the other.
CallsEnd == \A t \in Awaited : pc[t] \in InCall ~> pc[t] \notin InCall
=============================================================================
