------------------------------ MODULE AsyncJob ------------------------------
(***************************************************************************)
(* psruntime/AsyncJob.cs and the -AsJob branch of ProcessRecord that       *)
(* cmdlets/class.ts generates.  For each input record the pipeline thread  *)
(* clones the cmdlet, wraps it in a job, starts the clone's                *)
(* ProcessRecordAsync and lets the job monitor the task.  The clone writes *)
(* to the streams of the job; the user may stop a job at any time.         *)
(*                                                                         *)
(* Every job of an invocation is given the token and the Cancel of the     *)
(* original cmdlet (class.ts:572); the clone's own token source is another *)
(* one, which nobody cancels.  That PowerShell closes the streams of a job *)
(* when its state becomes a final one is external.                         *)
(***************************************************************************)
EXTENDS Naturals

CONSTANTS
  MaxRecords, \* what the debug, verbose, progress and warning streams hold
  MaxObjects, \* objects that the cmdlet writes per record (bound)
  MaxErrors,  \* errors that it writes itself (bound)
  MaxJobs     \* input records, each of which makes a job (bound)

ASSUME AsyncJobAssumption ==
  /\ MaxJobs \in Nat /\ MaxRecords \in Nat /\ MaxObjects \in Nat
  /\ MaxErrors \in Nat

Records == 1..MaxJobs

VARIABLES
  pipe,         \* where the pipeline thread is in ProcessRecord
  record,       \* the record it is at
  cancelled,    \* the original cmdlet's token
  jobState,     \* JobStateInfo.State
  task,         \* the task of the clone's ProcessRecordAsync
  worker,       \* what the clone is doing: nothing, or adding to a stream
  continuation, \* of the ContinueWith in Monitor
  output,       \* Output.Count
  debug,        \* Debug.Count, for the four streams that are capped
  errors,       \* Error.Count
  wrote,        \* history: writes of objects that returned
  reported,     \* history: writes of errors that returned
  late          \* history: objects added after the cancellation

vars == <<pipe, record, cancelled, jobState, task, worker, continuation,
          output, debug, errors, wrote, reported, late>>
pipeline == <<pipe, record>>
streams == <<output, debug, errors, wrote, reported, late>>

\* "refused" is a fault by a write of a cancelled job.
Faulted == {"faulted", "refused"}
TaskOver == {"ran", "canceled"} \cup Faulted
Final == {"Completed", "Failed"}

Init ==
  /\ pipe = "next" /\ record = 0 /\ cancelled = FALSE
  /\ jobState = [j \in Records |-> "none"]
  /\ task = [j \in Records |-> "none"]
  /\ worker = [j \in Records |-> "idle"]
  /\ continuation = [j \in Records |-> "none"]
  /\ output = [j \in Records |-> 0] /\ debug = [j \in Records |-> 0]
  /\ errors = [j \in Records |-> 0]
  /\ wrote = [j \in Records |-> 0] /\ reported = [j \in Records |-> 0]
  /\ late = [j \in Records |-> 0]

-----------------------------------------------------------------------------
(* ProcessRecord on the pipeline thread.                                   *)

At(from, to) == pipe = from /\ pipe' = to

\* syncSignal(CmdletProcessRecordStart) returns when the token is cancelled, and
\* ShouldProcess may decline.
StartRecord ==
  /\ pipe = "next" /\ record + 1 \in Records
  /\ record' = record + 1
  /\ \/ ~cancelled /\ pipe' = "create"
     \/ pipe' = "next"
  /\ UNCHANGED <<cancelled, jobState, task, worker, continuation, streams>>

\* this.Clone(), new AsyncJob(...), JobRepository.Add(job)
CreateJob ==
  /\ At("create", "invoke")
  /\ jobState' = [jobState EXCEPT ![record] = "NotStarted"]
  /\ UNCHANGED <<record, cancelled, task, worker, continuation, streams>>

\* The clone runs on this thread up to its first await, then on its own.
InvokeClone ==
  /\ At("invoke", "monitor")
  /\ task' = [task EXCEPT ![record] = "running"]
  /\ UNCHANGED <<record, cancelled, jobState, worker, continuation, streams>>

MonitorRunning ==
  /\ At("monitor", "continue")
  /\ jobState' = [jobState EXCEPT ![record] = "Running"]
  /\ UNCHANGED <<record, cancelled, task, worker, continuation, streams>>

\* task.ContinueWith(..., CancellationToken): a continuation whose token is
\* cancelled before it starts never runs.
MonitorContinue_UnlessOver ==
  /\ At("continue", "write")
  /\ continuation' = [continuation EXCEPT ![record] =
                        IF cancelled \/ task[record] \in TaskOver THEN "dropped" ELSE "registered"]
  /\ UNCHANGED <<record, cancelled, jobState, task, worker, streams>>
MonitorContinue ==
  /\ At("continue", "write")
  /\ continuation' = [continuation EXCEPT ![record] = IF cancelled THEN "dropped" ELSE "registered"]
  /\ UNCHANGED <<record, cancelled, jobState, task, worker, streams>>

\* WriteObject(job); the pipeline may have been stopped.
WriteJob ==
  /\ At("write", "next") \/ At("write", "stopped")
  /\ UNCHANGED <<record, cancelled, jobState, task, worker, continuation, streams>>

-----------------------------------------------------------------------------
(* The clone: ProcessRecordAsync with the job as its command runtime.      *)

IsJobDone(j) == cancelled \/ jobState[j] \in Final

\* The exception ends ProcessRecordAsync: its finally block signals, and throws, too.
CheckForCancellation_Missing(j, to) == worker' = [worker EXCEPT ![j] = to] /\ UNCHANGED task
CheckForCancellation(j, to) ==
  IF IsJobDone(j)
  THEN task' = [task EXCEPT ![j] = "refused"] /\ UNCHANGED worker
  ELSE worker' = [worker EXCEPT ![j] = to] /\ UNCHANGED task

Idle(j) == task[j] = "running" /\ worker[j] = "idle"

WriteObject(j) ==
  /\ Idle(j) /\ wrote[j] < MaxObjects
  /\ CheckForCancellation(j, "object")
  /\ UNCHANGED <<pipeline, cancelled, jobState, continuation, streams>>

\* WriteDebug, WriteVerbose, WriteWarning, WriteProgress, and WriteInformation,
\* whose stream is not counted here.  Every signal of the cmdlet ends in one.
WriteDebug(j) ==
  /\ Idle(j) /\ CheckForCancellation(j, "debug")
  /\ UNCHANGED <<pipeline, cancelled, jobState, continuation, streams>>

AddObject(j) ==
  /\ worker[j] = "object"
  /\ worker' = [worker EXCEPT ![j] = "idle"]
  /\ output' = IF jobState[j] \notin Final THEN [output EXCEPT ![j] = @ + 1] ELSE output
  /\ wrote' = [wrote EXCEPT ![j] = @ + 1]
  /\ late' = IF cancelled THEN [late EXCEPT ![j] = @ + 1] ELSE late
  /\ UNCHANGED <<pipeline, cancelled, jobState, task, continuation, debug, errors, reported>>

HasRoom_OneMore(j) == debug[j] <= MaxRecords
HasRoom(j) == debug[j] < MaxRecords

AddDebug(j) ==
  /\ worker[j] = "debug"
  /\ worker' = [worker EXCEPT ![j] = "idle"]
  /\ debug' = IF jobState[j] \notin Final /\ HasRoom(j) THEN [debug EXCEPT ![j] = @ + 1] ELSE debug
  /\ UNCHANGED <<pipeline, cancelled, jobState, task, continuation, output, errors, wrote, reported, late>>

\* WriteError does not look at the token, and ThrowTerminatingError is the same
\* here: it returns.
AddError(j) == errors' = IF jobState[j] \notin Final THEN [errors EXCEPT ![j] = @ + 1] ELSE errors

WriteError(j) ==
  /\ Idle(j) /\ reported[j] < MaxErrors
  /\ AddError(j)
  /\ reported' = [reported EXCEPT ![j] = @ + 1]
  /\ UNCHANGED <<pipeline, cancelled, jobState, task, worker, continuation, output, debug, wrote, late>>

\* ShouldProcess and ShouldContinue throw; so may anything else the cmdlet does;
\* a send that times out cancels the task.
EndTask(j) ==
  /\ Idle(j)
  /\ \E end \in {"ran", "canceled", "faulted"} : task' = [task EXCEPT ![j] = end]
  /\ UNCHANGED <<pipeline, cancelled, jobState, worker, continuation, streams>>

-----------------------------------------------------------------------------
(* The continuation in Monitor.                                            *)

Continue(j, from, to) ==
  continuation[j] = from /\ continuation' = [continuation EXCEPT ![j] = to]

StartContinuation(j) ==
  /\ task[j] \in TaskOver
  /\ Continue(j, "registered", IF task[j] \in Faulted THEN "errors" ELSE "completing")
  /\ UNCHANGED <<pipeline, cancelled, jobState, task, worker, streams>>

WriteErrors_Skipped(j) ==
  /\ Continue(j, "errors", "failing")
  /\ UNCHANGED <<pipeline, cancelled, jobState, task, worker, streams>>
WriteErrors(j) ==
  /\ Continue(j, "errors", "failing")
  /\ AddError(j)
  /\ reported' = [reported EXCEPT ![j] = @ + 1]
  /\ UNCHANGED <<pipeline, cancelled, jobState, task, worker, output, debug, wrote, late>>

SetFailed_First(j) ==
  /\ continuation[j] \in {"errors", "failing"} /\ jobState[j] # "Failed"
  /\ jobState' = [jobState EXCEPT ![j] = "Failed"]
  /\ UNCHANGED <<pipeline, cancelled, task, worker, continuation, streams>>
SetFailed(j) ==
  /\ Continue(j, "failing", "ended")
  /\ jobState' = [jobState EXCEPT ![j] = "Failed"]
  /\ UNCHANGED <<pipeline, cancelled, task, worker, streams>>

SetCompleted(j) ==
  /\ Continue(j, "completing", "ended")
  /\ jobState' = [jobState EXCEPT ![j] = "Completed"]
  /\ UNCHANGED <<pipeline, cancelled, task, worker, streams>>

-----------------------------------------------------------------------------
(* Cancellation.                                                           *)

\* this._cancellationTokenSource.Cancel()
Cancel ==
  /\ ~cancelled /\ cancelled' = TRUE
  /\ continuation' = [j \in Records |-> IF continuation[j] = "registered" THEN "dropped"
                                        ELSE continuation[j]]

\* StopJob of a job in the repository.
StopJob(j) ==
  /\ jobState[j] \notin {"none"} \cup Final
  /\ Cancel
  /\ UNCHANGED <<pipeline, jobState, task, worker, streams>>

\* StopProcessing of the original cmdlet, while the pipeline runs it.
StopProcessing ==
  /\ Cancel /\ pipe # "stopped"
  /\ UNCHANGED <<pipeline, jobState, task, worker, streams>>

-----------------------------------------------------------------------------
PipelineStep ==
  \/ StartRecord \/ CreateJob \/ InvokeClone \/ MonitorRunning \/ MonitorContinue \/ WriteJob

\* What the clone does as long as nothing ends it: it signals.
Signals(j) == WriteDebug(j) \/ AddDebug(j) \/ AddObject(j)

ContinuationStep(j) ==
  StartContinuation(j) \/ WriteErrors(j) \/ SetFailed(j) \/ SetCompleted(j)

Next ==
  \/ PipelineStep \/ StopProcessing
  \/ \E j \in Records : \/ Signals(j) \/ WriteObject(j) \/ WriteError(j) \/ EndTask(j)
                        \/ ContinuationStep(j) \/ StopJob(j)

Spec == Init /\ [][Next]_vars

\* Threads that can run do: the pipeline thread inside ProcessRecord, the clone up
\* to its next signal, and the continuation.
FairSpec ==
  /\ Spec
  /\ WF_vars(PipelineStep)
  /\ \A j \in Records : WF_vars(Signals(j)) /\ WF_vars(ContinuationStep(j))

-----------------------------------------------------------------------------
(* Properties.                                                             *)

TypeOK ==
  /\ pipe \in {"next", "create", "invoke", "monitor", "continue", "write", "stopped"}
  /\ record \in {0} \cup Records /\ cancelled \in BOOLEAN
  /\ jobState \in [Records -> {"none", "NotStarted", "Running"} \cup Final]
  /\ task \in [Records -> {"none", "running"} \cup TaskOver]
  /\ worker \in [Records -> {"idle", "object", "debug"}]
  /\ continuation \in [Records -> {"none", "registered", "dropped", "errors", "failing",
                                   "completing", "ended"}]
  /\ output \in [Records -> 0..MaxObjects] /\ debug \in [Records -> 0..MaxRecords]
  /\ errors \in [Records -> 0..MaxErrors + 1]
  /\ wrote \in [Records -> 0..MaxObjects] /\ reported \in [Records -> 0..MaxErrors + 1]
  /\ late \in [Records -> 0..MaxObjects]

\* Nothing the cmdlet wrote is missing from a job that has ended: every write
\* that returned reached its stream before the state closed it.
NothingLost ==
  \A j \in Records : jobState[j] \in Final =>
    output[j] = wrote[j] /\ errors[j] = reported[j]

\* A job that failed tells why, and one that completed was not a failure.
FailureTold ==
  \A j \in Records :
    /\ jobState[j] = "Failed" => task[j] \in Faulted /\ errors[j] > 0
    /\ jobState[j] = "Completed" => task[j] \in {"ran", "canceled"}

\* After a cancellation at most the object being written reaches the output.
StoppedJobIsQuiet == \A j \in Records : late[j] <= 1

\* A cancellation ends the work of every job although the clones' own tokens are
\* not cancelled: their next write throws.
StopEndsWork == \A j \in Records : cancelled /\ task[j] = "running" ~> task[j] \in TaskOver

\* Without a cancellation a job whose task is over ends.
JobFollowsTask == \A j \in Records : task[j] \in TaskOver ~> jobState[j] \in Final \/ cancelled

\* "Monitors the task (which should be ProcessRecordAsync) to control the lifetime
\* of the job itself" (AsyncJob.cs:75): a job whose task is over ends.
JobEnds == \A j \in Records : task[j] \in TaskOver ~> jobState[j] \in Final
=============================================================================
