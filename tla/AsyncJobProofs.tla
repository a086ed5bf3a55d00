--------------------------- MODULE AsyncJobProofs ---------------------------
(***************************************************************************)
(* The safety properties of AsyncJob for any number of input records, any  *)
(* number of writes and streams of any size.  The invariant ties the four  *)
(* activities around a job together: the task is over before the           *)
(* continuation runs, the continuation is over before the state is final,  *)
(* the clone is past its last write when the task is over, and the         *)
(* pipeline thread only touches a job whose continuation does not exist.   *)
(***************************************************************************)
EXTENDS AsyncJob, TLAPS

Continuing == {"errors", "failing", "completing"}

\* The clone writes only while its task runs, and to streams that are open.
CloneInv(j) ==
  /\ worker[j] # "idle" => task[j] = "running"
  /\ worker[j] = "object" => wrote[j] < MaxObjects /\ late[j] = 0
  /\ late[j] > 0 => cancelled
  /\ late[j] <= 1
  /\ output[j] = wrote[j] /\ errors[j] = reported[j]

\* The continuation follows the task, and the state follows the continuation.
ContinuationInv(j) ==
  /\ continuation[j] \in Continuing \cup {"ended"} => task[j] \in TaskOver
  /\ continuation[j] \in {"errors", "failing"} => task[j] \in Faulted
  /\ continuation[j] = "failing" => errors[j] > 0
  /\ continuation[j] = "completing" => task[j] \in {"ran", "canceled"}
  /\ continuation[j] \notin {"failing", "ended"} => reported[j] <= MaxErrors
  /\ jobState[j] \in Final => continuation[j] = "ended"
  /\ jobState[j] = "Failed" => task[j] \in Faulted /\ errors[j] > 0
  /\ jobState[j] = "Completed" => task[j] \in {"ran", "canceled"}

\* The pipeline thread is at a job nobody else has changed yet.
PipelineInv ==
  /\ pipe \in {"create", "invoke", "monitor", "continue"} =>
       record \in Records /\ continuation[record] = "none"
  /\ pipe \in {"create", "invoke"} => task[record] = "none"
  /\ \A j \in Records : j > record => task[j] = "none" /\ continuation[j] = "none"

JobInv ==
  /\ TypeOK
  /\ \A j \in Records : CloneInv(j) /\ ContinuationInv(j)
  /\ PipelineInv

-----------------------------------------------------------------------------
(* The initial state.                                                      *)

\* No job exists yet, so nothing can be lost or out of order.
LEMMA InitJobInv == Init => JobInv
<1> SUFFICES ASSUME Init PROVE JobInv
  OBVIOUS
<1>1. TypeOK
  <2>1. 0 \in 0..MaxObjects /\ 0 \in 0..MaxRecords /\ 0 \in 0..MaxErrors + 1
    BY AsyncJobAssumption DEF AsyncJobAssumption
  <2> QED
    BY <2>1 DEF Init, TypeOK
<1>2. ASSUME NEW j \in Records PROVE CloneInv(j) /\ ContinuationInv(j)
  BY AsyncJobAssumption DEF AsyncJobAssumption, Init, CloneInv, ContinuationInv, Continuing, Final
<1>3. PipelineInv
  BY DEF Init, PipelineInv, Records
<1> QED
  BY <1>1, <1>2, <1>3 DEF JobInv

-----------------------------------------------------------------------------
(* The pipeline thread.                                                    *)

\* The next record has no job yet.
LEMMA StartRecordInv ==
  ASSUME JobInv, StartRecord
  PROVE  JobInv'
<1> USE AsyncJobAssumption DEF AsyncJobAssumption, JobInv, StartRecord, At, pipeline, streams, Records
<1>1. TypeOK'
  BY DEF TypeOK, CloneInv, ContinuationInv, PipelineInv, Continuing, Final, Faulted, TaskOver
<1>2. ASSUME NEW k \in Records PROVE CloneInv(k)'
  BY DEF TypeOK, CloneInv, ContinuationInv, PipelineInv, Continuing, Final, Faulted, TaskOver
<1>3. ASSUME NEW k \in Records PROVE ContinuationInv(k)'
  BY DEF TypeOK, CloneInv, ContinuationInv, PipelineInv, Continuing, Final, Faulted, TaskOver
<1>4. PipelineInv'
  <2>1. pipe' \in {"create", "invoke", "monitor", "continue"} =>
          record' \in Records /\ continuation'[record'] = "none"
    BY DEF TypeOK, PipelineInv
  <2>2. pipe' \in {"create", "invoke"} => task'[record'] = "none"
    BY DEF TypeOK, PipelineInv
  <2>3. ASSUME NEW k \in Records, k > record'
        PROVE  task'[k] = "none" /\ continuation'[k] = "none"
    <3>1. k > record /\ record \in {0} \cup Records /\ task[k] = "none" /\ continuation[k] = "none"
      BY <2>3 DEF TypeOK, PipelineInv
    <3> QED
      BY <2>3, <3>1 DEF TypeOK, PipelineInv
  <2> QED
    BY <2>1, <2>2, <2>3 DEF PipelineInv
<1> QED
  BY <1>1, <1>2, <1>3, <1>4

\* A new job is not final.
LEMMA CreateJobInv ==
  ASSUME JobInv, CreateJob
  PROVE  JobInv'
<1> USE AsyncJobAssumption DEF AsyncJobAssumption, JobInv, CreateJob, At, pipeline, streams, Records
<1>1. TypeOK'
  BY DEF TypeOK, CloneInv, ContinuationInv, PipelineInv, Continuing, Final, Faulted, TaskOver
<1>2. ASSUME NEW k \in Records PROVE CloneInv(k)'
  BY DEF TypeOK, CloneInv, ContinuationInv, PipelineInv, Continuing, Final, Faulted, TaskOver
<1>3. ASSUME NEW k \in Records PROVE ContinuationInv(k)'
  BY DEF TypeOK, CloneInv, ContinuationInv, PipelineInv, Continuing, Final, Faulted, TaskOver
<1>4. PipelineInv'
  BY DEF TypeOK, ContinuationInv, PipelineInv, Continuing, Final, Faulted, TaskOver
<1> QED
  BY <1>1, <1>2, <1>3, <1>4

\* The task that starts is one that did not run.
LEMMA InvokeCloneInv ==
  ASSUME JobInv, InvokeClone
  PROVE  JobInv'
<1> USE AsyncJobAssumption DEF AsyncJobAssumption, JobInv, InvokeClone, At, pipeline, streams, Records
<1>1. TypeOK'
  BY DEF TypeOK, CloneInv, ContinuationInv, PipelineInv, Continuing, Final, Faulted, TaskOver
<1>2. ASSUME NEW k \in Records PROVE CloneInv(k)'
  BY DEF TypeOK, CloneInv, ContinuationInv, PipelineInv, Continuing, Final, Faulted, TaskOver
<1>3. ASSUME NEW k \in Records PROVE ContinuationInv(k)'
  BY DEF TypeOK, CloneInv, ContinuationInv, PipelineInv, Continuing, Final, Faulted, TaskOver
<1>4. PipelineInv'
  <2>1. pipe' \in {"create", "invoke", "monitor", "continue"} =>
          record' \in Records /\ continuation'[record'] = "none"
    BY DEF TypeOK, PipelineInv
  <2>2. pipe' \in {"create", "invoke"} => task'[record'] = "none"
    BY DEF TypeOK, PipelineInv
  <2>3. ASSUME NEW k \in Records, k > record'
        PROVE  task'[k] = "none" /\ continuation'[k] = "none"
    <3>1. k > record /\ record \in {0} \cup Records /\ task[k] = "none" /\ continuation[k] = "none"
      BY <2>3 DEF TypeOK, PipelineInv
    <3> QED
      BY <2>3, <3>1 DEF TypeOK, PipelineInv
  <2> QED
    BY <2>1, <2>2, <2>3 DEF PipelineInv
<1> QED
  BY <1>1, <1>2, <1>3, <1>4

\* The state of a job whose continuation does not exist was not final.
LEMMA MonitorRunningInv ==
  ASSUME JobInv, MonitorRunning
  PROVE  JobInv'
<1> USE AsyncJobAssumption DEF AsyncJobAssumption, JobInv, MonitorRunning, At, pipeline, streams, Records
<1>1. TypeOK'
  BY DEF TypeOK, CloneInv, ContinuationInv, PipelineInv, Continuing, Final, Faulted, TaskOver
<1>2. ASSUME NEW k \in Records PROVE CloneInv(k)'
  BY DEF TypeOK, CloneInv, ContinuationInv, PipelineInv, Continuing, Final, Faulted, TaskOver
<1>3. ASSUME NEW k \in Records PROVE ContinuationInv(k)'
  BY DEF TypeOK, CloneInv, ContinuationInv, PipelineInv, Continuing, Final, Faulted, TaskOver
<1>4. PipelineInv'
  BY DEF TypeOK, ContinuationInv, PipelineInv, Continuing, Final, Faulted, TaskOver
<1> QED
  BY <1>1, <1>2, <1>3, <1>4

\* A job gets its continuation once.
LEMMA MonitorContinueInv ==
  ASSUME JobInv, MonitorContinue
  PROVE  JobInv'
<1> USE AsyncJobAssumption DEF AsyncJobAssumption, JobInv, MonitorContinue, At, pipeline, streams, Records
<1>1. TypeOK'
  BY DEF TypeOK, CloneInv, ContinuationInv, PipelineInv, Continuing, Final, Faulted, TaskOver
<1>2. ASSUME NEW k \in Records PROVE CloneInv(k)'
  BY DEF TypeOK, CloneInv, ContinuationInv, PipelineInv, Continuing, Final, Faulted, TaskOver
<1>3. ASSUME NEW k \in Records PROVE ContinuationInv(k)'
  BY DEF TypeOK, CloneInv, ContinuationInv, PipelineInv, Continuing, Final, Faulted, TaskOver
<1>4. PipelineInv'
  <2>1. pipe' \in {"create", "invoke", "monitor", "continue"} =>
          record' \in Records /\ continuation'[record'] = "none"
    BY DEF TypeOK, PipelineInv
  <2>2. pipe' \in {"create", "invoke"} => task'[record'] = "none"
    BY DEF TypeOK, PipelineInv
  <2>3. ASSUME NEW k \in Records, k > record'
        PROVE  task'[k] = "none" /\ continuation'[k] = "none"
    <3>1. k > record /\ record \in {0} \cup Records /\ task[k] = "none" /\ continuation[k] = "none"
      BY <2>3 DEF TypeOK, PipelineInv
    <3> QED
      BY <2>3, <3>1 DEF TypeOK, PipelineInv
  <2> QED
    BY <2>1, <2>2, <2>3 DEF PipelineInv
<1> QED
  BY <1>1, <1>2, <1>3, <1>4

\* Returning the job changes nothing about it.
LEMMA WriteJobInv ==
  ASSUME JobInv, WriteJob
  PROVE  JobInv'
<1> USE AsyncJobAssumption DEF AsyncJobAssumption, JobInv, WriteJob, At, pipeline, streams, Records
<1>1. TypeOK'
  BY DEF TypeOK, CloneInv, ContinuationInv, PipelineInv, Continuing, Final, Faulted, TaskOver
<1>2. ASSUME NEW k \in Records PROVE CloneInv(k)'
  BY DEF TypeOK, CloneInv, ContinuationInv, PipelineInv, Continuing, Final, Faulted, TaskOver
<1>3. ASSUME NEW k \in Records PROVE ContinuationInv(k)'
  BY DEF TypeOK, CloneInv, ContinuationInv, PipelineInv, Continuing, Final, Faulted, TaskOver
<1>4. PipelineInv'
  BY DEF TypeOK, ContinuationInv, PipelineInv, Continuing, Final, Faulted, TaskOver
<1> QED
  BY <1>1, <1>2, <1>3, <1>4

-----------------------------------------------------------------------------
(* The clone.                                                              *)

\* A write starts only while the job is neither cancelled nor over.
LEMMA WriteObjectInv ==
  ASSUME JobInv, NEW j \in Records, WriteObject(j)
  PROVE  JobInv'
<1> USE AsyncJobAssumption DEF AsyncJobAssumption, JobInv, WriteObject, CheckForCancellation, IsJobDone, Idle, pipeline, streams
<1>1. TypeOK'
  BY DEF TypeOK, CloneInv, ContinuationInv, PipelineInv, Continuing, Final, Faulted, TaskOver
<1>2. ASSUME NEW k \in Records PROVE CloneInv(k)'
  BY DEF TypeOK, CloneInv, ContinuationInv, PipelineInv, Continuing, Final, Faulted, TaskOver
<1>3. ASSUME NEW k \in Records PROVE ContinuationInv(k)'
  BY DEF TypeOK, CloneInv, ContinuationInv, PipelineInv, Continuing, Final, Faulted, TaskOver
<1>4. PipelineInv'
  BY DEF TypeOK, ContinuationInv, PipelineInv, Continuing, Final, Faulted, TaskOver
<1> QED
  BY <1>1, <1>2, <1>3, <1>4

\* So does a write to a capped stream.
LEMMA WriteDebugInv ==
  ASSUME JobInv, NEW j \in Records, WriteDebug(j)
  PROVE  JobInv'
<1> USE AsyncJobAssumption DEF AsyncJobAssumption, JobInv, WriteDebug, CheckForCancellation, IsJobDone, Idle, pipeline, streams
<1>1. TypeOK'
  BY DEF TypeOK, CloneInv, ContinuationInv, PipelineInv, Continuing, Final, Faulted, TaskOver
<1>2. ASSUME NEW k \in Records PROVE CloneInv(k)'
  BY DEF TypeOK, CloneInv, ContinuationInv, PipelineInv, Continuing, Final, Faulted, TaskOver
<1>3. ASSUME NEW k \in Records PROVE ContinuationInv(k)'
  BY DEF TypeOK, CloneInv, ContinuationInv, PipelineInv, Continuing, Final, Faulted, TaskOver
<1>4. PipelineInv'
  BY DEF TypeOK, ContinuationInv, PipelineInv, Continuing, Final, Faulted, TaskOver
<1> QED
  BY <1>1, <1>2, <1>3, <1>4

\* The object under way reaches an open stream.
LEMMA AddObjectInv ==
  ASSUME JobInv, NEW j \in Records, AddObject(j)
  PROVE  JobInv'
<1> USE AsyncJobAssumption DEF AsyncJobAssumption, JobInv, AddObject, pipeline
<1>1. TypeOK'
  BY DEF TypeOK, CloneInv, ContinuationInv, PipelineInv, Continuing, Final, Faulted, TaskOver
<1>2. ASSUME NEW k \in Records PROVE CloneInv(k)'
  BY DEF TypeOK, CloneInv, ContinuationInv, PipelineInv, Continuing, Final, Faulted, TaskOver
<1>3. ASSUME NEW k \in Records PROVE ContinuationInv(k)'
  BY DEF TypeOK, CloneInv, ContinuationInv, PipelineInv, Continuing, Final, Faulted, TaskOver
<1>4. PipelineInv'
  BY DEF TypeOK, ContinuationInv, PipelineInv, Continuing, Final, Faulted, TaskOver
<1> QED
  BY <1>1, <1>2, <1>3, <1>4

\* A capped stream never holds more than its cap.
LEMMA AddDebugInv ==
  ASSUME JobInv, NEW j \in Records, AddDebug(j)
  PROVE  JobInv'
<1> USE AsyncJobAssumption DEF AsyncJobAssumption, JobInv, AddDebug, HasRoom, pipeline
<1>1. TypeOK'
  BY DEF TypeOK, CloneInv, ContinuationInv, PipelineInv, Continuing, Final, Faulted, TaskOver
<1>2. ASSUME NEW k \in Records PROVE CloneInv(k)'
  BY DEF TypeOK, CloneInv, ContinuationInv, PipelineInv, Continuing, Final, Faulted, TaskOver
<1>3. ASSUME NEW k \in Records PROVE ContinuationInv(k)'
  BY DEF TypeOK, CloneInv, ContinuationInv, PipelineInv, Continuing, Final, Faulted, TaskOver
<1>4. PipelineInv'
  BY DEF TypeOK, ContinuationInv, PipelineInv, Continuing, Final, Faulted, TaskOver
<1> QED
  BY <1>1, <1>2, <1>3, <1>4

\* An error of a running task reaches an open stream.
LEMMA WriteErrorInv ==
  ASSUME JobInv, NEW j \in Records, WriteError(j)
  PROVE  JobInv'
<1> USE AsyncJobAssumption DEF AsyncJobAssumption, JobInv, WriteError, Idle, AddError, pipeline
<1>1. TypeOK'
  BY DEF TypeOK, CloneInv, ContinuationInv, PipelineInv, Continuing, Final, Faulted, TaskOver
<1>2. ASSUME NEW k \in Records PROVE CloneInv(k)'
  BY DEF TypeOK, CloneInv, ContinuationInv, PipelineInv, Continuing, Final, Faulted, TaskOver
<1>3. ASSUME NEW k \in Records PROVE ContinuationInv(k)'
  BY DEF TypeOK, CloneInv, ContinuationInv, PipelineInv, Continuing, Final, Faulted, TaskOver
<1>4. PipelineInv'
  BY DEF TypeOK, ContinuationInv, PipelineInv, Continuing, Final, Faulted, TaskOver
<1> QED
  BY <1>1, <1>2, <1>3, <1>4

\* The task ends with no write under way and before its continuation.
LEMMA EndTaskInv ==
  ASSUME JobInv, NEW j \in Records, EndTask(j)
  PROVE  JobInv'
<1> USE AsyncJobAssumption DEF AsyncJobAssumption, JobInv, EndTask, Idle, pipeline, streams
<1>1. TypeOK'
  BY DEF TypeOK, CloneInv, ContinuationInv, PipelineInv, Continuing, Final, Faulted, TaskOver
<1>2. ASSUME NEW k \in Records PROVE CloneInv(k)'
  BY DEF TypeOK, CloneInv, ContinuationInv, PipelineInv, Continuing, Final, Faulted, TaskOver
<1>3. ASSUME NEW k \in Records PROVE ContinuationInv(k)'
  BY DEF TypeOK, CloneInv, ContinuationInv, PipelineInv, Continuing, Final, Faulted, TaskOver
<1>4. PipelineInv'
  BY DEF TypeOK, ContinuationInv, PipelineInv, Continuing, Final, Faulted, TaskOver
<1> QED
  BY <1>1, <1>2, <1>3, <1>4

-----------------------------------------------------------------------------
(* The continuation.                                                       *)

\* The continuation starts on what the task ended with.
LEMMA StartContinuationInv ==
  ASSUME JobInv, NEW j \in Records, StartContinuation(j)
  PROVE  JobInv'
<1> USE AsyncJobAssumption DEF AsyncJobAssumption, JobInv, StartContinuation, Continue, pipeline, streams
<1>1. TypeOK'
  BY DEF TypeOK, CloneInv, ContinuationInv, PipelineInv, Continuing, Final, Faulted, TaskOver
<1>2. ASSUME NEW k \in Records PROVE CloneInv(k)'
  BY DEF TypeOK, CloneInv, ContinuationInv, PipelineInv, Continuing, Final, Faulted, TaskOver
<1>3. ASSUME NEW k \in Records PROVE ContinuationInv(k)'
  BY DEF TypeOK, CloneInv, ContinuationInv, PipelineInv, Continuing, Final, Faulted, TaskOver
<1>4. PipelineInv'
  BY DEF TypeOK, ContinuationInv, PipelineInv, Continuing, Final, Faulted, TaskOver
<1> QED
  BY <1>1, <1>2, <1>3, <1>4

\* The errors of a fault are added before the state closes their stream.
LEMMA WriteErrorsInv ==
  ASSUME JobInv, NEW j \in Records, WriteErrors(j)
  PROVE  JobInv'
<1> USE AsyncJobAssumption DEF AsyncJobAssumption, JobInv, WriteErrors, Continue, AddError, pipeline
<1>1. TypeOK'
  BY DEF TypeOK, CloneInv, ContinuationInv, PipelineInv, Continuing, Final, Faulted, TaskOver
<1>2. ASSUME NEW k \in Records PROVE CloneInv(k)'
  BY DEF TypeOK, CloneInv, ContinuationInv, PipelineInv, Continuing, Final, Faulted, TaskOver
<1>3. ASSUME NEW k \in Records PROVE ContinuationInv(k)'
  BY DEF TypeOK, CloneInv, ContinuationInv, PipelineInv, Continuing, Final, Faulted, TaskOver
<1>4. PipelineInv'
  BY DEF TypeOK, ContinuationInv, PipelineInv, Continuing, Final, Faulted, TaskOver
<1> QED
  BY <1>1, <1>2, <1>3, <1>4

\* A job fails after a fault was told.
LEMMA SetFailedInv ==
  ASSUME JobInv, NEW j \in Records, SetFailed(j)
  PROVE  JobInv'
<1> USE AsyncJobAssumption DEF AsyncJobAssumption, JobInv, SetFailed, Continue, pipeline, streams
<1>1. TypeOK'
  BY DEF TypeOK, CloneInv, ContinuationInv, PipelineInv, Continuing, Final, Faulted, TaskOver
<1>2. ASSUME NEW k \in Records PROVE CloneInv(k)'
  BY DEF TypeOK, CloneInv, ContinuationInv, PipelineInv, Continuing, Final, Faulted, TaskOver
<1>3. ASSUME NEW k \in Records PROVE ContinuationInv(k)'
  BY DEF TypeOK, CloneInv, ContinuationInv, PipelineInv, Continuing, Final, Faulted, TaskOver
<1>4. PipelineInv'
  BY DEF TypeOK, ContinuationInv, PipelineInv, Continuing, Final, Faulted, TaskOver
<1> QED
  BY <1>1, <1>2, <1>3, <1>4

\* A job completes without one.
LEMMA SetCompletedInv ==
  ASSUME JobInv, NEW j \in Records, SetCompleted(j)
  PROVE  JobInv'
<1> USE AsyncJobAssumption DEF AsyncJobAssumption, JobInv, SetCompleted, Continue, pipeline, streams
<1>1. TypeOK'
  BY DEF TypeOK, CloneInv, ContinuationInv, PipelineInv, Continuing, Final, Faulted, TaskOver
<1>2. ASSUME NEW k \in Records PROVE CloneInv(k)'
  BY DEF TypeOK, CloneInv, ContinuationInv, PipelineInv, Continuing, Final, Faulted, TaskOver
<1>3. ASSUME NEW k \in Records PROVE ContinuationInv(k)'
  BY DEF TypeOK, CloneInv, ContinuationInv, PipelineInv, Continuing, Final, Faulted, TaskOver
<1>4. PipelineInv'
  BY DEF TypeOK, ContinuationInv, PipelineInv, Continuing, Final, Faulted, TaskOver
<1> QED
  BY <1>1, <1>2, <1>3, <1>4

-----------------------------------------------------------------------------
(* Cancellation.                                                           *)

\* A stop drops the continuations that have not started and finds no late write.
LEMMA StopJobInv ==
  ASSUME JobInv, NEW j \in Records, StopJob(j)
  PROVE  JobInv'
<1> USE AsyncJobAssumption DEF AsyncJobAssumption, JobInv, StopJob, Cancel, streams, pipeline
<1>1. TypeOK'
  BY DEF TypeOK, CloneInv, ContinuationInv, PipelineInv, Continuing, Final, Faulted, TaskOver
<1>2. ASSUME NEW k \in Records PROVE CloneInv(k)'
  BY DEF TypeOK, CloneInv, ContinuationInv, PipelineInv, Continuing, Final, Faulted, TaskOver
<1>3. ASSUME NEW k \in Records PROVE ContinuationInv(k)'
  BY DEF TypeOK, CloneInv, ContinuationInv, PipelineInv, Continuing, Final, Faulted, TaskOver
<1>4. PipelineInv'
  BY DEF TypeOK, ContinuationInv, PipelineInv, Continuing, Final, Faulted, TaskOver
<1> QED
  BY <1>1, <1>2, <1>3, <1>4

\* So does the cancellation of the cmdlet.
LEMMA StopProcessingInv ==
  ASSUME JobInv, StopProcessing
  PROVE  JobInv'
<1> USE AsyncJobAssumption DEF AsyncJobAssumption, JobInv, StopProcessing, Cancel, streams, pipeline
<1>1. TypeOK'
  BY DEF TypeOK, CloneInv, ContinuationInv, PipelineInv, Continuing, Final, Faulted, TaskOver
<1>2. ASSUME NEW k \in Records PROVE CloneInv(k)'
  BY DEF TypeOK, CloneInv, ContinuationInv, PipelineInv, Continuing, Final, Faulted, TaskOver
<1>3. ASSUME NEW k \in Records PROVE ContinuationInv(k)'
  BY DEF TypeOK, CloneInv, ContinuationInv, PipelineInv, Continuing, Final, Faulted, TaskOver
<1>4. PipelineInv'
  BY DEF TypeOK, ContinuationInv, PipelineInv, Continuing, Final, Faulted, TaskOver
<1> QED
  BY <1>1, <1>2, <1>3, <1>4

-----------------------------------------------------------------------------
(* The theorems.                                                           *)

\* Every step of every thread keeps the invariant.
LEMMA NextJobInv == JobInv /\ [Next]_vars => JobInv'
<1> SUFFICES ASSUME JobInv, [Next]_vars PROVE JobInv'
  OBVIOUS
<1>1. CASE PipelineStep
  BY <1>1, StartRecordInv, CreateJobInv, InvokeCloneInv, MonitorRunningInv,
     MonitorContinueInv, WriteJobInv DEF PipelineStep
<1>2. CASE StopProcessing
  BY <1>2, StopProcessingInv
<1>3. ASSUME NEW j \in Records, Signals(j) PROVE JobInv'
  BY <1>3, WriteDebugInv, AddDebugInv, AddObjectInv DEF Signals
<1>4. ASSUME NEW j \in Records, WriteObject(j) \/ WriteError(j) \/ EndTask(j) PROVE JobInv'
  BY <1>4, WriteObjectInv, WriteErrorInv, EndTaskInv
<1>5. ASSUME NEW j \in Records, ContinuationStep(j) PROVE JobInv'
  BY <1>5, StartContinuationInv, WriteErrorsInv, SetFailedInv, SetCompletedInv
     DEF ContinuationStep
<1>6. ASSUME NEW j \in Records, StopJob(j) PROVE JobInv'
  BY <1>6, StopJobInv
<1>7. CASE UNCHANGED vars
  BY <1>7 DEF JobInv, TypeOK, CloneInv, ContinuationInv, PipelineInv, vars
<1> QED
  BY <1>1, <1>2, <1>3, <1>4, <1>5, <1>6, <1>7 DEF Next

\* The invariant holds in every reachable state.
LEMMA JobInvariant == Spec => []JobInv
  BY InitJobInv, NextJobInv, PTL DEF Spec

\* The types of AsyncJob: no capped stream outgrows its cap, and no job gets more
\* errors than its cmdlet wrote and its fault told.
THEOREM TypeCorrect == Spec => []TypeOK
<1>1. JobInv => TypeOK
  BY DEF JobInv
<1> QED
  BY <1>1, JobInvariant, PTL

\* A job that has ended holds every object and error whose write returned.
THEOREM WritesKept == Spec => []NothingLost
<1>1. JobInv => NothingLost
  BY DEF JobInv, CloneInv, NothingLost
<1> QED
  BY <1>1, JobInvariant, PTL

\* A failed job has a faulted task and an error that tells so, a completed one
\* neither failed nor was refused.
THEOREM FailuresTold == Spec => []FailureTold
<1>1. JobInv => FailureTold
  BY DEF JobInv, ContinuationInv, FailureTold
<1> QED
  BY <1>1, JobInvariant, PTL

\* However many objects the cmdlet writes, a cancelled job gets at most one more.
THEOREM StoppedQuiet == Spec => []StoppedJobIsQuiet
<1>1. JobInv => StoppedJobIsQuiet
  BY DEF JobInv, CloneInv, StoppedJobIsQuiet
<1> QED
  BY <1>1, JobInvariant, PTL
=============================================================================
