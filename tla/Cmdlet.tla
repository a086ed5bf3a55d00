------------------------------- MODULE Cmdlet -------------------------------
(***************************************************************************)
(* The class generated for a cmdlet (cmdlets/class.ts) and the module class *)
(* it takes its pipeline from (module/module-class.ts).                     *)
(*                                                                         *)
(* "Main" is the pipeline thread of PowerShell: BeginProcessing, then       *)
(* ProcessRecord for every input, then EndProcessing.  ProcessRecord starts *)
(* ProcessRecordAsync, the task, and serves its writes until it ends        *)
(* (AsyncCommandRuntime, whose own steps are the module of that name).  The *)
(* operation method is reduced to its outcomes (see OperationCall).  The    *)
(* user, a listener or -NoWait may cancel; other cmdlets of the module      *)
(* begin at any time, as they do in another runspace.                       *)
(***************************************************************************)
EXTENDS Naturals, Sequences, FiniteSets

CONSTANTS
  Cmdlets, \* the generated classes and the way they are invoked
  Records, \* inputs of the cmdlet (bound)
  Pages    \* pages told apart (bound): later ones count as the last

ASSUME CmdletAssumption ==
  /\ Cmdlets \subseteq
       [writable : BOOLEAN,       \* NewIsWritableCmdlet
        pageable : BOOLEAN,       \* the response has a value and a next link
        viaIdentity : BOOLEAN,
        noWait : BOOLEAN,         \* it can be long running, and -NoWait is given
        subscriptions : {1, 2},   \* foreach (var SubscriptionId in this.SubscriptionId)
        exceptions : {"none", "default", "specific"}, \* declared by the operation
        custom : BOOLEAN,         \* BeforeCreatePipeline supplies a pipeline of its own
        proxy : {"none", "own"}]
  /\ Records \in Nat \ {0} /\ Pages \in Nat \ {0}

VARIABLES
  cmd,       \* the cmdlet: a member of Cmdlets
  handler,   \* the HttpClientHandler all cmdlets share: address, useProxy
  overtaken, \* another cmdlet has set the proxy since this one began
  shared,    \* the pipelines of the module, and the custom one
  main,      \* where Main is
  record,    \* inputs taken
  cancelled, \* the token, which belongs to the cmdlet, not to the record
  stopped,   \* PowerShell is stopping the pipeline
  pc,        \* where the task is
  fails,     \* how the task ends: "no", "caught", "canceled", "fault"
  pipeline,  \* this.Pipeline
  left,      \* subscriptions to go
  page,      \* the page being handled
  more,      \* it has a next link
  output,    \* pages written for this subscription, in order
  owed,      \* responses and failures of this record that nothing was told of
  late       \* sends begun after the cancellation

vars == <<cmd, handler, overtaken, shared, main, record, cancelled, stopped, pc, fails,
          pipeline, left, page, more, output, owed, late>>

module == <<handler, overtaken, shared>>
input == <<record, stopped>>
paging == <<left, page, more, output>>

\* Steps of the pipelines: those of the module (AzAccounts), of the custom
\* pipeline, of the request, and of the user's parameters.  CmdInfoHandler
\* steps carry their record.
Info(r) == <<"info", r>>
Parameter == {"prepend1", "prepend2", "append1", "append2"}
ModuleSteps == {"sign", "agent", "custom", "request"}
H == INSTANCE HttpPipeline WITH
       Steps <- Parameter \cup ModuleSteps \cup {Info(r) : r \in 1..Records},
       Terminals <- {"direct", "proxied"}

-----------------------------------------------------------------------------
(* The module class.                                                       *)

\* Init: OnModuleLoad prepends and appends to both pipelines.
Loaded(terminal) == H!AppendStep(H!Prepend(H!NewPipeline(terminal), "sign"), "agent")

\* A custom pipeline has been in use before.
Shared == [direct |-> Loaded("direct"), proxied |-> Loaded("proxied"),
           custom |-> H!Built(H!Prepend(H!NewPipeline("direct"), "custom"))]

\* SetProxyConfiguration: _webProxy.Address = proxy; then
\* _handler.UseProxy = proxy != null.
SetAddress(proxy) == [handler EXCEPT !.address = proxy]
UseProxy(proxy) == [handler EXCEPT !.useProxy = proxy # "none"]

\* BeforeCreatePipeline, or one of the two pipelines.
Source == IF cmd.custom THEN "custom" ELSE IF handler.useProxy THEN "proxied" ELSE "direct"

\* (pipeline ?? (UseProxy ? _pipelineWithProxy : _pipeline)).Clone(), the steps of
\* the request, and in ProcessRecordAsync those of the parameters.
ForRequest(p) ==
  H!AppendAll(H!PrependAll(H!Prepend(H!AppendStep(p, Info(record)), "request"),
                           <<"prepend1", "prepend2">>),
              <<"append1", "append2">>)

CreatePipeline_Shared ==
  /\ pipeline' = ForRequest(shared[Source])
  /\ shared' = [shared EXCEPT ![Source] = pipeline']
CreatePipeline == pipeline' = ForRequest(H!Clone(shared[Source])) /\ UNCHANGED shared

Init ==
  /\ cmd \in Cmdlets
  /\ handler \in [address : {"none", "other"}, useProxy : BOOLEAN]
  /\ handler.useProxy = (handler.address # "none")
  /\ overtaken = FALSE /\ shared = Shared
  /\ main = "begin" /\ record = 0 /\ cancelled = FALSE /\ stopped = FALSE
  /\ pc = "none" /\ fails = "no" /\ pipeline = H!NewPipeline("direct")
  /\ left = 0 /\ page = 0 /\ more = FALSE /\ output = <<>> /\ owed = {} /\ late = 0

-----------------------------------------------------------------------------
(* Main.                                                                   *)

MainGoto(from, to) == main = from /\ main' = to

\* listener.Signal(...).Wait(); if cancelled return;  A listener that throws makes
\* the method throw: PowerShell ends the pipeline.
SyncSignal(from, to, back) ==
  \/ ~cancelled /\ MainGoto(from, to)
  \/ cancelled /\ MainGoto(from, back)
  \/ MainGoto(from, "over")

unchangedTask == UNCHANGED <<pc, fails, pipeline, paging, late>>

BeginAddress ==
  /\ MainGoto("begin", "useProxy") /\ handler' = SetAddress(cmd.proxy) /\ overtaken' = FALSE
  /\ UNCHANGED <<cmd, shared, input, cancelled, owed>> /\ unchangedTask

BeginUseProxy ==
  /\ MainGoto("useProxy", "beginSignal") /\ handler' = UseProxy(cmd.proxy)
  /\ UNCHANGED <<cmd, overtaken, shared, input, cancelled, owed>> /\ unchangedTask

BeginSignal ==
  /\ SyncSignal("beginSignal", "input", "input")
  /\ UNCHANGED <<cmd, module, input, cancelled, owed>> /\ unchangedTask

\* PowerShell calls ProcessRecord for the next input, or is done.
NextInput ==
  /\ \/ /\ ~stopped /\ record < Records
        /\ MainGoto("input", "recordStart") /\ record' = record + 1
     \/ MainGoto("input", IF stopped THEN "over" ELSE "endSignal") /\ UNCHANGED record
  /\ owed' = {}
  /\ UNCHANGED <<cmd, module, stopped, cancelled>> /\ unchangedTask

RecordStart ==
  /\ SyncSignal("recordStart", "confirm", "input")
  /\ UNCHANGED <<cmd, module, input, cancelled, owed>> /\ unchangedTask

\* ShouldProcess may decline.  Otherwise ProcessRecordAsync begins.
StartTask ==
  /\ \/ /\ MainGoto("confirm", "waiting") /\ pc' = "start" /\ fails' = "no"
        /\ left' = cmd.subscriptions /\ page' = 0 /\ more' = FALSE /\ output' = <<>>
     \/ /\ cmd.writable /\ MainGoto("confirm", "recordEnd")
        /\ UNCHANGED <<pc, fails, paging>>
  /\ UNCHANGED <<cmd, module, input, cancelled, owed, pipeline, late>>

\* Wait returns when the task is completed and throws what it faulted with; a
\* canceled task is not faulted.
WaitReturns ==
  /\ pc = "done" /\ MainGoto("waiting", IF fails = "fault" THEN "catch" ELSE "recordEnd")
  /\ UNCHANGED <<cmd, module, input, cancelled, owed>> /\ unchangedTask

Caught ==
  /\ SyncSignal("catch", "writeError", "recordEnd")
  /\ UNCHANGED <<cmd, module, input, cancelled, owed>> /\ unchangedTask

\* WriteError on the pipeline thread, which throws when the pipeline is stopping.
WriteError_Dropped ==
  /\ MainGoto("writeError", "recordEnd")
  /\ UNCHANGED <<cmd, module, input, cancelled, owed>> /\ unchangedTask
WriteError ==
  /\ \/ ~stopped /\ MainGoto("writeError", "recordEnd") /\ owed' = owed \ {"failure"}
     \/ stopped /\ MainGoto("writeError", "leaving") /\ UNCHANGED owed
  /\ UNCHANGED <<cmd, module, input, cancelled>> /\ unchangedTask

\* finally: syncSignalNoCheck, on every way out of the try.
RecordEnd ==
  /\ \/ MainGoto("recordEnd", "input")
     \/ MainGoto("recordEnd", "over") \* a listener throws
     \/ MainGoto("leaving", "over")   \* a PipelineStoppedException passes through
  /\ UNCHANGED <<cmd, module, input, cancelled, owed>> /\ unchangedTask

EndProcessing ==
  /\ MainGoto("endSignal", "over")
  /\ UNCHANGED <<cmd, module, input, cancelled, owed>> /\ unchangedTask

-----------------------------------------------------------------------------
(* The task: ProcessRecordAsync and the response handlers.                 *)

Goto(from, to) == pc = from /\ pc' = to

\* An exception: the finally block if the try was entered, and the task ends with it.
Throw(from, to, how) ==
  /\ Goto(from, to) /\ fails' = how
  /\ owed' = IF how = "fault" THEN owed \cup {"failure"} ELSE owed

\* IEventListener.Signal, which does nothing once cancelled: a verbose, warning,
\* information, debug or error event is written, others go to the module and are
\* then written as debug text.  The module may throw, and a write does when Main
\* has left.
SignalThrows(from, thrown) ==
  \/ Throw(from, thrown, "fault")
  \/ cancelled /\ Throw(from, thrown, "canceled")

\* await listener.Signal(...); if (listener.Token.IsCancellationRequested) return;
Signalled_NoCheck(from, to, back, thrown) ==
  \/ Goto(from, to) /\ UNCHANGED <<fails, owed>>
  \/ Throw(from, thrown, "fault")
Signalled(from, to, back, thrown) ==
  \/ ~cancelled /\ Goto(from, to) /\ UNCHANGED <<fails, owed>>
  \/ cancelled /\ Goto(from, back) /\ UNCHANGED <<fails, owed>>
  \/ SignalThrows(from, thrown)

unchangedMain == UNCHANGED <<cmd, handler, overtaken, main, input>>

TaskStart ==
  /\ \/ Signalled("start", "getPipeline", "done", "done")
     \/ Signalled("getPipeline", "create", "done", "done")
  /\ UNCHANGED <<shared, cancelled, pipeline, paging, late>> /\ unchangedMain

Create ==
  /\ \/ CreatePipeline /\ Goto("create", "before") /\ UNCHANGED <<fails, owed>>
     \/ Throw("create", "done", "fault") /\ UNCHANGED <<pipeline, shared>> \* custom code
  /\ UNCHANGED <<cancelled, paging, late>> /\ unchangedMain

BeforeAPICall ==
  /\ Signalled("before", IF cmd.viaIdentity THEN "identity" ELSE "method", "finally", "finally")
  /\ UNCHANGED <<shared, cancelled, pipeline, paging, late>> /\ unchangedMain

\* InputObject.Id, or its members, one of which may be null: ThrowTerminatingError.
\* That makes Main leave, which the user is told, and leaves the task waiting for
\* the end of its call until the token is cancelled; the call then just returns.
Identity ==
  /\ \/ Goto("identity", "method") /\ UNCHANGED <<main, fails, owed>>
     \/ ~cancelled /\ main = "waiting" /\ Goto("identity", "stranded")
        /\ main' = "leaving" /\ UNCHANGED <<fails, owed>>
     \/ cancelled /\ Throw("identity", "finally", "canceled") /\ UNCHANGED main
     \/ cancelled /\ Goto("stranded", "method") /\ UNCHANGED <<main, fails, owed>>
  /\ UNCHANGED <<cmd, module, input, cancelled, pipeline, paging, late>>

\* The operation method, up to its first send; returning early leads to AfterAPICall.
Method ==
  /\ Signalled("method", "send", "after", "finally")
  /\ UNCHANGED <<shared, cancelled, pipeline, paging, late>> /\ unchangedMain

\* X_Call: sender.SendAsync(request, listener).
Send ==
  /\ Goto("send", "awaiting") /\ pipeline' = H!Built(pipeline)
  /\ late' = IF cancelled THEN late + 1 ELSE late
  /\ UNCHANGED <<shared, cancelled, fails, owed, paging>> /\ unchangedMain

\* What X_Call comes up with: a call of a response handler, with -NoWait when the first
\* response says that it is over ...
Called ==
  /\ Goto("awaiting", "handle") /\ owed' = owed \cup {"response"}
  /\ page' = (IF page < Pages THEN page + 1 ELSE page)
  /\ more' \in {FALSE, cmd.pageable}
  /\ UNCHANGED fails

\* ... no call because the token is cancelled, or because the switch has no case for the
\* response and, with specific exceptions only, no default; UndeclaredResponseException;
\* another exception; or OperationCanceledException, which a timeout of HttpClient is too.
NotCalled ==
  /\ \/ cancelled /\ Goto("awaiting", "after") /\ UNCHANGED <<fails, owed>>
     \/ /\ cmd.exceptions = "specific" /\ Goto("awaiting", "after")
        /\ owed' = owed \cup {"unhandled"} /\ UNCHANGED fails
     \/ Goto("awaiting", "undeclared") /\ owed' = owed \cup {"failure"} /\ fails' = "caught"
     \/ Throw("awaiting", "finally", "fault")
     \/ /\ Goto("awaiting", "finally") /\ fails' = "canceled"
        /\ owed' = (IF cancelled THEN owed ELSE owed \cup {"timeout"})
  /\ UNCHANGED <<page, more>>

Answer ==
  /\ Called \/ NotCalled
  /\ UNCHANGED <<shared, cancelled, pipeline, left, output, late>> /\ unchangedMain

\* DelayBeforePolling with -NoWait: WriteObject(AsyncOperationResponse), data.Cancel().
NoWait ==
  /\ cmd.noWait /\ ~cancelled /\ main = "waiting"
  /\ Goto("awaiting", "after") /\ cancelled' = TRUE
  /\ UNCHANGED <<shared, fails, owed, pipeline, paging, late>> /\ unchangedMain

\* A response handler: an override may take over; an error response is an error
\* record with the code and message found in it, or made up; a page of a pageable
\* response is written, enumerated; an object is written, or copied to OutFile; and
\* without a schema there is only what -PassThru asks for.
Override == ~more /\ Goto("handle", "after")
ErrorResponse == ~more /\ Goto("handle", "write")
PageResponse_LinkFirst == cmd.pageable /\ Goto("handle", IF more THEN "nextLink" ELSE "write")
PageResponse == cmd.pageable /\ Goto("handle", "write")
ObjectResponse == ~cmd.pageable /\ Goto("handle", "write")
BinaryResponse == ~cmd.pageable /\ pc = "handle" /\ pc' \in {"write", "after"}
NoResponse == ~cmd.pageable /\ pc = "handle" /\ pc' \in {"write", "after"}

\* Whatever the handler does may throw.
Handle ==
  /\ \/ /\ \/ Override \/ ErrorResponse \/ PageResponse
           \/ ObjectResponse \/ BinaryResponse \/ NoResponse
        /\ owed' = (IF pc' = "after" THEN owed \ {"response"} ELSE owed) /\ UNCHANGED fails
     \/ Throw("handle", "finally", "fault")
  /\ UNCHANGED <<shared, cancelled, pipeline, paging, late>> /\ unchangedMain

\* WriteObject and WriteError on a worker: refused once the token is cancelled, or
\* once Main is gone and PowerShell's own runtime is back.
Write(from, to) ==
  \/ ~cancelled /\ main = "waiting" /\ Goto(from, to) /\ UNCHANGED <<fails, owed>>
  \/ cancelled /\ Throw(from, "finally", "canceled")
  \/ main # "waiting" /\ Throw(from, "finally", "fault")

BeginWrite ==
  /\ Write("write", "writing") \/ Write("undeclared", "writingError")
  /\ UNCHANGED <<shared, cancelled, pipeline, paging, late>> /\ unchangedMain

\* Main runs the write, or leaves with the exception of a pipeline that is stopping;
\* a write that is cancelled first returns all the same.
Written(from, to, what) ==
  \/ /\ main = "waiting" /\ ~stopped /\ Goto(from, to)
     /\ owed' = owed \ {what} /\ UNCHANGED <<main, cancelled>>
  \/ main = "waiting" /\ stopped /\ pc = from /\ main' = "leaving" /\ UNCHANGED <<pc, owed, cancelled>>
  \/ cancelled /\ Goto(from, to) /\ UNCHANGED <<main, owed, cancelled>>

WriteResponse ==
  /\ Written("writing", IF more THEN "nextLink" ELSE "after", "response")
  /\ output' = IF owed' # owed /\ Len(output) < Pages THEN Append(output, page) ELSE output
  /\ UNCHANGED <<cmd, module, input, fails, pipeline, left, page, more, late>>

WriteUndeclared ==
  /\ Written("writingError", "finally", "failure")
  /\ UNCHANGED <<cmd, module, input, fails, pipeline, paging, late>>

\* requestMessage.Clone(new Uri(nextLink)), which may throw; Signal; X_Call again.
\* Returning leads through all the callers to AfterAPICall.
FollowNextLink ==
  /\ Signalled("nextLink", "send", "after", "finally")
  /\ UNCHANGED <<shared, cancelled, pipeline, paging, late>> /\ unchangedMain

\* foreach (var SubscriptionId in this.SubscriptionId)
AnotherSubscription == left > 1

AfterAPICall ==
  /\ Signalled("after", IF AnotherSubscription THEN "before" ELSE "finally", "finally", "finally")
  /\ IF pc' = "before" THEN page' = 0 /\ output' = <<>> ELSE UNCHANGED <<page, output>>
  /\ left' = IF fails' = "no" /\ ~cancelled THEN left - 1 ELSE left
  /\ UNCHANGED <<more, shared, cancelled, pipeline, late>> /\ unchangedMain

\* finally: await signalNoCheck, whose exception replaces the one under way.
Finally ==
  /\ \/ Goto("finally", "done") /\ UNCHANGED <<fails, owed>>
     \/ Throw("finally", "done", "fault")
  /\ UNCHANGED <<shared, cancelled, pipeline, paging, late>> /\ unchangedMain

-----------------------------------------------------------------------------
(* The user, the listeners and the other cmdlets of the module.            *)

unchangedAll == UNCHANGED <<cmd, main, record, owed>> /\ unchangedTask

\* StopProcessing: Cancel(), while the pipeline is stopping.
StopProcessing_NoCancel ==
  /\ ~stopped /\ main \notin {"begin", "over"}
  /\ stopped' = TRUE /\ UNCHANGED <<module, cancelled>> /\ unchangedAll
StopProcessing ==
  /\ ~stopped /\ main \notin {"begin", "over"}
  /\ stopped' = TRUE /\ cancelled' = TRUE /\ UNCHANGED module /\ unchangedAll

\* A listener holds IEventListener.Cancel.
Cancel == ~cancelled /\ cancelled' = TRUE /\ UNCHANGED <<module, stopped>> /\ unchangedAll

\* Another cmdlet begins, at once: its own two steps may interleave like ours.
OtherBegins ==
  /\ main # "over"
  /\ \E proxy \in {"none", "other"} :
       handler' \in {SetAddress(proxy), [address |-> proxy, useProxy |-> proxy # "none"]}
  /\ overtaken' = TRUE /\ UNCHANGED <<shared, stopped, cancelled>> /\ unchangedAll

MainStep ==
  \/ BeginAddress \/ BeginUseProxy \/ BeginSignal \/ NextInput \/ RecordStart \/ StartTask
  \/ WaitReturns \/ Caught \/ WriteError \/ RecordEnd \/ EndProcessing

TaskStep ==
  \/ TaskStart \/ Create \/ BeforeAPICall \/ Identity \/ Method \/ Send \/ Answer \/ NoWait
  \/ Handle \/ BeginWrite \/ WriteResponse \/ WriteUndeclared \/ FollowNextLink
  \/ AfterAPICall \/ Finally

Next ==
  \/ MainStep \/ TaskStep \/ StopProcessing \/ Cancel \/ OtherBegins
  \/ main = "over" /\ UNCHANGED vars

Spec == Init /\ [][Next]_vars

\* Main and the task go on when they can: awaits end, and a cancelled send fails.
FairSpec == Spec /\ WF_vars(MainStep) /\ WF_vars(TaskStep)

-----------------------------------------------------------------------------
(* Properties.                                                             *)

\* The types; and by late that once the token is cancelled at most one more request
\* is sent, whatever page or subscription it catches.
TypeOK ==
  /\ cmd \in Cmdlets
  /\ handler \in [address : {"none", "own", "other"}, useProxy : BOOLEAN]
  /\ overtaken \in BOOLEAN /\ cancelled \in BOOLEAN /\ stopped \in BOOLEAN /\ more \in BOOLEAN
  /\ DOMAIN shared = {"direct", "proxied", "custom"}
  /\ main \in {"begin", "useProxy", "beginSignal", "input", "recordStart", "confirm",
               "waiting", "catch", "writeError", "recordEnd", "leaving", "endSignal", "over"}
  /\ pc \in {"none", "start", "getPipeline", "create", "before", "identity", "stranded",
             "method", "send", "awaiting", "handle", "write", "writing", "nextLink", "after",
             "undeclared", "writingError", "finally", "done"}
  /\ fails \in {"no", "caught", "canceled", "fault"}
  /\ record \in 0..Records /\ left \in 0..2 /\ page \in 0..Pages
  /\ output \in Seq(1..Pages) /\ Len(output) <= Pages
  /\ owed \subseteq {"response", "unhandled", "failure", "timeout"}
  /\ late \in 0..1

\* When ProcessRecord returns and nobody has cancelled, every failure was written to
\* the error stream and, where there was none, every subscription was asked and every
\* response handled.  Two things are not told: a send that times out, which ends the task
\* as canceled, and an undeclared response to an operation that declares specific
\* exceptions only, which no handler gets (EveryResponseHandled in OperationCall).
NothingSilent ==
  main = "input" /\ ~cancelled =>
    /\ "failure" \notin owed
    /\ fails # "fault" => "response" \notin owed
    /\ cmd.exceptions # "specific" => "unhandled" \notin owed
    /\ pc = "done" /\ fails = "no" => left = 0

\* The output of a call is its pages, in the order of their links, each once.
PagesInOrder ==
  /\ \A i \in 1..Len(output) : output[i] = i
  /\ pc = "nextLink" /\ ~cancelled => Len(output) = page

\* What a request passes: the user's steps outermost and innermost, and between them
\* those of this record alone, around those of the module.  Nothing of it stays in
\* the pipelines the cmdlets share.  A cmdlet that no other cmdlet of the module has
\* overtaken uses the proxy it was given, and none if it was given none.
OwnPipeline ==
  /\ pc = "awaiting" =>
       LET chain == H!Chain(pipeline)
           inner == IF cmd.custom THEN <<"custom">> ELSE <<"sign", "agent">>
       IN  /\ SubSeq(chain, 1, Len(chain) - 1) =
                <<"prepend2", "prepend1", "request">> \o inner
                  \o <<Info(record), "append1", "append2">>
           /\ ~overtaken /\ ~cmd.custom =>
                chain[Len(chain)] = (IF cmd.proxy = "own" THEN "proxied" ELSE "direct")
  /\ shared = Shared
  /\ pc \in {"before", "method", "send", "awaiting"} /\ ~overtaken /\ cmd.proxy = "own" =>
       cmd.custom \/ handler.address = "own"

\* A user's stop ends the cmdlet and its task, also when the service never runs out
\* of pages.
StopEnds == stopped ~> main = "over" /\ pc \in {"none", "done"}
=============================================================================
