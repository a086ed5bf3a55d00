--------------------------- MODULE OperationCall ---------------------------
(***************************************************************************)
(* llcsharp/operation/method.ts: the pair of methods generated for every   *)
(* operation of a service.  OperationMethod builds the request and awaits  *)
(* X_Call (CallMethod), which sends it, polls while the operation is       *)
(* running, follows up with a final GET, hands the last response to the    *)
(* handler of its status code and disposes what is left.                   *)
(*                                                                         *)
(* Every call runs with a listener whose token the user, a listener or     *)
(* -NoWait may cancel at any time, on a pipeline (external) whose sends    *)
(* may fail, against a service (external) that moves its status monitor as *)
(* it likes.  A step of the model ends at an await or a check of the       *)
(* token.  emitSignals is true, as it is by default.                       *)
(***************************************************************************)
EXTENDS Naturals

CONSTANTS
  Verbs,      \* HTTP methods of the operations considered
  FinalVias,  \* their final-state-via options
  Exceptions, \* what their exceptions declare
  Targets,    \* URIs the service uses as monitors and locations
  None,       \* a missing header, or a uri that is null
  MaxRunning  \* responses that say the operation is running (bound)

ASSUME OperationCallAssumption ==
  /\ Verbs \subseteq {"put", "patch", "post", "delete", "get"}
  /\ FinalVias \subseteq {"original-uri", "location", "azure-async-operation", "default"}
  /\ Exceptions \subseteq {"none", "default", "specific"}
  /\ None \notin Targets /\ "original" \notin Targets /\ None # "original"
  /\ MaxRunning \in Nat

VARIABLES
  op,             \* the operation: verb, final-state-via, lro, declared exceptions; and -NoWait
  pc,             \* where the call is
  cancelled,      \* the listener's token
  request,        \* the request variable: method, uri, live (not disposed)
  response,       \* the response variable: status, state, async, location, live
  answer,         \* what the pipeline has come up with for the send in flight
  openRequests,   \* requests created and not disposed
  openResponses,  \* responses received and not disposed
  asyncOperation, location, finalUri, \* the locals of those names
  service,        \* the service: running responses left, latest monitor and
                  \* location, and what it said of the operation when last polled
  handled,        \* calls of response handlers
  accepted,       \* AsyncOperationResponses written for -NoWait
  outcome,        \* how the call ended
  late            \* sends started after the cancellation

vars == <<op, pc, cancelled, request, response, answer, openRequests, openResponses,
          asyncOperation, location, finalUri, service, handled, accepted, outcome, late>>

request_ == <<request, openRequests>>
response_ == <<response, openResponses>>
locals == <<asyncOperation, location, finalUri>>
results == <<handled, accepted>>

Headers == Targets \cup {None}
Uris == Headers \cup {"original"}

\* "opaque" is a body that is no JSON object or no JSON at all.
States == {"opaque", "none", "failed", "succeeded", "canceled", "running"}
Statuses == {"OK", "Created", "Accepted", "NoContent", "Error"}
Response == [status : Statuses, state : States, async : Headers, location : Headers,
             live : BOOLEAN]
Unanswered(st) ==
  [status |-> st, state |-> "none", async |-> None, location |-> None, live |-> FALSE]
NoResponse == Unanswered("null")

InProgress(r) ==
  r.status \in {"Created", "Accepted"} \/ (r.status = "OK" /\ r.state = "running")

Failed(r) == r.status = "OK" /\ r.state = "failed"

Verdict(r) == IF InProgress(r) THEN "running" ELSE IF Failed(r) THEN "failed" ELSE "over"

\* Status codes with a handler of their own; "specific" exceptions declare an
\* error other than the one the service answers with.
Declared == {"OK", "NoContent", "Accepted"}

Init ==
  /\ op \in [verb : Verbs, via : FinalVias, lro : BOOLEAN, exceptions : Exceptions,
             noWait : BOOLEAN]
  /\ op.noWait => op.lro
  /\ op.lro => op.verb # "get"
  /\ pc = "start" /\ cancelled = FALSE
  /\ request = [method |-> "none", uri |-> None, live |-> FALSE]
  /\ response = NoResponse /\ answer = NoResponse
  /\ openRequests = 0 /\ openResponses = 0
  /\ asyncOperation = None /\ location = None /\ finalUri = None
  /\ service = [left |-> MaxRunning, async |-> None, location |-> None,
                         polled |-> "never"]
  /\ handled = 0 /\ accepted = 0
  /\ outcome = "none" /\ late = 0

-----------------------------------------------------------------------------
(* Shared steps.                                                           *)

Goto(from, to) == pc = from /\ pc' = to

\* An exception or an early return of X_Call goes through its finally block.
Leave(from, how) == Goto(from, "finally") /\ outcome' = how

\* await listener.Signal(...); if (listener.Token.IsCancellationRequested) return;
\* A listener may throw.
Signalled(from, to, leaving) ==
  \/ ~cancelled /\ Goto(from, to) /\ UNCHANGED outcome
  \/ cancelled /\ Goto(from, leaving) /\ outcome' = "cancelled"
  \/ Goto(from, leaving) /\ outcome' = "listener"

\* sender.SendAsync(request, listener) starts a send; the answer comes later.
StartSend(from, to) ==
  /\ Goto(from, to)
  /\ answer' = Unanswered("pending")
  /\ late' = IF cancelled THEN late + 1 ELSE late

\* request = request.CloneAndDispose(uri, Method.Get)
CloneAndDispose(uri) == request' = [method |-> "get", uri |-> uri, live |-> TRUE]

\* _response?.Dispose()
DropResponse ==
  /\ response' = [response EXCEPT !.live = FALSE]
  /\ openResponses' = openResponses - (IF response.live THEN 1 ELSE 0)

-----------------------------------------------------------------------------
(* OperationMethod: the URL, the request, its headers and its body.        *)

ConstructUrl ==
  /\ \/ Signalled("start", "request", "uncalled")
     \/ Goto("start", "uncalled") /\ outcome' = "identity" \* not this operation's id
  /\ UNCHANGED <<op, cancelled, request_, response_, answer, locals, service, results, late>>

CreateRequest ==
  /\ Signalled("request", "headers", "uncalled")
  /\ request' = [method |-> op.verb, uri |-> "original", live |-> TRUE]
  /\ openRequests' = openRequests + 1
  /\ UNCHANGED <<op, cancelled, response_, answer, locals, service, results, late>>

AddHeaders ==
  /\ Signalled("headers", "body", "uncalled")
  /\ UNCHANGED <<op, cancelled, request_, response_, answer, locals, service, results, late>>

SetBody ==
  /\ \/ Signalled("body", "send", "uncalled")
     \/ Goto("body", "send") /\ UNCHANGED outcome \* no body parameter
  /\ UNCHANGED <<op, cancelled, request_, response_, answer, locals, service, results, late>>

-----------------------------------------------------------------------------
(* X_Call: the first send.                                                 *)

\* A step of the pipeline may throw before it returns a task.
Send ==
  /\ \/ StartSend("send", "beforeCall") /\ UNCHANGED outcome
     \/ Leave("send", "send") /\ UNCHANGED <<answer, late>>
  /\ UNCHANGED <<op, cancelled, request_, response_, locals, service, results>>

BeforeCall ==
  /\ Signalled("beforeCall", "awaitSend", "finally")
  /\ UNCHANGED <<op, cancelled, request_, response_, answer, locals, service, results, late>>

\* The pipeline and the service (external): a response, or a send that fails,
\* as it does when the token is cancelled.  An answer nobody awaits any more
\* stays open.
Deliver ==
  /\ answer.status = "pending"
  /\ \/ /\ answer' = Unanswered("failed")
        /\ UNCHANGED <<service, openResponses>>
     \/ \E r \in Response :
          /\ r.live
          /\ r.status # "OK" => r.state = "none"
          /\ InProgress(r) => service.left > 0
          /\ answer' = r
          /\ openResponses' = openResponses + 1
          /\ service' = [left |-> IF InProgress(r) THEN service.left - 1 ELSE service.left,
                         async |-> IF r.async = None THEN service.async ELSE r.async,
                         location |-> IF r.location = None THEN service.location ELSE r.location,
                         polled |-> IF pc = "awaitPoll" THEN Verdict(r) ELSE service.polled]
  /\ UNCHANGED <<op, pc, cancelled, request_, response, locals, results, outcome, late>>

\* _response = await ...; a failed send throws here.
Receive(from, to) ==
  /\ pc = from /\ answer.status # "pending"
  /\ answer' = NoResponse
  /\ \/ answer.status = "failed" /\ Leave(from, "send") /\ UNCHANGED response
     \/ answer.status # "failed" /\ Goto(from, to) /\ response' = answer /\ UNCHANGED outcome
  /\ UNCHANGED <<op, cancelled, request_, openResponses, locals, service, results, late>>

ReceiveResponse == Receive("awaitSend", "created")

ResponseCreated ==
  /\ Signalled("created", IF op.lro THEN "lro" ELSE "dispatch", "finally")
  /\ UNCHANGED <<op, cancelled, request_, response_, answer, locals, service, results, late>>

-----------------------------------------------------------------------------
(* X_Call: long running operations.                                        *)

\* Where the final GET goes: decided by the options of the operation, from the
\* headers of the first response.
FinalUri ==
  CASE op.via = "original-uri" -> "original"
    [] op.via = "location" -> response.location
    [] op.verb \in {"put", "patch"} -> "original"
    [] op.verb \in {"post", "delete"} ->
         IF op.via = "azure-async-operation" THEN response.async ELSE response.location
    [] OTHER -> None

ReadLroHeaders ==
  /\ Goto("lro", "while")
  /\ finalUri' = FinalUri
  /\ asyncOperation' = response.async
  /\ location' = response.location
  /\ UNCHANGED <<op, cancelled, request_, response_, answer, service, results, outcome, late>>

StillRunning_AnyVerb == response.status \in {"OK", "Created", "Accepted"}
StillRunning ==
  \/ request.method = "put" /\ response.status = "OK"
  \/ response.status \in {"Created", "Accepted"}

While ==
  /\ Goto("while", IF StillRunning THEN "delay" ELSE "dispatch")
  /\ UNCHANGED <<op, cancelled, request_, response_, answer, locals, service, results, outcome, late>>

\* The cmdlet's Signal handles this event for -NoWait: it writes an
\* AsyncOperationResponse and cancels.
DelayBeforePolling_NoCancel ==
  /\ Signalled("delay", "prepare", "finally")
  /\ accepted' = IF op.noWait /\ ~cancelled THEN accepted + 1 ELSE accepted
  /\ UNCHANGED <<op, cancelled, request_, response_, answer, locals, service, handled, late>>
DelayBeforePolling ==
  /\ IF op.noWait /\ ~cancelled
     THEN /\ \/ Leave("delay", "cancelled") /\ cancelled' = TRUE /\ accepted' = accepted + 1
             \/ Leave("delay", "listener") /\ UNCHANGED <<cancelled, accepted>>
     ELSE Signalled("delay", "prepare", "finally") /\ UNCHANGED <<cancelled, accepted>>
  /\ UNCHANGED <<op, request_, response_, answer, locals, service, handled, late>>

\* The newest monitor, else the newest location, else the original uri.
PollUri(async, loc) == IF async # None THEN async ELSE IF loc # None THEN loc ELSE "original"

Newest_Once(old, new) == IF old # None THEN old ELSE new
Newest(old, new) == IF new # None THEN new ELSE old

\* The content of the old response is read after the request was replaced, and
\* that may fail.
PreparePoll ==
  /\ \/ Goto("prepare", "waiting") /\ UNCHANGED outcome
     \/ Leave("prepare", "content")
  /\ asyncOperation' = Newest(asyncOperation, response.async)
  /\ location' = Newest(location, response.location)
  /\ CloneAndDispose(PollUri(asyncOperation', location'))
  /\ UNCHANGED <<op, cancelled, openRequests, response_, answer, finalUri, service, results, late>>

\* await waiting: the delay ends, or the token makes it throw, whichever is first.
AwaitDelay ==
  /\ \/ Goto("waiting", "check") /\ UNCHANGED outcome
     \/ cancelled /\ Leave("waiting", "cancelled")
  /\ UNCHANGED <<op, cancelled, request_, response_, answer, locals, service, results, late>>

CheckForCancellation ==
  /\ \/ ~cancelled /\ Goto("check", "poll") /\ UNCHANGED outcome
     \/ cancelled /\ Leave("check", "cancelled")
  /\ UNCHANGED <<op, cancelled, request_, response_, answer, locals, service, results, late>>

Poll ==
  /\ DropResponse /\ StartSend("poll", "awaitPoll")
  /\ UNCHANGED <<op, cancelled, request_, locals, service, results, outcome>>

ReceivePoll_NotAssigned ==
  /\ Goto("awaitPoll", "polled") /\ answer.status # "pending" /\ answer' = NoResponse
  /\ UNCHANGED <<op, cancelled, request_, response_, locals, service, results, outcome, late>>
ReceivePoll == Receive("awaitPoll", "polled")

Polling_NoCheck ==
  /\ \/ Goto("polled", "peek") /\ UNCHANGED outcome
     \/ Leave("polled", "listener")
  /\ UNCHANGED <<op, cancelled, request_, response_, answer, locals, service, results, late>>
Polling ==
  /\ Signalled("polled", "peek", "finally")
  /\ UNCHANGED <<op, cancelled, request_, response_, answer, locals, service, results, late>>

\* The body of an OK tells whether the operation is over; anything else that is
\* not Created or Accepted ends the polling.
PeekFailed_Swallowed == Goto("peek", "final") /\ UNCHANGED <<response, outcome>>
PeekFailed == Leave("peek", "failed") /\ UNCHANGED response

\* The loop goes by the status, which has to be one of a running operation.
KeepPolling_StatusKept == Goto("peek", "while") /\ UNCHANGED <<response, outcome>>
KeepPolling ==
  /\ Goto("peek", "while") /\ UNCHANGED outcome
  /\ response' = [response EXCEPT !.status = "Created"]

Peek ==
  /\ \/ response.status = "OK" /\ response.state = "none"
        /\ Goto("peek", "dispatch") /\ UNCHANGED <<response, outcome>>
     \/ response.status = "OK" /\ response.state = "failed" /\ PeekFailed
     \/ response.status = "OK" /\ response.state = "running" /\ KeepPolling
     \/ response.status = "OK" /\ response.state \in {"opaque", "succeeded", "canceled"}
        /\ Goto("peek", "final") /\ UNCHANGED <<response, outcome>>
     \/ response.status \in {"Created", "Accepted"}
        /\ Goto("peek", "while") /\ UNCHANGED <<response, outcome>>
     \/ response.status \notin {"OK", "Created", "Accepted"}
        /\ Goto("peek", "final") /\ UNCHANGED <<response, outcome>>
  /\ UNCHANGED <<op, cancelled, request_, openResponses, answer, locals, service, results, late>>

\* With a declared option the location is used unguarded: new Uri(null) throws.
\* The polling method is GET now, so without a final GET the loop is left.
FinalGet ==
  /\ \/ /\ finalUri # None
        /\ CloneAndDispose(finalUri) /\ DropResponse
        /\ StartSend("final", "awaitFinal") /\ UNCHANGED outcome
     \/ /\ finalUri = None /\ op.via # "default" /\ Leave("final", "null uri")
        /\ UNCHANGED <<request, response_, answer, late>>
     \/ /\ finalUri = None /\ op.via = "default" /\ Goto("final", "while")
        /\ UNCHANGED <<request, response_, answer, outcome, late>>
  /\ UNCHANGED <<op, cancelled, openRequests, locals, service, results>>

ReceiveFinal == Receive("awaitFinal", "dispatch")

-----------------------------------------------------------------------------
(* X_Call: the response handlers, and the finally block.                   *)

\* switch (_response.StatusCode): the handler of the status, the one of the
\* "default" exception, or, when no exception is declared, a throw.
Undeclared_Silent == Goto("dispatch", "finally") /\ outcome' = "returned"
Undeclared ==
  IF op.exceptions = "none" THEN Leave("dispatch", "undeclared")
                            ELSE Leave("dispatch", "returned")

Dispatch ==
  /\ IF response.status \in Declared \/ op.exceptions = "default"
     THEN Signalled("dispatch", "handle", "finally")
     ELSE Undeclared
  /\ UNCHANGED <<op, cancelled, request_, response_, answer, locals, service, results, late>>

\* The cmdlet's handler; it may throw.
Handle ==
  /\ \E how \in {"returned", "handler"} : Leave("handle", how)
  /\ handled' = handled + 1
  /\ UNCHANGED <<op, cancelled, request_, response_, answer, locals, service, accepted, late>>

\* signalNoCheck, then the two Dispose() calls, which a listener that throws skips.
Finally_OnlyRequest ==
  /\ Goto("finally", "done")
  /\ request' = [request EXCEPT !.live = FALSE] /\ openRequests' = openRequests - 1
  /\ UNCHANGED <<op, cancelled, response_, answer, locals, service, results, outcome, late>>
Finally ==
  /\ Goto("finally", "done")
  /\ \/ /\ DropResponse
        /\ request' = [request EXCEPT !.live = FALSE] /\ openRequests' = openRequests - 1
        /\ UNCHANGED outcome
     \/ outcome' = "finally listener" /\ UNCHANGED <<request_, response_>>
  /\ UNCHANGED <<op, cancelled, answer, locals, service, results, late>>

-----------------------------------------------------------------------------
\* StopProcessing, or anything that holds the listener's Cancel.
Cancel ==
  /\ ~cancelled /\ cancelled' = TRUE
  /\ UNCHANGED <<op, pc, request_, response_, answer, locals, service, results, outcome, late>>

CallStep ==
  \/ ConstructUrl \/ CreateRequest \/ AddHeaders \/ SetBody \/ Send \/ BeforeCall
  \/ ReceiveResponse \/ ResponseCreated \/ ReadLroHeaders \/ While
  \/ DelayBeforePolling \/ PreparePoll \/ AwaitDelay \/ CheckForCancellation
  \/ Poll \/ ReceivePoll \/ Polling \/ Peek \/ FinalGet \/ ReceiveFinal
  \/ Dispatch \/ Handle \/ Finally

Over == pc \in {"done", "uncalled"}

Next == CallStep \/ Deliver \/ Cancel \/ (Over /\ UNCHANGED vars)

Spec == Init /\ [][Next]_vars

\* Awaits end: listeners and handlers return, delays elapse, and every send is
\* answered or fails (HttpClient times out).
FairSpec == Spec /\ WF_vars(CallStep) /\ WF_vars(Deliver)

-----------------------------------------------------------------------------
(* Properties.                                                             *)

\* The types; and by late that a cancellation stops the call before its second
\* send, wherever it hits.
TypeOK ==
  /\ op \in [verb : Verbs, via : FinalVias, lro : BOOLEAN, exceptions : Exceptions,
             noWait : BOOLEAN]
  /\ pc \in {"start", "request", "headers", "body", "send", "beforeCall", "awaitSend",
             "created", "lro", "while", "delay", "prepare", "waiting", "check", "poll",
             "awaitPoll", "polled", "peek", "final", "awaitFinal", "dispatch", "handle",
             "finally", "done", "uncalled"}
  /\ cancelled \in BOOLEAN
  /\ request \in [method : Verbs \cup {"get", "none"}, uri : Uris, live : BOOLEAN]
  /\ response \in Response \cup {NoResponse}
  /\ answer \in Response \cup {NoResponse, Unanswered("pending"), Unanswered("failed")}
  /\ openRequests \in 0..1 /\ openResponses \in 0..1
  /\ asyncOperation \in Headers /\ location \in Headers /\ finalUri \in Uris
  /\ service \in [left : 0..MaxRunning, async : Headers, location : Headers,
                  polled : {"never", "running", "failed", "over"}]
  /\ handled \in 0..1 /\ accepted \in 0..1 /\ late \in 0..1
  /\ outcome \in {"none", "identity", "cancelled", "listener", "send", "content", "failed",
                  "null uri", "undeclared", "returned", "handler", "finally listener"}

\* What a poll says of a long running operation is heeded: after "running" no handler is
\* called but for a later poll, and "failed" ends the call with an exception that no final
\* GET covers up.  A handler gets a running response only where the code does not look:
\* as the first OK to any method but PUT, and as the answer to the final GET.
FirstAnswer == service.polled = "never" /\ op.verb # "put" /\ response.status = "OK"
FinalAnswer == service.polled = "over" /\ request.method = "get" /\ request.uri = finalUri
VerdictHeeded ==
  /\ pc = "handle" => service.polled # "running"
  /\ pc = "handle" /\ op.lro /\ Verdict(response) = "running" => FirstAnswer \/ FinalAnswer
  /\ service.polled = "failed" =>
       /\ pc \in {"awaitPoll", "polled", "peek", "finally", "done"}
       /\ handled = 0 /\ outcome # "returned"

\* A poll goes to the newest monitor the service has named, else to the newest
\* location, else to the original uri, whichever response named them.
PollsWhereTold ==
  pc = "awaitPoll" /\ answer.status = "pending" =>
    request.uri = IF service.async # None THEN service.async
                  ELSE IF service.location # None THEN service.location ELSE "original"

\* -NoWait: once the AsyncOperationResponse is written nothing is sent and no
\* handler is called, so the cmdlet's output is that object alone.
NoWaitStops ==
  accepted > 0 => op.noWait /\ accepted = 1 /\ pc \in {"finally", "done"} /\ handled = 0

\* What X_Call was given or got is disposed when it ends, on every path, except
\* when a listener throws in its finally block or makes it leave before it
\* awaited the first send.
NothingLeftOpen ==
  pc = "done" /\ outcome # "finally listener" =>
    openRequests = 0 /\ (answer = NoResponse => openResponses = 0)

\* Nothing is read from a response that was disposed, and no request is disposed
\* while the call awaits its answer.
NothingUsedAfterDispose ==
  /\ pc \in {"created", "lro", "while", "delay", "prepare", "polled", "peek", "final",
            "dispatch", "handle"} => response.live
  /\ pc \in {"awaitSend", "awaitPoll", "awaitFinal"} => request.live

\* A call that returns without being cancelled has handed a response to one
\* handler: "if no default, we need one that handles the rest of the stuff"
\* (method.ts:353).  It does when no exception or a default one is declared.
EveryResponseHandled == outcome = "returned" => handled = 1

\* The call ends once the service is done with the operation.
CallEnds == <>Over
=============================================================================
