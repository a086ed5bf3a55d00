------------------------ MODULE OperationCallProofs ------------------------
(***************************************************************************)
(* The safety properties of OperationCall for every set of operations,     *)
(* any targets and however long an operation runs.  The invariant has five *)
(* parts besides the types: who holds the request, who holds the response, *)
(* how the call may end, what the service has said of its monitors, and    *)
(* what it has said of the operation.  RunningInv, on top of it, says how  *)
(* an answer that says running gets past the polling loop.                 *)
(***************************************************************************)
EXTENDS OperationCall, TLAPS

Unsent == {"start", "request", "headers", "body", "send"}
Awaiting == {"beforeCall", "awaitSend", "awaitPoll", "awaitFinal"}
Holding == {"created", "lro", "while", "delay", "prepare", "polled", "peek", "final",
            "dispatch", "handle"}
Ended == {"finally", "done"}

Live(x) == IF x.live THEN 1 ELSE 0

\* The request is open from its creation to the finally block.
RequestInv ==
  /\ openRequests = Live(request)
  /\ pc \in {"start", "request"} => ~request.live
  /\ pc \notin {"start", "request", "uncalled", "done"} => request.live
  /\ pc = "done" => ~request.live \/ outcome = "finally listener"

\* At most one response is open: the one held, or the one that is awaited or
\* that nobody awaits any more.
ResponseInv ==
  /\ openResponses = Live(response) + Live(answer)
  /\ pc \in Holding => response.live
  /\ pc \in Unsent \cup {"uncalled"} => ~response.live
  /\ answer.live <=> answer.status \in Statuses
  /\ answer.status # "null" => ~response.live /\ pc \in Awaiting \cup Ended
  /\ pc \in Awaiting => answer.status # "null"
  /\ pc = "done" => ~response.live \/ outcome = "finally listener"

\* A late send is the last one, and a call ends in one way.
ResultInv ==
  /\ late = 1 => /\ cancelled
                 /\ pc \in {"beforeCall", "awaitPoll", "polled", "awaitFinal", "dispatch"} \cup Ended
  /\ pc \notin Ended => handled = 0 /\ accepted = 0 /\ outcome # "returned"
  /\ handled = 0 \/ accepted = 0
  /\ accepted = 1 => op.noWait
  /\ outcome = "returned" => handled = 1 \/ op.exceptions = "specific"

\* The locals, brought up to date with the latest response, are what the service
\* has named last; and a poll goes where they say.
Told(r) ==
  /\ service.async = Newest(asyncOperation, r.async)
  /\ service.location = Newest(location, r.location)
TargetInv ==
  /\ pc \in Unsent \cup {"beforeCall", "awaitSend", "created", "lro"} =>
       asyncOperation = None /\ location = None
  /\ pc \in Holding \ {"dispatch", "handle"} => Told(response)
  /\ pc \in Unsent \cup {"beforeCall", "awaitSend", "waiting", "check", "poll", "awaitPoll"} =>
       Told(answer)
  /\ pc \in {"waiting", "check", "poll", "awaitPoll"} =>
       request.uri = PollUri(asyncOperation, location)

\* What a poll has told decides where the call may be.
VerdictInv ==
  /\ pc \in {"polled", "peek"} => service.polled = Verdict(response)
  /\ pc = "awaitPoll" /\ answer.live => service.polled = Verdict(answer)
  /\ pc = "awaitPoll" /\ ~answer.live => service.polled # "failed"
  /\ pc \in {"while", "delay", "prepare", "waiting", "check", "poll"} => service.polled # "failed"
  /\ pc = "while" /\ service.polled = "running" => response.status \in {"Created", "Accepted"}
  /\ \/ pc \in Unsent \cup {"beforeCall", "awaitSend", "created", "lro", "final", "awaitFinal",
                           "dispatch", "handle", "uncalled"}
     \/ handled = 1 \/ outcome = "returned"
     => service.polled \in {"never", "over"}

\* Until the first poll is answered the request is the operation's own; an answer that
\* says running gets past the loop as a first OK that the loop does not wait for, or as
\* the answer to the final GET.
RunningInv ==
  /\ pc \in Unsent \cup {"beforeCall", "awaitSend", "created", "lro"} => service.polled = "never"
  /\ /\ pc \in {"headers", "body", "send", "beforeCall", "awaitSend", "created", "lro", "while"}
     /\ service.polled = "never"
     => request.method = op.verb
  /\ pc = "final" \/ (pc = "while" /\ service.polled = "over") => Verdict(response) # "running"
  /\ pc \in {"final", "awaitFinal"} => service.polled = "over"
  /\ pc = "awaitFinal" => request.method = "get" /\ request.uri = finalUri
  /\ pc \in {"dispatch", "handle"} /\ op.lro /\ Verdict(response) = "running" =>
       FirstAnswer \/ FinalAnswer

\* TypeOK, by what each part is about.
ControlType ==
  /\ op \in [verb : Verbs, via : FinalVias, lro : BOOLEAN, exceptions : Exceptions,
             noWait : BOOLEAN]
  /\ pc \in {"start", "request", "headers", "body", "send", "beforeCall", "awaitSend",
             "created", "lro", "while", "delay", "prepare", "waiting", "check", "poll",
             "awaitPoll", "polled", "peek", "final", "awaitFinal", "dispatch", "handle",
             "finally", "done", "uncalled"}
  /\ cancelled \in BOOLEAN
  /\ outcome \in {"none", "identity", "cancelled", "listener", "send", "content", "failed",
                  "null uri", "undeclared", "returned", "handler", "finally listener"}
RequestType ==
  /\ request \in [method : Verbs \cup {"get", "none"}, uri : Uris, live : BOOLEAN]
  /\ openRequests \in 0..1
ResponseType == response \in Response \cup {NoResponse} /\ openResponses \in 0..1
AnswerType ==
  answer \in Response \cup {NoResponse, Unanswered("pending"), Unanswered("failed")}
LocalsType == asyncOperation \in Headers /\ location \in Headers /\ finalUri \in Uris
ServiceType ==
  service \in [left : 0..MaxRunning, async : Headers, location : Headers,
              polled : {"never", "running", "failed", "over"}]
CountType == handled \in 0..1 /\ accepted \in 0..1 /\ late \in 0..1

CallInv ==
  /\ ControlType /\ RequestType /\ ResponseType /\ AnswerType /\ LocalsType /\ ServiceType
  /\ CountType
  /\ RequestInv /\ ResponseInv /\ ResultInv /\ TargetInv /\ VerdictInv

-----------------------------------------------------------------------------
(* Facts about responses, and the initial state.                           *)

\* The parts of TypeOK are TypeOK.
LEMMA PartsOfTypeOK ==
  TypeOK <=> /\ ControlType /\ RequestType /\ ResponseType /\ AnswerType /\ LocalsType
             /\ ServiceType /\ CountType
BY DEF TypeOK, ControlType, RequestType, ResponseType, AnswerType, LocalsType, ServiceType, CountType

\* What is no response holds nothing and names nothing.
LEMMA UnansweredFacts ==
  /\ ~NoResponse.live /\ NoResponse.status = "null"
  /\ NoResponse.async = None /\ NoResponse.location = None
  /\ \A st : /\ ~Unanswered(st).live /\ Unanswered(st).status = st
             /\ Unanswered(st).async = None /\ Unanswered(st).location = None
BY DEF NoResponse, Unanswered

\* An answer that is not missing, pending or failed is a response.
LEMMA AnswerFacts ==
  ASSUME CallInv, answer.status \notin {"null", "pending", "failed"}
  PROVE  answer \in Response
BY DEF CallInv, AnswerType, NoResponse, Unanswered

\* Dropping the response leaves at most the answer open (_response?.Dispose()).
LEMMA DropResponseFacts ==
  ASSUME CallInv, DropResponse
  PROVE  /\ ~response'.live /\ openResponses' = Live(answer)
         /\ response' \in Response \cup {NoResponse}
         /\ openResponses' \in 0..1
<1>1. response' \in Response \cup {NoResponse}
  <2>1. CASE response \in Response
    BY <2>1 DEF DropResponse, Response
  <2>2. CASE response = NoResponse
    <3> DEFINE Null == [status : {"null"}, state : {"none"}, async : {None}, location : {None},
                        live : {FALSE}]
    <3>1. response \in Null
      BY <2>2 DEF NoResponse, Unanswered
    <3>2. response' \in Null
      BY <3>1 DEF DropResponse
    <3>3. response' = NoResponse
      BY <3>2 DEF NoResponse, Unanswered
    <3> QED
      BY <3>3
  <2> QED
    BY <2>1, <2>2 DEF CallInv, ResponseType
<1>2. ~response'.live
  BY DEF CallInv, DropResponse, ResponseType, Response, NoResponse, Unanswered
<1>3. openResponses' = Live(answer)
  <2>1. openResponses = Live(response) + Live(answer)
    BY DEF CallInv, ResponseInv
  <2>2. openResponses' = openResponses - Live(response)
    BY DEF DropResponse, Live
  <2>3. Live(response) \in 0..1 /\ Live(answer) \in 0..1
    BY DEF Live
  <2> QED
    BY <2>1, <2>2, <2>3
<1> QED
  BY <1>1, <1>2, <1>3 DEF Live

\* With neither a response nor an answer that is live, no response is open.
LEMMA ClosedFacts ==
  ASSUME CallInv, ~response.live, ~answer.live
  PROVE  openResponses = 0
<1>1. openResponses = Live(response) + Live(answer)
  BY DEF CallInv, ResponseInv
<1> QED
  BY <1>1 DEF Live

\* Nothing is open, nothing was said: the invariant holds when the method is entered.
LEMMA InitCallInv == Init => CallInv
<1> SUFFICES ASSUME Init PROVE CallInv
  OBVIOUS
<1>1. ControlType
  BY DEF Init, ControlType
<1>9. RequestType /\ LocalsType /\ CountType
  BY DEF Init, RequestType, LocalsType, CountType, Uris, Headers
<1>2. ResponseType /\ AnswerType
  BY DEF Init, ResponseType, AnswerType
<1>3. ServiceType
  BY OperationCallAssumption DEF OperationCallAssumption, Init, ServiceType, Headers
<1>4. RequestInv
  BY DEF Init, RequestInv, Live
<1>5. ResponseInv
  BY UnansweredFacts DEF Init, ResponseInv, Live, Awaiting, Unsent, Holding, Ended, Statuses
<1>6. ResultInv
  BY DEF Init, ResultInv, Ended
<1>7. TargetInv
  BY UnansweredFacts DEF Init, TargetInv, Told, Newest, Unsent, Holding
<1>8. VerdictInv
  BY DEF Init, VerdictInv, Unsent
<1> QED
  BY <1>1, <1>2, <1>3, <1>4, <1>5, <1>6, <1>7, <1>8, <1>9 DEF CallInv

-----------------------------------------------------------------------------
(* The steps.                                                              *)

\* Building the URL leaves the request uncreated, or ends the call before X_Call.
LEMMA ConstructUrlInv ==
  ASSUME CallInv, ConstructUrl
  PROVE  CallInv'
<1>1. ControlType'
  BY DEF CallInv, ConstructUrl, Signalled, Goto, request_, response_, locals, results,
    ControlType
<1>2. RequestInv'
  BY DEF CallInv, ConstructUrl, Signalled, Goto, request_, response_, locals, results,
    RequestInv, Live
<1>3. ResponseInv'
  BY DEF CallInv, ConstructUrl, Signalled, Goto, request_, response_, locals, results,
    ResponseInv, Live, Unsent, Awaiting, Holding, Ended
<1>4. ResultInv'
  BY DEF CallInv, ConstructUrl, Signalled, Goto, request_, response_, locals, results,
    ResultInv, Ended
<1>5. TargetInv'
  BY DEF CallInv, ConstructUrl, Signalled, Goto, request_, response_, locals, results,
    TargetInv, Told, Unsent, Holding
<1>6. VerdictInv'
  BY DEF CallInv, ConstructUrl, Signalled, Goto, request_, response_, locals, results,
    VerdictInv, Unsent
<1>7. RequestType' /\ ResponseType' /\ AnswerType' /\ LocalsType' /\ ServiceType' /\ CountType'
  BY DEF CallInv, ConstructUrl, Signalled, Goto, request_, response_, locals, results,
    RequestType, ResponseType, AnswerType, LocalsType, ServiceType, CountType
<1> QED
  BY <1>1, <1>2, <1>3, <1>4, <1>5, <1>6, <1>7 DEF CallInv

\* The request is opened here, and only here.
LEMMA CreateRequestInv ==
  ASSUME CallInv, CreateRequest
  PROVE  CallInv'
<1>1. ControlType'
  BY DEF CallInv, CreateRequest, Signalled, Goto, response_, locals, results, ControlType
<1>2. RequestType'
  <2>1. op.verb \in Verbs
    BY DEF CallInv, ControlType
  <2>2. openRequests = 0
    BY DEF CallInv, RequestInv, Live, CreateRequest, Signalled, Goto
  <2> QED
    BY <2>1, <2>2 DEF CreateRequest, RequestType, Uris
<1>3. RequestInv'
  <2>1. /\ request'.live /\ openRequests = 0 /\ openRequests' = openRequests + 1
        /\ pc' \in {"headers", "uncalled"}
    BY DEF CallInv, RequestInv, Live, CreateRequest, Signalled, Goto
  <2>2. openRequests' = 1
    BY <2>1
  <2> QED
    BY <2>1, <2>2 DEF RequestInv, Live
<1>4. ResponseInv'
  BY DEF CallInv, CreateRequest, Signalled, Goto, response_, locals, results, ResponseInv, Live,
    Unsent, Awaiting, Holding, Ended
<1>5. ResultInv'
  BY DEF CallInv, CreateRequest, Signalled, Goto, response_, locals, results, ResultInv, Ended
<1>6. TargetInv'
  BY DEF CallInv, CreateRequest, Signalled, Goto, response_, locals, results, TargetInv, Told,
    Unsent, Holding
<1>7. VerdictInv'
  BY DEF CallInv, CreateRequest, Signalled, Goto, response_, locals, results, VerdictInv, Unsent
<1>8. ResponseType' /\ AnswerType' /\ LocalsType' /\ ServiceType' /\ CountType'
  BY DEF CallInv, CreateRequest, Signalled, Goto, response_, locals, results, ResponseType,
    AnswerType, LocalsType, ServiceType, CountType
<1> QED
  BY <1>1, <1>2, <1>3, <1>4, <1>5, <1>6, <1>7, <1>8 DEF CallInv

\* Headers, or a way out before X_Call.
LEMMA AddHeadersInv ==
  ASSUME CallInv, AddHeaders
  PROVE  CallInv'
<1>1. ControlType'
  BY DEF CallInv, AddHeaders, Signalled, Goto, request_, response_, locals, results, ControlType
<1>2. RequestInv'
  BY DEF CallInv, AddHeaders, Signalled, Goto, request_, response_, locals, results, RequestInv,
    Live
<1>3. ResponseInv'
  BY DEF CallInv, AddHeaders, Signalled, Goto, request_, response_, locals, results,
    ResponseInv, Live, Unsent, Awaiting, Holding, Ended
<1>4. ResultInv'
  BY DEF CallInv, AddHeaders, Signalled, Goto, request_, response_, locals, results, ResultInv,
    Ended
<1>5. TargetInv'
  BY DEF CallInv, AddHeaders, Signalled, Goto, request_, response_, locals, results, TargetInv,
    Told, Unsent, Holding
<1>6. VerdictInv'
  BY DEF CallInv, AddHeaders, Signalled, Goto, request_, response_, locals, results, VerdictInv,
    Unsent
<1>7. RequestType' /\ ResponseType' /\ AnswerType' /\ LocalsType' /\ ServiceType' /\ CountType'
  BY DEF CallInv, AddHeaders, Signalled, Goto, request_, response_, locals, results,
    RequestType, ResponseType, AnswerType, LocalsType, ServiceType, CountType
<1> QED
  BY <1>1, <1>2, <1>3, <1>4, <1>5, <1>6, <1>7 DEF CallInv

\* The body, or a way out before X_Call.
LEMMA SetBodyInv ==
  ASSUME CallInv, SetBody
  PROVE  CallInv'
<1>1. ControlType'
  BY DEF CallInv, SetBody, Signalled, Goto, request_, response_, locals, results, ControlType
<1>2. RequestInv'
  BY DEF CallInv, SetBody, Signalled, Goto, request_, response_, locals, results, RequestInv,
    Live
<1>3. ResponseInv'
  BY DEF CallInv, SetBody, Signalled, Goto, request_, response_, locals, results, ResponseInv,
    Live, Unsent, Awaiting, Holding, Ended
<1>4. ResultInv'
  BY DEF CallInv, SetBody, Signalled, Goto, request_, response_, locals, results, ResultInv,
    Ended
<1>5. TargetInv'
  BY DEF CallInv, SetBody, Signalled, Goto, request_, response_, locals, results, TargetInv,
    Told, Unsent, Holding
<1>6. VerdictInv'
  BY DEF CallInv, SetBody, Signalled, Goto, request_, response_, locals, results, VerdictInv,
    Unsent
<1>7. RequestType' /\ ResponseType' /\ AnswerType' /\ LocalsType' /\ ServiceType' /\ CountType'
  BY DEF CallInv, SetBody, Signalled, Goto, request_, response_, locals, results, RequestType,
    ResponseType, AnswerType, LocalsType, ServiceType, CountType
<1> QED
  BY <1>1, <1>2, <1>3, <1>4, <1>5, <1>6, <1>7 DEF CallInv

\* A first send is under way, or the pipeline threw and the call goes to its finally block.
LEMMA SendInv ==
  ASSUME CallInv, Send
  PROVE  CallInv'
<1>1. ControlType'
  BY DEF CallInv, Send, StartSend, Leave, Goto, request_, response_, locals, results,
    ControlType
<1>2. AnswerType'
  BY DEF CallInv, Send, StartSend, Leave, Goto, request_, response_, locals, results,
    AnswerType, NoResponse, Unanswered
<1>3. CountType'
  BY DEF CallInv, Send, StartSend, Leave, Goto, request_, response_, locals, results, CountType,
    ResultInv, Ended
<1>4. RequestInv'
  BY DEF CallInv, Send, StartSend, Leave, Goto, request_, response_, locals, results,
    RequestInv, Live
<1>5. ResponseInv'
  <2>1. /\ pc = "send" /\ ~response.live /\ ~answer.live /\ response' = response
        /\ openResponses' = openResponses
    BY DEF Send, StartSend, Leave, Goto, CallInv, ResponseInv, Unsent, Awaiting, Ended,
      Statuses, response_
  <2>2. openResponses = 0
    BY <2>1 DEF CallInv, ResponseInv, Live
  <2>3. CASE pc' = "beforeCall" /\ answer' = Unanswered("pending")
    BY <2>1, <2>2, <2>3, UnansweredFacts DEF ResponseInv, Live, Awaiting, Unsent, Holding,
      Ended, Statuses
  <2>4. CASE pc' = "finally" /\ UNCHANGED answer
    BY <2>1, <2>2, <2>4 DEF CallInv, ResponseInv, Live, Awaiting, Unsent, Holding, Ended,
      Statuses
  <2> QED
    BY <2>3, <2>4 DEF Send, StartSend, Leave, Goto
<1>6. ResultInv'
  BY DEF CallInv, Send, StartSend, Leave, Goto, request_, response_, locals, results, ResultInv,
    Ended
<1>7. TargetInv'
  <2>1. pc = "send" /\ UNCHANGED <<response, service, asyncOperation, location, request>>
    BY DEF Send, StartSend, Leave, Goto, response_, locals, request_
  <2>2. /\ service.async = None /\ service.location = None /\ asyncOperation = None
        /\ location = None
    <3>1. answer = NoResponse \/ answer = Unanswered("null") \/ answer.status = "null"
      BY <2>1 DEF CallInv, ResponseInv, Awaiting, Ended
    <3>2. answer.async = None /\ answer.location = None
      BY <3>1, UnansweredFacts DEF CallInv, AnswerType, Response, Statuses
    <3> QED
      BY <2>1, <3>2 DEF CallInv, TargetInv, Told, Newest, Unsent
  <2>3. CASE pc' = "beforeCall" /\ answer' = Unanswered("pending")
    BY <2>1, <2>2, <2>3, UnansweredFacts DEF TargetInv, Told, Newest, Unsent, Holding
  <2>4. CASE pc' = "finally"
    BY <2>4 DEF TargetInv, Unsent, Holding
  <2> QED
    BY <2>3, <2>4 DEF Send, StartSend, Leave, Goto
<1>8. VerdictInv'
  BY DEF CallInv, Send, StartSend, Leave, Goto, request_, response_, locals, results,
    VerdictInv, Unsent
<1>9. RequestType' /\ ResponseType' /\ LocalsType' /\ ServiceType'
  BY DEF CallInv, Send, StartSend, Leave, Goto, request_, response_, locals, results,
    RequestType, ResponseType, LocalsType, ServiceType
<1> QED
  BY <1>1, <1>2, <1>3, <1>4, <1>5, <1>6, <1>7, <1>8, <1>9 DEF CallInv

\* A listener may leave while the first send is in flight.
LEMMA BeforeCallInv ==
  ASSUME CallInv, BeforeCall
  PROVE  CallInv'
<1>1. ControlType'
  BY DEF CallInv, BeforeCall, Signalled, Goto, request_, response_, locals, results, ControlType
<1>2. RequestInv'
  BY DEF CallInv, BeforeCall, Signalled, Goto, request_, response_, locals, results, RequestInv,
    Live
<1>3. ResponseInv'
  BY DEF CallInv, BeforeCall, Signalled, Goto, request_, response_, locals, results,
    ResponseInv, Live, Unsent, Awaiting, Holding, Ended
<1>4. ResultInv'
  BY DEF CallInv, BeforeCall, Signalled, Goto, request_, response_, locals, results, ResultInv,
    Ended
<1>5. TargetInv'
  BY DEF CallInv, BeforeCall, Signalled, Goto, request_, response_, locals, results, TargetInv,
    Told, Unsent, Holding
<1>6. VerdictInv'
  BY DEF CallInv, BeforeCall, Signalled, Goto, request_, response_, locals, results, VerdictInv,
    Unsent
<1>7. RequestType' /\ ResponseType' /\ AnswerType' /\ LocalsType' /\ ServiceType' /\ CountType'
  BY DEF CallInv, BeforeCall, Signalled, Goto, request_, response_, locals, results,
    RequestType, ResponseType, AnswerType, LocalsType, ServiceType, CountType
<1> QED
  BY <1>1, <1>2, <1>3, <1>4, <1>5, <1>6, <1>7 DEF CallInv

\* The answer opens a response and moves the service: what the locals hold is then behind
\* by exactly this answer.
LEMMA DeliverInv ==
  ASSUME CallInv, Deliver
  PROVE  CallInv'
<1>1. ResponseType'
  <2>1. /\ answer.status = "pending" /\ ~answer.live /\ ~response.live
        /\ openResponses = 0 /\ pc \in Awaiting \cup Ended
    <3>1. answer.status = "pending"
      BY DEF Deliver
    <3>2. ~answer.live
      BY <3>1 DEF CallInv, ResponseInv, Statuses
    <3>3. ~response.live /\ pc \in Awaiting \cup Ended
      BY <3>1 DEF CallInv, ResponseInv
    <3>4. openResponses = 0
      BY <3>2, <3>3, ClosedFacts
    <3> QED
      BY <3>1, <3>2, <3>3, <3>4
  <2>2. openResponses' \in {openResponses, openResponses + 1} /\ response' = response
    BY DEF Deliver
  <2> QED
    BY <2>1, <2>2 DEF CallInv, ResponseType
<1>2. AnswerType'
  BY DEF CallInv, Deliver, request_, locals, results, AnswerType, NoResponse, Unanswered
<1>3. ServiceType'
  BY OperationCallAssumption DEF OperationCallAssumption, CallInv, Deliver, request_, locals,
    results, ServiceType, Response, InProgress, Verdict, Failed
<1>4. ResponseInv'
  <2>1. /\ answer.status = "pending" /\ ~answer.live /\ ~response.live
        /\ openResponses = 0 /\ pc \in Awaiting \cup Ended
    <3>1. answer.status = "pending"
      BY DEF Deliver
    <3>2. ~answer.live
      BY <3>1 DEF CallInv, ResponseInv, Statuses
    <3>3. ~response.live /\ pc \in Awaiting \cup Ended
      BY <3>1 DEF CallInv, ResponseInv
    <3>4. openResponses = 0
      BY <3>2, <3>3, ClosedFacts
    <3> QED
      BY <3>1, <3>2, <3>3, <3>4
  <2>2. UNCHANGED <<pc, response, outcome>>
    BY DEF Deliver
  <2>3. CASE answer' = Unanswered("failed") /\ UNCHANGED openResponses
    BY <2>1, <2>2, <2>3, UnansweredFacts DEF CallInv, ResponseInv, Live, Statuses
  <2>4. ASSUME NEW r \in Response, r.live, answer' = r, openResponses' = openResponses + 1
        PROVE  ResponseInv'
    <3>1. r.status \in Statuses
      BY <2>4 DEF Response
    <3>2. /\ answer'.live /\ answer'.status \in Statuses /\ answer'.status # "null"
          /\ openResponses' = 1
      BY <2>1, <2>4, <3>1 DEF Statuses
    <3>3. (openResponses = Live(response) + Live(answer))'
      BY <2>1, <2>2, <3>2 DEF Live
    <3> QED
      BY <2>1, <2>2, <3>2, <3>3 DEF CallInv, ResponseInv, Awaiting, Unsent, Holding, Ended
  <2> QED
    BY <2>3, <2>4 DEF Deliver
<1>5. TargetInv'
  <2>1. /\ answer.status = "pending" /\ ~answer.live /\ ~response.live
        /\ openResponses = 0 /\ pc \in Awaiting \cup Ended
    <3>1. answer.status = "pending"
      BY DEF Deliver
    <3>2. ~answer.live
      BY <3>1 DEF CallInv, ResponseInv, Statuses
    <3>3. ~response.live /\ pc \in Awaiting \cup Ended
      BY <3>1 DEF CallInv, ResponseInv
    <3>4. openResponses = 0
      BY <3>2, <3>3, ClosedFacts
    <3> QED
      BY <3>1, <3>2, <3>3, <3>4
  <2>2. UNCHANGED <<pc, response, request, asyncOperation, location>>
    BY DEF Deliver, request_, locals
  <2>3. answer.async = None /\ answer.location = None
    BY <2>1, UnansweredFacts DEF CallInv, AnswerType, Response, Statuses
  <2>4. CASE answer' = Unanswered("failed") /\ UNCHANGED service
    <3>1. answer'.async = None /\ answer'.location = None
      BY <2>4, UnansweredFacts
    <3> QED
      BY <2>1, <2>2, <2>3, <2>4, <3>1 DEF CallInv, TargetInv, Told, Newest, Awaiting, Ended,
        Holding, Unsent
  <2>5. ASSUME NEW r \in Response, answer' = r,
               service'.async = IF r.async = None THEN service.async ELSE r.async,
               service'.location = IF r.location = None THEN service.location ELSE r.location
        PROVE  TargetInv'
    BY <2>1, <2>2, <2>3, <2>5 DEF CallInv, TargetInv, Told, Newest, Awaiting, Ended, Holding,
      Unsent
  <2> QED
    BY <2>4, <2>5 DEF Deliver
<1>6. VerdictInv'
  <2>1. /\ answer.status = "pending" /\ ~answer.live /\ ~response.live
        /\ openResponses = 0 /\ pc \in Awaiting \cup Ended
    <3>1. answer.status = "pending"
      BY DEF Deliver
    <3>2. ~answer.live
      BY <3>1 DEF CallInv, ResponseInv, Statuses
    <3>3. ~response.live /\ pc \in Awaiting \cup Ended
      BY <3>1 DEF CallInv, ResponseInv
    <3>4. openResponses = 0
      BY <3>2, <3>3, ClosedFacts
    <3> QED
      BY <3>1, <3>2, <3>3, <3>4
  <2>2. UNCHANGED <<pc, response, handled, outcome>>
    BY DEF Deliver, results
  <2>3. CASE answer' = Unanswered("failed") /\ UNCHANGED service
    BY <2>1, <2>2, <2>3, UnansweredFacts DEF CallInv, VerdictInv
  <2>4. ASSUME NEW r \in Response, answer' = r, r.live,
               service'.polled = IF pc = "awaitPoll" THEN Verdict(r) ELSE service.polled
        PROVE  VerdictInv'
    <3>1. CASE pc = "awaitPoll"
      BY <2>1, <2>2, <2>4, <3>1 DEF CallInv, VerdictInv, ResultInv, Ended, Unsent
    <3>2. CASE pc # "awaitPoll"
      BY <2>1, <2>2, <2>4, <3>2 DEF CallInv, VerdictInv, Awaiting, Ended
    <3> QED
      BY <3>1, <3>2
  <2> QED
    BY <2>3, <2>4 DEF Deliver
<1>7. ControlType'
  <2>1. ControlType /\ UNCHANGED <<op, pc, cancelled, outcome>>
    BY DEF CallInv, Deliver
  <2> QED
    BY <2>1 DEF ControlType
<1>8. RequestType'
  BY DEF CallInv, RequestType, Deliver, request_, response_, locals, results
<1>9. LocalsType'
  BY DEF CallInv, LocalsType, Deliver, request_, response_, locals, results
<1>10. CountType'
  BY DEF CallInv, CountType, Deliver, request_, response_, locals, results
<1>11. RequestInv'
  BY DEF CallInv, RequestInv, Deliver, request_, response_, locals, results
<1>12. ResultInv'
  BY DEF CallInv, ResultInv, Deliver, request_, response_, locals, results
<1> QED
  BY <1>1, <1>2, <1>3, <1>4, <1>5, <1>6, <1>7, <1>8, <1>9, <1>10, <1>11, <1>12 DEF CallInv

\* The open response passes from the answer to the variable.
LEMMA ReceiveResponseInv ==
  ASSUME CallInv, ReceiveResponse
  PROVE  CallInv'
<1>1. ControlType'
  BY DEF CallInv, ReceiveResponse, Receive, Leave, Goto, request_, locals, results, ControlType
<1>2. ResponseType'
  BY DEF CallInv, ReceiveResponse, Receive, Leave, Goto, request_, locals, results,
    ResponseType, AnswerType, ResponseInv, Awaiting, NoResponse, Unanswered
<1>3. AnswerType'
  BY DEF CallInv, ReceiveResponse, Receive, Leave, Goto, request_, locals, results, AnswerType,
    NoResponse, Unanswered
<1>4. RequestInv'
  BY DEF CallInv, ReceiveResponse, Receive, Leave, Goto, request_, locals, results, RequestInv,
    Live
<1>5. ResponseInv'
  <2>1. /\ pc = "awaitSend" /\ answer' = NoResponse /\ openResponses' = openResponses
        /\ answer.status \notin {"null", "pending"}
    BY DEF ReceiveResponse, Receive, CallInv, ResponseInv, Awaiting
  <2>2. ~response.live /\ openResponses = Live(answer)
    BY <2>1 DEF CallInv, ResponseInv, Live
  <2>3. CASE answer.status = "failed" /\ pc' = "finally" /\ UNCHANGED response
    <3>1. ~answer.live
      BY <2>3 DEF CallInv, ResponseInv, Statuses
    <3> QED
      BY <2>1, <2>2, <2>3, <3>1, UnansweredFacts DEF ResponseInv, Live, Awaiting, Unsent,
        Holding, Ended, Statuses
  <2>4. CASE answer.status # "failed" /\ pc' = "created" /\ response' = answer
    <3>1. answer.live
      BY <2>1, <2>4, AnswerFacts DEF CallInv, ResponseInv, Response
    <3> QED
      BY <2>1, <2>2, <2>4, <3>1, UnansweredFacts DEF ResponseInv, Live, Awaiting, Unsent,
        Holding, Ended, Statuses
  <2> QED
    BY <2>3, <2>4 DEF ReceiveResponse, Receive, Leave, Goto
<1>6. ResultInv'
  BY DEF CallInv, ReceiveResponse, Receive, Leave, Goto, request_, locals, results, ResultInv,
    Ended
<1>7. TargetInv'
  BY DEF CallInv, ReceiveResponse, Receive, Leave, Goto, request_, locals, results, TargetInv,
    Told, Unsent, Holding
<1>8. VerdictInv'
  BY DEF CallInv, ReceiveResponse, Receive, Leave, Goto, request_, locals, results, VerdictInv,
    Unsent
<1>9. RequestType' /\ LocalsType' /\ ServiceType' /\ CountType'
  BY DEF CallInv, ReceiveResponse, Receive, Leave, Goto, request_, locals, results, RequestType,
    LocalsType, ServiceType, CountType
<1> QED
  BY <1>1, <1>2, <1>3, <1>4, <1>5, <1>6, <1>7, <1>8, <1>9 DEF CallInv

\* The response is looked at next.
LEMMA ResponseCreatedInv ==
  ASSUME CallInv, ResponseCreated
  PROVE  CallInv'
<1>1. ControlType'
  BY DEF CallInv, ResponseCreated, Signalled, Goto, request_, response_, locals, results,
    ControlType
<1>2. RequestInv'
  BY DEF CallInv, ResponseCreated, Signalled, Goto, request_, response_, locals, results,
    RequestInv, Live
<1>3. ResponseInv'
  BY DEF CallInv, ResponseCreated, Signalled, Goto, request_, response_, locals, results,
    ResponseInv, Live, Unsent, Awaiting, Holding, Ended
<1>4. ResultInv'
  BY DEF CallInv, ResponseCreated, Signalled, Goto, request_, response_, locals, results,
    ResultInv, Ended
<1>5. TargetInv'
  BY DEF CallInv, ResponseCreated, Signalled, Goto, request_, response_, locals, results,
    TargetInv, Told, Unsent, Holding
<1>6. VerdictInv'
  BY DEF CallInv, ResponseCreated, Signalled, Goto, request_, response_, locals, results,
    VerdictInv, Unsent
<1>7. RequestType' /\ ResponseType' /\ AnswerType' /\ LocalsType' /\ ServiceType' /\ CountType'
  BY DEF CallInv, ResponseCreated, Signalled, Goto, request_, response_, locals, results,
    RequestType, ResponseType, AnswerType, LocalsType, ServiceType, CountType
<1> QED
  BY <1>1, <1>2, <1>3, <1>4, <1>5, <1>6, <1>7 DEF CallInv

\* The locals hold the headers of the first response.
LEMMA ReadLroHeadersInv ==
  ASSUME CallInv, ReadLroHeaders
  PROVE  CallInv'
<1>1. ControlType'
  BY DEF CallInv, ReadLroHeaders, Goto, FinalUri, request_, response_, results, ControlType
<1>2. LocalsType'
  <2>1. response.async \in Headers /\ response.location \in Headers
    BY DEF CallInv, ResponseType, Response, NoResponse, Unanswered, Headers
  <2>2. finalUri' \in {"original", response.location, response.async, None}
    BY DEF ReadLroHeaders, FinalUri
  <2> QED
    BY <2>1, <2>2 DEF ReadLroHeaders, LocalsType, Headers, Uris
<1>3. RequestInv'
  BY DEF CallInv, ReadLroHeaders, Goto, FinalUri, request_, response_, results, RequestInv, Live
<1>4. ResponseInv'
  BY DEF CallInv, ReadLroHeaders, Goto, FinalUri, request_, response_, results, ResponseInv,
    Live, Unsent, Awaiting, Holding, Ended
<1>5. ResultInv'
  BY DEF CallInv, ReadLroHeaders, Goto, FinalUri, request_, response_, results, ResultInv, Ended
<1>6. TargetInv'
  BY DEF CallInv, ReadLroHeaders, Goto, FinalUri, request_, response_, results, TargetInv, Told,
    Unsent, Holding, Newest, PollUri
<1>7. VerdictInv'
  BY DEF CallInv, ReadLroHeaders, Goto, FinalUri, request_, response_, results, VerdictInv,
    Unsent
<1>8. RequestType' /\ ResponseType' /\ AnswerType' /\ ServiceType' /\ CountType'
  BY DEF CallInv, ReadLroHeaders, Goto, FinalUri, request_, response_, results, RequestType,
    ResponseType, AnswerType, ServiceType, CountType
<1> QED
  BY <1>1, <1>2, <1>3, <1>4, <1>5, <1>6, <1>7, <1>8 DEF CallInv

\* The loop is left only for a response that is not running.
LEMMA WhileInv ==
  ASSUME CallInv, While
  PROVE  CallInv'
<1>1. ControlType'
  BY DEF CallInv, While, Goto, StillRunning, request_, response_, locals, results, ControlType
<1>2. RequestInv'
  BY DEF CallInv, While, Goto, StillRunning, request_, response_, locals, results, RequestInv,
    Live
<1>3. ResponseInv'
  BY DEF CallInv, While, Goto, StillRunning, request_, response_, locals, results, ResponseInv,
    Live, Unsent, Awaiting, Holding, Ended
<1>4. ResultInv'
  BY DEF CallInv, While, Goto, StillRunning, request_, response_, locals, results, ResultInv,
    Ended
<1>5. TargetInv'
  BY DEF CallInv, While, Goto, StillRunning, request_, response_, locals, results, TargetInv,
    Told, Unsent, Holding
<1>6. VerdictInv'
  <2>1. /\ pc = "while" /\ UNCHANGED <<service, handled, outcome, response>>
        /\ service.polled # "failed"
    BY DEF While, Goto, CallInv, VerdictInv, results, response_
  <2>2. CASE pc' = "delay"
    BY <2>1, <2>2 DEF CallInv, VerdictInv, Unsent
  <2>3. CASE pc' = "dispatch" /\ ~StillRunning
    <3>1. service.polled # "running"
      BY <2>1, <2>3 DEF CallInv, VerdictInv, StillRunning
    <3> QED
      BY <2>1, <2>3, <3>1 DEF CallInv, VerdictInv, Unsent, ServiceType
  <2> QED
    BY <2>2, <2>3 DEF While, Goto
<1>7. RequestType' /\ ResponseType' /\ AnswerType' /\ LocalsType' /\ ServiceType' /\ CountType'
  BY DEF CallInv, While, Goto, StillRunning, request_, response_, locals, results, RequestType,
    ResponseType, AnswerType, LocalsType, ServiceType, CountType
<1> QED
  BY <1>1, <1>2, <1>3, <1>4, <1>5, <1>6, <1>7 DEF CallInv

\* The cmdlet of a -NoWait call accepts at most once and leaves.
LEMMA DelayBeforePollingInv ==
  ASSUME CallInv, DelayBeforePolling
  PROVE  CallInv'
<1>1. ControlType'
  <2>1. /\ ControlType /\ op' = op /\ cancelled' \in {cancelled, TRUE}
        /\ pc' \in {"prepare", "finally"} /\ outcome' \in {outcome, "cancelled", "listener"}
    BY DEF CallInv, DelayBeforePolling, Signalled, Leave, Goto
  <2> QED
    BY <2>1 DEF ControlType
<1>2. CountType'
  BY DEF CallInv, DelayBeforePolling, Signalled, Leave, Goto, request_, response_, locals,
    CountType, ResultInv, Ended
<1>3. RequestInv'
  BY DEF CallInv, DelayBeforePolling, Signalled, Leave, Goto, request_, response_, locals,
    RequestInv, Live
<1>4. ResponseInv'
  BY DEF CallInv, DelayBeforePolling, Signalled, Leave, Goto, request_, response_, locals,
    ResponseInv, Live, Unsent, Awaiting, Holding, Ended
<1>5. ResultInv'
  BY DEF CallInv, DelayBeforePolling, Signalled, Leave, Goto, request_, response_, locals,
    ResultInv, Ended
<1>6. TargetInv'
  BY DEF CallInv, DelayBeforePolling, Signalled, Leave, Goto, request_, response_, locals,
    TargetInv, Told, Unsent, Holding
<1>7. VerdictInv'
  BY DEF CallInv, DelayBeforePolling, Signalled, Leave, Goto, request_, response_, locals,
    VerdictInv, Unsent
<1>8. RequestType' /\ ResponseType' /\ AnswerType' /\ LocalsType' /\ ServiceType'
  BY DEF CallInv, DelayBeforePolling, Signalled, Leave, Goto, request_, response_, locals,
    RequestType, ResponseType, AnswerType, LocalsType, ServiceType
<1> QED
  BY <1>1, <1>2, <1>3, <1>4, <1>5, <1>6, <1>7, <1>8 DEF CallInv

\* The locals catch up with the response, and the request goes where they say.
LEMMA PreparePollInv ==
  ASSUME CallInv, PreparePoll
  PROVE  CallInv'
<1>1. ControlType'
  BY DEF CallInv, PreparePoll, Leave, Goto, CloneAndDispose, PollUri, response_, results,
    ControlType
<1>2. RequestType'
  <2>1. asyncOperation' \in Headers /\ location' \in Headers
    BY DEF PreparePoll, CallInv, LocalsType, ResponseType, Response, NoResponse, Unanswered,
      Newest, Headers
  <2>2. PollUri(asyncOperation', location') \in Uris
    BY <2>1 DEF PollUri, Uris
  <2> QED
    BY <2>2 DEF PreparePoll, CloneAndDispose, CallInv, RequestType
<1>3. LocalsType'
  BY OperationCallAssumption DEF OperationCallAssumption, CallInv, PreparePoll, Leave, Goto,
    CloneAndDispose, PollUri, response_, results, LocalsType, Response, NoResponse, Unanswered,
    ResponseType, Newest
<1>4. RequestInv'
  BY DEF CallInv, PreparePoll, Leave, Goto, CloneAndDispose, PollUri, response_, results,
    RequestInv, Live
<1>5. ResponseInv'
  BY DEF CallInv, PreparePoll, Leave, Goto, CloneAndDispose, PollUri, response_, results,
    ResponseInv, Live, Unsent, Awaiting, Holding, Ended
<1>6. ResultInv'
  BY DEF CallInv, PreparePoll, Leave, Goto, CloneAndDispose, PollUri, response_, results,
    ResultInv, Ended
<1>7. TargetInv'
  <2>1. /\ pc = "prepare" /\ pc' \in {"waiting", "finally"}
        /\ UNCHANGED <<answer, response, service>>
    BY DEF PreparePoll, Leave, Goto, response_
  <2>2. answer.async = None /\ answer.location = None
    <3>1. answer.status = "null"
      BY <2>1 DEF CallInv, ResponseInv, Awaiting, Ended
    <3> QED
      BY <3>1, UnansweredFacts DEF CallInv, AnswerType, Response, Statuses
  <2>3. /\ service.async = Newest(asyncOperation, response.async)
        /\ service.location = Newest(location, response.location)
    BY <2>1 DEF CallInv, TargetInv, Told, Holding
  <2>4. /\ service.async = asyncOperation' /\ service.location = location'
        /\ request'.uri = PollUri(asyncOperation', location')
    BY <2>3 DEF PreparePoll, CloneAndDispose
  <2>5. CASE pc' = "waiting"
    BY <2>1, <2>2, <2>4, <2>5 DEF TargetInv, Told, Newest, Unsent, Holding
  <2>6. CASE pc' = "finally"
    BY <2>6 DEF TargetInv, Unsent, Holding
  <2> QED
    BY <2>1, <2>5, <2>6
<1>8. VerdictInv'
  BY DEF CallInv, PreparePoll, Leave, Goto, CloneAndDispose, PollUri, response_, results,
    VerdictInv, Unsent
<1>9. ResponseType' /\ AnswerType' /\ ServiceType' /\ CountType'
  BY DEF CallInv, PreparePoll, Leave, Goto, CloneAndDispose, PollUri, response_, results,
    ResponseType, AnswerType, ServiceType, CountType
<1> QED
  BY <1>1, <1>2, <1>3, <1>4, <1>5, <1>6, <1>7, <1>8, <1>9 DEF CallInv

\* The delay ends, or the token ends it.
LEMMA AwaitDelayInv ==
  ASSUME CallInv, AwaitDelay
  PROVE  CallInv'
<1>1. ControlType'
  BY DEF CallInv, AwaitDelay, Leave, Goto, request_, response_, locals, results, ControlType
<1>2. RequestInv'
  BY DEF CallInv, AwaitDelay, Leave, Goto, request_, response_, locals, results, RequestInv,
    Live
<1>3. ResponseInv'
  BY DEF CallInv, AwaitDelay, Leave, Goto, request_, response_, locals, results, ResponseInv,
    Live, Unsent, Awaiting, Holding, Ended
<1>4. ResultInv'
  BY DEF CallInv, AwaitDelay, Leave, Goto, request_, response_, locals, results, ResultInv,
    Ended
<1>5. TargetInv'
  BY DEF CallInv, AwaitDelay, Leave, Goto, request_, response_, locals, results, TargetInv,
    Told, Unsent, Holding
<1>6. VerdictInv'
  BY DEF CallInv, AwaitDelay, Leave, Goto, request_, response_, locals, results, VerdictInv,
    Unsent
<1>7. RequestType' /\ ResponseType' /\ AnswerType' /\ LocalsType' /\ ServiceType' /\ CountType'
  BY DEF CallInv, AwaitDelay, Leave, Goto, request_, response_, locals, results, RequestType,
    ResponseType, AnswerType, LocalsType, ServiceType, CountType
<1> QED
  BY <1>1, <1>2, <1>3, <1>4, <1>5, <1>6, <1>7 DEF CallInv

\* A call that is cancelled here does not send.
LEMMA CheckForCancellationInv ==
  ASSUME CallInv, CheckForCancellation
  PROVE  CallInv'
<1>1. ControlType'
  BY DEF CallInv, CheckForCancellation, Leave, Goto, request_, response_, locals, results,
    ControlType
<1>2. RequestInv'
  BY DEF CallInv, CheckForCancellation, Leave, Goto, request_, response_, locals, results,
    RequestInv, Live
<1>3. ResponseInv'
  BY DEF CallInv, CheckForCancellation, Leave, Goto, request_, response_, locals, results,
    ResponseInv, Live, Unsent, Awaiting, Holding, Ended
<1>4. ResultInv'
  BY DEF CallInv, CheckForCancellation, Leave, Goto, request_, response_, locals, results,
    ResultInv, Ended
<1>5. TargetInv'
  BY DEF CallInv, CheckForCancellation, Leave, Goto, request_, response_, locals, results,
    TargetInv, Told, Unsent, Holding
<1>6. VerdictInv'
  BY DEF CallInv, CheckForCancellation, Leave, Goto, request_, response_, locals, results,
    VerdictInv, Unsent
<1>7. RequestType' /\ ResponseType' /\ AnswerType' /\ LocalsType' /\ ServiceType' /\ CountType'
  BY DEF CallInv, CheckForCancellation, Leave, Goto, request_, response_, locals, results,
    RequestType, ResponseType, AnswerType, LocalsType, ServiceType, CountType
<1> QED
  BY <1>1, <1>2, <1>3, <1>4, <1>5, <1>6, <1>7 DEF CallInv

\* The old response is closed and the next send is under way.
LEMMA PollInv ==
  ASSUME CallInv, Poll
  PROVE  CallInv'
<1>1. ControlType'
  BY DEF CallInv, Poll, StartSend, DropResponse, Goto, request_, locals, results, ControlType
<1>2. ResponseType'
  <2> QED
    BY DropResponseFacts DEF Poll, ResponseType
<1>3. AnswerType'
  BY DEF CallInv, Poll, StartSend, DropResponse, Goto, request_, locals, results, AnswerType,
    NoResponse, Unanswered
<1>4. CountType'
  BY DEF CallInv, Poll, StartSend, DropResponse, Goto, request_, locals, results, CountType,
    ResultInv, Ended
<1>5. RequestInv'
  BY DEF CallInv, Poll, StartSend, DropResponse, Goto, request_, locals, results, RequestInv,
    Live
<1>6. ResponseInv'
  <2>1. pc = "poll" /\ pc' = "awaitPoll" /\ answer' = Unanswered("pending")
    BY DEF Poll, StartSend, Goto
  <2>2. ~response'.live /\ openResponses' = Live(answer)
    BY DropResponseFacts DEF Poll
  <2>3. ~answer.live
    BY <2>1 DEF CallInv, ResponseInv, Awaiting, Ended, Statuses
  <2> QED
    BY <2>1, <2>2, <2>3, UnansweredFacts DEF ResponseInv, Live, Awaiting, Unsent, Holding,
      Ended, Statuses
<1>7. ResultInv'
  BY DEF CallInv, Poll, StartSend, DropResponse, Goto, request_, locals, results, ResultInv,
    Ended
<1>8. TargetInv'
  <2>1. /\ pc = "poll" /\ pc' = "awaitPoll" /\ answer' = Unanswered("pending")
        /\ UNCHANGED <<service, asyncOperation, location, request>>
    BY DEF Poll, StartSend, Goto, locals, request_
  <2>2. answer.async = None /\ answer.location = None
    <3>1. answer.status = "null"
      BY <2>1 DEF CallInv, ResponseInv, Awaiting, Ended
    <3> QED
      BY <3>1, UnansweredFacts DEF CallInv, AnswerType, Response, Statuses
  <2> QED
    BY <2>1, <2>2, UnansweredFacts DEF CallInv, TargetInv, Told, Newest, Unsent, Holding
<1>9. VerdictInv'
  BY DEF CallInv, Poll, StartSend, DropResponse, Goto, request_, locals, results, VerdictInv,
    Unsent, NoResponse, Unanswered, ResultInv, ResponseInv, Ended, Verdict, InProgress, Failed,
    Holding, Awaiting
<1>10. RequestType' /\ LocalsType' /\ ServiceType'
  BY DEF CallInv, Poll, StartSend, DropResponse, Goto, request_, locals, results, RequestType,
    LocalsType, ServiceType
<1> QED
  BY <1>1, <1>2, <1>3, <1>4, <1>5, <1>6, <1>7, <1>8, <1>9, <1>10 DEF CallInv

\* The response of a poll carries the verdict of the service.
LEMMA ReceivePollInv ==
  ASSUME CallInv, ReceivePoll
  PROVE  CallInv'
<1>1. ControlType'
  BY DEF CallInv, ReceivePoll, Receive, Leave, Goto, request_, locals, results, ControlType
<1>2. ResponseType'
  BY DEF CallInv, ReceivePoll, Receive, Leave, Goto, request_, locals, results, ResponseType,
    AnswerType, ResponseInv, Awaiting, NoResponse, Unanswered
<1>3. AnswerType'
  BY DEF CallInv, ReceivePoll, Receive, Leave, Goto, request_, locals, results, AnswerType,
    NoResponse, Unanswered
<1>4. RequestInv'
  BY DEF CallInv, ReceivePoll, Receive, Leave, Goto, request_, locals, results, RequestInv, Live
<1>5. ResponseInv'
  <2>1. /\ pc = "awaitPoll" /\ answer' = NoResponse /\ openResponses' = openResponses
        /\ answer.status \notin {"null", "pending"}
    BY DEF ReceivePoll, Receive, CallInv, ResponseInv, Awaiting
  <2>2. ~response.live /\ openResponses = Live(answer)
    BY <2>1 DEF CallInv, ResponseInv, Live
  <2>3. CASE answer.status = "failed" /\ pc' = "finally" /\ UNCHANGED response
    <3>1. ~answer.live
      BY <2>3 DEF CallInv, ResponseInv, Statuses
    <3> QED
      BY <2>1, <2>2, <2>3, <3>1, UnansweredFacts DEF ResponseInv, Live, Awaiting, Unsent,
        Holding, Ended, Statuses
  <2>4. CASE answer.status # "failed" /\ pc' = "polled" /\ response' = answer
    <3>1. answer.live
      BY <2>1, <2>4, AnswerFacts DEF CallInv, ResponseInv, Response
    <3> QED
      BY <2>1, <2>2, <2>4, <3>1, UnansweredFacts DEF ResponseInv, Live, Awaiting, Unsent,
        Holding, Ended, Statuses
  <2> QED
    BY <2>3, <2>4 DEF ReceivePoll, Receive, Leave, Goto
<1>6. ResultInv'
  BY DEF CallInv, ReceivePoll, Receive, Leave, Goto, request_, locals, results, ResultInv, Ended
<1>7. TargetInv'
  BY DEF CallInv, ReceivePoll, Receive, Leave, Goto, request_, locals, results, TargetInv, Told,
    Unsent, Holding
<1>8. VerdictInv'
  <2>1. pc = "awaitPoll" /\ UNCHANGED <<service, handled>> /\ answer.status # "pending"
    BY DEF ReceivePoll, Receive, results
  <2>2. handled = 0 /\ outcome # "returned"
    BY <2>1 DEF CallInv, ResultInv, Ended
  <2>3. CASE pc' = "finally" /\ outcome' = "send"
    BY <2>1, <2>2, <2>3 DEF VerdictInv, Unsent
  <2>4. CASE /\ answer.status # "failed" /\ pc' = "polled" /\ response' = answer
             /\ UNCHANGED outcome
    <3>1. answer.live
      BY <2>1, <2>4, AnswerFacts DEF CallInv, ResponseInv, Awaiting, Response
    <3>2. service.polled = Verdict(answer)
      BY <2>1, <3>1 DEF CallInv, VerdictInv
    <3> QED
      BY <2>1, <2>2, <2>4, <3>2 DEF VerdictInv, Unsent
  <2> QED
    BY <2>3, <2>4 DEF ReceivePoll, Receive, Leave, Goto
<1>9. RequestType' /\ LocalsType' /\ ServiceType' /\ CountType'
  BY DEF CallInv, ReceivePoll, Receive, Leave, Goto, request_, locals, results, RequestType,
    LocalsType, ServiceType, CountType
<1> QED
  BY <1>1, <1>2, <1>3, <1>4, <1>5, <1>6, <1>7, <1>8, <1>9 DEF CallInv

\* A call that is cancelled here leaves.
LEMMA PollingInv ==
  ASSUME CallInv, Polling
  PROVE  CallInv'
<1>1. ControlType'
  BY DEF CallInv, Polling, Signalled, Goto, request_, response_, locals, results, ControlType
<1>2. RequestInv'
  BY DEF CallInv, Polling, Signalled, Goto, request_, response_, locals, results, RequestInv,
    Live
<1>3. ResponseInv'
  BY DEF CallInv, Polling, Signalled, Goto, request_, response_, locals, results, ResponseInv,
    Live, Unsent, Awaiting, Holding, Ended
<1>4. ResultInv'
  BY DEF CallInv, Polling, Signalled, Goto, request_, response_, locals, results, ResultInv,
    Ended
<1>5. TargetInv'
  BY DEF CallInv, Polling, Signalled, Goto, request_, response_, locals, results, TargetInv,
    Told, Unsent, Holding
<1>6. VerdictInv'
  BY DEF CallInv, Polling, Signalled, Goto, request_, response_, locals, results, VerdictInv,
    Unsent
<1>7. RequestType' /\ ResponseType' /\ AnswerType' /\ LocalsType' /\ ServiceType' /\ CountType'
  BY DEF CallInv, Polling, Signalled, Goto, request_, response_, locals, results, RequestType,
    ResponseType, AnswerType, LocalsType, ServiceType, CountType
<1> QED
  BY <1>1, <1>2, <1>3, <1>4, <1>5, <1>6, <1>7 DEF CallInv

\* The verdict decides where the call goes.
LEMMA PeekInv ==
  ASSUME CallInv, Peek
  PROVE  CallInv'
<1>1. ControlType'
  <2>1. /\ ControlType /\ UNCHANGED <<op, cancelled>>
        /\ pc' \in {"dispatch", "while", "final", "finally"} /\ outcome' \in {outcome, "failed", "content"}
    BY DEF CallInv, Peek, PeekFailed, KeepPolling, Leave, Goto
  <2> QED
    BY <2>1 DEF ControlType
<1>2. ResponseType'
  BY DEF CallInv, Peek, PeekFailed, KeepPolling, Leave, Goto, request_, locals, results,
    ResponseType, Response, NoResponse, Unanswered, Statuses
<1>3. RequestInv'
  BY DEF CallInv, Peek, PeekFailed, KeepPolling, Leave, Goto, request_, locals, results,
    RequestInv, Live
<1>4. ResponseInv'
  BY DEF CallInv, Peek, PeekFailed, KeepPolling, Leave, Goto, request_, locals, results,
    ResponseInv, Live, Unsent, Awaiting, Holding, Ended, NoResponse, Unanswered, Response,
    AnswerType, ResponseType
<1>5. ResultInv'
  BY DEF CallInv, Peek, PeekFailed, KeepPolling, Leave, Goto, request_, locals, results,
    ResultInv, Ended
<1>6. TargetInv'
  BY DEF CallInv, Peek, PeekFailed, KeepPolling, Leave, Goto, request_, locals, results,
    TargetInv, Told, Unsent, Holding, NoResponse, Unanswered, Response, ResponseInv, Newest,
    PollUri, AnswerType, ResponseType
<1>7. VerdictInv'
  <2>1. pc = "peek" /\ UNCHANGED <<service, handled>> /\ service.polled = Verdict(response)
    BY DEF Peek, PeekFailed, KeepPolling, Leave, Goto, CallInv, VerdictInv, results
  <2>2. handled = 0 /\ outcome # "returned"
    BY <2>1 DEF CallInv, ResultInv, Ended
  <2>3. CASE pc' = "finally" /\ outcome' = "failed"
    BY <2>1, <2>2, <2>3 DEF VerdictInv, Unsent
  <2>4. CASE pc' \in {"dispatch", "final"} /\ UNCHANGED outcome /\ Verdict(response) = "over"
    BY <2>1, <2>2, <2>4 DEF VerdictInv, Unsent
  <2>5. CASE /\ pc' = "while" /\ UNCHANGED outcome
             /\ response'.status \in {"Created", "Accepted"}
             /\ Verdict(response) = "running"
    BY <2>1, <2>2, <2>5 DEF VerdictInv, Unsent
  <2>6. response.status \in Statuses /\ response.state \in States
    BY <2>1 DEF CallInv, ResponseType, ResponseInv, Holding, Response, NoResponse, Unanswered
  <2>7. ASSUME KeepPolling
        PROVE  response'.status = "Created"
    BY <2>1, <2>7 DEF CallInv, ResponseType, ResponseInv, Holding, Response, NoResponse,
      Unanswered, KeepPolling
  <2> QED
    BY <2>1, <2>3, <2>4, <2>5, <2>6, <2>7 DEF Peek, PeekFailed, KeepPolling, Leave, Goto,
      Verdict, InProgress, Failed, Statuses, States
<1>8. RequestType' /\ AnswerType' /\ LocalsType' /\ ServiceType' /\ CountType'
  BY DEF CallInv, Peek, PeekFailed, KeepPolling, Leave, Goto, request_, locals, results,
    RequestType, AnswerType, LocalsType, ServiceType, CountType
<1> QED
  BY <1>1, <1>2, <1>3, <1>4, <1>5, <1>6, <1>7, <1>8 DEF CallInv

\* A final GET is the last send, and follows a poll that ended the operation.
LEMMA FinalGetInv ==
  ASSUME CallInv, FinalGet
  PROVE  CallInv'
<1>1. ControlType'
  BY DEF CallInv, FinalGet, CloneAndDispose, DropResponse, StartSend, Leave, Goto, response_,
    locals, results, ControlType
<1>2. RequestType'
  <2>1. finalUri \in Uris /\ RequestType
    BY DEF CallInv, LocalsType
  <2>2. request' = [method |-> "get", uri |-> finalUri, live |-> TRUE] \/ request' = request
    BY DEF FinalGet, CloneAndDispose
  <2>3. openRequests' = openRequests
    BY DEF FinalGet
  <2>4. CASE request' = request
    BY <2>1, <2>3, <2>4 DEF RequestType
  <2>5. CASE request' = [method |-> "get", uri |-> finalUri, live |-> TRUE]
    <3>1. request' \in [method : Verbs \cup {"get", "none"}, uri : Uris, live : BOOLEAN]
      BY <2>1, <2>5
    <3> QED
      BY <2>1, <2>3, <3>1 DEF RequestType
  <2> QED
    BY <2>2, <2>4, <2>5
<1>3. ResponseType'
  <2>1. CASE DropResponse
    BY <2>1, DropResponseFacts DEF ResponseType
  <2>2. CASE UNCHANGED response_
    BY <2>2 DEF CallInv, ResponseType, response_
  <2> QED
    BY <2>1, <2>2 DEF FinalGet
<1>4. AnswerType'
  BY DEF CallInv, FinalGet, CloneAndDispose, DropResponse, StartSend, Leave, Goto, response_,
    locals, results, AnswerType, NoResponse, Unanswered
<1>5. CountType'
  <2>1. pc = "final" /\ UNCHANGED <<handled, accepted>> 
    BY DEF FinalGet, StartSend, Leave, Goto, results
  <2>3. late = 0
    BY <2>1 DEF CallInv, ResultInv, Ended, CountType
  <2>2. late' \in {late, late + 1}
    BY DEF FinalGet, StartSend
  <2> QED
    BY <2>1, <2>2, <2>3 DEF CallInv, CountType
<1>6. RequestInv'
  <2>1. pc = "final" /\ request.live /\ openRequests = 1 /\ openRequests' = openRequests
    BY DEF CallInv, RequestInv, Live, FinalGet, Goto, StartSend, Leave
  <2>2. request' = [method |-> "get", uri |-> finalUri, live |-> TRUE] \/ request' = request
    BY DEF FinalGet, CloneAndDispose
  <2>3. request'.live
    BY <2>1, <2>2
  <2>4. pc' \in {"awaitFinal", "finally", "while"}
    BY DEF FinalGet, Goto, StartSend, Leave
  <2> QED
    BY <2>1, <2>3, <2>4 DEF RequestInv, Live
<1>7. ResponseInv'
  <2>1. pc = "final" /\ ~answer.live /\ answer.status = "null" /\ response.live
    BY DEF FinalGet, StartSend, Leave, Goto, CallInv, ResponseInv, Awaiting, Ended, Holding,
      Statuses
  <2>2. CASE DropResponse /\ StartSend("final", "awaitFinal")
    <3>1. /\ ~response'.live /\ openResponses' = Live(answer)
          /\ answer' = Unanswered("pending") /\ pc' = "awaitFinal"
      BY <2>2, DropResponseFacts DEF StartSend, Goto
    <3> QED
      BY <2>1, <3>1, UnansweredFacts DEF ResponseInv, Live, Awaiting, Unsent, Holding, Ended,
        Statuses
  <2>3. CASE UNCHANGED <<response_, answer>> /\ pc' \in {"finally", "while"}
    <3>1. response' = response /\ openResponses' = openResponses /\ answer' = answer
      BY <2>3 DEF response_
    <3> QED
      BY <2>1, <2>3, <3>1 DEF CallInv, ResponseInv, Live, Awaiting, Unsent, Holding, Ended,
        Statuses
  <2> QED
    BY <2>2, <2>3 DEF FinalGet, Leave, Goto
<1>8. ResultInv'
  BY DEF CallInv, FinalGet, CloneAndDispose, DropResponse, StartSend, Leave, Goto, response_,
    locals, results, ResultInv, Ended
<1>9. TargetInv'
  BY DEF CallInv, FinalGet, CloneAndDispose, DropResponse, StartSend, Leave, Goto, response_,
    locals, results, TargetInv, Told, Unsent, Holding
<1>10. VerdictInv'
  BY DEF CallInv, FinalGet, CloneAndDispose, DropResponse, StartSend, Leave, Goto, response_,
    locals, results, VerdictInv, Unsent
<1>11. LocalsType' /\ ServiceType'
  BY DEF CallInv, FinalGet, CloneAndDispose, DropResponse, StartSend, Leave, Goto, response_,
    locals, results, LocalsType, ServiceType
<1> QED
  BY <1>1, <1>2, <1>3, <1>4, <1>5, <1>6, <1>7, <1>8, <1>9, <1>10, <1>11 DEF CallInv

\* The response of the final GET.
LEMMA ReceiveFinalInv ==
  ASSUME CallInv, ReceiveFinal
  PROVE  CallInv'
<1>1. ControlType'
  BY DEF CallInv, ReceiveFinal, Receive, Leave, Goto, request_, locals, results, ControlType
<1>2. ResponseType'
  BY DEF CallInv, ReceiveFinal, Receive, Leave, Goto, request_, locals, results, ResponseType,
    AnswerType, ResponseInv, Awaiting, NoResponse, Unanswered
<1>3. AnswerType'
  BY DEF CallInv, ReceiveFinal, Receive, Leave, Goto, request_, locals, results, AnswerType,
    NoResponse, Unanswered
<1>4. RequestInv'
  BY DEF CallInv, ReceiveFinal, Receive, Leave, Goto, request_, locals, results, RequestInv,
    Live
<1>5. ResponseInv'
  <2>1. /\ pc = "awaitFinal" /\ answer' = NoResponse /\ openResponses' = openResponses
        /\ answer.status \notin {"null", "pending"}
    BY DEF ReceiveFinal, Receive, CallInv, ResponseInv, Awaiting
  <2>2. ~response.live /\ openResponses = Live(answer)
    BY <2>1 DEF CallInv, ResponseInv, Live
  <2>3. CASE answer.status = "failed" /\ pc' = "finally" /\ UNCHANGED response
    <3>1. ~answer.live
      BY <2>3 DEF CallInv, ResponseInv, Statuses
    <3> QED
      BY <2>1, <2>2, <2>3, <3>1, UnansweredFacts DEF ResponseInv, Live, Awaiting, Unsent,
        Holding, Ended, Statuses
  <2>4. CASE answer.status # "failed" /\ pc' = "dispatch" /\ response' = answer
    <3>1. answer.live
      BY <2>1, <2>4, AnswerFacts DEF CallInv, ResponseInv, Response
    <3> QED
      BY <2>1, <2>2, <2>4, <3>1, UnansweredFacts DEF ResponseInv, Live, Awaiting, Unsent,
        Holding, Ended, Statuses
  <2> QED
    BY <2>3, <2>4 DEF ReceiveFinal, Receive, Leave, Goto
<1>6. ResultInv'
  BY DEF CallInv, ReceiveFinal, Receive, Leave, Goto, request_, locals, results, ResultInv,
    Ended
<1>7. TargetInv'
  BY DEF CallInv, ReceiveFinal, Receive, Leave, Goto, request_, locals, results, TargetInv,
    Told, Unsent, Holding
<1>8. VerdictInv'
  BY DEF CallInv, ReceiveFinal, Receive, Leave, Goto, request_, locals, results, VerdictInv,
    Unsent
<1>9. RequestType' /\ LocalsType' /\ ServiceType' /\ CountType'
  BY DEF CallInv, ReceiveFinal, Receive, Leave, Goto, request_, locals, results, RequestType,
    LocalsType, ServiceType, CountType
<1> QED
  BY <1>1, <1>2, <1>3, <1>4, <1>5, <1>6, <1>7, <1>8, <1>9 DEF CallInv

\* Only a call whose exceptions are "specific" returns without a handler.
LEMMA DispatchInv ==
  ASSUME CallInv, Dispatch
  PROVE  CallInv'
<1>1. ControlType'
  BY DEF CallInv, Dispatch, Signalled, Undeclared, Leave, Goto, Declared, request_, response_,
    locals, results, ControlType
<1>2. RequestInv'
  BY DEF CallInv, Dispatch, Signalled, Undeclared, Leave, Goto, Declared, request_, response_,
    locals, results, RequestInv, Live
<1>3. ResponseInv'
  BY DEF CallInv, Dispatch, Signalled, Undeclared, Leave, Goto, Declared, request_, response_,
    locals, results, ResponseInv, Live, Unsent, Awaiting, Holding, Ended
<1>4. ResultInv'
  <2>1. /\ pc = "dispatch" /\ UNCHANGED <<op, cancelled, handled, accepted, late>>
        /\ handled = 0 /\ accepted = 0
    BY DEF Dispatch, Signalled, Undeclared, Leave, Goto, CallInv, ResultInv, Ended, results
  <2>2. CASE /\ pc' \in {"handle", "finally"} /\ outcome' # "returned"
             /\ (pc' = "handle" => ~cancelled)
    BY <2>1, <2>2 DEF CallInv, ResultInv, Ended
  <2>3. CASE pc' = "finally" /\ op.exceptions = "specific"
    BY <2>1, <2>3 DEF CallInv, ResultInv, Ended
  <2>4. op.exceptions \in {"none", "default", "specific"} /\ outcome # "returned"
    BY <2>1, OperationCallAssumption DEF OperationCallAssumption, CallInv, ControlType,
      ResultInv, Ended
  <2> QED
    BY <2>2, <2>3, <2>4 DEF Dispatch, Signalled, Undeclared, Leave, Goto
<1>5. TargetInv'
  BY DEF CallInv, Dispatch, Signalled, Undeclared, Leave, Goto, Declared, request_, response_,
    locals, results, TargetInv, Told, Unsent, Holding
<1>6. VerdictInv'
  BY DEF CallInv, Dispatch, Signalled, Undeclared, Leave, Goto, Declared, request_, response_,
    locals, results, VerdictInv, Unsent
<1>7. RequestType' /\ ResponseType' /\ AnswerType' /\ LocalsType' /\ ServiceType' /\ CountType'
  BY DEF CallInv, Dispatch, Signalled, Undeclared, Leave, Goto, Declared, request_, response_,
    locals, results, RequestType, ResponseType, AnswerType, LocalsType, ServiceType, CountType
<1> QED
  BY <1>1, <1>2, <1>3, <1>4, <1>5, <1>6, <1>7 DEF CallInv

\* One handler, and the call is at its end.
LEMMA HandleInv ==
  ASSUME CallInv, Handle
  PROVE  CallInv'
<1>1. ControlType'
  BY DEF CallInv, Handle, Leave, Goto, request_, response_, locals, ControlType
<1>2. CountType'
  BY DEF CallInv, Handle, Leave, Goto, request_, response_, locals, CountType, ResultInv, Ended
<1>3. RequestInv'
  BY DEF CallInv, Handle, Leave, Goto, request_, response_, locals, RequestInv, Live
<1>4. ResponseInv'
  BY DEF CallInv, Handle, Leave, Goto, request_, response_, locals, ResponseInv, Live, Unsent,
    Awaiting, Holding, Ended
<1>5. ResultInv'
  BY DEF CallInv, Handle, Leave, Goto, request_, response_, locals, ResultInv, Ended
<1>6. TargetInv'
  BY DEF CallInv, Handle, Leave, Goto, request_, response_, locals, TargetInv, Told, Unsent,
    Holding
<1>7. VerdictInv'
  BY DEF CallInv, Handle, Leave, Goto, request_, response_, locals, VerdictInv, Unsent
<1>8. RequestType' /\ ResponseType' /\ AnswerType' /\ LocalsType' /\ ServiceType'
  BY DEF CallInv, Handle, Leave, Goto, request_, response_, locals, RequestType, ResponseType,
    AnswerType, LocalsType, ServiceType
<1> QED
  BY <1>1, <1>2, <1>3, <1>4, <1>5, <1>6, <1>7, <1>8 DEF CallInv

\* The request and the response are closed, unless a listener throws.
LEMMA FinallyInv ==
  ASSUME CallInv, Finally
  PROVE  CallInv'
<1>1. ControlType'
  BY DEF CallInv, Finally, DropResponse, Goto, request_, response_, locals, results, ControlType
<1>2. RequestType'
  <2>1. pc = "finally" /\ request.live /\ openRequests = 1
    BY DEF CallInv, RequestInv, Live, Finally, Goto
  <2>2. CASE request' = [request EXCEPT !.live = FALSE] /\ openRequests' = openRequests - 1
    <3>1. openRequests' = 0
      BY <2>1, <2>2
    <3>2. request' \in [method : Verbs \cup {"get", "none"}, uri : Uris, live : BOOLEAN]
      BY <2>2 DEF CallInv, RequestType
    <3> QED
      BY <3>1, <3>2 DEF RequestType
  <2>3. CASE UNCHANGED request_
    BY <2>3 DEF CallInv, RequestType, request_
  <2> QED
    BY <2>2, <2>3 DEF Finally
<1>3. ResponseType'
  <2>1. CASE DropResponse
    BY <2>1, DropResponseFacts DEF ResponseType
  <2>2. CASE UNCHANGED response_
    BY <2>2 DEF CallInv, ResponseType, response_
  <2> QED
    BY <2>1, <2>2 DEF Finally
<1>4. RequestInv'
  <2>1. pc = "finally" /\ request.live /\ openRequests = 1
    BY DEF CallInv, RequestInv, Live, Finally, Goto
  <2>2. CASE request' = [request EXCEPT !.live = FALSE] /\ openRequests' = openRequests - 1
    <3>1. ~request'.live /\ openRequests' = 0
      BY <2>1, <2>2 DEF CallInv, RequestType
    <3> QED
      BY <3>1 DEF Finally, Goto, RequestInv, Live
  <2>3. CASE outcome' = "finally listener" /\ UNCHANGED request_
    BY <2>1, <2>3 DEF Finally, Goto, RequestInv, request_, Live
  <2> QED
    BY <2>2, <2>3 DEF Finally
<1>5. ResponseInv'
  <2>1. pc = "finally" /\ pc' = "done" /\ answer' = answer
    BY DEF Finally, Goto
  <2>2. CASE DropResponse
    <3>1. ~response'.live /\ openResponses' = Live(answer)
      BY <2>2, DropResponseFacts
    <3>2. (openResponses = Live(response) + Live(answer))'
      BY <2>1, <3>1 DEF Live
    <3> QED
      BY <2>1, <3>1, <3>2 DEF CallInv, ResponseInv, Awaiting, Unsent, Holding, Ended
  <2>3. CASE UNCHANGED response_ /\ outcome' = "finally listener"
    <3>1. response' = response /\ openResponses' = openResponses
      BY <2>3 DEF response_
    <3> QED
      BY <2>1, <2>3, <3>1 DEF CallInv, ResponseInv, Live, Awaiting, Unsent, Holding, Ended,
        Statuses
  <2> QED
    BY <2>2, <2>3 DEF Finally
<1>6. ResultInv'
  BY DEF CallInv, Finally, DropResponse, Goto, request_, response_, locals, results, ResultInv,
    Ended
<1>7. TargetInv'
  BY DEF CallInv, Finally, DropResponse, Goto, request_, response_, locals, results, TargetInv,
    Told, Unsent, Holding
<1>8. VerdictInv'
  BY DEF CallInv, Finally, DropResponse, Goto, request_, response_, locals, results, VerdictInv,
    Unsent
<1>9. AnswerType' /\ LocalsType' /\ ServiceType' /\ CountType'
  BY DEF CallInv, Finally, DropResponse, Goto, request_, response_, locals, results, AnswerType,
    LocalsType, ServiceType, CountType
<1> QED
  BY <1>1, <1>2, <1>3, <1>4, <1>5, <1>6, <1>7, <1>8, <1>9 DEF CallInv

\* The token is read by TypeOK and ResultInv only.
LEMMA CancelInv ==
  ASSUME CallInv, Cancel
  PROVE  CallInv'
<1>1. ControlType'
  BY DEF CallInv, Cancel, request_, response_, locals, results, ControlType
<1>2. ResultInv'
  BY DEF CallInv, Cancel, request_, response_, locals, results, ResultInv, Ended
<1>3. RequestType'
  BY DEF CallInv, RequestType, Cancel, request_, response_, locals, results
<1>4. ResponseType'
  BY DEF CallInv, ResponseType, Cancel, request_, response_, locals, results
<1>5. AnswerType'
  BY DEF CallInv, AnswerType, Cancel, request_, response_, locals, results
<1>6. LocalsType'
  BY DEF CallInv, LocalsType, Cancel, request_, response_, locals, results
<1>7. ServiceType'
  BY DEF CallInv, ServiceType, Cancel, request_, response_, locals, results
<1>8. CountType'
  BY DEF CallInv, CountType, Cancel, request_, response_, locals, results
<1>9. RequestInv'
  BY DEF CallInv, RequestInv, Cancel, request_, response_, locals, results
<1>10. ResponseInv'
  BY DEF CallInv, ResponseInv, Cancel, request_, response_, locals, results
<1>11. TargetInv'
  BY DEF CallInv, TargetInv, Told, Cancel, request_, response_, locals, results
<1>12. VerdictInv'
  BY DEF CallInv, VerdictInv, Cancel, request_, response_, locals, results
<1> QED
  BY <1>1, <1>2, <1>3, <1>4, <1>5, <1>6, <1>7, <1>8, <1>9, <1>10, <1>11, <1>12 DEF CallInv

\* Nothing moves: the invariant stays.
LEMMA StutterInv ==
  ASSUME CallInv, UNCHANGED vars
  PROVE  CallInv'
<1>1. ControlType'
  <2>1. ControlType /\ UNCHANGED <<op, pc, cancelled, outcome>>
    BY DEF CallInv, vars
  <2> QED
    BY <2>1 DEF ControlType
<1>8. RequestType' /\ LocalsType'
  BY DEF CallInv, vars, RequestType, LocalsType
<1>9. ResponseType' /\ AnswerType'
  BY DEF CallInv, vars, ResponseType, AnswerType
<1>2. ServiceType' /\ CountType'
  BY DEF CallInv, vars, ServiceType, CountType
<1>3. RequestInv'
  BY DEF CallInv, vars, RequestInv, Live
<1>4. ResponseInv'
  BY DEF CallInv, vars, ResponseInv, Live
<1>5. ResultInv'
  BY DEF CallInv, vars, ResultInv
<1>6. TargetInv'
  BY DEF CallInv, vars, TargetInv, Told
<1>7. VerdictInv'
  BY DEF CallInv, vars, VerdictInv
<1> QED
  BY <1>1, <1>2, <1>3, <1>4, <1>5, <1>6, <1>7, <1>8, <1>9 DEF CallInv

\* No step of the call, of the service or of whoever cancels breaks the invariant.
LEMMA NextCallInv == CallInv /\ [Next]_vars => CallInv'
<1> SUFFICES ASSUME CallInv, [Next]_vars PROVE CallInv'
  OBVIOUS
<1>1. CASE CallStep
  BY <1>1, ConstructUrlInv, CreateRequestInv, AddHeadersInv, SetBodyInv, SendInv, BeforeCallInv,
    ReceiveResponseInv, ResponseCreatedInv, ReadLroHeadersInv, WhileInv, DelayBeforePollingInv,
    PreparePollInv, AwaitDelayInv, CheckForCancellationInv, PollInv, ReceivePollInv, PollingInv,
    PeekInv, FinalGetInv, ReceiveFinalInv, DispatchInv, HandleInv, FinallyInv DEF CallStep
<1>2. CASE Deliver
  BY <1>2, DeliverInv
<1>3. CASE Cancel
  BY <1>3, CancelInv
<1>4. CASE UNCHANGED vars
  BY <1>4, StutterInv
<1> QED
  BY <1>1, <1>2, <1>3, <1>4 DEF Next

\* The inductive invariant holds in every reachable state.
LEMMA CallInvariant == Spec => []CallInv
  BY InitCallInv, NextCallInv, PTL DEF Spec

\* No step of the call or of the service breaks that.
LEMMA RunningInvKept == CallInv /\ RunningInv /\ [Next]_vars => RunningInv'
<1> SUFFICES ASSUME CallInv, RunningInv, [Next]_vars PROVE RunningInv'
  OBVIOUS
<1>1. CASE ConstructUrl
  BY <1>1 DEF ConstructUrl, Signalled, Goto, RunningInv, Unsent, request_, response_,
    locals, results
<1>2. CASE CreateRequest
  BY <1>2 DEF CreateRequest, Signalled, Goto, RunningInv, Unsent, request_, response_,
    locals, results
<1>3. CASE AddHeaders
  BY <1>3 DEF AddHeaders, Signalled, Goto, RunningInv, Unsent, request_, response_,
    locals, results
<1>4. CASE SetBody
  BY <1>4 DEF SetBody, Signalled, Goto, RunningInv, Unsent, request_, response_, locals,
    results
<1>5. CASE Send
  BY <1>5 DEF Send, StartSend, Leave, Goto, RunningInv, Unsent, request_, response_,
    locals, results
<1>6. CASE BeforeCall
  BY <1>6 DEF BeforeCall, Signalled, Goto, RunningInv, Unsent, request_, response_,
    locals, results
<1>7. CASE ReceiveResponse
  BY <1>7 DEF ReceiveResponse, Receive, Leave, Goto, RunningInv, Unsent, request_,
    response_, locals, results
<1>8. CASE ResponseCreated
  BY <1>8 DEF ResponseCreated, Signalled, Goto, RunningInv, Unsent, request_, response_,
    locals, results
<1>9. CASE ReadLroHeaders
  BY <1>9 DEF ReadLroHeaders, Goto, RunningInv, Unsent, request_, response_,
    locals, results
<1>10. CASE While
  <2>1. pc = "while" /\ pc' \in {"delay", "dispatch"} /\ (pc' = "dispatch" => ~StillRunning)
    BY <1>10 DEF While, Goto
  <2>2. UNCHANGED <<op, request, response, service, finalUri>>
    BY <1>10 DEF While, request_, response_, locals
  <2>3. ASSUME pc' = "dispatch", Verdict(response) = "running" PROVE FirstAnswer
    <3>1. response.status = "OK" /\ request.method # "put"
      BY <2>1, <2>3 DEF StillRunning, Verdict, InProgress, Failed
    <3>2. service.polled = "never"
      BY <2>1, <2>3, <3>1 DEF CallInv, VerdictInv, RunningInv, ServiceType
    <3> QED
      BY <2>1, <3>1, <3>2 DEF RunningInv, FirstAnswer
  <2>4. Verdict(response)' = Verdict(response) /\ FirstAnswer' = FirstAnswer
    BY <2>2 DEF Verdict, InProgress, Failed, FirstAnswer
  <2> QED
    BY <2>1, <2>2, <2>3, <2>4 DEF RunningInv, Unsent
<1>11. CASE DelayBeforePolling
  BY <1>11 DEF DelayBeforePolling, Leave, Signalled, Goto, RunningInv, Unsent, request_,
    response_, locals, results
<1>12. CASE PreparePoll
  BY <1>12 DEF PreparePoll, Leave, Goto, RunningInv, Unsent, request_, response_, locals,
    results
<1>13. CASE AwaitDelay
  BY <1>13 DEF AwaitDelay, Leave, Goto, RunningInv, Unsent, request_, response_, locals,
    results
<1>14. CASE CheckForCancellation
  BY <1>14 DEF CheckForCancellation, Leave, Goto, RunningInv, Unsent, request_, response_,
    locals, results
<1>15. CASE Poll
  BY <1>15 DEF Poll, StartSend, DropResponse, Goto, RunningInv, Unsent, request_,
    response_, locals, results
<1>16. CASE ReceivePoll
  BY <1>16 DEF ReceivePoll, Receive, Leave, Goto, RunningInv, Unsent, request_, response_,
    locals, results
<1>17. CASE Polling
  BY <1>17 DEF Polling, Signalled, Goto, RunningInv, Unsent, request_, response_, locals,
    results
<1>18. CASE Peek
  BY <1>18 DEF Peek, PeekFailed, KeepPolling, Leave, Verdict, InProgress, Failed, Goto,
    RunningInv, CallInv, VerdictInv, Unsent, request_, response_, locals, results
<1>19. CASE FinalGet
  <2>1. pc = "final" /\ UNCHANGED <<op, finalUri, service>>
    BY <1>19 DEF FinalGet, StartSend, Leave, Goto, locals
  <2>2. pc' = "awaitFinal" => request'.method = "get" /\ request'.uri = finalUri
    BY <1>19 DEF FinalGet, CloneAndDispose, StartSend, Leave, Goto
  <2>3. pc' = "while" => UNCHANGED response
    BY <1>19 DEF FinalGet, StartSend, Leave, Goto, response_
  <2>4. pc' \in {"awaitFinal", "while", "finally"}
    BY <1>19 DEF FinalGet, StartSend, Leave, Goto
  <2>5. UNCHANGED response => Verdict(response)' = Verdict(response)
    BY DEF Verdict, InProgress, Failed
  <2> QED
    BY <2>1, <2>2, <2>3, <2>4, <2>5 DEF RunningInv, Unsent
<1>20. CASE ReceiveFinal
  BY <1>20 DEF ReceiveFinal, Receive, Leave, Goto, RunningInv, FirstAnswer, FinalAnswer,
    Unsent, request_, response_, locals, results
<1>21. CASE Dispatch
  BY <1>21 DEF Dispatch, Signalled, Undeclared, Leave, Goto, RunningInv, FirstAnswer,
    FinalAnswer, Unsent, request_, response_, locals, results
<1>22. CASE Handle
  BY <1>22 DEF Handle, Leave, Goto, RunningInv, Unsent, request_, response_, locals,
    results
<1>23. CASE Finally
  BY <1>23 DEF Finally, DropResponse, Goto, RunningInv, Unsent, request_, response_,
    locals, results
<1>24. CASE Deliver
  <2>1. UNCHANGED <<pc, op, request, response, finalUri>>
    BY <1>24 DEF Deliver, request_, locals
  <2>2. pc = "awaitPoll" \/ service'.polled = service.polled
    BY <1>24 DEF Deliver
  <2>3. Verdict(response)' = Verdict(response)
    BY <2>1 DEF Verdict, InProgress, Failed
  <2> QED
    BY <2>1, <2>2, <2>3 DEF RunningInv, FirstAnswer, FinalAnswer, Unsent
<1>25. CASE Cancel \/ UNCHANGED vars
  BY <1>25 DEF Cancel, vars, RunningInv, FirstAnswer, FinalAnswer, request_, response_, locals,
    results
<1> QED
  BY <1>1, <1>2, <1>3, <1>4, <1>5, <1>6, <1>7, <1>8, <1>9, <1>10, <1>11, <1>12, <1>13,
    <1>14, <1>15, <1>16, <1>17, <1>18, <1>19, <1>20, <1>21, <1>22, <1>23, <1>24, <1>25 DEF
    Next, CallStep

-----------------------------------------------------------------------------
(* The theorems.                                                           *)

\* The types of OperationCall, and that a cancellation wherever it hits stops the call
\* before its second send, however long the service is running.
THEOREM TypeCorrect == Spec => []TypeOK
<1>1. CallInv => TypeOK
  BY PartsOfTypeOK DEF CallInv
<1> QED
  BY <1>1, CallInvariant, PTL

\* What a poll says of a long running operation is heeded: running, no handler is called
\* before a later poll; failed, the call ends with an exception.  A handler gets a running
\* response as the first OK to a method other than PUT or as the answer to the final GET.
THEOREM VerdictsHeeded == Spec => []VerdictHeeded
<1>1. Init => RunningInv
  BY DEF Init, RunningInv, Unsent
<1>2. CallInv /\ RunningInv /\ [Next]_vars => RunningInv'
  BY RunningInvKept
<1>3. CallInv /\ RunningInv => VerdictHeeded
  <2> SUFFICES ASSUME CallInv, RunningInv PROVE VerdictHeeded
    OBVIOUS
  <2>1. pc = "handle" => service.polled # "running"
    BY DEF CallInv, VerdictInv
  <2>2. pc = "handle" /\ op.lro /\ Verdict(response) = "running" => FirstAnswer \/ FinalAnswer
    BY DEF RunningInv
  <2>3. ASSUME service.polled = "failed"
        PROVE  /\ pc \in {"awaitPoll", "polled", "peek", "finally", "done"}
               /\ handled = 0 /\ outcome # "returned"
    <3>1. handled = 0 /\ outcome # "returned"
      BY <2>3 DEF CallInv, VerdictInv, CountType
    <3> QED
      BY <2>3, <3>1 DEF CallInv, VerdictInv, ControlType, Unsent
  <2> QED
    BY <2>1, <2>2, <2>3 DEF VerdictHeeded
<1> QED
  BY <1>1, <1>2, <1>3, CallInvariant, PTL DEF Spec

\* A poll goes to the monitor, or else the location, that the service named last.
THEOREM PollsGoWhereTold == Spec => []PollsWhereTold
<1>1. CallInv => PollsWhereTold
  <2> SUFFICES ASSUME CallInv, pc = "awaitPoll", answer.status = "pending"
               PROVE  request.uri = PollUri(service.async, service.location)
    BY DEF PollsWhereTold, PollUri
  <2>1. answer.async = None /\ answer.location = None
    BY UnansweredFacts DEF CallInv, AnswerType, Response, Statuses
  <2>2. service.async = asyncOperation /\ service.location = location
    BY <2>1 DEF CallInv, TargetInv, Told, Newest
  <2> QED
    BY <2>2 DEF CallInv, TargetInv
<1> QED
  BY <1>1, CallInvariant, PTL

\* -NoWait: after the AsyncOperationResponse nothing is sent and no handler is called.
THEOREM NoWaitEnds == Spec => []NoWaitStops
<1>1. CallInv => NoWaitStops
  BY DEF CallInv, ResultInv, CountType, Ended, NoWaitStops
<1> QED
  BY <1>1, CallInvariant, PTL

\* On every path that ends without a throwing listener in the finally block, the call
\* has closed its request and every response it awaited.
THEOREM EverythingClosed == Spec => []NothingLeftOpen
<1>1. CallInv => NothingLeftOpen
  <2> SUFFICES ASSUME CallInv, pc = "done", outcome # "finally listener"
               PROVE  openRequests = 0 /\ (answer = NoResponse => openResponses = 0)
    BY DEF NothingLeftOpen
  <2>1. ~request.live /\ openRequests = Live(request)
    BY DEF CallInv, RequestInv
  <2>2. ~response.live /\ openResponses = Live(response) + Live(answer)
    BY DEF CallInv, ResponseInv
  <2>3. openRequests = 0
    BY <2>1 DEF Live
  <2>4. ASSUME answer = NoResponse PROVE openResponses = 0
    <3>1. ~answer.live
      BY <2>4, UnansweredFacts
    <3> QED
      BY <2>2, <3>1, ClosedFacts
  <2> QED
    BY <2>3, <2>4
<1> QED
  BY <1>1, CallInvariant, PTL

\* No response is read after it was disposed, and no request is disposed while it is awaited.
THEOREM NothingStale == Spec => []NothingUsedAfterDispose
<1>1. CallInv => NothingUsedAfterDispose
  BY DEF CallInv, RequestInv, ResponseInv, Holding, NothingUsedAfterDispose
<1> QED
  BY <1>1, CallInvariant, PTL

\* A call that returns has handed a response to one handler, for every operation whose
\* exceptions are not all specific: the run opcall_undeclared shows what the others do.
THEOREM ResponsesHandled ==
  ASSUME "specific" \notin Exceptions
  PROVE  Spec => []EveryResponseHandled
<1>1. CallInv => EveryResponseHandled
  BY DEF CallInv, ControlType, ResultInv, EveryResponseHandled
<1> QED
  BY <1>1, CallInvariant, PTL
=============================================================================
