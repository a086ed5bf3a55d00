---------------------------- MODULE CmdletProofs ----------------------------
(***************************************************************************)
(* Safety properties of Cmdlet for every set of cmdlets, any number of     *)
(* records and however many pages are told apart.                          *)
(***************************************************************************)
EXTENDS Cmdlet, Induction

\* The places of the task before it has asked for a page, and before its last
\* AfterAPICall.
Unasked == {"start", "getPipeline", "create", "before", "identity", "stranded", "method"}
Handling == {"handle", "write", "writing"}
Working == Unasked \cup {"send", "awaiting", "nextLink", "after"} \cup Handling
Reporting == {"undeclared", "writingError"}
Ending == {"finally", "done"}

\* Main is elsewhere only while no task runs, or once it has left one behind.
PlaceInv ==
  /\ main \notin {"waiting", "leaving", "over"} => pc \in {"none", "done"}
  /\ stopped => cancelled

\* A request that is sent after the cancellation is the last one, for no way leads
\* back to another without looking at the token.
LateInv == late = 1 => cancelled /\ pc # "send"

\* A subscription is under way as long as the task works.
LeftInv == pc \in Working => left \in 1..2

\* The page under way follows those that were written; the last one told apart is
\* written once.
PageInv ==
  /\ \A i \in 1..Len(output) : output[i] = i
  /\ pc \in Unasked => page = 0 /\ Len(output) = 0
  /\ pc \in {"send", "awaiting"} \/ (pc = "nextLink" /\ ~cancelled) => Len(output) = page
  /\ pc \in Handling =>
       /\ page > 0
       /\ Len(output) + 1 = page \/ (page = Pages /\ Len(output) = Pages)
       /\ "response" \in owed

\* What is owed until a cancellation, and who is going to tell of it: the handler,
\* the catch block of the task, or what Main does with a task that has faulted.
ToldInv ==
  /\ "unhandled" \in owed => cmd.exceptions = "specific"
  /\ ~cancelled =>
      /\ "failure" \in owed => pc \in Reporting \/ (pc \in Ending /\ fails = "fault")
      /\ "response" \in owed => pc \in Handling \/ (pc \in Ending /\ fails = "fault")
      /\ "failure" \in owed /\ pc = "done" =>
           main \in {"waiting", "catch", "writeError", "leaving", "over"}
      /\ main \in {"recordStart", "confirm"} => owed = {}
      /\ pc \in Reporting => fails = "caught"
      /\ pc \in Ending /\ fails = "no" => left = 0

\* TypeOK, by what each part is about.
PlacesType ==
  /\ main \in {"begin", "useProxy", "beginSignal", "input", "recordStart", "confirm",
               "waiting", "catch", "writeError", "recordEnd", "leaving", "endSignal", "over"}
  /\ pc \in {"none", "start", "getPipeline", "create", "before", "identity", "stranded",
             "method", "send", "awaiting", "handle", "write", "writing", "nextLink", "after",
             "undeclared", "writingError", "finally", "done"}
  /\ fails \in {"no", "caught", "canceled", "fault"}
FlagsType ==
  /\ cmd \in Cmdlets
  /\ handler \in [address : {"none", "own", "other"}, useProxy : BOOLEAN]
  /\ overtaken \in BOOLEAN /\ cancelled \in BOOLEAN /\ stopped \in BOOLEAN /\ more \in BOOLEAN
  /\ DOMAIN shared = {"direct", "proxied", "custom"}
  /\ owed \subseteq {"response", "unhandled", "failure", "timeout"}
CountsType == record \in 0..Records /\ left \in 0..2 /\ page \in 0..Pages /\ late \in 0..1
OutputType == output \in Seq(1..Pages) /\ Len(output) <= Pages

CmdletInv == TypeOK /\ PlaceInv /\ LateInv /\ LeftInv /\ PageInv /\ ToldInv

-----------------------------------------------------------------------------
(* The parts of the invariant, each kept by every action.                  *)

\* The parts of TypeOK are TypeOK.
LEMMA PartsOfTypeOK == TypeOK <=> PlacesType /\ FlagsType /\ CountsType /\ OutputType
BY DEF TypeOK, PlacesType, FlagsType, CountsType, OutputType

\* An output can be empty, and a page can be added to it.
LEMMA Outputs ==
  ASSUME CmdletAssumption
  PROVE  /\ << >> \in Seq(1..Pages) /\ Len(<< >>) = 0
         /\ \A out \in Seq(1..Pages), p \in 1..Pages :
              /\ Append(out, p) \in Seq(1..Pages)
              /\ Len(Append(out, p)) = Len(out) + 1
BY DEF CmdletAssumption

\* Each step of Main and of the task leads to one of the places of the code.
LEMMA PlacesTypeKept ==
  ASSUME CmdletInv, CmdletAssumption, [Next]_vars PROVE PlacesType'
<1>1. CASE BeginAddress
  BY <1>1 DEF CmdletInv, BeginAddress, MainGoto, unchangedTask, TypeOK, PlacesType
<1>2. CASE BeginUseProxy
  BY <1>2 DEF CmdletInv, BeginUseProxy, MainGoto, unchangedTask, UseProxy, TypeOK, PlacesType
<1>3. CASE BeginSignal
  BY <1>3 DEF CmdletInv, BeginSignal, MainGoto, unchangedTask, SyncSignal, TypeOK, PlacesType
<1>4. CASE NextInput
  BY <1>4 DEF CmdletInv, NextInput, MainGoto, unchangedTask, TypeOK, PlacesType
<1>5. CASE RecordStart
  BY <1>5 DEF CmdletInv, RecordStart, MainGoto, unchangedTask, SyncSignal, TypeOK, PlacesType
<1>6. CASE StartTask
  BY <1>6 DEF CmdletInv, StartTask, MainGoto, TypeOK, PlacesType
<1>7. CASE WaitReturns
  BY <1>7 DEF CmdletInv, WaitReturns, MainGoto, unchangedTask, TypeOK, PlacesType
<1>8. CASE Caught
  BY <1>8 DEF CmdletInv, Caught, MainGoto, unchangedTask, SyncSignal, TypeOK, PlacesType
<1>9. CASE WriteError
  BY <1>9 DEF CmdletInv, WriteError, MainGoto, unchangedTask, TypeOK, PlacesType
<1>10. CASE RecordEnd
  BY <1>10 DEF CmdletInv, RecordEnd, MainGoto, unchangedTask, TypeOK, PlacesType
<1>11. CASE EndProcessing
  BY <1>11 DEF CmdletInv, EndProcessing, MainGoto, unchangedTask, TypeOK, PlacesType
<1>12. CASE TaskStart
  BY <1>12 DEF CmdletInv, TaskStart, Goto, unchangedMain, Signalled, SignalThrows, Throw,
         TypeOK, PlacesType
<1>13. CASE Create
  BY <1>13 DEF CmdletInv, Create, Goto, unchangedMain, Throw, TypeOK, PlacesType
<1>14. CASE BeforeAPICall
  BY <1>14 DEF CmdletInv, BeforeAPICall, Goto, unchangedMain, Signalled, SignalThrows, Throw,
         TypeOK, PlacesType
<1>15. CASE Identity
  BY <1>15 DEF CmdletInv, Identity, Goto, Throw, TypeOK, PlacesType
<1>16. CASE Method
  BY <1>16 DEF CmdletInv, Method, Goto, unchangedMain, Signalled, SignalThrows, Throw, TypeOK,
         PlacesType
<1>17. CASE Send
  BY <1>17 DEF CmdletInv, Send, Goto, unchangedMain, TypeOK, PlacesType
<1>18. CASE Answer
  <2>1. CASE Called
    BY <1>18, <2>1 DEF CmdletInv, Answer, Goto, unchangedMain, Called, TypeOK, PlacesType
  <2>2. CASE NotCalled
    BY <1>18, <2>2 DEF CmdletInv, Answer, Goto, unchangedMain, NotCalled, Throw, TypeOK,
           PlacesType
  <2>. QED BY <1>18, <2>1, <2>2 DEF Answer
<1>19. CASE NoWait
  BY <1>19 DEF CmdletInv, NoWait, Goto, unchangedMain, TypeOK, PlacesType
<1>20. CASE Handle
  BY <1>20 DEF CmdletInv, Handle, Goto, unchangedMain, Throw, Override, ErrorResponse,
         PageResponse, ObjectResponse, BinaryResponse, NoResponse, TypeOK, PlacesType
<1>21. CASE BeginWrite
  BY <1>21 DEF CmdletInv, BeginWrite, Goto, unchangedMain, Write, Throw, TypeOK, PlacesType
<1>22. CASE WriteResponse
  BY <1>22 DEF CmdletInv, WriteResponse, Goto, Written, TypeOK, PlacesType
<1>23. CASE WriteUndeclared
  BY <1>23 DEF CmdletInv, WriteUndeclared, Goto, Written, TypeOK, PlacesType
<1>24. CASE FollowNextLink
  BY <1>24 DEF CmdletInv, FollowNextLink, Goto, unchangedMain, Signalled, SignalThrows, Throw,
         TypeOK, PlacesType
<1>25. CASE AfterAPICall
  BY <1>25 DEF CmdletInv, AfterAPICall, Goto, unchangedMain, Signalled, SignalThrows, Throw,
         TypeOK, PlacesType
<1>26. CASE Finally
  BY <1>26 DEF CmdletInv, Finally, Goto, unchangedMain, Throw, TypeOK, PlacesType
<1>27. CASE StopProcessing
  BY <1>27 DEF CmdletInv, StopProcessing, unchangedAll, unchangedTask, TypeOK, PlacesType
<1>28. CASE Cancel
  BY <1>28 DEF CmdletInv, Cancel, unchangedAll, unchangedTask, TypeOK, PlacesType
<1>29. CASE OtherBegins
  BY <1>29 DEF CmdletInv, OtherBegins, unchangedAll, unchangedTask, TypeOK, PlacesType
<1>30. CASE UNCHANGED vars
  BY <1>30 DEF CmdletInv, vars, TypeOK, PlacesType
<1>. QED BY <1>1, <1>2, <1>3, <1>4, <1>5, <1>6, <1>7, <1>8, <1>9, <1>10, <1>11, <1>12, <1>13,
       <1>14, <1>15, <1>16, <1>17, <1>18, <1>19, <1>20, <1>21, <1>22, <1>23, <1>24, <1>25,
       <1>26, <1>27, <1>28, <1>29, <1>30 DEF Next, MainStep, TaskStep

\* Handlers, flags and what is owed keep their values.
LEMMA FlagsTypeKept ==
  ASSUME CmdletInv, CmdletAssumption, [Next]_vars PROVE FlagsType'
<1>1. CASE BeginAddress
  BY <1>1 DEF CmdletInv, BeginAddress, unchangedTask, paging, input, SetAddress, TypeOK,
         FlagsType
<1>2. CASE BeginUseProxy
  BY <1>2 DEF CmdletInv, BeginUseProxy, unchangedTask, paging, input, UseProxy, TypeOK,
         FlagsType
<1>3. CASE BeginSignal
  BY <1>3 DEF CmdletInv, BeginSignal, unchangedTask, paging, module, input, TypeOK, FlagsType
<1>4. CASE NextInput
  BY <1>4 DEF CmdletInv, NextInput, unchangedTask, paging, module, TypeOK, FlagsType
<1>5. CASE RecordStart
  BY <1>5 DEF CmdletInv, RecordStart, unchangedTask, paging, module, input, TypeOK, FlagsType
<1>6. CASE StartTask
  BY <1>6 DEF CmdletInv, StartTask, paging, module, input, TypeOK, FlagsType
<1>7. CASE WaitReturns
  BY <1>7 DEF CmdletInv, WaitReturns, unchangedTask, paging, module, input, TypeOK, FlagsType
<1>8. CASE Caught
  BY <1>8 DEF CmdletInv, Caught, unchangedTask, paging, module, input, TypeOK, FlagsType
<1>9. CASE WriteError
  BY <1>9 DEF CmdletInv, WriteError, unchangedTask, paging, module, input, TypeOK, FlagsType
<1>10. CASE RecordEnd
  BY <1>10 DEF CmdletInv, RecordEnd, unchangedTask, paging, module, input, TypeOK, FlagsType
<1>11. CASE EndProcessing
  BY <1>11 DEF CmdletInv, EndProcessing, unchangedTask, paging, module, input, TypeOK, FlagsType
<1>12. CASE TaskStart
  BY <1>12 DEF CmdletInv, TaskStart, unchangedMain, paging, input, Signalled, SignalThrows,
         Throw, TypeOK, FlagsType
<1>13. CASE Create
  BY <1>13 DEF CmdletInv, Create, unchangedMain, paging, input, CreatePipeline, Throw, TypeOK,
         FlagsType
<1>14. CASE BeforeAPICall
  BY <1>14 DEF CmdletInv, BeforeAPICall, unchangedMain, paging, input, Signalled, SignalThrows,
         Throw, TypeOK, FlagsType
<1>15. CASE Identity
  BY <1>15 DEF CmdletInv, Identity, paging, module, input, Throw, TypeOK, FlagsType
<1>16. CASE Method
  BY <1>16 DEF CmdletInv, Method, unchangedMain, paging, input, Signalled, SignalThrows, Throw,
         TypeOK, FlagsType
<1>17. CASE Send
  BY <1>17 DEF CmdletInv, Send, unchangedMain, paging, input, TypeOK, FlagsType
<1>18. CASE Answer
  <2>1. CASE Called
    BY <1>18, <2>1 DEF CmdletInv, Answer, unchangedMain, input, Called, TypeOK, FlagsType
  <2>2. CASE NotCalled
    BY <1>18, <2>2 DEF CmdletInv, Answer, unchangedMain, input, NotCalled, Throw, TypeOK,
           FlagsType
  <2>. QED BY <1>18, <2>1, <2>2 DEF Answer
<1>19. CASE NoWait
  BY <1>19 DEF CmdletInv, NoWait, unchangedMain, paging, input, TypeOK, FlagsType
<1>20. CASE Handle
  BY <1>20 DEF CmdletInv, Handle, unchangedMain, paging, input, Throw, Override, ErrorResponse,
         PageResponse, ObjectResponse, BinaryResponse, NoResponse, TypeOK, FlagsType
<1>21. CASE BeginWrite
  BY <1>21 DEF CmdletInv, BeginWrite, unchangedMain, paging, input, Write, Throw, TypeOK,
         FlagsType
<1>22. CASE WriteResponse
  BY <1>22 DEF CmdletInv, WriteResponse, module, input, Written, TypeOK, FlagsType
<1>23. CASE WriteUndeclared
  BY <1>23 DEF CmdletInv, WriteUndeclared, paging, module, input, Written, TypeOK, FlagsType
<1>24. CASE FollowNextLink
  BY <1>24 DEF CmdletInv, FollowNextLink, unchangedMain, paging, input, Signalled, SignalThrows,
         Throw, TypeOK, FlagsType
<1>25. CASE AfterAPICall
  BY <1>25 DEF CmdletInv, AfterAPICall, unchangedMain, input, Signalled, SignalThrows, Throw,
         TypeOK, FlagsType
<1>26. CASE Finally
  BY <1>26 DEF CmdletInv, Finally, unchangedMain, paging, input, Throw, TypeOK, FlagsType
<1>27. CASE StopProcessing
  BY <1>27 DEF CmdletInv, StopProcessing, unchangedAll, unchangedTask, paging, module, TypeOK,
         FlagsType
<1>28. CASE Cancel
  BY <1>28 DEF CmdletInv, Cancel, unchangedAll, unchangedTask, paging, module, TypeOK, FlagsType
<1>29. CASE OtherBegins
  <2>1. PICK proxy \in {"none", "other"} :
          handler' \in {SetAddress(proxy), [address |-> proxy, useProxy |-> proxy # "none"]}
    BY <1>29 DEF OtherBegins
  <2>2. handler' \in [address : {"none", "own", "other"}, useProxy : BOOLEAN]
    <3>1. handler \in [address : {"none", "own", "other"}, useProxy : BOOLEAN]
      BY DEF CmdletInv, TypeOK
    <3>2. (proxy # "none") \in BOOLEAN
      OBVIOUS
    <3>3. CASE handler' = [address |-> proxy, useProxy |-> proxy # "none"]
      BY <2>1, <3>2, <3>3
    <3>4. CASE handler' = SetAddress(proxy)
      BY <2>1, <3>1, <3>4 DEF SetAddress
    <3>. QED BY <2>1, <3>3, <3>4
  <2>. QED
    BY <1>29, <2>2 DEF CmdletInv, OtherBegins, unchangedAll, unchangedTask, paging, TypeOK,
           FlagsType
<1>30. CASE UNCHANGED vars
  BY <1>30 DEF CmdletInv, vars, TypeOK, FlagsType
<1>. QED BY <1>1, <1>2, <1>3, <1>4, <1>5, <1>6, <1>7, <1>8, <1>9, <1>10, <1>11, <1>12, <1>13,
       <1>14, <1>15, <1>16, <1>17, <1>18, <1>19, <1>20, <1>21, <1>22, <1>23, <1>24, <1>25,
       <1>26, <1>27, <1>28, <1>29, <1>30 DEF Next, MainStep, TaskStep

\* No more records, subscriptions and pages than there are, and one late request.
LEMMA CountsTypeKept ==
  ASSUME CmdletInv, CmdletAssumption, [Next]_vars PROVE CountsType'
<1>1. CASE BeginAddress
  BY <1>1 DEF CmdletInv, BeginAddress, unchangedTask, paging, input, TypeOK, CountsType
<1>2. CASE BeginUseProxy
  BY <1>2 DEF CmdletInv, BeginUseProxy, unchangedTask, paging, input, UseProxy, TypeOK,
         CountsType
<1>3. CASE BeginSignal
  BY <1>3 DEF CmdletInv, BeginSignal, unchangedTask, paging, input, TypeOK, CountsType
<1>4. CASE NextInput
  BY <1>4 DEF CmdletInv, NextInput, unchangedTask, paging, TypeOK, CountsType
<1>5. CASE RecordStart
  BY <1>5 DEF CmdletInv, RecordStart, unchangedTask, paging, input, TypeOK, CountsType
<1>6. CASE StartTask
  BY <1>6 DEF CmdletInv, StartTask, paging, input, TypeOK, CountsType
<1>7. CASE WaitReturns
  BY <1>7 DEF CmdletInv, WaitReturns, unchangedTask, paging, input, TypeOK, CountsType
<1>8. CASE Caught
  BY <1>8 DEF CmdletInv, Caught, unchangedTask, paging, input, TypeOK, CountsType
<1>9. CASE WriteError
  BY <1>9 DEF CmdletInv, WriteError, unchangedTask, paging, input, TypeOK, CountsType
<1>10. CASE RecordEnd
  BY <1>10 DEF CmdletInv, RecordEnd, unchangedTask, paging, input, TypeOK, CountsType
<1>11. CASE EndProcessing
  BY <1>11 DEF CmdletInv, EndProcessing, unchangedTask, paging, input, TypeOK, CountsType
<1>12. CASE TaskStart
  BY <1>12 DEF CmdletInv, TaskStart, unchangedMain, paging, input, TypeOK, CountsType
<1>13. CASE Create
  BY <1>13 DEF CmdletInv, Create, unchangedMain, paging, input, TypeOK, CountsType
<1>14. CASE BeforeAPICall
  BY <1>14 DEF CmdletInv, BeforeAPICall, unchangedMain, paging, input, TypeOK, CountsType
<1>15. CASE Identity
  BY <1>15 DEF CmdletInv, Identity, paging, input, TypeOK, CountsType
<1>16. CASE Method
  BY <1>16 DEF CmdletInv, Method, unchangedMain, paging, input, TypeOK, CountsType
<1>17. CASE Send
  BY <1>17 DEF CmdletInv, Send, Goto, unchangedMain, paging, input, TypeOK, CountsType, LateInv
<1>18. CASE Answer
  <2>1. CASE Called
    BY <1>18, <2>1 DEF CmdletInv, Answer, unchangedMain, input, Called, TypeOK, CountsType
  <2>2. CASE NotCalled
    BY <1>18, <2>2 DEF CmdletInv, Answer, unchangedMain, input, NotCalled, TypeOK, CountsType
  <2>. QED BY <1>18, <2>1, <2>2 DEF Answer
<1>19. CASE NoWait
  BY <1>19 DEF CmdletInv, NoWait, unchangedMain, paging, input, TypeOK, CountsType
<1>20. CASE Handle
  BY <1>20 DEF CmdletInv, Handle, unchangedMain, paging, input, Override, ErrorResponse,
         PageResponse, ObjectResponse, BinaryResponse, NoResponse, TypeOK, CountsType
<1>21. CASE BeginWrite
  BY <1>21 DEF CmdletInv, BeginWrite, unchangedMain, paging, input, TypeOK, CountsType
<1>22. CASE WriteResponse
  BY <1>22 DEF CmdletInv, WriteResponse, input, TypeOK, CountsType
<1>23. CASE WriteUndeclared
  BY <1>23 DEF CmdletInv, WriteUndeclared, paging, input, TypeOK, CountsType
<1>24. CASE FollowNextLink
  BY <1>24 DEF CmdletInv, FollowNextLink, unchangedMain, paging, input, TypeOK, CountsType
<1>25. CASE AfterAPICall
  BY <1>25 DEF CmdletInv, AfterAPICall, Goto, unchangedMain, input, Signalled, SignalThrows,
         Throw, TypeOK, CountsType, LeftInv, Working
<1>26. CASE Finally
  BY <1>26 DEF CmdletInv, Finally, unchangedMain, paging, input, TypeOK, CountsType
<1>27. CASE StopProcessing
  BY <1>27 DEF CmdletInv, StopProcessing, unchangedAll, unchangedTask, paging, TypeOK,
         CountsType
<1>28. CASE Cancel
  BY <1>28 DEF CmdletInv, Cancel, unchangedAll, unchangedTask, paging, TypeOK, CountsType
<1>29. CASE OtherBegins
  BY <1>29 DEF CmdletInv, OtherBegins, unchangedAll, unchangedTask, paging, TypeOK, CountsType
<1>30. CASE UNCHANGED vars
  BY <1>30 DEF CmdletInv, vars, TypeOK, CountsType
<1>. QED BY <1>1, <1>2, <1>3, <1>4, <1>5, <1>6, <1>7, <1>8, <1>9, <1>10, <1>11, <1>12, <1>13,
       <1>14, <1>15, <1>16, <1>17, <1>18, <1>19, <1>20, <1>21, <1>22, <1>23, <1>24, <1>25,
       <1>26, <1>27, <1>28, <1>29, <1>30 DEF Next, MainStep, TaskStep

\* What is written is pages, and no more of them than are told apart.
LEMMA OutputTypeKept ==
  ASSUME CmdletInv, CmdletAssumption, [Next]_vars PROVE OutputType'
<1>1. CASE BeginAddress
  BY <1>1 DEF CmdletInv, BeginAddress, unchangedTask, paging, TypeOK, OutputType
<1>2. CASE BeginUseProxy
  BY <1>2 DEF CmdletInv, BeginUseProxy, unchangedTask, paging, UseProxy, TypeOK, OutputType
<1>3. CASE BeginSignal
  BY <1>3 DEF CmdletInv, BeginSignal, unchangedTask, paging, TypeOK, OutputType
<1>4. CASE NextInput
  BY <1>4 DEF CmdletInv, NextInput, unchangedTask, paging, TypeOK, OutputType
<1>5. CASE RecordStart
  BY <1>5 DEF CmdletInv, RecordStart, unchangedTask, paging, TypeOK, OutputType
<1>6. CASE StartTask
  <2>1. output' \in {<< >>, output}
    BY <1>6 DEF StartTask, paging
  <2>2. CASE output' = << >>
    BY <2>2, Outputs DEF OutputType, CmdletAssumption
  <2>3. CASE output' = output
    BY <2>3 DEF CmdletInv, TypeOK, OutputType
  <2>. QED BY <2>1, <2>2, <2>3
<1>7. CASE WaitReturns
  BY <1>7 DEF CmdletInv, WaitReturns, unchangedTask, paging, TypeOK, OutputType
<1>8. CASE Caught
  BY <1>8 DEF CmdletInv, Caught, unchangedTask, paging, TypeOK, OutputType
<1>9. CASE WriteError
  BY <1>9 DEF CmdletInv, WriteError, unchangedTask, paging, TypeOK, OutputType
<1>10. CASE RecordEnd
  BY <1>10 DEF CmdletInv, RecordEnd, unchangedTask, paging, TypeOK, OutputType
<1>11. CASE EndProcessing
  BY <1>11 DEF CmdletInv, EndProcessing, unchangedTask, paging, TypeOK, OutputType
<1>12. CASE TaskStart
  BY <1>12 DEF CmdletInv, TaskStart, paging, TypeOK, OutputType
<1>13. CASE Create
  BY <1>13 DEF CmdletInv, Create, paging, TypeOK, OutputType
<1>14. CASE BeforeAPICall
  BY <1>14 DEF CmdletInv, BeforeAPICall, paging, TypeOK, OutputType
<1>15. CASE Identity
  BY <1>15 DEF CmdletInv, Identity, paging, TypeOK, OutputType
<1>16. CASE Method
  BY <1>16 DEF CmdletInv, Method, paging, TypeOK, OutputType
<1>17. CASE Send
  BY <1>17 DEF CmdletInv, Send, paging, TypeOK, OutputType
<1>18. CASE Answer
  <2>1. CASE Called
    BY <1>18, <2>1 DEF CmdletInv, Answer, Called, TypeOK, OutputType
  <2>2. CASE NotCalled
    BY <1>18, <2>2 DEF CmdletInv, Answer, NotCalled, TypeOK, OutputType
  <2>. QED BY <1>18, <2>1, <2>2 DEF Answer
<1>19. CASE NoWait
  BY <1>19 DEF CmdletInv, NoWait, paging, TypeOK, OutputType
<1>20. CASE Handle
  BY <1>20 DEF CmdletInv, Handle, paging, Override, ErrorResponse, PageResponse, ObjectResponse,
         BinaryResponse, NoResponse, TypeOK, OutputType
<1>21. CASE BeginWrite
  BY <1>21 DEF CmdletInv, BeginWrite, paging, TypeOK, OutputType
<1>22. CASE WriteResponse
  <2>1. pc = "writing"
    BY <1>22 DEF WriteResponse, Written, Goto
  <2>2. \/ output' = output
        \/ Len(output) < Pages /\ output' = Append(output, page)
    BY <1>22 DEF WriteResponse
  <2>3. page \in 1..Pages
    BY <2>1 DEF CmdletInv, TypeOK, PageInv, Handling
  <2>4. output \in Seq(1..Pages) /\ Len(output) \in Nat /\ Len(output) <= Pages
    BY DEF CmdletInv, TypeOK
  <2>5. CASE output' = output
    BY <2>4, <2>5 DEF OutputType
  <2>6. CASE Len(output) < Pages /\ output' = Append(output, page)
    <3>1. output' \in Seq(1..Pages) /\ Len(output') = Len(output) + 1
      BY <2>3, <2>4, <2>6, Outputs
    <3>. QED BY <2>4, <2>6, <3>1 DEF OutputType, CmdletAssumption
  <2>. QED BY <2>2, <2>5, <2>6
<1>23. CASE WriteUndeclared
  BY <1>23 DEF CmdletInv, WriteUndeclared, paging, TypeOK, OutputType
<1>24. CASE FollowNextLink
  BY <1>24 DEF CmdletInv, FollowNextLink, paging, TypeOK, OutputType
<1>25. CASE AfterAPICall
  <2>1. output' \in {<< >>, output}
    BY <1>25 DEF AfterAPICall
  <2>2. CASE output' = << >>
    BY <2>2, Outputs DEF OutputType, CmdletAssumption
  <2>3. CASE output' = output
    BY <2>3 DEF CmdletInv, TypeOK, OutputType
  <2>. QED BY <2>1, <2>2, <2>3
<1>26. CASE Finally
  BY <1>26 DEF CmdletInv, Finally, paging, TypeOK, OutputType
<1>27. CASE StopProcessing
  BY <1>27 DEF CmdletInv, StopProcessing, unchangedAll, unchangedTask, paging, TypeOK,
         OutputType
<1>28. CASE Cancel
  BY <1>28 DEF CmdletInv, Cancel, unchangedAll, unchangedTask, paging, TypeOK, OutputType
<1>29. CASE OtherBegins
  BY <1>29 DEF CmdletInv, OtherBegins, unchangedAll, unchangedTask, paging, TypeOK, OutputType
<1>30. CASE UNCHANGED vars
  BY <1>30 DEF CmdletInv, vars, TypeOK, OutputType
<1>. QED BY <1>1, <1>2, <1>3, <1>4, <1>5, <1>6, <1>7, <1>8, <1>9, <1>10, <1>11, <1>12, <1>13,
       <1>14, <1>15, <1>16, <1>17, <1>18, <1>19, <1>20, <1>21, <1>22, <1>23, <1>24, <1>25,
       <1>26, <1>27, <1>28, <1>29, <1>30 DEF Next, MainStep, TaskStep

\* Main leaves its wait when the task is over, or for good.
LEMMA PlaceInvKept ==
  ASSUME CmdletInv, CmdletAssumption, [Next]_vars PROVE PlaceInv'
<1>1. CASE BeginAddress
  BY <1>1 DEF CmdletInv, BeginAddress, MainGoto, unchangedTask, input, PlaceInv
<1>2. CASE BeginUseProxy
  BY <1>2 DEF CmdletInv, BeginUseProxy, MainGoto, unchangedTask, input, UseProxy, PlaceInv
<1>3. CASE BeginSignal
  BY <1>3 DEF CmdletInv, BeginSignal, MainGoto, unchangedTask, input, SyncSignal, PlaceInv
<1>4. CASE NextInput
  BY <1>4 DEF CmdletInv, NextInput, MainGoto, unchangedTask, PlaceInv
<1>5. CASE RecordStart
  BY <1>5 DEF CmdletInv, RecordStart, MainGoto, unchangedTask, input, SyncSignal, PlaceInv
<1>6. CASE StartTask
  BY <1>6 DEF CmdletInv, StartTask, MainGoto, input, PlaceInv
<1>7. CASE WaitReturns
  BY <1>7 DEF CmdletInv, WaitReturns, unchangedTask, input, PlaceInv
<1>8. CASE Caught
  BY <1>8 DEF CmdletInv, Caught, MainGoto, unchangedTask, input, SyncSignal, PlaceInv
<1>9. CASE WriteError
  BY <1>9 DEF CmdletInv, WriteError, MainGoto, unchangedTask, input, PlaceInv
<1>10. CASE RecordEnd
  BY <1>10 DEF CmdletInv, RecordEnd, MainGoto, unchangedTask, input, PlaceInv
<1>11. CASE EndProcessing
  BY <1>11 DEF CmdletInv, EndProcessing, MainGoto, input, PlaceInv
<1>12. CASE TaskStart
  BY <1>12 DEF CmdletInv, TaskStart, Goto, unchangedMain, input, Signalled, SignalThrows, Throw,
         PlaceInv
<1>13. CASE Create
  BY <1>13 DEF CmdletInv, Create, Goto, unchangedMain, input, Throw, PlaceInv
<1>14. CASE BeforeAPICall
  BY <1>14 DEF CmdletInv, BeforeAPICall, Goto, unchangedMain, input, Signalled, SignalThrows,
         Throw, PlaceInv
<1>15. CASE Identity
  BY <1>15 DEF CmdletInv, Identity, Goto, input, Throw, PlaceInv
<1>16. CASE Method
  BY <1>16 DEF CmdletInv, Method, Goto, unchangedMain, input, Signalled, SignalThrows, Throw,
         PlaceInv
<1>17. CASE Send
  BY <1>17 DEF CmdletInv, Send, Goto, unchangedMain, input, PlaceInv
<1>18. CASE Answer
  <2>1. CASE Called
    BY <1>18, <2>1 DEF CmdletInv, Answer, Goto, unchangedMain, input, Called, PlaceInv
  <2>2. CASE NotCalled
    BY <1>18, <2>2 DEF CmdletInv, Answer, Goto, unchangedMain, input, NotCalled, Throw, PlaceInv
  <2>. QED BY <1>18, <2>1, <2>2 DEF Answer
<1>19. CASE NoWait
  BY <1>19 DEF CmdletInv, NoWait, unchangedMain, PlaceInv
<1>20. CASE Handle
  BY <1>20 DEF CmdletInv, Handle, Goto, unchangedMain, input, Throw, Override, ErrorResponse,
         PageResponse, ObjectResponse, BinaryResponse, NoResponse, PlaceInv
<1>21. CASE BeginWrite
  BY <1>21 DEF CmdletInv, BeginWrite, Goto, unchangedMain, input, Write, Throw, PlaceInv
<1>22. CASE WriteResponse
  BY <1>22 DEF CmdletInv, WriteResponse, Goto, input, Written, PlaceInv
<1>23. CASE WriteUndeclared
  BY <1>23 DEF CmdletInv, WriteUndeclared, Goto, input, Written, PlaceInv
<1>24. CASE FollowNextLink
  BY <1>24 DEF CmdletInv, FollowNextLink, Goto, unchangedMain, input, Signalled, SignalThrows,
         Throw, PlaceInv
<1>25. CASE AfterAPICall
  BY <1>25 DEF CmdletInv, AfterAPICall, Goto, unchangedMain, input, Signalled, SignalThrows,
         Throw, PlaceInv
<1>26. CASE Finally
  BY <1>26 DEF CmdletInv, Finally, Goto, unchangedMain, input, Throw, PlaceInv
<1>27. CASE StopProcessing
  BY <1>27 DEF CmdletInv, StopProcessing, unchangedAll, unchangedTask, PlaceInv
<1>28. CASE Cancel
  BY <1>28 DEF CmdletInv, Cancel, unchangedAll, unchangedTask, PlaceInv
<1>29. CASE OtherBegins
  BY <1>29 DEF CmdletInv, OtherBegins, unchangedAll, unchangedTask, PlaceInv
<1>30. CASE UNCHANGED vars
  BY <1>30 DEF CmdletInv, vars, PlaceInv
<1>. QED BY <1>1, <1>2, <1>3, <1>4, <1>5, <1>6, <1>7, <1>8, <1>9, <1>10, <1>11, <1>12, <1>13,
       <1>14, <1>15, <1>16, <1>17, <1>18, <1>19, <1>20, <1>21, <1>22, <1>23, <1>24, <1>25,
       <1>26, <1>27, <1>28, <1>29, <1>30 DEF Next, MainStep, TaskStep

\* After a late request every way is one that looks at the token.
LEMMA LateInvKept ==
  ASSUME CmdletInv, CmdletAssumption, [Next]_vars PROVE LateInv'
<1>1. CASE BeginAddress
  BY <1>1 DEF CmdletInv, BeginAddress, unchangedTask, LateInv
<1>2. CASE BeginUseProxy
  BY <1>2 DEF CmdletInv, BeginUseProxy, unchangedTask, UseProxy, LateInv
<1>3. CASE BeginSignal
  BY <1>3 DEF CmdletInv, BeginSignal, unchangedTask, LateInv
<1>4. CASE NextInput
  BY <1>4 DEF CmdletInv, NextInput, unchangedTask, LateInv
<1>5. CASE RecordStart
  BY <1>5 DEF CmdletInv, RecordStart, unchangedTask, LateInv
<1>6. CASE StartTask
  BY <1>6 DEF CmdletInv, StartTask, LateInv
<1>7. CASE WaitReturns
  BY <1>7 DEF CmdletInv, WaitReturns, unchangedTask, LateInv
<1>8. CASE Caught
  BY <1>8 DEF CmdletInv, Caught, unchangedTask, LateInv
<1>9. CASE WriteError
  BY <1>9 DEF CmdletInv, WriteError, unchangedTask, LateInv
<1>10. CASE RecordEnd
  BY <1>10 DEF CmdletInv, RecordEnd, unchangedTask, LateInv
<1>11. CASE EndProcessing
  BY <1>11 DEF CmdletInv, EndProcessing, unchangedTask, LateInv
<1>12. CASE TaskStart
  BY <1>12 DEF CmdletInv, TaskStart, Goto, Signalled, SignalThrows, Throw, LateInv
<1>13. CASE Create
  BY <1>13 DEF CmdletInv, Create, Goto, Throw, LateInv
<1>14. CASE BeforeAPICall
  BY <1>14 DEF CmdletInv, BeforeAPICall, Goto, Signalled, SignalThrows, Throw, LateInv
<1>15. CASE Identity
  BY <1>15 DEF CmdletInv, Identity, Goto, Throw, LateInv
<1>16. CASE Method
  BY <1>16 DEF CmdletInv, Method, Goto, Signalled, SignalThrows, Throw, LateInv
<1>17. CASE Send
  BY <1>17 DEF CmdletInv, Send, Goto, LateInv
<1>18. CASE Answer
  <2>1. CASE Called
    BY <1>18, <2>1 DEF CmdletInv, Answer, Goto, Called, LateInv
  <2>2. CASE NotCalled
    BY <1>18, <2>2 DEF CmdletInv, Answer, Goto, NotCalled, Throw, LateInv
  <2>. QED BY <1>18, <2>1, <2>2 DEF Answer
<1>19. CASE NoWait
  BY <1>19 DEF CmdletInv, NoWait, LateInv
<1>20. CASE Handle
  BY <1>20 DEF CmdletInv, Handle, Goto, Throw, Override, ErrorResponse, PageResponse,
         ObjectResponse, BinaryResponse, NoResponse, LateInv
<1>21. CASE BeginWrite
  BY <1>21 DEF CmdletInv, BeginWrite, Goto, Write, Throw, LateInv
<1>22. CASE WriteResponse
  BY <1>22 DEF CmdletInv, WriteResponse, Goto, Written, LateInv
<1>23. CASE WriteUndeclared
  BY <1>23 DEF CmdletInv, WriteUndeclared, Goto, Written, LateInv
<1>24. CASE FollowNextLink
  BY <1>24 DEF CmdletInv, FollowNextLink, Goto, Signalled, SignalThrows, Throw, LateInv
<1>25. CASE AfterAPICall
  BY <1>25 DEF CmdletInv, AfterAPICall, Goto, Signalled, SignalThrows, Throw, LateInv
<1>26. CASE Finally
  BY <1>26 DEF CmdletInv, Finally, Goto, Throw, LateInv
<1>27. CASE StopProcessing
  BY <1>27 DEF CmdletInv, StopProcessing, unchangedAll, unchangedTask, LateInv
<1>28. CASE Cancel
  BY <1>28 DEF CmdletInv, Cancel, unchangedAll, unchangedTask, LateInv
<1>29. CASE OtherBegins
  BY <1>29 DEF CmdletInv, OtherBegins, unchangedAll, unchangedTask, LateInv
<1>30. CASE UNCHANGED vars
  BY <1>30 DEF CmdletInv, vars, LateInv
<1>. QED BY <1>1, <1>2, <1>3, <1>4, <1>5, <1>6, <1>7, <1>8, <1>9, <1>10, <1>11, <1>12, <1>13,
       <1>14, <1>15, <1>16, <1>17, <1>18, <1>19, <1>20, <1>21, <1>22, <1>23, <1>24, <1>25,
       <1>26, <1>27, <1>28, <1>29, <1>30 DEF Next, MainStep, TaskStep

\* The task works only while it has a subscription to ask.
LEMMA LeftInvKept ==
  ASSUME CmdletInv, CmdletAssumption, [Next]_vars PROVE LeftInv'
<1>1. CASE BeginAddress
  BY <1>1 DEF CmdletInv, BeginAddress, unchangedTask, paging, LeftInv
<1>2. CASE BeginUseProxy
  BY <1>2 DEF CmdletInv, BeginUseProxy, unchangedTask, paging, UseProxy, LeftInv
<1>3. CASE BeginSignal
  BY <1>3 DEF CmdletInv, BeginSignal, unchangedTask, paging, LeftInv
<1>4. CASE NextInput
  BY <1>4 DEF CmdletInv, NextInput, unchangedTask, paging, LeftInv
<1>5. CASE RecordStart
  BY <1>5 DEF CmdletInv, RecordStart, unchangedTask, paging, LeftInv
<1>6. CASE StartTask
  BY <1>6 DEF CmdletInv, StartTask, paging, TypeOK, LeftInv
<1>7. CASE WaitReturns
  BY <1>7 DEF CmdletInv, WaitReturns, unchangedTask, paging, LeftInv
<1>8. CASE Caught
  BY <1>8 DEF CmdletInv, Caught, unchangedTask, paging, LeftInv
<1>9. CASE WriteError
  BY <1>9 DEF CmdletInv, WriteError, unchangedTask, paging, LeftInv
<1>10. CASE RecordEnd
  BY <1>10 DEF CmdletInv, RecordEnd, unchangedTask, paging, LeftInv
<1>11. CASE EndProcessing
  BY <1>11 DEF CmdletInv, EndProcessing, unchangedTask, paging, LeftInv
<1>12. CASE TaskStart
  BY <1>12 DEF CmdletInv, TaskStart, Goto, paging, Signalled, SignalThrows, Throw, LeftInv,
         Unasked, Working
<1>13. CASE Create
  BY <1>13 DEF CmdletInv, Create, Goto, paging, Throw, LeftInv, Unasked, Working
<1>14. CASE BeforeAPICall
  BY <1>14 DEF CmdletInv, BeforeAPICall, Goto, paging, Signalled, SignalThrows, Throw, LeftInv,
         Unasked, Working
<1>15. CASE Identity
  BY <1>15 DEF CmdletInv, Identity, Goto, paging, Throw, LeftInv, Unasked, Working
<1>16. CASE Method
  BY <1>16 DEF CmdletInv, Method, Goto, paging, Signalled, SignalThrows, Throw, LeftInv,
         Unasked, Working
<1>17. CASE Send
  BY <1>17 DEF CmdletInv, Send, Goto, paging, LeftInv, Working
<1>18. CASE Answer
  <2>1. CASE Called
    BY <1>18, <2>1 DEF CmdletInv, Answer, Goto, Called, LeftInv, Working
  <2>2. CASE NotCalled
    BY <1>18, <2>2 DEF CmdletInv, Answer, Goto, NotCalled, Throw, LeftInv, Working
  <2>. QED BY <1>18, <2>1, <2>2 DEF Answer
<1>19. CASE NoWait
  BY <1>19 DEF CmdletInv, NoWait, Goto, paging, LeftInv, Working
<1>20. CASE Handle
  BY <1>20 DEF CmdletInv, Handle, Goto, paging, Throw, Override, ErrorResponse, PageResponse,
         ObjectResponse, BinaryResponse, NoResponse, LeftInv, Handling, Working
<1>21. CASE BeginWrite
  BY <1>21 DEF CmdletInv, BeginWrite, Goto, paging, Write, Throw, LeftInv, Unasked, Handling,
         Working
<1>22. CASE WriteResponse
  BY <1>22 DEF CmdletInv, WriteResponse, Goto, Written, LeftInv, Handling, Working
<1>23. CASE WriteUndeclared
  BY <1>23 DEF CmdletInv, WriteUndeclared, Goto, Written, LeftInv, Unasked, Handling, Working
<1>24. CASE FollowNextLink
  BY <1>24 DEF CmdletInv, FollowNextLink, Goto, paging, Signalled, SignalThrows, Throw, LeftInv,
         Working
<1>25. CASE AfterAPICall
  BY <1>25 DEF CmdletInv, AfterAPICall, Goto, Signalled, SignalThrows, Throw,
         AnotherSubscription, LeftInv, Unasked, Handling, Working
<1>26. CASE Finally
  BY <1>26 DEF CmdletInv, Finally, Goto, Throw, LeftInv, Unasked, Handling, Working
<1>27. CASE StopProcessing
  BY <1>27 DEF CmdletInv, StopProcessing, unchangedAll, unchangedTask, paging, LeftInv
<1>28. CASE Cancel
  BY <1>28 DEF CmdletInv, Cancel, unchangedAll, unchangedTask, paging, LeftInv
<1>29. CASE OtherBegins
  BY <1>29 DEF CmdletInv, OtherBegins, unchangedAll, unchangedTask, paging, LeftInv
<1>30. CASE UNCHANGED vars
  BY <1>30 DEF CmdletInv, vars, LeftInv, Working, Unasked, Handling
<1>. QED BY <1>1, <1>2, <1>3, <1>4, <1>5, <1>6, <1>7, <1>8, <1>9, <1>10, <1>11, <1>12, <1>13,
       <1>14, <1>15, <1>16, <1>17, <1>18, <1>19, <1>20, <1>21, <1>22, <1>23, <1>24, <1>25,
       <1>26, <1>27, <1>28, <1>29, <1>30 DEF Next, MainStep, TaskStep

\* A page is asked for when the one before it is written, and written when it is handled.
LEMMA PageInvKept ==
  ASSUME CmdletInv, CmdletAssumption, [Next]_vars PROVE PageInv'
<1>1. CASE BeginAddress
  BY <1>1 DEF CmdletInv, BeginAddress, unchangedTask, paging, PageInv
<1>2. CASE BeginUseProxy
  BY <1>2 DEF CmdletInv, BeginUseProxy, unchangedTask, paging, UseProxy, PageInv
<1>3. CASE BeginSignal
  BY <1>3 DEF CmdletInv, BeginSignal, unchangedTask, paging, PageInv
<1>4. CASE NextInput
  BY <1>4 DEF CmdletInv, NextInput, MainGoto, unchangedTask, paging, PlaceInv, PageInv, Handling
<1>5. CASE RecordStart
  BY <1>5 DEF CmdletInv, RecordStart, unchangedTask, paging, PageInv
<1>6. CASE StartTask
  BY <1>6 DEF CmdletInv, StartTask, paging, PageInv, Handling
<1>7. CASE WaitReturns
  BY <1>7 DEF CmdletInv, WaitReturns, unchangedTask, paging, PageInv
<1>8. CASE Caught
  BY <1>8 DEF CmdletInv, Caught, unchangedTask, paging, PageInv
<1>9. CASE WriteError
  BY <1>9 DEF CmdletInv, WriteError, unchangedTask, paging, PageInv
<1>10. CASE RecordEnd
  BY <1>10 DEF CmdletInv, RecordEnd, unchangedTask, paging, PageInv
<1>11. CASE EndProcessing
  BY <1>11 DEF CmdletInv, EndProcessing, unchangedTask, paging, PageInv
<1>12. CASE TaskStart
  BY <1>12 DEF CmdletInv, TaskStart, Goto, paging, Signalled, SignalThrows, Throw, PageInv,
         Unasked, Handling
<1>13. CASE Create
  BY <1>13 DEF CmdletInv, Create, Goto, paging, Throw, PageInv, Unasked, Handling
<1>14. CASE BeforeAPICall
  BY <1>14 DEF CmdletInv, BeforeAPICall, Goto, paging, Signalled, SignalThrows, Throw, PageInv,
         Unasked, Handling
<1>15. CASE Identity
  BY <1>15 DEF CmdletInv, Identity, Goto, paging, Throw, PageInv, Unasked, Handling
<1>16. CASE Method
  BY <1>16 DEF CmdletInv, Method, Goto, paging, Signalled, SignalThrows, Throw, PageInv,
         Unasked, Handling
<1>17. CASE Send
  BY <1>17 DEF CmdletInv, Send, Goto, paging, PageInv, Unasked, Handling
<1>18. CASE Answer
  <2>1. CASE Called
    BY <1>18, <2>1 DEF CmdletInv, Answer, Goto, Called, TypeOK, PageInv, Unasked
  <2>2. CASE NotCalled
    BY <1>18, <2>2 DEF CmdletInv, Answer, Goto, NotCalled, Throw, PageInv, Unasked, Handling
  <2>. QED BY <1>18, <2>1, <2>2 DEF Answer
<1>19. CASE NoWait
  BY <1>19 DEF CmdletInv, NoWait, Goto, paging, PageInv, Unasked, Handling
<1>20. CASE Handle
  BY <1>20 DEF CmdletInv, Handle, Goto, paging, Throw, Override, ErrorResponse, PageResponse,
         ObjectResponse, BinaryResponse, NoResponse, PageInv, Unasked, Handling
<1>21. CASE BeginWrite
  BY <1>21 DEF CmdletInv, BeginWrite, Goto, paging, Write, Throw, PageInv, Unasked, Handling
<1>22. CASE WriteResponse
  BY <1>22 DEF CmdletInv, WriteResponse, Goto, Written, TypeOK, PageInv, Unasked, Handling
<1>23. CASE WriteUndeclared
  BY <1>23 DEF CmdletInv, WriteUndeclared, Goto, paging, Written, PageInv, Unasked, Handling
<1>24. CASE FollowNextLink
  BY <1>24 DEF CmdletInv, FollowNextLink, Goto, paging, Signalled, SignalThrows, Throw, PageInv,
         Unasked, Handling
<1>25. CASE AfterAPICall
  BY <1>25 DEF CmdletInv, AfterAPICall, Goto, Signalled, SignalThrows, Throw, PageInv, Unasked,
         Handling
<1>26. CASE Finally
  BY <1>26 DEF CmdletInv, Finally, Goto, paging, Throw, PageInv, Unasked, Handling
<1>27. CASE StopProcessing
  BY <1>27 DEF CmdletInv, StopProcessing, unchangedAll, unchangedTask, paging, PageInv
<1>28. CASE Cancel
  BY <1>28 DEF CmdletInv, Cancel, unchangedAll, unchangedTask, paging, PageInv
<1>29. CASE OtherBegins
  BY <1>29 DEF CmdletInv, OtherBegins, unchangedAll, unchangedTask, paging, PageInv
<1>30. CASE UNCHANGED vars
  BY <1>30 DEF CmdletInv, vars, PageInv, Unasked, Handling
<1>. QED BY <1>1, <1>2, <1>3, <1>4, <1>5, <1>6, <1>7, <1>8, <1>9, <1>10, <1>11, <1>12, <1>13,
       <1>14, <1>15, <1>16, <1>17, <1>18, <1>19, <1>20, <1>21, <1>22, <1>23, <1>24, <1>25,
       <1>26, <1>27, <1>28, <1>29, <1>30 DEF Next, MainStep, TaskStep

\* Whoever leaves something untold has handed it to the next who will tell.
LEMMA ToldInvKept ==
  ASSUME CmdletInv, CmdletAssumption, [Next]_vars PROVE ToldInv'
<1>1. CASE BeginAddress
  BY <1>1 DEF CmdletInv, BeginAddress, MainGoto, unchangedTask, paging, ToldInv
<1>2. CASE BeginUseProxy
  BY <1>2 DEF CmdletInv, BeginUseProxy, MainGoto, unchangedTask, paging, UseProxy, ToldInv
<1>3. CASE BeginSignal
  BY <1>3 DEF CmdletInv, BeginSignal, MainGoto, unchangedTask, paging, SyncSignal, ToldInv
<1>4. CASE NextInput
  BY <1>4 DEF CmdletInv, NextInput, unchangedTask, paging, ToldInv
<1>5. CASE RecordStart
  BY <1>5 DEF CmdletInv, RecordStart, MainGoto, unchangedTask, paging, SyncSignal, ToldInv
<1>6. CASE StartTask
  BY <1>6 DEF CmdletInv, StartTask, MainGoto, paging, ToldInv, Reporting, Ending
<1>7. CASE WaitReturns
  BY <1>7 DEF CmdletInv, WaitReturns, MainGoto, unchangedTask, paging, ToldInv, Reporting
<1>8. CASE Caught
  BY <1>8 DEF CmdletInv, Caught, MainGoto, unchangedTask, paging, SyncSignal, ToldInv
<1>9. CASE WriteError
  BY <1>9 DEF CmdletInv, WriteError, MainGoto, unchangedTask, paging, ToldInv
<1>10. CASE RecordEnd
  BY <1>10 DEF CmdletInv, RecordEnd, MainGoto, unchangedTask, paging, ToldInv
<1>11. CASE EndProcessing
  BY <1>11 DEF CmdletInv, EndProcessing, MainGoto, unchangedTask, paging, ToldInv
<1>12. CASE TaskStart
  BY <1>12 DEF CmdletInv, TaskStart, Goto, unchangedMain, Signalled, SignalThrows, Throw,
         PlaceInv, ToldInv, Handling, Reporting, Ending
<1>13. CASE Create
  BY <1>13 DEF CmdletInv, Create, Goto, unchangedMain, Throw, PlaceInv, ToldInv, Handling,
         Reporting, Ending
<1>14. CASE BeforeAPICall
  BY <1>14 DEF CmdletInv, BeforeAPICall, Goto, unchangedMain, Signalled, SignalThrows, Throw,
         PlaceInv, ToldInv, Handling, Reporting, Ending
<1>15. CASE Identity
  BY <1>15 DEF CmdletInv, Identity, Goto, Throw, ToldInv, Handling, Reporting, Ending
<1>16. CASE Method
  BY <1>16 DEF CmdletInv, Method, Goto, unchangedMain, Signalled, SignalThrows, Throw, PlaceInv,
         ToldInv, Handling, Reporting, Ending
<1>17. CASE Send
  BY <1>17 DEF CmdletInv, Send, Goto, unchangedMain, ToldInv, Handling, Reporting, Ending
<1>18. CASE Answer
  <2>1. CASE Called
    BY <1>18, <2>1 DEF CmdletInv, Answer, Goto, unchangedMain, Called, PlaceInv, ToldInv,
           Handling, Reporting, Ending
  <2>2. CASE NotCalled
    BY <1>18, <2>2 DEF CmdletInv, Answer, Goto, unchangedMain, NotCalled, Throw, PlaceInv,
           ToldInv, Handling, Reporting, Ending
  <2>. QED BY <1>18, <2>1, <2>2 DEF Answer
<1>19. CASE NoWait
  BY <1>19 DEF CmdletInv, NoWait, unchangedMain, ToldInv
<1>20. CASE Handle
  BY <1>20 DEF CmdletInv, Handle, Goto, unchangedMain, Throw, Override, ErrorResponse,
         PageResponse, ObjectResponse, BinaryResponse, NoResponse, PlaceInv, ToldInv, Handling,
         Reporting, Ending
<1>21. CASE BeginWrite
  BY <1>21 DEF CmdletInv, BeginWrite, Goto, unchangedMain, Write, Throw, PlaceInv, ToldInv,
         Handling, Reporting, Ending
<1>22. CASE WriteResponse
  BY <1>22 DEF CmdletInv, WriteResponse, Goto, Written, ToldInv, Reporting, Ending
<1>23. CASE WriteUndeclared
  BY <1>23 DEF CmdletInv, WriteUndeclared, Goto, Written, ToldInv, Handling, Reporting
<1>24. CASE FollowNextLink
  BY <1>24 DEF CmdletInv, FollowNextLink, Goto, unchangedMain, Signalled, SignalThrows, Throw,
         PlaceInv, ToldInv, Handling, Reporting, Ending
<1>25. CASE AfterAPICall
  BY <1>25 DEF CmdletInv, AfterAPICall, Goto, unchangedMain, Signalled, SignalThrows, Throw,
         AnotherSubscription, PlaceInv, LeftInv, ToldInv, Handling, Working, Reporting, Ending
<1>26. CASE Finally
  BY <1>26 DEF CmdletInv, Finally, Goto, unchangedMain, paging, Throw, PlaceInv, ToldInv,
         Handling, Reporting, Ending
<1>27. CASE StopProcessing
  BY <1>27 DEF CmdletInv, StopProcessing, unchangedAll, ToldInv
<1>28. CASE Cancel
  BY <1>28 DEF CmdletInv, Cancel, unchangedAll, ToldInv
<1>29. CASE OtherBegins
  BY <1>29 DEF CmdletInv, OtherBegins, unchangedAll, unchangedTask, paging, ToldInv
<1>30. CASE UNCHANGED vars
  BY <1>30 DEF CmdletInv, vars, ToldInv, Reporting, Ending, Handling
<1>. QED BY <1>1, <1>2, <1>3, <1>4, <1>5, <1>6, <1>7, <1>8, <1>9, <1>10, <1>11, <1>12, <1>13,
       <1>14, <1>15, <1>16, <1>17, <1>18, <1>19, <1>20, <1>21, <1>22, <1>23, <1>24, <1>25,
       <1>26, <1>27, <1>28, <1>29, <1>30 DEF Next, MainStep, TaskStep

-----------------------------------------------------------------------------
(* The invariant, and what follows from it.                                *)

\* A cmdlet begins with nothing asked, nothing written and nothing owed.
LEMMA InitInv == CmdletAssumption /\ Init => CmdletInv
<1>. SUFFICES ASSUME CmdletAssumption, Init PROVE CmdletInv
  OBVIOUS
<1>1. PlacesType /\ CountsType
  BY DEF Init, CmdletAssumption, PlacesType, CountsType
<1>2. FlagsType
  BY DEF Init, Shared, FlagsType
<1>3. OutputType
  BY Outputs DEF Init, CmdletAssumption, OutputType
<1>4. PlaceInv /\ LateInv /\ LeftInv /\ ToldInv
  BY DEF Init, PlaceInv, LateInv, LeftInv, ToldInv, Working, Unasked, Handling, Reporting, Ending
<1>5. PageInv
  BY DEF Init, PageInv, Unasked, Handling
<1>. QED BY <1>1, <1>2, <1>3, <1>4, <1>5, PartsOfTypeOK DEF CmdletInv

\* Every step keeps every part.
LEMMA NextInv == CmdletAssumption /\ CmdletInv /\ [Next]_vars => CmdletInv'
<1>. SUFFICES ASSUME CmdletAssumption, CmdletInv, [Next]_vars PROVE CmdletInv'
  OBVIOUS
<1>1. TypeOK'
  BY PlacesTypeKept, FlagsTypeKept, CountsTypeKept, OutputTypeKept, PartsOfTypeOK
     DEF TypeOK, PlacesType, FlagsType, CountsType, OutputType
<1>. QED BY <1>1, PlaceInvKept, LateInvKept, LeftInvKept, PageInvKept, ToldInvKept DEF CmdletInv

\* So the invariant holds as long as the cmdlet lives.
LEMMA Invariance == Spec => []CmdletInv
BY InitInv, NextInv, CmdletAssumption, PTL DEF Spec

\* The types, and that no more than one request is sent once the token is cancelled.
THEOREM TypeCorrect == Spec => []TypeOK
<1>1. CmdletInv => TypeOK
  BY DEF CmdletInv
<1>. QED BY <1>1, Invariance, PTL

\* ProcessRecord returns with nothing untold, unless it was cancelled: no failure, no
\* response that no handler took (but of an operation with specific exceptions only, where
\* it is undeclared), no subscription that was not asked.
THEOREM EverythingTold == Spec => []NothingSilent
<1>1. CmdletInv => NothingSilent
  BY DEF CmdletInv, PlaceInv, ToldInv, NothingSilent, Handling, Reporting, Ending
<1>. QED BY <1>1, Invariance, PTL

\* The pages of a call are written in the order of their links, each once.
THEOREM PagesOrdered == Spec => []PagesInOrder
<1>1. CmdletInv => PagesInOrder
  BY DEF CmdletInv, PageInv, PagesInOrder
<1>. QED BY <1>1, Invariance, PTL

(***************************************************************************)
(* OwnPipeline: first what the folds over the steps of an HttpPipeline     *)
(* come to, then the pipeline of a request, then the invariant.            *)
(***************************************************************************)

PipelineSteps == Parameter \cup ModuleSteps \cup {Info(r) : r \in 1..Records}

\* Prepend and Append of a step keep a pipeline one.
LEMMA PipelineType ==
  ASSUME NEW p \in H!Pipeline, NEW step \in PipelineSteps
  PROVE  H!Prepend(p, step) \in H!Pipeline /\ H!AppendStep(p, step) \in H!Pipeline
<1> DEFINE S == Seq(PipelineSteps)
           T == Seq(PipelineSteps \cup {"direct", "proxied"})
<1>1. H!Pipeline = [steps : S, terminal : {"direct", "proxied"}, chain : T]
  BY DEF H!Pipeline, PipelineSteps
<1>2. <<>> \in T /\ p.steps \in S
  BY <1>1
<1>3. Append(p.steps, step) \in S /\ <<step>> \o p.steps \in S
  <2>1. <<step>> \in S
    OBVIOUS
  <2> HIDE DEF PipelineSteps
  <2> QED BY <1>2, <2>1
<1> HIDE DEF S, T
<1> QED
  BY <1>1, <1>2, <1>3 DEF H!Prepend, H!AppendStep, H!NotBuilt

\* They replace the steps and what was built, and nothing else.
LEMMA PipelineExcept ==
  ASSUME NEW a, NEW t, NEW c, NEW v, NEW w
  PROVE  [[steps |-> a, terminal |-> t, chain |-> c] EXCEPT !.steps = v, !.chain = w] =
           [steps |-> v, terminal |-> t, chain |-> w]
<1> DEFINE names == {"steps", "terminal", "chain"}
           q == [[steps |-> a, terminal |-> t, chain |-> c] EXCEPT !.steps = v, !.chain = w]
<1>1. DOMAIN q = names /\ q = [name \in names |-> q[name]]
  OBVIOUS
<1>2. q.steps = v
  OBVIOUS
<1>3. q.chain = w
  OBVIOUS
<1>4. q.terminal = t
  OBVIOUS
<1>5. q = [steps |-> v, terminal |-> t, chain |-> w]
  <2> HIDE DEF q
  <2> QED BY <1>1, <1>2, <1>3, <1>4
<1> QED BY <1>5

LEMMA PipelineFields ==
  ASSUME NEW a, NEW t, NEW c, NEW step
  PROVE  /\ H!Prepend([steps |-> a, terminal |-> t, chain |-> c], step) =
              [steps |-> Append(a, step), terminal |-> t, chain |-> H!NotBuilt]
         /\ H!AppendStep([steps |-> a, terminal |-> t, chain |-> c], step) =
              [steps |-> <<step>> \o a, terminal |-> t, chain |-> H!NotBuilt]
<1> DEFINE p == [steps |-> a, terminal |-> t, chain |-> c]
           first == <<step>> \o a
           last == Append(a, step)
<1>1. p.steps = a
  OBVIOUS
<1>2. H!Prepend(p, step) = [p EXCEPT !.steps = last, !.chain = H!NotBuilt]
  BY <1>1 DEF H!Prepend
<1>3. H!AppendStep(p, step) = [p EXCEPT !.steps = first, !.chain = H!NotBuilt]
  BY <1>1 DEF H!AppendStep
<1> HIDE DEF first, last
<1> QED BY <1>2, <1>3, PipelineExcept DEF first, last

LEMMA ConcatAppend ==
  \A u, v \in Seq(PipelineSteps), e \in PipelineSteps : Append(u \o v, e) = u \o Append(v, e)
OBVIOUS

\* However many steps are prepended, they come after those that are there, in their order,
\* and what had been built is given up.
LEMMA PrependAllAdds ==
  ASSUME NEW p \in H!Pipeline, NEW items \in Seq(PipelineSteps)
  PROVE  H!PrependAll(p, items) =
           IF items = <<>> THEN p
           ELSE [steps |-> p.steps \o items, terminal |-> p.terminal, chain |-> H!NotBuilt]
<1> DEFINE N == Len(items)
           D == H!Pipeline
           step == [each \in (1..N) \X D |-> H!Prepend(each[2], items[each[1]])]
           iter == CHOOSE f : f = [s \in SUBSET DOMAIN items |->
                     IF s = {} THEN p ELSE H!Prepend(f[s \ {H!Max(s)}], items[H!Max(s)])]
<1>1. p \in D /\ N \in Nat /\ DOMAIN items = 1..N
  OBVIOUS
<1>2. step \in [(1..N) \X D -> D]
  <2>1. ASSUME NEW i \in 1..N, NEW q \in D PROVE H!Prepend(q, items[i]) \in D
    <3>1. items[i] \in PipelineSteps
      OBVIOUS
    <3> QED BY <3>1, PipelineType
  <2> HIDE DEF D
  <2> QED BY <2>1
<1>3. \A q \in D, s \in SUBSET (1..N) :
        s # {} => Max(s) \in 1..N /\ step[<<Max(s), q>>] = H!Prepend(q, items[Max(s)])
  <2>1. \A s \in SUBSET (1..N) : s # {} => Max(s) \in 1..N
    BY <1>1, MaxInterval
  <2> HIDE DEF D, N
  <2> QED BY <2>1
<1>4. PICK g \in [SUBSET (1..N) -> D] : \A s \in SUBSET (1..N) :
        g[s] = IF s = {} THEN p ELSE step[<<Max(s), g[s \ {Max(s)}]>>]
  <2> HIDE DEF step, D, N, iter
  <2>1. FoldsOver(D, p, N, step) # {}
    BY <1>1, <1>2, FoldExists
  <2> QED BY <2>1 DEF FoldsOver
<1>5. g = [s \in SUBSET DOMAIN items |->
             IF s = {} THEN p ELSE H!Prepend(g[s \ {H!Max(s)}], items[H!Max(s)])]
  <2>1. \A s \in SUBSET (1..N) : s \ {Max(s)} \in SUBSET (1..N) /\ g[s \ {Max(s)}] \in D
    OBVIOUS
  <2>2. \A s : H!Max(s) = Max(s)
    BY DEF H!Max, Max
  <2> HIDE DEF step, D, N, iter
  <2> QED BY <1>1, <1>3, <1>4, <2>1, <2>2
<1>6. iter = [s \in SUBSET DOMAIN items |->
                IF s = {} THEN p ELSE H!Prepend(iter[s \ {H!Max(s)}], items[H!Max(s)])]
  <2> HIDE DEF step, D, N
  <2> QED BY <1>5
<1>7. Follows(iter, D, p, N, step)
  <2>1. \A s : H!Max(s) = Max(s)
    BY DEF H!Max, Max
  <2>2. iter[{}] = p
    <3> HIDE DEF step, D, N, iter
    <3> QED BY <1>1, <1>6
  <2>3. ASSUME NEW s \in SUBSET (1..N), s # {}, iter[s \ {Max(s)}] \in D
        PROVE  iter[s] = step[<<Max(s), iter[s \ {Max(s)}]>>]
    <3> HIDE DEF step, D, N, iter
    <3> QED BY <1>1, <1>3, <1>6, <2>1, <2>3
  <2> HIDE DEF step, D, N, iter
  <2> QED BY <2>2, <2>3 DEF Follows
<1>8. PICK h \in Rounds(D, p, N, step) : iter[1..N] = h[N]
  <2> HIDE DEF step, D, N, iter
  <2>1. iter[1..N] \in Outcomes(D, p, N, step)
    BY <1>1, <1>2, <1>7, FoldSteps
  <2> QED BY <2>1 DEF Outcomes
<1>9. H!PrependAll(p, items) = h[N]
  BY <1>1, <1>8 DEF H!PrependAll, H!MapThenFoldSet, H!FoldLeft
<1>10. /\ h \in [0..N -> D] /\ h[0] = p
       /\ \A i \in 1..N : h[i] = H!Prepend(h[i-1], items[i])
  <2>1. h \in [0..N -> D] /\ h[0] = p /\ \A i \in 1..N : h[i] = step[<<i, h[i-1]>>]
    <3> HIDE DEF step, D, N, iter
    <3> QED BY <1>8 DEF Rounds
  <2>2. \A i \in 1..N : i - 1 \in 0..N
    BY <1>1
  <2> HIDE DEF D, N, iter
  <2> QED BY <2>1, <2>2
<1> DEFINE S == {i \in Nat : i > 0 =>
                   h[i] = [steps |-> p.steps \o SubSeq(items, 1, i),
                           terminal |-> p.terminal, chain |-> H!NotBuilt]}
<1>11. 0 \in S
  OBVIOUS
<1>12. ASSUME NEW n \in 0..N-1, n \in S PROVE n + 1 \in S
  <2>1. h[n+1] = H!Prepend(h[n], items[n+1])
    <3>1. n + 1 \in 1..N /\ (n + 1) - 1 = n
      BY <1>1
    <3> HIDE DEF D, N, iter
    <3> QED BY <1>10, <3>1
  <2>2. /\ p.steps \in Seq(PipelineSteps)
        /\ p = [steps |-> p.steps, terminal |-> p.terminal, chain |-> p.chain]
    BY DEF H!Pipeline, PipelineSteps
  <2> DEFINE a == p.steps \o SubSeq(items, 1, n)
             b == p.steps \o SubSeq(items, 1, n+1)
  <2>3. b = Append(a, items[n+1]) /\ (n = 0 => a = p.steps)
    <3>1. n \in 0..Len(items)-1 /\ (n = 0 => SubSeq(items, 1, n) = <<>>)
      OBVIOUS
    <3>2. /\ SubSeq(items, 1, n) \in Seq(PipelineSteps) /\ items[n+1] \in PipelineSteps
          /\ SubSeq(items, 1, n+1) = Append(SubSeq(items, 1, n), items[n+1])
      <4> HIDE DEF N
      <4> QED BY <3>1, Prefix
    <3>3. Append(a, items[n+1]) = b
      <4> DEFINE u == p.steps
                 v == SubSeq(items, 1, n)
                 e == items[n+1]
      <4>1. u \in Seq(PipelineSteps) /\ v \in Seq(PipelineSteps) /\ e \in PipelineSteps
        BY <2>2, <3>2
      <4>2. Append(u \o v, e) = u \o Append(v, e)
        <5> HIDE DEF u, v, e
        <5> QED BY <4>1, ConcatAppend
      <4> QED BY <3>2, <4>2
    <3>4. n = 0 => a = p.steps
      BY <2>2, <3>1
    <3> QED BY <3>3, <3>4
  <2>4. \E c : h[n] = [steps |-> a, terminal |-> p.terminal, chain |-> c]
    <3>1. CASE n = 0
      <4>1. h[n] = p
        BY <1>10, <3>1
      <4> HIDE DEF N, D, a, b, step, iter, S
      <4> QED BY <4>1, <2>2, <2>3, <3>1
    <3>2. CASE n > 0
      BY <1>12, <3>2
    <3>3. n = 0 \/ n > 0
      BY <1>1
    <3> HIDE DEF N, D, a, b, step, iter, S
    <3> QED BY <3>1, <3>2, <3>3
  <2>5. h[n+1] = [steps |-> b, terminal |-> p.terminal, chain |-> H!NotBuilt]
    <3>1. PICK c : h[n] = [steps |-> a, terminal |-> p.terminal, chain |-> c]
      BY <2>4
    <3>2. H!Prepend(h[n], items[n+1]) =
            [steps |-> Append(a, items[n+1]), terminal |-> p.terminal, chain |-> H!NotBuilt]
      <4> DEFINE t == p.terminal
                 e == items[n+1]
      <4>1. H!Prepend([steps |-> a, terminal |-> t, chain |-> c], e) =
              [steps |-> Append(a, e), terminal |-> t, chain |-> H!NotBuilt]
        <5> HIDE DEF a, t, e
        <5> QED BY PipelineFields
      <4> QED BY <3>1, <4>1
    <3> HIDE DEF a, b
    <3> QED BY <2>1, <2>3, <3>2
  <2> QED
    BY <2>5
<1>13. \A n \in 0..N : n \in S
  <2> HIDE DEF S, N
  <2> QED BY <1>1, <1>11, <1>12, IntervalInduction
<1>14. CASE items = <<>>
  BY <1>9, <1>10, <1>14
<1>15. CASE items # <<>>
  <2>1. N > 0 /\ SubSeq(items, 1, N) = items
    BY <1>15
  <2>2. N \in S
    <3> HIDE DEF N, S
    <3> QED BY <1>1, <1>13
  <2> HIDE DEF N, D, iter
  <2> QED BY <1>9, <1>15, <2>1, <2>2 DEF S
<1> QED BY <1>14, <1>15
\* Reversed, the last one comes first.
LEMMA ReverseAppend ==
  /\ Reverse(<<>>) = <<>>
  /\ \A u, v \in Seq(PipelineSteps), e \in PipelineSteps :
       Reverse(Append(v, e)) \o u = <<e>> \o (Reverse(v) \o u)
<1>1. Reverse(<<>>) = <<>>
  BY DEF Reverse
<1>2. ASSUME NEW u \in Seq(PipelineSteps), NEW v \in Seq(PipelineSteps), NEW e \in PipelineSteps
      PROVE  Reverse(Append(v, e)) \o u = <<e>> \o (Reverse(v) \o u)
  <2> DEFINE w == Append(v, e)
             n == Len(v)
  <2>1. w \in Seq(PipelineSteps) /\ Len(w) = n + 1 /\ w[n+1] = e /\ \A i \in 1..n : w[i] = v[i]
    OBVIOUS
  <2>2. Reverse(v) \in Seq(PipelineSteps) /\ Len(Reverse(v)) = n
    BY DEF Reverse
  <2>3. Reverse(w) \in Seq(PipelineSteps) /\ Len(Reverse(w)) = n + 1
    BY <2>1 DEF Reverse
  <2>4. Reverse(w) = <<e>> \o Reverse(v)
    BY <2>1, <2>2, <2>3 DEF Reverse
  <2> QED BY <2>2, <2>4
<1> QED BY <1>1, <1>2

\* However many are appended, they come before those that are there, the last one first.
LEMMA AppendAllAdds ==
  ASSUME NEW p \in H!Pipeline, NEW items \in Seq(PipelineSteps)
  PROVE  H!AppendAll(p, items) =
           IF items = <<>> THEN p
           ELSE [steps |-> Reverse(items) \o p.steps, terminal |-> p.terminal, chain |-> H!NotBuilt]
<1> DEFINE N == Len(items)
           D == H!Pipeline
           step == [each \in (1..N) \X D |-> H!AppendStep(each[2], items[each[1]])]
           iter == CHOOSE f : f = [s \in SUBSET DOMAIN items |->
                     IF s = {} THEN p ELSE H!AppendStep(f[s \ {H!Max(s)}], items[H!Max(s)])]
<1>1. p \in D /\ N \in Nat /\ DOMAIN items = 1..N
  OBVIOUS
<1>2. step \in [(1..N) \X D -> D]
  <2>1. ASSUME NEW i \in 1..N, NEW q \in D PROVE H!AppendStep(q, items[i]) \in D
    <3>1. items[i] \in PipelineSteps
      OBVIOUS
    <3> QED BY <3>1, PipelineType
  <2> HIDE DEF D
  <2> QED BY <2>1
<1>3. \A q \in D, s \in SUBSET (1..N) :
        s # {} => Max(s) \in 1..N /\ step[<<Max(s), q>>] = H!AppendStep(q, items[Max(s)])
  <2>1. \A s \in SUBSET (1..N) : s # {} => Max(s) \in 1..N
    BY <1>1, MaxInterval
  <2> HIDE DEF D, N
  <2> QED BY <2>1
<1>4. PICK g \in [SUBSET (1..N) -> D] : \A s \in SUBSET (1..N) :
        g[s] = IF s = {} THEN p ELSE step[<<Max(s), g[s \ {Max(s)}]>>]
  <2> HIDE DEF step, D, N, iter
  <2>1. FoldsOver(D, p, N, step) # {}
    BY <1>1, <1>2, FoldExists
  <2> QED BY <2>1 DEF FoldsOver
<1>5. g = [s \in SUBSET DOMAIN items |->
             IF s = {} THEN p ELSE H!AppendStep(g[s \ {H!Max(s)}], items[H!Max(s)])]
  <2>1. \A s \in SUBSET (1..N) : s \ {Max(s)} \in SUBSET (1..N) /\ g[s \ {Max(s)}] \in D
    OBVIOUS
  <2>2. \A s : H!Max(s) = Max(s)
    BY DEF H!Max, Max
  <2> HIDE DEF step, D, N, iter
  <2> QED BY <1>1, <1>3, <1>4, <2>1, <2>2
<1>6. iter = [s \in SUBSET DOMAIN items |->
                IF s = {} THEN p ELSE H!AppendStep(iter[s \ {H!Max(s)}], items[H!Max(s)])]
  <2> HIDE DEF step, D, N
  <2> QED BY <1>5
<1>7. Follows(iter, D, p, N, step)
  <2>1. \A s : H!Max(s) = Max(s)
    BY DEF H!Max, Max
  <2>2. iter[{}] = p
    <3> HIDE DEF step, D, N, iter
    <3> QED BY <1>1, <1>6
  <2>3. ASSUME NEW s \in SUBSET (1..N), s # {}, iter[s \ {Max(s)}] \in D
        PROVE  iter[s] = step[<<Max(s), iter[s \ {Max(s)}]>>]
    <3> HIDE DEF step, D, N, iter
    <3> QED BY <1>1, <1>3, <1>6, <2>1, <2>3
  <2> HIDE DEF step, D, N, iter
  <2> QED BY <2>2, <2>3 DEF Follows
<1>8. PICK h \in Rounds(D, p, N, step) : iter[1..N] = h[N]
  <2> HIDE DEF step, D, N, iter
  <2>1. iter[1..N] \in Outcomes(D, p, N, step)
    BY <1>1, <1>2, <1>7, FoldSteps
  <2> QED BY <2>1 DEF Outcomes
<1>9. H!AppendAll(p, items) = h[N]
  BY <1>1, <1>8 DEF H!AppendAll, H!MapThenFoldSet, H!FoldLeft
<1>10. /\ h \in [0..N -> D] /\ h[0] = p
       /\ \A i \in 1..N : h[i] = H!AppendStep(h[i-1], items[i])
  <2>1. h \in [0..N -> D] /\ h[0] = p /\ \A i \in 1..N : h[i] = step[<<i, h[i-1]>>]
    <3> HIDE DEF step, D, N, iter
    <3> QED BY <1>8 DEF Rounds
  <2>2. \A i \in 1..N : i - 1 \in 0..N
    BY <1>1
  <2> HIDE DEF D, N, iter
  <2> QED BY <2>1, <2>2
<1> DEFINE S == {i \in Nat : i > 0 =>
                   h[i] = [steps |-> Reverse(SubSeq(items, 1, i)) \o p.steps,
                           terminal |-> p.terminal, chain |-> H!NotBuilt]}
<1>11. 0 \in S
  OBVIOUS
<1>12. ASSUME NEW n \in 0..N-1, n \in S PROVE n + 1 \in S
  <2>1. h[n+1] = H!AppendStep(h[n], items[n+1])
    <3>1. n + 1 \in 1..N /\ (n + 1) - 1 = n
      BY <1>1
    <3> HIDE DEF D, N, iter
    <3> QED BY <1>10, <3>1
  <2>2. /\ p.steps \in Seq(PipelineSteps)
        /\ p = [steps |-> p.steps, terminal |-> p.terminal, chain |-> p.chain]
    BY DEF H!Pipeline, PipelineSteps
  <2> DEFINE a == Reverse(SubSeq(items, 1, n)) \o p.steps
             b == Reverse(SubSeq(items, 1, n+1)) \o p.steps
  <2>3. b = <<items[n+1]>> \o a /\ (n = 0 => a = p.steps)
    <3>1. n \in 0..Len(items)-1 /\ (n = 0 => SubSeq(items, 1, n) = <<>>)
      OBVIOUS
    <3>2. /\ SubSeq(items, 1, n) \in Seq(PipelineSteps) /\ items[n+1] \in PipelineSteps
          /\ SubSeq(items, 1, n+1) = Append(SubSeq(items, 1, n), items[n+1])
      <4> HIDE DEF N
      <4> QED BY <3>1, Prefix
    <3>3. <<items[n+1]>> \o a = b
      <4> DEFINE u == p.steps
                 v == SubSeq(items, 1, n)
                 e == items[n+1]
      <4>1. u \in Seq(PipelineSteps) /\ v \in Seq(PipelineSteps) /\ e \in PipelineSteps
        BY <2>2, <3>2
      <4>2. Reverse(Append(v, e)) \o u = <<e>> \o (Reverse(v) \o u)
        <5> HIDE DEF u, v, e
        <5> QED BY <4>1, ReverseAppend
      <4> QED BY <3>2, <4>2
    <3>4. n = 0 => a = p.steps
      <4>1. n = 0 => Reverse(SubSeq(items, 1, n)) = <<>>
        BY <3>1, ReverseAppend
      <4>2. <<>> \o p.steps = p.steps
        BY <2>2
      <4> QED BY <4>1, <4>2
    <3> QED BY <3>3, <3>4
  <2>4. \E c : h[n] = [steps |-> a, terminal |-> p.terminal, chain |-> c]
    <3>1. CASE n = 0
      <4>1. h[n] = p
        BY <1>10, <3>1
      <4> HIDE DEF N, D, a, b, step, iter, S
      <4> QED BY <4>1, <2>2, <2>3, <3>1
    <3>2. CASE n > 0
      BY <1>12, <3>2
    <3>3. n = 0 \/ n > 0
      BY <1>1
    <3> HIDE DEF N, D, a, b, step, iter, S
    <3> QED BY <3>1, <3>2, <3>3
  <2>5. h[n+1] = [steps |-> b, terminal |-> p.terminal, chain |-> H!NotBuilt]
    <3>1. PICK c : h[n] = [steps |-> a, terminal |-> p.terminal, chain |-> c]
      BY <2>4
    <3>2. H!AppendStep(h[n], items[n+1]) =
            [steps |-> <<items[n+1]>> \o a, terminal |-> p.terminal, chain |-> H!NotBuilt]
      <4> DEFINE t == p.terminal
                 e == items[n+1]
      <4>1. H!AppendStep([steps |-> a, terminal |-> t, chain |-> c], e) =
              [steps |-> <<e>> \o a, terminal |-> t, chain |-> H!NotBuilt]
        <5> HIDE DEF a, t, e
        <5> QED BY PipelineFields
      <4> QED BY <3>1, <4>1
    <3> HIDE DEF a, b
    <3> QED BY <2>1, <2>3, <3>2
  <2> QED
    BY <2>5
<1>13. \A n \in 0..N : n \in S
  <2> HIDE DEF S, N
  <2> QED BY <1>1, <1>11, <1>12, IntervalInduction
<1>14. CASE items = <<>>
  BY <1>9, <1>10, <1>14
<1>15. CASE items # <<>>
  <2>1. N > 0 /\ SubSeq(items, 1, N) = items
    BY <1>15
  <2>2. N \in S
    <3> HIDE DEF N, S
    <3> QED BY <1>1, <1>13
  <2> HIDE DEF N, D, iter
  <2> QED BY <1>9, <1>15, <2>1, <2>2 DEF S
<1> QED BY <1>14, <1>15

-----------------------------------------------------------------------------
(* The pipeline of a request.                                              *)

\* The steps of the three pipelines cmdlets take theirs from, and where they end.
SharedSteps(source) == IF source = "custom" THEN <<"custom">> ELSE <<"agent", "sign">>
Terminal(source) == IF source = "proxied" THEN "proxied" ELSE "direct"

\* What CreatePipeline and ProcessRecordAsync make of one of them for record r.
RequestSteps(source, r) ==
  IF source = "custom"
  THEN <<"append2", "append1", Info(r), "custom", "request", "prepend1", "prepend2">>
  ELSE <<"append2", "append1", Info(r), "agent", "sign", "request", "prepend1", "prepend2">>
Requested(source, r) ==
  [steps |-> RequestSteps(source, r), terminal |-> Terminal(source), chain |-> H!NotBuilt]

Sources == {"direct", "proxied", "custom"}

\* What a chain consists of.
Links == PipelineSteps \cup {"direct", "proxied"}

\* A sequence of two, seven or eight elements is their tuple.
LEMMA Tuples ==
  ASSUME NEW x \in Seq(Links)
  PROVE  /\ Len(x) = 2 => x = <<x[1], x[2]>>
         /\ Len(x) = 7 => x = <<x[1], x[2], x[3], x[4], x[5], x[6], x[7]>>
         /\ Len(x) = 8 => x = <<x[1], x[2], x[3], x[4], x[5], x[6], x[7], x[8]>>
OBVIOUS

LEMMA Pair ==
  ASSUME NEW a \in Links, NEW b \in Links
  PROVE  <<a>> \o <<b>> = <<a, b>> /\ Reverse(<<a>>) = <<a>>
<1> DEFINE x == <<a>> \o <<b>>
<1>1. x \in Seq(Links) /\ Len(x) = 2 /\ x[1] = a /\ x[2] = b
  OBVIOUS
<1>2. Reverse(<<a>>) = <<a>>
  BY DEF Reverse
<1> HIDE DEF x
<1>3. x = <<a, b>>
  BY <1>1, Tuples
<1> QED BY <1>2, <1>3 DEF x

LEMMA SharedPipelines ==
  ASSUME NEW source \in Sources
  PROVE  /\ Shared[source] \in H!Pipeline
         /\ \E c : Shared[source] =
                   [steps |-> SharedSteps(source), terminal |-> Terminal(source), chain |-> c]
<1> DEFINE new(terminal) == [steps |-> <<>>, terminal |-> terminal, chain |-> <<>>]
<1>1. /\ {"sign", "agent", "custom"} \subseteq PipelineSteps
      /\ \A terminal \in {"direct", "proxied"} : H!NewPipeline(terminal) \in H!Pipeline
  BY DEF PipelineSteps, ModuleSteps, H!Pipeline, H!NewPipeline, H!NotBuilt
<1>2. \A terminal : H!NewPipeline(terminal) = new(terminal)
  BY DEF H!NewPipeline, H!NotBuilt
<1>3. \A step \in {"sign", "agent", "custom"} : Append(<<>>, step) = <<step>>
  OBVIOUS
<1>4. ASSUME NEW terminal \in {"direct", "proxied"}
      PROVE  /\ Loaded(terminal) \in H!Pipeline
             /\ Loaded(terminal) =
                  [steps |-> <<"agent", "sign">>, terminal |-> terminal, chain |-> H!NotBuilt]
  <2>1. Loaded(terminal) \in H!Pipeline
    BY <1>1, PipelineType DEF Loaded
  <2>2. H!Prepend(new(terminal), "sign") =
          [steps |-> Append(<<>>, "sign"), terminal |-> terminal, chain |-> H!NotBuilt]
    BY PipelineFields
  <2>3. <<"agent">> \o <<"sign">> = <<"agent", "sign">>
    BY <1>1, Pair DEF Links
  <2>4. H!AppendStep([steps |-> <<"sign">>, terminal |-> terminal, chain |-> H!NotBuilt], "agent") =
          [steps |-> <<"agent">> \o <<"sign">>, terminal |-> terminal, chain |-> H!NotBuilt]
    BY PipelineFields
  <2> QED BY <1>2, <1>3, <2>1, <2>2, <2>3, <2>4 DEF Loaded
<1>5. /\ H!Prepend(H!NewPipeline("direct"), "custom") \in H!Pipeline
      /\ H!Prepend(H!NewPipeline("direct"), "custom") =
           [steps |-> <<"custom">>, terminal |-> "direct", chain |-> H!NotBuilt]
  <2>1. H!Prepend(H!NewPipeline("direct"), "custom") \in H!Pipeline
    BY <1>1, PipelineType
  <2>2. H!Prepend(new("direct"), "custom") =
          [steps |-> Append(<<>>, "custom"), terminal |-> "direct", chain |-> H!NotBuilt]
    BY PipelineFields
  <2> QED BY <1>2, <1>3, <2>1, <2>2
<1>6. CASE source = "custom"
  <2> DEFINE q == [steps |-> <<"custom">>, terminal |-> "direct", chain |-> H!NotBuilt]
  <2>1. Shared[source] = H!Built(q)
    BY <1>5, <1>6 DEF Shared
  <2>2. H!Build(q) = <<"custom", "direct">>
    <3>1. H!Reverse(<<"custom">>) = Reverse(<<"custom">>)
      BY DEF H!Reverse, Reverse
    <3>2. "custom" \in Links /\ "direct" \in Links
      BY DEF Links, PipelineSteps, ModuleSteps
    <3>3. H!Build(q) = Reverse(<<"custom">>) \o <<"direct">>
      BY <3>1 DEF H!Build
    <3> QED BY <3>2, <3>3, Pair
  <2>3. H!Built(q) = [steps |-> <<"custom">>, terminal |-> "direct", chain |-> <<"custom", "direct">>]
    BY <2>2 DEF H!Built, H!Chain
  <2>4. H!Built(q) \in H!Pipeline
    <3>1. "custom" \in PipelineSteps /\ {"custom", "direct"} \subseteq Links
      BY DEF Links, PipelineSteps, ModuleSteps
    <3>2. <<"custom">> \in Seq(PipelineSteps) /\ <<"custom", "direct">> \in Seq(Links)
      BY <3>1
    <3>3. H!Pipeline = [steps : Seq(PipelineSteps), terminal : {"direct", "proxied"},
                        chain : Seq(Links)]
      BY DEF H!Pipeline, PipelineSteps, Links
    <3> HIDE DEF q
    <3> QED BY <2>3, <3>2, <3>3
  <2> QED BY <1>6, <2>1, <2>3, <2>4 DEF SharedSteps, Terminal
<1>7. CASE source # "custom"
  <2>1. source \in {"direct", "proxied"}
    BY <1>7 DEF Sources
  <2>2. Shared[source] = Loaded(source)
    BY <2>1 DEF Shared
  <2>3. SharedSteps(source) = <<"agent", "sign">> /\ Terminal(source) = source
    BY <2>1 DEF SharedSteps, Terminal
  <2> QED BY <1>4, <2>1, <2>2, <2>3
<1> QED BY <1>6, <1>7

LEMMA RequestPipeline ==
  ASSUME NEW source \in Sources, record \in 1..Records
  PROVE  ForRequest(H!Clone(Shared[source])) = Requested(source, record)
<1> DEFINE info == Info(record)
           S == SharedSteps(source)
           T == Terminal(source)
           P == <<"prepend1", "prepend2">>
           A == <<"append1", "append2">>
           pipe(steps) == [steps |-> steps, terminal |-> T, chain |-> H!NotBuilt]
           a == <<info>> \o S
           b == Append(a, "request")
           c == b \o P
           d == Reverse(A) \o c
<1>1. /\ info \in PipelineSteps
      /\ Parameter \cup ModuleSteps \subseteq PipelineSteps
  BY DEF PipelineSteps
<1>2. PICK built : Shared[source] = [steps |-> S, terminal |-> T, chain |-> built]
  BY SharedPipelines
<1>3. H!Clone(Shared[source]) = [steps |-> S, terminal |-> T, chain |-> built]
  <2> HIDE DEF S, T
  <2> QED BY <1>2 DEF H!Clone
<1>4. S \in Seq(PipelineSteps)
  BY <1>1 DEF SharedSteps, ModuleSteps
<1>5. P \in Seq(PipelineSteps) /\ A \in Seq(PipelineSteps) /\ P # <<>> /\ A # <<>>
  BY <1>1 DEF Parameter
<1>6. a \in Seq(PipelineSteps) /\ b \in Seq(PipelineSteps) /\ c \in Seq(PipelineSteps)
  <2>1. "request" \in PipelineSteps
    BY <1>1 DEF ModuleSteps
  <2> HIDE DEF S, P, info
  <2> QED BY <1>1, <1>4, <1>5, <2>1
<1>7. \A steps \in Seq(PipelineSteps) : pipe(steps) \in H!Pipeline
  BY DEF H!Pipeline, H!NotBuilt, PipelineSteps, Terminal
<1> HIDE DEF T, P, A
<1>8. H!AppendStep(H!Clone(Shared[source]), info) = pipe(a)
  <2>1. H!AppendStep([steps |-> S, terminal |-> T, chain |-> built], info) = pipe(a)
    <3> HIDE DEF S, info
    <3> QED BY PipelineFields
  <2> HIDE DEF S, info, a, pipe
  <2> QED BY <1>3, <2>1
<1>9. H!Prepend(pipe(a), "request") = pipe(b)
  <2> HIDE DEF a
  <2> QED BY PipelineFields
<1>10. H!PrependAll(pipe(b), P) = pipe(c)
  <2> HIDE DEF b
  <2>1. pipe(b) \in H!Pipeline /\ pipe(b).steps = b /\ pipe(b).terminal = T
    BY <1>6, <1>7
  <2> QED BY <1>5, <2>1, PrependAllAdds
<1>11. H!AppendAll(pipe(c), A) = pipe(d)
  <2> HIDE DEF c
  <2>1. pipe(c) \in H!Pipeline /\ pipe(c).steps = c /\ pipe(c).terminal = T
    BY <1>6, <1>7
  <2> QED BY <1>5, <2>1, AppendAllAdds
<1>12. ForRequest(H!Clone(Shared[source])) = pipe(d)
  <2>1. \A p : ForRequest(p) =
          H!AppendAll(H!PrependAll(H!Prepend(H!AppendStep(p, info), "request"), P), A)
    BY DEF ForRequest, P, A
  <2> HIDE DEF a, b, c, d, pipe, info
  <2> QED BY <1>8, <1>9, <1>10, <1>11, <2>1
<1>13. d = RequestSteps(source, record)
  <2>1. Reverse(A) = <<"append2", "append1">>
    <3>1. Reverse(A) \in Seq(PipelineSteps) /\ Len(Reverse(A)) = 2
      BY <1>5 DEF Reverse, A
    <3>2. Reverse(A)[1] = "append2" /\ Reverse(A)[2] = "append1"
      BY DEF Reverse, A
    <3> QED BY <3>1, <3>2, Tuples DEF Links
  <2>2. d \in Seq(Links)
    <3>1. <<"append2", "append1">> \in Seq(PipelineSteps)
      BY <1>1 DEF Parameter
    <3>2. d \in Seq(PipelineSteps)
      <4> HIDE DEF c
      <4> QED BY <1>6, <2>1, <3>1
    <3> HIDE DEF d
    <3> QED BY <3>2 DEF Links
  <2>3. CASE source = "custom"
    <3>1. Len(d) = 7
      BY <2>1, <2>3 DEF SharedSteps, P
    <3>2. d[1] = "append2" /\ d[2] = "append1" /\ d[3] = info /\ d[4] = "custom"
      BY <2>1, <2>3 DEF SharedSteps, P
    <3>3. d[5] = "request" /\ d[6] = "prepend1" /\ d[7] = "prepend2"
      BY <2>1, <2>3 DEF SharedSteps, P
    <3> HIDE DEF d
    <3> QED BY <2>2, <2>3, <3>1, <3>2, <3>3, Tuples DEF RequestSteps
  <2>4. CASE source # "custom"
    <3>1. Len(d) = 8
      BY <2>1, <2>4 DEF SharedSteps, P
    <3>2. d[1] = "append2" /\ d[2] = "append1" /\ d[3] = info /\ d[4] = "agent" /\ d[5] = "sign"
      BY <2>1, <2>4 DEF SharedSteps, P
    <3>3. d[6] = "request" /\ d[7] = "prepend1" /\ d[8] = "prepend2"
      BY <2>1, <2>4 DEF SharedSteps, P
    <3> HIDE DEF d
    <3> QED BY <2>2, <2>4, <3>1, <3>2, <3>3, Tuples DEF RequestSteps
  <2> QED BY <2>3, <2>4
<1> QED
  BY <1>12, <1>13 DEF Requested, T

\* What such a pipeline does: its steps from the last to the first, then its terminal.
LEMMA RequestChain ==
  ASSUME NEW source \in Sources, NEW r \in 1..Records
  PROVE  /\ H!Chain(Requested(source, r)) =
              (<<"prepend2", "prepend1", "request">>
                 \o (IF source = "custom" THEN <<"custom">> ELSE <<"sign", "agent">>)
                 \o <<Info(r), "append1", "append2">>) \o <<Terminal(source)>>
         /\ H!Chain(H!Built(Requested(source, r))) = H!Chain(Requested(source, r))
         /\ H!Built(H!Built(Requested(source, r))) = H!Built(Requested(source, r))
<1> DEFINE q == Requested(source, r)
           u == RequestSteps(source, r)
           I == IF source = "custom" THEN <<"custom">> ELSE <<"sign", "agent">>
           w == <<"prepend2", "prepend1", "request">> \o I \o <<Info(r), "append1", "append2">>
           T == Terminal(source)
<1>1. /\ Info(r) \in PipelineSteps /\ T \in Links
      /\ Parameter \cup ModuleSteps \subseteq PipelineSteps
      /\ PipelineSteps \subseteq Links
  BY DEF PipelineSteps, Links, Terminal
<1>2. Reverse(u) = w
  <2>1. w \in Seq(Links) /\ u \in Seq(Links)
    BY <1>1 DEF Parameter, ModuleSteps, RequestSteps
  <2>2. Reverse(u) \in Seq(Links) /\ Len(Reverse(u)) = Len(u)
    BY <2>1 DEF Reverse
  <2>3. CASE source = "custom"
    <3>1. Len(u) = 7
      BY <2>3 DEF RequestSteps
    <3>2. \A i \in 1..7 : Reverse(u)[i] = u[8 - i]
      BY <3>1 DEF Reverse
    <3>3. /\ u[1] = "append2" /\ u[2] = "append1" /\ u[3] = Info(r) /\ u[4] = "custom"
          /\ u[5] = "request" /\ u[6] = "prepend1" /\ u[7] = "prepend2"
      BY <2>3 DEF RequestSteps
    <3>4. Len(w) = 7
      BY <2>3
    <3>5. /\ w[1] = "prepend2" /\ w[2] = "prepend1" /\ w[3] = "request" /\ w[4] = "custom"
          /\ w[5] = Info(r) /\ w[6] = "append1" /\ w[7] = "append2"
      BY <2>3
    <3> HIDE DEF u, w
    <3>6. /\ Reverse(u)[1] = "prepend2" /\ Reverse(u)[2] = "prepend1"
          /\ Reverse(u)[3] = "request" /\ Reverse(u)[4] = "custom"
          /\ Reverse(u)[5] = Info(r) /\ Reverse(u)[6] = "append1" /\ Reverse(u)[7] = "append2"
      BY <3>2, <3>3
    <3> HIDE DEF q, I, T
    <3>7. Reverse(u) = <<"prepend2", "prepend1", "request", "custom", Info(r), "append1", "append2">>
      BY <2>2, <3>1, <3>6, Tuples
    <3>8. w = <<"prepend2", "prepend1", "request", "custom", Info(r), "append1", "append2">>
      BY <2>1, <3>4, <3>5, Tuples
    <3> QED BY <3>7, <3>8
  <2>4. CASE source # "custom"
    <3>1. Len(u) = 8
      BY <2>4 DEF RequestSteps
    <3>2. \A i \in 1..8 : Reverse(u)[i] = u[9 - i]
      BY <3>1 DEF Reverse
    <3>3. /\ u[1] = "append2" /\ u[2] = "append1" /\ u[3] = Info(r) /\ u[4] = "agent"
          /\ u[5] = "sign" /\ u[6] = "request" /\ u[7] = "prepend1" /\ u[8] = "prepend2"
      BY <2>4 DEF RequestSteps
    <3>4. Len(w) = 8
      BY <2>4
    <3>5. /\ w[1] = "prepend2" /\ w[2] = "prepend1" /\ w[3] = "request" /\ w[4] = "sign"
          /\ w[5] = "agent" /\ w[6] = Info(r) /\ w[7] = "append1" /\ w[8] = "append2"
      BY <2>4
    <3> HIDE DEF u, w
    <3>6. /\ Reverse(u)[1] = "prepend2" /\ Reverse(u)[2] = "prepend1"
          /\ Reverse(u)[3] = "request" /\ Reverse(u)[4] = "sign" /\ Reverse(u)[5] = "agent"
          /\ Reverse(u)[6] = Info(r) /\ Reverse(u)[7] = "append1" /\ Reverse(u)[8] = "append2"
      BY <3>2, <3>3
    <3> HIDE DEF q, I, T
    <3>7. Reverse(u) = <<"prepend2", "prepend1", "request", "sign", "agent", Info(r), "append1", "append2">>
      BY <2>2, <3>1, <3>6, Tuples
    <3>8. w = <<"prepend2", "prepend1", "request", "sign", "agent", Info(r), "append1", "append2">>
      BY <2>1, <3>4, <3>5, Tuples
    <3> QED BY <3>7, <3>8
  <2> QED BY <2>3, <2>4
<1>3. H!Build(q) = w \o <<T>>
  <2>1. H!Reverse(u) = Reverse(u) /\ q.steps = u /\ q.terminal = T
    BY DEF H!Reverse, Reverse, Requested
  <2> HIDE DEF q, u, w
  <2> QED BY <1>2, <2>1 DEF H!Build
<1>4. w \o <<T>> # <<>>
  <2>1. w \in Seq(Links) /\ <<T>> \in Seq(Links) /\ Len(<<T>>) = 1
    BY <1>1 DEF Parameter, ModuleSteps
  <2>2. Len(w \o <<T>>) # 0
    <3> HIDE DEF w, T
    <3> QED BY <2>1
  <2> HIDE DEF w, T
  <2> QED BY <2>2
<1>5. H!Chain(q) = w \o <<T>>
  <2>1. q.chain = H!NotBuilt
    BY DEF Requested
  <2> HIDE DEF q, w
  <2> QED BY <1>3, <2>1 DEF H!Chain
<1>6. H!Built(q) = [steps |-> u, terminal |-> T, chain |-> w \o <<T>>]
  <2> DEFINE v == w \o <<T>>
  <2>1. H!Chain(q) = v
    BY <1>5
  <2>2. q = [steps |-> u, terminal |-> T, chain |-> H!NotBuilt]
    BY DEF Requested
  <2> HIDE DEF w, u, v, T, q
  <2>3. H!Built(q) = [q EXCEPT !.chain = v]
    BY <2>1 DEF H!Built
  <2>4. H!Built(q) = [steps |-> u, terminal |-> T, chain |-> v]
    BY <2>2, <2>3
  <2> QED BY <2>4 DEF v
<1>7. H!Chain(H!Built(q)) = w \o <<T>>
  <2> HIDE DEF w, u, T, q
  <2> QED BY <1>4, <1>6 DEF H!Chain, H!NotBuilt
<1>8. H!Built(H!Built(q)) = H!Built(q)
  <2> DEFINE v == w \o <<T>>
             p == [steps |-> u, terminal |-> T, chain |-> v]
  <2>0. H!Built(q) = p
    BY <1>6
  <2>1. H!Chain(p) = v
    BY <2>0, <1>7
  <2> HIDE DEF w, u, T, q, v
  <2>2. H!Built(p) = [p EXCEPT !.chain = v]
    BY <2>1 DEF H!Built
  <2>3. [p EXCEPT !.chain = v] = p
    OBVIOUS
  <2> HIDE DEF p
  <2> QED BY <2>0, <2>2, <2>3
<1> QED
  BY <1>5, <1>7, <1>8

-----------------------------------------------------------------------------
(* The pipelines of the module and of the cmdlet.                          *)

\* A cmdlet that was not overtaken has set its proxy when BeginProcessing is over, and
\* no task runs before; no step changes the pipelines that are shared.
OursInv ==
  /\ shared = Shared
  /\ main \in {"begin", "useProxy"} => pc = "none"
  /\ main # "begin" /\ ~overtaken => handler.address = cmd.proxy
  /\ main \notin {"begin", "useProxy"} /\ ~overtaken => handler.useProxy = (cmd.proxy # "none")

\* The places of the task where it has a pipeline it sends, or may still send, with.
Requesting == {"before", "identity", "stranded", "method", "send", "awaiting", "handle", "write",
               "writing", "nextLink", "after"}

\* That is the one for its record, from where the cmdlet takes it, and from the first
\* send on what was built from it.
Asked(source, r) == H!Built(Requested(source, r))
RequestInv ==
  /\ pc # "none" \/ main \in {"recordStart", "confirm"} => record > 0
  /\ pc \in Requesting => \E source \in Sources :
       /\ (source = "custom") = cmd.custom
       /\ ~overtaken /\ ~cmd.custom =>
            source = (IF cmd.proxy = "own" THEN "proxied" ELSE "direct")
       /\ pipeline \in {Requested(source, record), Asked(source, record)}
       /\ pc = "awaiting" => pipeline = Asked(source, record)

RequestsInv == CmdletInv /\ OursInv /\ RequestInv

\* Only BeginProcessing sets the proxy, and another cmdlet, which overtakes this one.
LEMMA OursInvKept ==
  ASSUME RequestsInv, CmdletAssumption, [Next]_vars PROVE OursInv'
<1>1. CASE BeginAddress
  BY <1>1 DEF RequestsInv, BeginAddress, MainGoto, unchangedTask, SetAddress, OursInv
<1>2. CASE BeginUseProxy
  BY <1>2 DEF RequestsInv, BeginUseProxy, MainGoto, UseProxy, OursInv
<1>3. CASE BeginSignal
  BY <1>3 DEF RequestsInv, BeginSignal, MainGoto, module, SyncSignal, OursInv
<1>4. CASE NextInput
  BY <1>4 DEF RequestsInv, NextInput, MainGoto, module, OursInv
<1>5. CASE RecordStart
  BY <1>5 DEF RequestsInv, RecordStart, MainGoto, module, SyncSignal, OursInv
<1>6. CASE StartTask
  BY <1>6 DEF RequestsInv, StartTask, MainGoto, module, OursInv
<1>7. CASE WaitReturns
  BY <1>7 DEF RequestsInv, WaitReturns, MainGoto, module, OursInv
<1>8. CASE Caught
  BY <1>8 DEF RequestsInv, Caught, MainGoto, module, SyncSignal, OursInv
<1>9. CASE WriteError
  BY <1>9 DEF RequestsInv, WriteError, MainGoto, module, OursInv
<1>10. CASE RecordEnd
  BY <1>10 DEF RequestsInv, RecordEnd, MainGoto, module, OursInv
<1>11. CASE EndProcessing
  BY <1>11 DEF RequestsInv, EndProcessing, MainGoto, module, OursInv
<1>12. CASE TaskStart
  BY <1>12 DEF RequestsInv, TaskStart, Goto, unchangedMain, Signalled, SignalThrows, Throw,
         OursInv
<1>13. CASE Create
  BY <1>13 DEF RequestsInv, Create, Goto, unchangedMain, Throw, OursInv, CreatePipeline
<1>14. CASE BeforeAPICall
  BY <1>14 DEF RequestsInv, BeforeAPICall, Goto, unchangedMain, Signalled, SignalThrows,
         Throw, OursInv
<1>15. CASE Identity
  BY <1>15 DEF RequestsInv, Identity, Goto, module, Throw, OursInv
<1>16. CASE Method
  BY <1>16 DEF RequestsInv, Method, Goto, unchangedMain, Signalled, SignalThrows, Throw,
         OursInv
<1>17. CASE Send
  BY <1>17 DEF RequestsInv, Send, Goto, unchangedMain, OursInv
<1>18. CASE Answer
  BY <1>18 DEF RequestsInv, Answer, Goto, unchangedMain, Called, NotCalled, Throw, OursInv
<1>19. CASE NoWait
  BY <1>19 DEF RequestsInv, NoWait, unchangedMain, OursInv
<1>20. CASE Handle
  BY <1>20 DEF RequestsInv, Handle, Goto, unchangedMain, Throw, Override, ErrorResponse,
         PageResponse, ObjectResponse, BinaryResponse, NoResponse, OursInv
<1>21. CASE BeginWrite
  BY <1>21 DEF RequestsInv, BeginWrite, Goto, unchangedMain, Write, Throw, OursInv
<1>22. CASE WriteResponse
  BY <1>22 DEF RequestsInv, WriteResponse, Goto, module, Written, OursInv
<1>23. CASE WriteUndeclared
  BY <1>23 DEF RequestsInv, WriteUndeclared, Goto, module, Written, OursInv
<1>24. CASE FollowNextLink
  BY <1>24 DEF RequestsInv, FollowNextLink, Goto, unchangedMain, Signalled, SignalThrows,
         Throw, OursInv
<1>25. CASE AfterAPICall
  BY <1>25 DEF RequestsInv, AfterAPICall, Goto, unchangedMain, Signalled, SignalThrows,
         Throw, OursInv
<1>26. CASE Finally
  BY <1>26 DEF RequestsInv, Finally, Goto, unchangedMain, Throw, OursInv
<1>27. CASE StopProcessing
  BY <1>27 DEF RequestsInv, StopProcessing, unchangedAll, unchangedTask, module, OursInv
<1>28. CASE Cancel
  BY <1>28 DEF RequestsInv, Cancel, unchangedAll, unchangedTask, module, OursInv
<1>29. CASE OtherBegins
  BY <1>29 DEF RequestsInv, OtherBegins, unchangedAll, unchangedTask, OursInv
<1>30. CASE UNCHANGED vars
  BY <1>30 DEF RequestsInv, vars, OursInv
<1>. QED BY <1>1, <1>2, <1>3, <1>4, <1>5, <1>6, <1>7, <1>8, <1>9, <1>10, <1>11, <1>12,
       <1>13, <1>14, <1>15, <1>16, <1>17, <1>18, <1>19, <1>20, <1>21, <1>22, <1>23, <1>24,
       <1>25, <1>26, <1>27, <1>28, <1>29, <1>30 DEF Next, MainStep, TaskStep

\* The pipeline is made for the record, and nothing but the first send touches it.
LEMMA RequestInvKept ==
  ASSUME RequestsInv, CmdletAssumption, [Next]_vars PROVE RequestInv'
<1>1. CASE BeginAddress
  BY <1>1 DEF RequestsInv, BeginAddress, MainGoto, unchangedTask, OursInv, RequestInv,
         Requesting
<1>2. CASE BeginUseProxy
  BY <1>2 DEF RequestsInv, BeginUseProxy, MainGoto, unchangedTask, OursInv, RequestInv,
         Requesting
<1>3. CASE BeginSignal
  BY <1>3 DEF RequestsInv, BeginSignal, MainGoto, unchangedTask, input, SyncSignal,
         CmdletInv, PlaceInv, RequestInv, Requesting
<1>4. CASE NextInput
  BY <1>4 DEF RequestsInv, NextInput, MainGoto, unchangedTask, CmdletInv, PlaceInv, TypeOK,
         RequestInv, Requesting
<1>5. CASE RecordStart
  BY <1>5 DEF RequestsInv, RecordStart, MainGoto, unchangedTask, input, SyncSignal,
         CmdletInv, PlaceInv, RequestInv, Requesting
<1>6. CASE StartTask
  BY <1>6 DEF RequestsInv, StartTask, MainGoto, input, CmdletInv, PlaceInv, RequestInv,
         Requesting
<1>7. CASE WaitReturns
  BY <1>7 DEF RequestsInv, WaitReturns, unchangedTask, input, RequestInv, Requesting
<1>8. CASE Caught
  BY <1>8 DEF RequestsInv, Caught, MainGoto, unchangedTask, input, SyncSignal, CmdletInv,
         PlaceInv, RequestInv, Requesting
<1>9. CASE WriteError
  BY <1>9 DEF RequestsInv, WriteError, MainGoto, unchangedTask, input, CmdletInv, PlaceInv,
         RequestInv, Requesting
<1>10. CASE RecordEnd
  BY <1>10 DEF RequestsInv, RecordEnd, MainGoto, unchangedTask, module, input, RequestInv
<1>11. CASE EndProcessing
  BY <1>11 DEF RequestsInv, EndProcessing, MainGoto, unchangedTask, input, CmdletInv,
         PlaceInv, RequestInv, Requesting
<1>12. CASE TaskStart
  BY <1>12 DEF RequestsInv, TaskStart, Goto, unchangedMain, input, Signalled, SignalThrows,
         Throw, RequestInv, Requesting
<1>13. CASE Create
  <2>1. CASE CreatePipeline /\ Goto("create", "before")
    <3> DEFINE source == Source
    <3>1. /\ source \in Sources /\ (source = "custom") = cmd.custom
          /\ ~overtaken /\ ~cmd.custom =>
               source = (IF cmd.proxy = "own" THEN "proxied" ELSE "direct")
      BY <2>1 DEF RequestsInv, CmdletInv, TypeOK, CmdletAssumption, OursInv, Source, Sources, Goto
    <3>2. shared = Shared /\ record \in 1..Records
      BY <2>1 DEF RequestsInv, CmdletInv, TypeOK, CmdletAssumption, OursInv, RequestInv, Goto
    <3> HIDE DEF source
    <3>3. pipeline' = Requested(source, record)
      BY <2>1, <3>1, <3>2, RequestPipeline DEF CreatePipeline, source
    <3> QED BY <1>13, <2>1, <3>1, <3>2, <3>3 DEF Create, unchangedMain, input, Goto, RequestInv
  <2>2. CASE Throw("create", "done", "fault")
    BY <1>13, <2>2 DEF RequestsInv, Create, unchangedMain, input, Throw, Goto, RequestInv, Requesting
  <2>. QED BY <1>13, <2>1, <2>2 DEF Create
<1>14. CASE BeforeAPICall
  BY <1>14 DEF RequestsInv, BeforeAPICall, Goto, unchangedMain, input, Signalled,
         SignalThrows, Throw, RequestInv, Requesting
<1>15. CASE Identity
  BY <1>15 DEF RequestsInv, Identity, Goto, module, input, Throw, RequestInv, Requesting
<1>16. CASE Method
  BY <1>16 DEF RequestsInv, Method, Goto, unchangedMain, input, Signalled, SignalThrows,
         Throw, RequestInv, Requesting
<1>17. CASE Send
  <2>1. record \in 1..Records /\ pc = "send"
    BY <1>17 DEF RequestsInv, CmdletInv, TypeOK, CmdletAssumption, RequestInv, Send, Goto
  <2>2. PICK source \in Sources :
          /\ (source = "custom") = cmd.custom
          /\ ~overtaken /\ ~cmd.custom =>
               source = (IF cmd.proxy = "own" THEN "proxied" ELSE "direct")
          /\ pipeline \in {Requested(source, record), Asked(source, record)}
    BY <2>1 DEF RequestsInv, RequestInv, Requesting
  <2>3. pipeline' = Asked(source, record)
    BY <1>17, <2>1, <2>2, RequestChain DEF Send, Asked
  <2>. QED BY <1>17, <2>1, <2>2, <2>3 DEF Send, unchangedMain, input, Goto, RequestInv
<1>18. CASE Answer
  BY <1>18 DEF RequestsInv, Answer, Goto, unchangedMain, input, Called, NotCalled, Throw,
         RequestInv, Requesting
<1>19. CASE NoWait
  BY <1>19 DEF RequestsInv, NoWait, Goto, unchangedMain, input, RequestInv, Requesting
<1>20. CASE Handle
  BY <1>20 DEF RequestsInv, Handle, Goto, unchangedMain, input, Throw, Override,
         ErrorResponse, PageResponse, ObjectResponse, BinaryResponse, NoResponse,
         RequestInv, Requesting
<1>21. CASE BeginWrite
  BY <1>21 DEF RequestsInv, BeginWrite, Goto, unchangedMain, input, Write, Throw,
         RequestInv, Requesting
<1>22. CASE WriteResponse
  BY <1>22 DEF RequestsInv, WriteResponse, Goto, module, input, Written, RequestInv,
         Requesting
<1>23. CASE WriteUndeclared
  BY <1>23 DEF RequestsInv, WriteUndeclared, Goto, input, Written, RequestInv, Requesting
<1>24. CASE FollowNextLink
  BY <1>24 DEF RequestsInv, FollowNextLink, Goto, unchangedMain, input, Signalled,
         SignalThrows, Throw, RequestInv, Requesting
<1>25. CASE AfterAPICall
  BY <1>25 DEF RequestsInv, AfterAPICall, Goto, unchangedMain, input, Signalled,
         SignalThrows, Throw, RequestInv, Requesting
<1>26. CASE Finally
  BY <1>26 DEF RequestsInv, Finally, Goto, unchangedMain, input, Throw, RequestInv,
         Requesting
<1>27. CASE StopProcessing
  BY <1>27 DEF RequestsInv, StopProcessing, unchangedAll, unchangedTask, module, RequestInv
<1>28. CASE Cancel
  BY <1>28 DEF RequestsInv, Cancel, unchangedAll, unchangedTask, module, RequestInv
<1>29. CASE OtherBegins
  BY <1>29 DEF RequestsInv, OtherBegins, unchangedAll, unchangedTask, RequestInv
<1>30. CASE UNCHANGED vars
  BY <1>30 DEF RequestsInv, vars, RequestInv
<1>. QED BY <1>1, <1>2, <1>3, <1>4, <1>5, <1>6, <1>7, <1>8, <1>9, <1>10, <1>11, <1>12,
       <1>13, <1>14, <1>15, <1>16, <1>17, <1>18, <1>19, <1>20, <1>21, <1>22, <1>23, <1>24,
       <1>25, <1>26, <1>27, <1>28, <1>29, <1>30 DEF Next, MainStep, TaskStep

-----------------------------------------------------------------------------
(* The invariant, and what follows from it.                                *)

\* A cmdlet begins with no task and the pipelines OnModuleLoad has made.
LEMMA InitRequests == CmdletAssumption /\ Init => RequestsInv
<1>. SUFFICES ASSUME CmdletAssumption, Init PROVE RequestsInv
  OBVIOUS
<1>1. OursInv /\ RequestInv
  BY DEF Init, OursInv, RequestInv, Requesting
<1>. QED BY <1>1, InitInv DEF RequestsInv

LEMMA NextRequests == CmdletAssumption /\ RequestsInv /\ [Next]_vars => RequestsInv'
<1>. SUFFICES ASSUME CmdletAssumption, RequestsInv, [Next]_vars PROVE RequestsInv'
  OBVIOUS
<1>1. CmdletInv'
  BY NextInv DEF RequestsInv
<1>. QED BY <1>1, OursInvKept, RequestInvKept DEF RequestsInv

LEMMA RequestsInvariance == Spec => []RequestsInv
BY InitRequests, NextRequests, CmdletAssumption, PTL DEF Spec

\* Every request passes the steps of the user, of its own record and of the module in
\* their order and ends where the cmdlet was told to send it, and no cmdlet leaves
\* anything in the pipelines of the others.
THEOREM PipelineOwned == Spec => []OwnPipeline
<1>1. CmdletAssumption /\ RequestsInv => OwnPipeline
  <2>. SUFFICES ASSUME CmdletAssumption, RequestsInv PROVE OwnPipeline
    OBVIOUS
  <2>1. ASSUME pc = "awaiting"
        PROVE  LET chain == H!Chain(pipeline)
                   inner == IF cmd.custom THEN <<"custom">> ELSE <<"sign", "agent">>
               IN  /\ SubSeq(chain, 1, Len(chain) - 1) =
                        <<"prepend2", "prepend1", "request">> \o inner
                          \o <<Info(record), "append1", "append2">>
                   /\ ~overtaken /\ ~cmd.custom =>
                        chain[Len(chain)] = (IF cmd.proxy = "own" THEN "proxied" ELSE "direct")
    <3>1. record \in 1..Records
      BY <2>1 DEF RequestsInv, CmdletInv, TypeOK, CmdletAssumption, RequestInv
    <3>2. PICK source \in Sources :
            /\ (source = "custom") = cmd.custom
            /\ ~overtaken /\ ~cmd.custom =>
                 source = (IF cmd.proxy = "own" THEN "proxied" ELSE "direct")
            /\ pipeline = Asked(source, record)
      BY <2>1 DEF RequestsInv, RequestInv, Requesting
    <3> DEFINE w == <<"prepend2", "prepend1", "request">>
                      \o (IF source = "custom" THEN <<"custom">> ELSE <<"sign", "agent">>)
                      \o <<Info(record), "append1", "append2">>
               T == Terminal(source)
    <3>3. H!Chain(pipeline) = w \o <<T>>
      BY <3>1, <3>2, RequestChain DEF Asked
    <3>4. w \in Seq(Links) /\ T \in Links
      <4>1. /\ Info(record) \in PipelineSteps /\ T \in Links
            /\ Parameter \cup ModuleSteps \subseteq PipelineSteps
            /\ PipelineSteps \subseteq Links
        BY <3>1 DEF PipelineSteps, Links, Terminal
      <4> HIDE DEF T
      <4> QED BY <4>1 DEF Parameter, ModuleSteps
    <3>5. Len(w \o <<T>>) = Len(w) + 1 /\ SubSeq(w \o <<T>>, 1, Len(w)) = w /\ (w \o <<T>>)[Len(w) + 1] = T
      <4> HIDE DEF w, T
      <4> QED BY <3>4
    <3>6. ~overtaken /\ ~cmd.custom => T = (IF cmd.proxy = "own" THEN "proxied" ELSE "direct")
      BY <3>2 DEF Terminal
    <3>7. w = <<"prepend2", "prepend1", "request">>
                 \o (IF cmd.custom THEN <<"custom">> ELSE <<"sign", "agent">>)
                 \o <<Info(record), "append1", "append2">>
      BY <3>2
    <3>8. Len(w) \in Nat /\ (Len(w) + 1) - 1 = Len(w)
      <4> HIDE DEF w
      <4> QED BY <3>4
    <3> HIDE DEF w, T
    <3> QED BY <3>3, <3>5, <3>6, <3>7, <3>8
  <2>2. shared = Shared
    BY DEF RequestsInv, OursInv
  <2>3. pc \in {"before", "method", "send", "awaiting"} /\ ~overtaken /\ cmd.proxy = "own" =>
          cmd.custom \/ handler.address = "own"
    BY DEF RequestsInv, OursInv
  <2>. QED BY <2>1, <2>2, <2>3 DEF OwnPipeline
<1>. QED BY <1>1, RequestsInvariance, CmdletAssumption, PTL
=============================================================================
