--------------------------- MODULE CommandChannel ---------------------------
(***************************************************************************)
(* What AsyncCommandRuntime promises its callers: a request is served,     *)
(* once, before the call that made it returns, as long as the channel is   *)
(* intact (not cancelled, and the pipeline thread still listening).  Once  *)
(* it is broken a caller may be let go at any time and nothing more is     *)
(* promised.                                                               *)
(***************************************************************************)
CONSTANT Callers

VARIABLES
  request, \* "none", "pending" or "served", for each caller
  intact

vars == <<request, intact>>

TypeOK == request \in [Callers -> {"none", "pending", "served"}] /\ intact \in BOOLEAN

Init == request = [c \in Callers |-> "none"] /\ intact = TRUE

Move(c, from, to) == request[c] = from /\ request' = [request EXCEPT ![c] = to]

Submit(c) == Move(c, "none", "pending") /\ UNCHANGED intact
Serve(c)  == intact /\ Move(c, "pending", "served") /\ UNCHANGED intact
Return(c) == Move(c, "served", "none") /\ UNCHANGED intact

Break == intact /\ intact' = FALSE /\ UNCHANGED request

AfterBreak(c) ==
  /\ ~intact /\ UNCHANGED intact
  /\ \E r \in {"none", "pending", "served"} : request' = [request EXCEPT ![c] = r]

Next == Break \/ \E c \in Callers : Submit(c) \/ Serve(c) \/ Return(c) \/ AfterBreak(c)

\* A pending request of an intact channel does not wait for ever, and nor does
\* the caller of a served one.
Fairness == \A c \in Callers : WF_vars(Serve(c)) /\ WF_vars(Return(c))

Safety == Init /\ [][Next]_vars
Spec == Safety /\ Fairness
=============================================================================
