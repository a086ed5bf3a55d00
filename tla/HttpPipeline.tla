---------------------------- MODULE HttpPipeline ----------------------------
(***************************************************************************)
(* resources/runtime/csharp/pipeline/ISendAsync.cs: an HttpPipeline is a   *)
(* list of step factories around a terminal, and the chain of senders it   *)
(* last built from them.  A chain is written as the order in which a       *)
(* request passes its steps.                                               *)
(***************************************************************************)
EXTENDS Sequences, SequencesExt

CONSTANTS Steps, Terminals

NotBuilt == <<>> \* pipeline == null; a built chain ends in its terminal

Pipeline == [steps : Seq(Steps), terminal : Terminals, chain : Seq(Steps \cup Terminals)]

\* new HttpPipeline(terminalStep)
NewPipeline(terminal) == [steps |-> <<>>, terminal |-> terminal, chain |-> NotBuilt]

\* The clone starts with what its original had built.
Clone(p) == [steps |-> p.steps, terminal |-> p.terminal, chain |-> p.chain]

\* What was added last is called first ...
Prepend(p, step) == [p EXCEPT !.steps = Append(@, step), !.chain = NotBuilt]

\* ... and what was appended last is next to the terminal.
AppendStep_Stale(p, step) == [p EXCEPT !.steps = <<step>> \o @]
AppendStep(p, step) == [p EXCEPT !.steps = <<step>> \o @, !.chain = NotBuilt]

\* Prepend(items) and Append(items): one after the other.
PrependAll(p, items) == FoldLeft(Prepend, p, items)
AppendAll(p, items) == FoldLeft(AppendStep, p, items)

Build(p) == Reverse(p.steps) \o <<p.terminal>>

\* The getter Pipeline: the built chain, or a new one that is kept.
Chain(p) == IF p.chain # NotBuilt THEN p.chain ELSE Build(p)
Built(p) == [p EXCEPT !.chain = Chain(p)]
=============================================================================
