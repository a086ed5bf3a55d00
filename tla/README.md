# Verification of autorest.powershell

TLA+ models, TLC runs and TLAPS proofs for the PowerShell generator of AutoRest
(`powershell/` in this repository) and, above all, for the code that it puts into
every generated module. The generator is a chain of plugins that turns the
description of a REST service into C# cmdlets; the generated cmdlets run on a
small runtime (`powershell/resources`) in which the pipeline thread of
PowerShell, the tasks of the cmdlet, the listeners of its events, the HTTP
pipeline and the user's Ctrl-C meet. The models come in two groups: the machine
that runs a generated cmdlet, with its threads, awaits, stops and failures; and
the chain of plugins, with what the classes at its end do to the data of users
and services.

Paths below are relative to `powershell/`.

- [1 The system](#1-the-system)
- [2 The modules](#2-the-modules)
- [3 The runs](#3-the-runs)
- [4 What is proved](#4-what-is-proved)
- [5 What the code does not do](#5-what-the-code-does-not-do)
- [6 What is not modelled](#6-what-is-not-modelled)
- [7 Plan](#7-plan)

## 1 The system

### 1.1 At run time: a generated cmdlet

    PowerShell pipeline thread
      |  BeginProcessing / ProcessRecord / EndProcessing / StopProcessing
      v
    generated cmdlet (cmdlets/class.ts) --- is an IEventListener: Token, Cancel, Signal
      |  without -AsJob: new AsyncCommandRuntime(this, Token); Wait(ProcessRecordAsync())
      |  with -AsJob:    clone, new AsyncJob(clone), ProcessRecordAsync(), Monitor(task)
      v
    ProcessRecordAsync (thread pool) --- WriteObject, WriteError, WriteVerbose, ...
      |  await Client.Operation(..., onOk, onDefault, this, Pipeline)
      v
    operation method and X_Call (llcsharp/operation/method.ts)
      |  Signal at every stage, SendAsync, poll, final GET, response handler
      v
    HttpPipeline (resources/runtime/csharp/pipeline/ISendAsync.cs, external steps)
      v
    the service

| Component | State | Operations | Interaction | Hard behaviour | Correct when |
|---|---|---|---|---|---|
| AsyncCommandRuntime (`resources/psruntime/AsyncCommandRuntime.cs`) | semaphore, two events, the delegate, the original command runtime | 13 methods of `ICommandRuntime2` and `ExecuteSync`, `Wait`, `Dispose` | called by worker threads, serves them on the pipeline thread, ended by the cmdlet's task | worker interleavings, cancellation, delegates that throw, disposal under callers | each call is served once, on the right thread, before it returns; nobody waits for ever; Main always leaves |
| AsyncJob (`resources/psruntime/AsyncJob.cs`, `cmdlets/class.ts:566`) | job state, six streams, token | `Monitor` and its continuation, `StopJob`, the writes, the refused prompts | the clone of the cmdlet writes to it, PowerShell reads it and stops it | task end against registration of the continuation, stop against writes, state against streams | nothing written is lost, a failure is told, a stop stops |
| Operation methods (`llcsharp/operation/method.ts`) | request, response, the locals of the polling loop | build the request, send, poll, final GET, dispatch, dispose | listeners are awaited at each stage and may cancel or throw; the service moves its URIs | early returns, failures in mid-air, polling order, disposal | the last response reaches one handler or an exception tells why, no request goes to a stale place, everything is disposed |
| Cmdlet lifecycle (`cmdlets/class.ts`) | token source, pipeline, first-response flags, paging | the five `Processing` methods, `ProcessRecordAsync`, `Signal`, the response handlers | owns all of the above | errors of every stage, paging loops, a cmdlet stopped between stages | every failure is told, pages come in order and once, a stop ends the cmdlet |
| HttpPipeline (`ISendAsync.cs`) | steps, the chain built from them, terminal | `Append`, `Prepend`, `Clone`, `SendAsync` | kept by the module, cloned by cmdlets | a chain that is kept while steps are added, in the pipeline or in the original of a clone | steps run in order, a clone is independent |
| Module class (`module/module-class.ts`) | one handler and web proxy, two pipelines | `Init`, `CreatePipeline`, `SetProxyConfiguration` | one instance for all cmdlets | concurrent cmdlets with different proxies | a cmdlet uses its own proxy |
| Model classes and converters (`llcsharp/model`, `models/model-extensions.ts`) | the fields of an instance, its dictionary | read and write JSON, set inlined properties, convert hashtables and ids | the cmdlet fills bodies with them, the operation sends and reads them | inherited and inlined members, discriminators, dictionaries that hold the rest | what is read is what is written; what a user sets is what is sent |
| Requests (`llcsharp/operation`) | none | the URL, headers and body of an operation, from arguments or from an identity | called by the cmdlet, sends through the pipeline | what is cut off and what is encoded depends on settings and places | every argument is in the request, by its wire name, encoded once |
| Event listeners (`EventListener.cs`, `EventData.cs`, `Events.cs`) | the table of callbacks, a tracer | `Add`, `Signal` | for callers that are no cmdlets | | every callback hears its event |
| Recording and playback (`PipelineMocking.cs`) | stacks of names, counter, loaded responses | push, pop, record, play back | replaces the terminal of the pipeline in tests | keys that repeat | what was recorded is what is played |
| JSON runtime (`resources/runtime/csharp/json`) | tokenizer position, parser state | parse, write, convert | used by all models | nesting, escapes, numbers | reading what was written gives it back |

### 1.2 At generation time: the plugins

Each plugin takes the code model its predecessor made and passes it on; the chain
is in `autorest-configuration.md`.

| Component | State | Operations | Hard behaviour | Correct when |
|---|---|---|---|---|
| Model tweaking (`plugin-tweak-m4-model.ts`, `plugin-tweak-model.ts`, `plugin-tweak-model-azure-v2.ts`) | the code model | one pass per concern | order of the passes; a map of seen properties while properties are deleted | no schema loses a member |
| Command creation (`create-commands-v2.ts`) | the identities of variants given out | infer verb and subject, one variant per form of parameters and body | collisions, trimming, numbers that make names distinct | variants are distinct |
| Inline properties (`plugin-create-inline-properties.ts`, `utils/resolve-conflicts.ts`) | an `inline` mark per schema, virtual properties | recursion over parents and members | circular schemas, name conflicts | each property is reachable once under a name of its own |
| Directives (`modifiers-v2.ts`) | the commands and models | where/set/hide/remove, in order | later directives see what earlier ones did; names collide again | each directive touches what it selects, names stay distinct |
| Namers (`ps-namer-v2.ts`, `cs-namer-v2.ts`) | names taken | rename | collisions | names are distinct |
| Code generators (`llcsharp`, `cmdlets/class.ts`, `models`, `enums`, ...) | the classes | decide what each class holds, write text | operation, command and cmdlet are matched by names | what a cmdlet passes is what the operation takes |
| Model state, plugin host, BuildTime, tables | none | I/O | | |

Every part is listed in `PROJECT.json` with its status, and every hazard at its
line with the properties that cover it, or the reason why none does.

## 2 The modules

Running a cmdlet:

| Module | Models | Used by |
|---|---|---|
| `AsyncCommandRuntime` | `AsyncCommandRuntime.cs`, one action per statement that touches shared state | `MCAsyncCommandRuntime` |
| `CommandChannel` | what that runtime promises its callers, as an abstract channel | `AsyncCommandRuntime` (`INSTANCE ... WITH`) |
| `OperationCall` | the two methods generated per operation, one action per await or check of the token | `MCOperationCall` |
| `AsyncJob` | `AsyncJob.cs` and the `-AsJob` branch of `ProcessRecord` | runs directly |
| `HttpPipeline` | `ISendAsync.cs`: steps and the chain built from them | `Cmdlet` (`INSTANCE ... WITH`) |
| `Cmdlet` | the life of a generated cmdlet and the module class it gets its pipeline from | `MCCmdlet` |
| `AsyncCommandRuntimeProofs`, `AsyncJobProofs`, `OperationCallProofs`, `CmdletProofs` | the theorems | TLAPS |

Generating one, and what the generated classes do:

| Module | Models | Extends |
|---|---|---|
| `Names` | names as sequences of words; numbering, singular, conflicts (`name-inferrer.ts`, `resolve-conflicts.ts`) | |
| `CommandCreation` | `create-commands-v2.ts` | `Names` |
| `VirtualProperties` | `plugin-create-inline-properties.ts`, the walks of `schema.ts` | `Names` |
| `ModelTweaks` | the three tweak plugins | `VirtualProperties` |
| `Namers` | `cs-namer-v2.ts`, `ps-namer-v2.ts` | `ModelTweaks` |
| `Directives` | `modifiers-v2.ts` | `Namers` |
| `CmdletParameters` | `cmdlets/class.ts`: parameters, attributes, the arguments of the call, the clone for a job | `Directives` |
| `TypeDeclarations` | `llcsharp/schema`: which C# and JSON type stands for a schema | `Names` |
| `ModelClasses` | `llcsharp/model`: which fields and properties a class has | `TypeDeclarations`, `VirtualProperties` |
| `Generation` | the chain of plugins, up to the classes | `CommandCreation`, `ModelClasses`, `CmdletParameters` |
| `Instances` | the JSON runtime: instances of the classes that are read, written and set | `ModelClasses` |
| `Conversions` | `models/model-extensions.ts`, `TypeConverterExtensions.cs` | `Instances`, `ModelTweaks` |
| `Requests` | `llcsharp/operation`: the request that arguments make | `Conversions`, `CmdletParameters` |
| `GeneratedCode` | properties of the classes at the end of the chain | `Generation`, `Requests` |
| `MCGeneration` | 85 pairs of a model and a list of directives | `GeneratedCode` |
| `Induction` | what holds of folds and recursive functions, whatever they compute | TLAPS |
| `GenerationProofs` | the theorems about the commands of `Generation` | `Generation`, `Induction` |
| `ModelProofs` | that its model is closed, and what each plugin keeps of it | `GenerationProofs` |
| `MemberProofs` | that no member is lost and each can be reached | `ModelProofs` |

`Generation` and all that it extends have no `RECURSIVE` operator: their recursions are
recursive functions and folds, and the prover can take the chain as TLC does. Only what
runs after the chain (`Instances`, `Conversions`, `GeneratedCode`) has some.

An operator with a suffix after an underscore (`ResetReady_Missing`,
`Newest_Once`) is a plausible bug of the operator that follows it. It takes no
part in any specification; `PROJECT.json` says which property must fail once it
takes the place of the right one.

### 2.1 AsyncCommandRuntime

A method called on the pipeline thread goes straight through. Called on another
thread it takes its turn (`WaitOurTurn`), sets `runOnMainThread`, sets
`readyToRun` and waits for `completed` (`WaitForCompletion`); `Wait` on the
pipeline thread ("Main") runs the delegate.

| Variable | Code |
|---|---|
| `pc`, `calls`, `method` | each thread's place in a method: `turn` (59), `queued` inside `SemaphoreSlim.Wait`, `reset` (62), `set` (565), `ready` (568), `await` and `blocked` (68), `release` (73) |
| `semaphore`, `readyToRun`, `completed`, `runOnMainThread` | the fields |
| `mainPc` | Main in `ProcessRecord`: `body` is `ProcessRecordAsync` up to its first await, then the loop of `Wait` (755-778), then `Dispose` |
| `disposed` | how many of the statements of `Dispose` have run: each primitive is first disposed and then nulled, so `semaphore?.Release()` may skip, throw or work |
| `cancelled` | the token |
| `runs` | history: how often the delegate of each call ran to the end |
| `outcome` | what `Wait` threw |

Methods differ for the model in two ways only: the overloads of `ShouldContinue`
and `ShouldProcess` may be refused (`CheckForInteractive`), and
`ThrowTerminatingError` always throws. All the others share one body. A method
called on a worker after `Dispose` has given the cmdlet its runtime back reaches
PowerShell's own one, which refuses it (external).

A worker that is in `Awaited` is one the cmdlet's task waits for; the others are
tasks it started and does not await, such as callbacks of the HTTP stack. They
are what makes disposal under a caller possible.

`CommandChannel` is the contract: `Submit`, `Serve`, `Return` per caller, `Break`
once, and anything after that. `ImplementsChannel` maps a call to `pending` until
its delegate has run and to `served` after that, and *intact* to "not cancelled
and Main still in its loop".

### 2.2 OperationCall

`pc` names the awaits and checks of the two methods in their order; `request`,
`response`, `asyncOperation`, `location` and `finalUri` are the locals of the
generated method. `answer` is the task returned by `SendAsync`: *pending*, failed
or a response. `Deliver` is the HTTP pipeline and the service (external): any
response at any time, of which at most `MaxRunning` say that the operation is running,
in whatever order with others; the service may name another monitor or location with
each one. Where the service last named them, and what the last poll said, which the code
does not keep, is in `service` and is what the properties compare the code's choices
with. `Signalled` is
`await listener.Signal(...); if (listener.Token.IsCancellationRequested) return;`,
after which the call goes on, leaves because it was cancelled, or leaves with the
exception of a listener. `DelayBeforePolling` includes what the cmdlet's `Signal`
does with that event under `-NoWait` (`cmdlets/class.ts:1154`). `Finally` is the
`finally` block; a listener that throws there skips the two `Dispose` calls. A
body is abstracted to what the polling code looks for in it (`States`).

The options of an operation (verb, final-state-via, long running or not, declared
exceptions) select which code is generated. They are a variable that `Init`
chooses and no action changes, so that one run covers all of them.

### 2.3 AsyncJob

The pipeline thread goes through `ProcessRecord` once per input record and makes
a job each time. Per job: `jobState` (`SetJobState`), `task` (the task of the
clone's `ProcessRecordAsync`), `worker` (between the check of the token and the
add of a write), `continuation` (the `ContinueWith` of `Monitor`), and the streams.
The four capped streams are alike and `debug` stands for them. `wrote` and
`reported` are histories: writes that returned to the clone. Every job of one
cmdlet gets the token and the `Cancel` of the *original* cmdlet
(`cmdlets/class.ts:572`), so there is one `cancelled` for all jobs. PowerShell
closes the streams of a job whose state has become final (external).

### 2.4 Cmdlet and HttpPipeline

`Cmdlet` is one instance of a generated class from `BeginProcessing` to the end of its
pipeline. "Main" (variable `main`) is PowerShell's thread in the `Processing` methods;
the task (`pc`) is `ProcessRecordAsync` with the response handlers it is called back
from. Between them stands the runtime of 2.1, of which only the outcome of each write
is taken: it is served, refused (cancelled, or Main has left), cancelled under way, or
ends Main (the pipeline is stopping). The operation method of 2.2 is reduced to what it
may come back with: `Called` is the call of a response handler, with or without -NoWait;
`NotCalled` is a return without one, since the token is cancelled or since an operation
with specific exceptions only has no case for the response, and the exceptions; `NoWait`
is `DelayBeforePolling` under -NoWait. Writable, pageable, subscriptions and -NoWait are
independent of one another, as in the code: a list with POST asks for confirmation,
has pages and loops over subscriptions.

| Variable | Code |
|---|---|
| `cmd` | which code is generated and how it is called: writable, pageable, by identity, -NoWait, subscriptions, which exceptions the operation declares, custom pipeline, proxy. `Init` chooses it, no action changes it |
| `handler`, `shared` | `_handler` and its `_webProxy`, the two pipelines of the module, and a custom one |
| `overtaken` | history: another cmdlet of the module has begun since this one did |
| `main`, `record`, `cancelled`, `stopped` | place of Main, inputs taken, the token, PowerShell's own stop |
| `pc`, `fails` | place of the task, and how it will end |
| `pipeline` | `this.Pipeline`: a clone with the steps of the request and of the user's parameters |
| `left`, `page`, `more`, `output` | the loop over subscriptions, the page under way, its next link, what was written |
| `owed` | history: responses, unhandled responses, failures and timeouts of this record that nothing was told of |
| `late` | history: requests begun after the cancellation |

`NothingSilent` has two exceptions, both what the code does: a send that times out ends
the task as canceled, of which nothing is told, and after an undeclared response to an
operation with specific exceptions only (`opcall_undeclared`, section 5) the cmdlet ends
as if it had worked.

`HttpPipeline` writes a chain of senders as the order in which a request passes the
steps. `Built` keeps the chain, `AppendStep` and `Prepend` throw it away, `Clone` takes
it along: whether a step is skipped is a matter of these three.

### 2.5 Generation

A model is `schemas` (from ids to records), the order of its objects, and its
operations; a name is a sequence of words. `Generation` has one action per plugin
(`phase` is the next one), and for the two plugins whose loops depend on what was done
before, one per operation (`InferOperation`) and one per directive (`ApplyDirective`).
`InferNothing`, `IncorrectDirective`, a conflict of inherited types and a model that
refers to nothing end in `failed`, where the code throws. A plugin's passes are
operators from models to models, in the module that the table names, composed in the
order of the source: a loop that reads what it has written is a fold, a recursion over
schemas (`CreateVirtuals`) has the schemas that are in progress on a stack, where the code
marks them: one that is met again ends the generation either way. Names are equal when their words are;
`addCommandOperation` compares them before their last conversion into Pascal case, which
makes a difference for keys of `verb-mapping` alone that differ in case or hyphens only,
or end in "ViaIdentity", and such keys are left out.

What the generator writes into files is modelled by what it does. `ModelClasses` says
which fields a model class has and which properties it shows of parents and inlined
members, `Instances` what its `ToJson`, `FromJson`, getters and setters do with a JSON tree; a
text, a number or a date is one token, and a conversion that loses something (a
fraction read as a whole number, bytes that nothing reads) loses it in the model.
`Conversions` turns tables into instances as the generated type converters do.
`CmdletClass` (in `CmdletParameters`) is the parameters of the cmdlet, those that every
cmdlet has included, and where each argument of its call comes from; `Requests` makes the request of them, segment by
segment, with every encoding counted.

The properties in `GeneratedCode` speak about payloads that are right for the schemas
(`Payload`, with all a service may send, or only what it must), and name the cases in
which the code is known to lose something (`Lossy`, and the exceptions in the comment
of each property). They are stated as exceptions, because nothing in the repository
says what should happen there.

## 3 The runs

Distinct states are those of the check; every action of every specification
fires in one of the passing runs.

| Run | Instance | Distinct states | Shows |
|---|---|---|---|
| `acr_safety` | 3 workers (1 not awaited), 1 call each | 499,136 | types, one turn at a time, a call returns only when served, Main serves only callers that wait, nothing runs twice without a cancellation, nothing is left when the task ends |
| `acr_progress` | 2 workers (1 not awaited) and Main, 1 call of any kind, fair | 154,328 | Main leaves, awaited calls end, a cancellation frees the holder of the turn, workers never prompt, `CommandChannel` is implemented with its fairness |
| `acr_duplicate` | 2 workers | violation | section 5 |
| `acr_stranded` | 1 worker, fair | violation | section 5 |
| `opcall_safety` | put and post, 4 final-state-vias, 2 URIs, 2 running responses | 1,831,169 | a poll that says running or failed is heeded, polls go where the service said last, `-NoWait` stops, at most one send after a cancellation (in `TypeOK`), nothing is left open or used after its disposal |
| `opcall_ends` | 5 verbs, 2 kinds of exceptions, 1 URI, 1 running response, fair | 786,130 | the call ends and each response that is returned was handled |
| `opcall_undeclared` | get | violation | section 5 |
| `job` | 2 records, 2 objects, 1 error, streams of 1, fair | 267,762 | nothing written is lost, a failed job tells why, a stopped job gets at most one more object, a stop ends the clones' work, the state follows the task |
| `job_stopped` | 1 record, fair | violation | section 5 |
| `cmdlet` | 4 cmdlets (paged list with POST over 2 subscriptions with a proxy and specific exceptions only; two with -NoWait, one paged; by identity on a custom pipeline), 2 records, 2 pages, fair | 188,699 | every failure is told and every response handled (but for the two exceptions of 2.4), pages come in order and once, a request passes the steps of its own record in their order and the shared pipelines keep none, the proxy is the cmdlet's own unless it was overtaken, a stop ends the cmdlet |
| `generation` | 85 models with directives | 1,177 | the model stays closed; variants, parameters and properties are distinct; no member is lost but in a diamond; each argument has a source; JSON round trips; tables, parameters and arguments reach the request |
| `diamond` | 1 model | violation | section 5 |

**Why the bounds are enough.** In `AsyncCommandRuntime` a disagreement needs a
holder of the turn, a thread that wants it, and for the disposal a thread that is
not awaited: three workers. A second call of one worker meets the events in the
state in which a call of another worker meets them, and the theorems of section 4
are for every number of workers and calls. In `OperationCall` two running
responses let the monitor move once after it was first set, which is the shortest
history in which "newest" and "first" differ; two URIs tell them apart. In
`AsyncJob` two jobs share a token and nothing else, two objects are what it takes to
write one after the cancellation and one after that, and a stream of one record
reaches its cap. In `Cmdlet` a second record is what a step, a failure or a
cancellation of the first can leak into, a second page shows an order, and a service
may go on with "the last page" for ever, which is what `StopEnds` has to bear. The
inputs of `generation` are chosen for what the code tells apart: objects that are
inlined once and twice, read-only and required members, every JSON type, two parents
with and without members or ancestors in common, a redefined type, circles with and
without `no-inline`, dictionaries that are own, inherited and nested, discriminators
over three levels; operations with one and several versions, with and without a body,
whose names collide, that are pageable, long running or binary; and directives that
rename, collide, hide, remove and follow on one another. Values such as `Threshold`,
`MaxWords` (4 words stand for the 64 letters of a variant name) are reached or out of
reach in each of them. The numbers that make names distinct have no bound of their own:
of one number more than names are in use, one is free.

**Symmetry** is used in the safety runs only: the awaited workers, and the URIs,
are interchangeable.

**Deadlock.** `AsyncCommandRuntime` and `AsyncJob` really stop: Main has left and
the workers are done, or a worker waits for ever (`acr_stranded`), so their runs
do not check for deadlock; that nobody is stuck is said by the liveness
properties. The chain of plugins ends, in `done` or `failed`, so `generation` and
`diamond` do not check either. `OperationCall` and `Cmdlet` stutter explicitly when
they are over, and their runs do check that they get stuck nowhere else.

**Fairness.** Weak, per thread, on the steps a thread takes by itself.

- `AsyncCommandRuntime`: the operating system runs every runnable thread. The
  semaphore is taken with weak fairness only, because `SemaphoreSlim` promises no
  order; `AwaitedCallsEnd` holds all the same, as calls are finite. Beginning a
  call and cancelling are never forced. `EndTask` is fair: a part of the task that
  calls no more ends.
- `OperationCall`: awaits end. Listeners and handlers return, delays elapse and
  every send is answered or fails, since `HttpClient` has a timeout. The service
  says "running" at most `MaxRunning` times; without that a poll loop
  legitimately goes on for ever.
- `AsyncJob`: the pipeline thread inside `ProcessRecord`, the signals of the clone
  and the continuation, but neither the end of the clone's work nor a stop.
- `Cmdlet`: Main and the task, each with weak fairness on its own steps: awaits end,
  and a send that is cancelled or times out fails. That a page has no next link is
  never forced. Stops, cancellations and other cmdlets are not forced either.
- `Generation` has no liveness property and states no fairness.

## 4 What is proved

All theorems are about `Spec` (no fairness), for every value of the constants that
satisfies the assumption of the module (`ConstantsAssumption`, `AsyncJobAssumption`,
`OperationCallAssumption`, `CmdletAssumption`, `WordsAssumption` and the three of
`Generation`), which TLC evaluates in each run. `WordsAssumption` also says that three words
are strings, and `InputsAssumption` that names are sequences of strings: the prover knows
neither of a string. The rest of what is assumed of a code model is what reading an OpenAPI
definition gives: what refers to a schema refers to one of the model, objects are listed, no
object is its own ancestor (`InputsAssumption`; `getAllProperties` would not return), an
object has each JSON key once (`KeysAssumption`), and a schema that a plugin makes is a new
one (`NewSchemasAssumption`; the code makes a new object). The theorems of `GenerationProofs`,
`ModelProofs` and `MemberProofs` have the hypothesis `NumeralsDiffer`, that two numbers are
written differently. It is so for JavaScript's template strings and for TLC's `ToString`, but nothing
in TLA+ says so.

| Theorem | Property |
|---|---|
| `AsyncCommandRuntimeProofs!TypeCorrect` | `TypeOK` |
| `AsyncCommandRuntimeProofs!OneTurnAtATime` | `TurnExclusion` |
| `AsyncCommandRuntimeProofs!ServedFirst` | `ServedBeforeReturn` |
| `AsyncCommandRuntimeProofs!CallerWaits` | `CallerWaitsWhileServed` |
| `AsyncCommandRuntimeProofs!AtMostOnce` | `RunsAtMostOnce` |
| `AsyncCommandRuntimeProofs!WorkersNeverPrompt` | `OnlyMainPrompts` |
| `AsyncCommandRuntimeProofs!LeavesNothing` | `NothingLeftBehind` |
| `AsyncCommandRuntimeProofs!ImplementsChannelSafety` | the safety part of `ImplementsChannel` |
| `AsyncJobProofs!TypeCorrect` | `TypeOK` |
| `AsyncJobProofs!WritesKept` | `NothingLost` |
| `AsyncJobProofs!FailuresTold` | `FailureTold` |
| `AsyncJobProofs!StoppedQuiet` | `StoppedJobIsQuiet` |
| `OperationCallProofs!TypeCorrect` | `TypeOK` |
| `OperationCallProofs!VerdictsHeeded` | `VerdictHeeded` |
| `OperationCallProofs!PollsGoWhereTold` | `PollsWhereTold` |
| `OperationCallProofs!NoWaitEnds` | `NoWaitStops` |
| `OperationCallProofs!EverythingClosed` | `NothingLeftOpen` |
| `OperationCallProofs!NothingStale` | `NothingUsedAfterDispose` |
| `OperationCallProofs!ResponsesHandled` | `EveryResponseHandled`, when no operation declares specific exceptions only |
| `CmdletProofs!TypeCorrect` | `TypeOK`, with its bound on late requests |
| `CmdletProofs!EverythingTold` | `NothingSilent` |
| `CmdletProofs!PagesOrdered` | `PagesInOrder` |
| `CmdletProofs!PipelineOwned` | `OwnPipeline` |
| `GenerationProofs!CreatedVariantsDistinct` | the variants made so far have keys of their own |
| `GenerationProofs!VariantsStayDistinct` | `VariantsDistinct` |
| `ModelProofs!ModelsClosed` | `TypeOK` of `Generation` |
| `MemberProofs!MembersStay` | `LostOnlyWhereLinesMeet` |
| `MemberProofs!MembersReached` | `PropertiesReached`, the first part of `PropertiesOnce` |

**The turn.** `TurnExclusion` is not inductive, since the exception paths of a
call skip the release. `TurnInv` adds that a thread inside a call has begun one
(`CallsBegun`) and that disposal only starts once Main is out of its loop
(`DisposedLast`); then each throw that skips a release needs the semaphore to be
gone already, and the semaphore is the first primitive to go.

**The service.** `ServiceInv` says how far the request of the waiting thread has
come. Until a cancellation and while Main listens, `readyToRun`, `completed`,
`runOnMainThread`, `running` and `mainPc` are in one of five phases (`Phase`:
requested, picked up, running, run, completed), and what is signalled belongs to a
thread that waits (`Signalled`). From the turn there is at most one such thread, so
a step of another thread cannot disturb the phase. `Once` outlives the end of Main:
no more than one run per call as long as nothing is cancelled.

**Leaving and prompting** are two small invariants on top (`LeftInv`, `PromptInv`):
once Main is out of the loop because the task is over, the awaited workers never
act again, and whatever is or will be signalled names another worker.

**The refinement.** From `TurnInv /\ ServiceInv` each step is one of `Submit`,
`Serve`, `Return`, `Break`, `AfterBreak` or a stutter of `CommandChannel`
(`NextChannel`): a step moves one worker's request at most, and while the channel
is intact the phase says which way.

**Jobs.** `JobInv` orders the four activities around a job: the task is over before
the continuation runs, the continuation is over before the state is final, no
write is under way when the task is over, and the pipeline thread only touches a
job whose continuation does not exist yet.

**Operations.** `CallInv` relates what is open to the place in the call: who holds the
request and whether it was disposed (`RequestInv`), which answer or response is under
way and who is to dispose it (`ResponseInv`), how a call may have ended at each place
of the `finally` block (`ResultInv`), that the locals of the loop are what the service
named last (`TargetInv`), and that what the service said of the operation, finished or
failed, is what the place in the call makes of it (`VerdictInv`). `RunningInv`, on top of
it, follows a response that says running: past the polling loop it is a first OK to a method
other than PUT, or the answer to the final GET, neither of which the code looks
at; nothing in the repository says what should happen there. None of the seven
properties is inductive: an exception in the loop jumps to `finally` from a dozen
places, and only the place says which of the two disposals is still owed. The last
theorem assumes `"specific" \notin Exceptions`; without that `opcall_undeclared` is its
counterexample.

**Cmdlets.** `CmdletInv` says for each place of the task what must hold until it has told
of everything. Main is elsewhere only while no task runs (`PlaceInv`), so a record starts
with nothing under way. A request that is sent after the cancellation is the last one,
since each way to another looks at the token (`LateInv`). As long as the task works, a
subscription is left (`LeftInv`); the page under way is the one after those that were
written (`PageInv`). `ToldInv` names, until a cancellation, who is going to tell of what
is owed: a response, the handler; a failure, the catch block of the task or, once the task
has faulted, Main. `NothingSilent` speaks about the end of a record only and is not
inductive without it.

**Pipelines.** `RequestInv` says that from the first line of the task to its last handler
`pipeline` is, step by step, the one its record asked for, over the pipeline it started
from, and has been built once it is sent with; `OursInv` that nothing has changed the
pipelines of the module, and that the proxy is the cmdlet's own unless another cmdlet came
in between. Both are inductive with `CmdletInv`; `OwnPipeline` speaks of a sent request
only and is not. What the folds of `HttpPipeline` come to is proved first, for every number
of steps (`PrependAllAdds`, `AppendAllAdds`): each `Prepend` puts its step outermost, each
`Append` innermost, and both throw the built chain away.

**Folds and recursion.** The library's induction rules take an operator, which the provers
cannot instantiate. `Induction` states induction with a set instead, the set of numbers that
have the property (`NatSetInduction`, from the well-foundedness of the naturals). On it rests
that a fold has a value (`FoldExists`), that this value comes of one step per element
(`FoldSteps`), and that a recursive function exists whose calls get smaller
(`RecursionExists`). A fold is therefore proved about in two parts: that it is the fold of a
function `step` on a set of states, and what one step does to a state.

**Variants.** `GenerationInv` says that the commands made so far have different keys (verb,
subject, name), that these are the identities that were given out, that names are sequences
of words, and that what the directives work on are still commands. `VariantsDistinct` is a
claim about one step, and needs of this that the commands are commands. The argument is
the code's own: of `Cardinality(used) + 1` numbers one is free (`SomeNumberFree`), so
`addCommandOperation` finds a key that no command before has; and of as many numbers as there
are commands one is free of those that were put behind a name before
(`RenumberDistinguishes`). Of the last step no more can be said: it looks up a name as it was
first, so a number it puts behind one may make a name that was kept, before or after it, as
it ended with this number. That is the exception in `VariantsDistinct`, found when the proof
of the statement without "before or after" failed. `InferCommandNamesType`, which says what
kind of thing is inferred from any name, is an induction over the number of words.

**The closed model.** `ModelInv` adds to `GenerationInv` that the model is one in the sense
of `InputsAssumption` (`IsModel`: what is referred to is there), and that every command is of
one of its operations. For the passes that walk through ancestors it needs that these end:
some numbering of the schemas has every parent below its children (`Depths`). That there is
one follows from the acyclicity assumed of the inputs (`DepthExists`), and no pass changes a
parent. Most passes keep type, parents and properties of each schema (`Alike`); the two that
add schemas and those that change properties are taken one by one. `TypeOK` is not inductive:
a fold over ancestors has a value only if those are schemas and come to an end.

**The members.** The pass that removes duplicates goes through the ancestors of a schema with
one map of what it has met and deletes from each what is in the map already. The proof says
why this is right where no lines meet. Of two places in that walk the earlier one holds an
ancestor of the later one, or the two are on the lines of different parents
(`AncestryOrder`). On different lines nothing of a *spared* schema, one that shares no
ancestor with a schema where lines meet, is met twice (`ApartJoins`). So what a spared schema
loses was met in one of its ancestors, which is spared as well (`SparedAbove`), and the map is
traced to where it still is (`Traced`): the ancestor keeps it when its own turn comes
(`NextLookedAt`, and `DropSpares` for a walk). An ancestor may lose the key later, but then
to an ancestor of its own (`StillThere`). For this each inherited schema must have every key
once, or it would be deleted from the very schema that put it into the map (`OnceInherited`).
`MembersInv` adds this and what is assumed of new schemas, for the two phases that need it.

**The members that are reached.** `PropertiesReached` says that a public virtual property of
its class leads to every member of an object. It is about what a recursion makes
(`CreateFrom`), so the proof says what that recursion returns, for every stack of schemas in
progress: properties that offer all members of the last one, unless there is a conflict
(`Offering`). That the function exists, and that this holds of each value, are inductions on
the number of objects that are not on the stack (`CreateExists`, `CreatedOffers`): a schema
that is on it twice ends the recursion (`StackGrows`). For one schema the members are split as
the code splits them (`GatheredOffers`): those of the parents come with their copies; a
property that is not inlined is public itself; one that is inlined turns private, and its key
is then the first on the path of what is inlined from it, of which there is something since
only objects that have properties are inlined (`SomeMember`; without that guard in `Inlinable`
the statement would be false). The loops that follow give names: after a collision
(`CollisionsResolved`), by the namer in C# and PowerShell (`SanitizedClasses`,
`ResolvedOffers`) and by directives (`DirectedOffers`). None drops, adds or publishes a
property or touches its path, though two of them take the lists apart and put them together
again, one in another order. `ReachInv` keeps this for all classes, in a model whose
schemas keep their members from there on (`SameMembers`). Nothing is assumed of names or of the
threshold.

Only model-checked: every liveness property and the fairness part of the refinement
(ENABLED is out of the prover's reach); the properties of `GeneratedCode`, with the modules
that have `RECURSIVE` operators; and of `Generation` those that relate a command or a model
class to all that the passes before made of it (`ArgumentsSupplied`, `ParametersDistinct`,
the other parts of `PropertiesOnce`): each needs, of every name a loop chooses, how it differs
from those chosen before, in other lists and of other schemas. That a member is reached
by one property only is true of the models of the run, and not proved: of the
properties that redefine one of a parent, each is compared with the first of that key only.

## 5 What the code does not do

Each of these is a run in which TLC finds the counterexample, against a sentence
of the repository.

- **`acr_duplicate`** (`AsyncCommandRuntime.cs:764`). A cancellation does not keep a
  queued worker from getting the turn. It may overwrite `runOnMainThread` while
  Main is between `readyToRun.Reset()` and `runOnMainThread()`. Main then runs the
  second delegate, finds `readyToRun` set and runs it again, and the first is never
  run. Line 558 says "otherwise, queue up the request and wait for the main thread
  to do the right thing".
- **`acr_stranded`** (`AsyncCommandRuntime.cs:764`). A delegate that throws on Main
  (`ThrowTerminatingError` always does) leaves `Wait` without `completed.Set()`; its
  caller waits until somebody cancels. Line 67 says "wait for the result (or
  cancellation!)".
- **`opcall_undeclared`** (`method.ts:352`). An operation that declares exceptions,
  but no default one, returns normally and calls no handler when the service
  answers with any other status. Line 353 says "if no default, we need one that
  handles the rest of the stuff". A cmdlet of that operation ends without output and
  without an error (`NothingSilent` has it as its exception).
- **`diamond`** (`plugin-tweak-model.ts:36`). The pass that drops what a parent has
  already walks all ancestors of a schema with one map of the properties seen. Where
  two parents have an ancestor in common, its properties are seen twice and deleted
  from it: no class has them any more. Line 145 says "schemas that have parents and
  implement properties that are in the parent schemas will have the property dropped
  in the child schema". `LostOnlyWhereLinesMeet`, in `generation`, shows that nothing
  is lost elsewhere.
- **`job_stopped`** (`AsyncJob.cs:104`). The continuation that sets the state of a job
  is registered with the token that `StopJob` cancels, so a stopped job stays
  `Running`. Line 75 says that `Monitor` controls the lifetime of the job.

## 6 What is not modelled

- In `OperationCall`: `ValidationMethod`, which validates parameters before the
  first signal; the overloads that differ in how parameters are passed; the
  variant without signals (`emitSignals` is true unless configured otherwise).
- In `AsyncJob`: `Remove-Job` and the readers of the streams (PowerShell's); a reader
  that drains a stream could only make room below the cap.
- PowerShell's own command runtime, .NET's tasks and the service are external: only
  what the code can observe of them is in the models.
- In `Cmdlet`: what the runtime and the operation method do inside (2.1, 2.2), the
  file that `-OutFile` names (one write), and the delegates through which a module calls
  a common module (external).
- In the generation: the marks of polymorphic schemas, which nothing reads, those of
  multipart bodies, and the title of the service; table formats and texts of breaking changes pass through.
  Splitting identifiers into words and the singular of a word are constants.
- In the classes: XML, for which no code is generated; header serialization; the
  validation methods; enumeration classes; the text of the code and the project files.
- In the JSON runtime: the parser and the writer, which turn characters into nodes one
  by one, and the converters by reflection.
- Event listeners: `EventListener` is for callers that are no cmdlets; generated cmdlets
  are their own listeners (`Signal`, in `Cmdlet`).
- Recording and playback: a step of the pipeline for the tests of generated modules. It
  is no part of what a module does for its users.
- Model state, the registration of plugins and BuildTime read and write files; the
  tables of verbs and declarations are data, of which the runs give small ones.

## 7 Plan

Done so far: the machine (2.1 to 2.4) and the chain with its classes (2.5), with the proofs
of section 4. Left, in this order:

1. On `VirtualsOffer`: that the names of a class are distinct (`PropertiesNamed`), for which
   the words of names must be typed; then that each parameter of an operation is one of its
   commands' (`ArgumentsSupplied`).
2. Enumeration classes, header serialization and validation in `ModelClasses`.
3. The parser of the JSON runtime, over short sequences of tokens.
4. The recorder of test requests, with the counter that a pushed scenario resets.
