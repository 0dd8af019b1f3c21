--------------------------- MODULE ToolScheduler ---------------------------
(***************************************************************************)
(* A parallel batch of tool calls: ToolEngine.invoke_parallel              *)
(* (tools/engine/scheduler.py).  Every call runs in a task of its own,     *)
(* under a semaphore for the batch and one for the web searches; the batch *)
(* polls the queue of their events, yields these to its consumer, and ends *)
(* when all calls have, when its time is over, or when the run is          *)
(* cancelled.  A tool may ignore a cancellation, return late, or never:    *)
(* after a grace period the batch reports what it has, and lets the tasks  *)
(* that are left go.  The consumer may also leave the generator at any     *)
(* await.                                                                  *)
(*                                                                         *)
(* Bound (in a guard): MaxEvents events are emitted.                       *)
(***************************************************************************)
EXTENDS Naturals, FiniteSets

CONSTANTS
  Calls,          \* the calls of the batch that have no immediate result
  Web,            \* the web searches among them
  MaxParallel, WebConcurrency,
  HasTimeout,     \* batch_timeout_seconds is set
  MaxEvents

ASSUME SchedulerAssumption ==
  /\ Web \subseteq Calls /\ HasTimeout \in BOOLEAN
  /\ {MaxParallel, WebConcurrency} \subseteq Nat \ {0} /\ MaxEvents \in Nat

VARIABLES
  at,          \* where invoke_parallel is
  task,        \* where the task of each call is
  asked,       \* the tasks that cancel() was called on
  cancelling,  \* ... and where it is not delivered yet
  entered,     \* the calls whose tool was invoked
  came,        \* ... and had returned before the batch reported or was left
  expired,     \* the deadline is over
  isCancelled, \* the run is cancelled
  stopped,     \* state.timed_out or state.cancellation_observed
  waited,      \* cleanup_wait_completed
  events,      \* how many events are queued,
  emitted,     \* and were ever
  outcome      \* what ToolBatchCompleted says of each call

tasks == <<task, cancelling, entered, came, events, emitted>>
vars  == <<at, tasks, asked, expired, isCancelled, stopped, waited, outcome>>

Ended   == {"returned", "failed", "skipped", "fatal", "cancelled"}
Done(i) == task[i] \in Ended
AllDone == \A i \in Calls : Done(i)

Init ==
  /\ at = "loop"
  /\ task = [i \in Calls |-> "ready"]
  /\ asked = {} /\ cancelling = {} /\ entered = {} /\ came = {}
  /\ expired = FALSE /\ isCancelled = FALSE /\ stopped = FALSE /\ waited = FALSE
  /\ events = 0 /\ emitted = 0
  /\ outcome = [i \in Calls |-> "none"]

-----------------------------------------------------------------------------
(* run_one().                                                              *)

Holding  == { i \in Calls : task[i] \in {"slot", "checking", "running"} }
Searches == { i \in Web : task[i] \in {"checking", "running"} }

ByTasks == UNCHANGED <<at, asked, expired, isCancelled, stopped, waited, outcome>>

Becomes(i, to) == task' = [task EXCEPT ![i] = to]

\* Mutant of Invoke: the run's cancellation is looked at before the semaphores.
InvokeAnyway(i) == Becomes(i, "checking")

\* _invoke_with_optional_events: a cancelled run does not invoke the tool.
Invoke(i) ==
  \/ isCancelled /\ Becomes(i, "skipped")
  \/ ~isCancelled /\ Becomes(i, "checking")

Free(i) == i \in Web => Cardinality(Searches) < WebConcurrency

\* A web search keeps its place in the batch while it waits for the other.
TakeSlot(i) ==
  /\ task[i] = "ready" /\ i \notin cancelling /\ Cardinality(Holding) < MaxParallel
  /\ IF Free(i) THEN Invoke(i) ELSE Becomes(i, "slot")
  /\ UNCHANGED <<cancelling, entered, came, events, emitted>> /\ ByTasks

TakeSearch(i) ==
  /\ task[i] = "slot" /\ i \notin cancelling /\ Free(i)
  /\ Invoke(i)
  /\ UNCHANGED <<cancelling, entered, came, events, emitted>> /\ ByTasks

\* invoke_tool_once awaits the capability gates and the chat references.  The
\* run may be cancelled meanwhile: it is not asked again.
Enter(i) ==
  /\ task[i] = "checking" /\ i \notin cancelling
  /\ Becomes(i, "running") /\ entered' = entered \cup {i}
  /\ UNCHANGED <<cancelling, came, events, emitted>> /\ ByTasks

\* One of the checks denies the call, raises, or ends the run.
Rejected(i) ==
  /\ task[i] = "checking"
  /\ \E how \in {"skipped", "failed", "fatal"} : Becomes(i, how)
  /\ cancelling' = cancelling \ {i}
  /\ UNCHANGED <<entered, came, events, emitted>> /\ ByTasks

Emit(i) ==
  /\ task[i] = "running" /\ emitted < MaxEvents
  /\ events' = events + 1 /\ emitted' = emitted + 1
  /\ UNCHANGED <<task, cancelling, entered, came>> /\ ByTasks

Unreported == at \in {"loop", "yield", "drain", "grace", "lastdrain"}

\* With a result, with an error that becomes one, with one that ends the run,
\* or with a CancelledError, also of the tool's own.
End(i) ==
  /\ task[i] = "running"
  /\ \E how \in {"returned", "failed", "fatal", "cancelled"} :
       /\ Becomes(i, how)
       /\ came' = IF how = "returned" /\ Unreported THEN came \cup {i} ELSE came
  /\ cancelling' = cancelling \ {i}
  /\ UNCHANGED <<entered, events, emitted>> /\ ByTasks

\* A task that waits for a semaphore or a check is gone; a tool may go on.
Cancelled(i) ==
  /\ i \in cancelling /\ cancelling' = cancelling \ {i}
  /\ \/ Becomes(i, "cancelled")
     \/ task[i] = "running" /\ UNCHANGED task
  /\ UNCHANGED <<entered, came, events, emitted>> /\ ByTasks

TaskStep(i) ==
  \/ TakeSlot(i) \/ TakeSearch(i) \/ Enter(i) \/ Rejected(i)
  \/ Emit(i) \/ End(i) \/ Cancelled(i)

-----------------------------------------------------------------------------
(* The batch.                                                              *)

Unfinished == { i \in Calls : ~Done(i) }

CancelAll == asked' = asked \cup Unfinished /\ cancelling' = cancelling \cup Unfinished

ByBatch == UNCHANGED <<task, entered, came, emitted, expired, isCancelled>>

Stop ==
  /\ at = "loop" /\ ((expired /\ ~AllDone) \/ (isCancelled /\ (~AllDone \/ events > 0)))
  /\ at' = "drain" /\ stopped' = TRUE
  /\ CancelAll
  /\ UNCHANGED <<waited, events, outcome>> /\ ByBatch

\* An event is yielded: the batch stands still until its consumer asks again.
Progress ==
  /\ at \in {"loop", "drain", "lastdrain"} /\ events > 0
  /\ at' = IF at = "loop" THEN "yield" ELSE at
  /\ events' = events - 1
  /\ UNCHANGED <<asked, cancelling, stopped, waited, outcome>> /\ ByBatch

Resume ==
  /\ at = "yield" /\ at' = "loop"
  /\ UNCHANGED <<asked, cancelling, stopped, waited, events, outcome>> /\ ByBatch

Drained ==
  /\ at = "drain" /\ events = 0
  /\ at' = "grace"
  /\ UNCHANGED <<asked, cancelling, stopped, waited, events, outcome>> /\ ByBatch

\* Mutant of GraceEnds: the batch waits until every tool has ended.
GraceEndsWithAll ==
  /\ at = "grace" /\ AllDone
  /\ at' = "lastdrain" /\ waited' = TRUE
  /\ UNCHANGED <<asked, cancelling, stopped, events, outcome>> /\ ByBatch

\* Every task has ended, or cancel_grace_seconds are over.
GraceEnds ==
  /\ at = "grace"
  /\ at' = "lastdrain" /\ waited' = TRUE
  /\ CancelAll
  /\ UNCHANGED <<stopped, events, outcome>> /\ ByBatch

\* Mutant of Outcome: what was cancelled counts as such, even when it returned.
OutcomeAsked(i) == IF i \in asked THEN "cancelled" ELSE IF Done(i) THEN task[i] ELSE "missing"

Outcome(i) == IF Done(i) THEN task[i] ELSE "missing"

\* The finally: what still runs is cancelled, and waited for unless it was.
Leave == at' = "cleanup" /\ CancelAll

\* When every call has ended, or after the grace period.
Collect ==
  /\ events = 0 /\ (at = "lastdrain" \/ (at = "loop" /\ AllDone))
  /\ IF \E i \in Calls : task[i] = "fatal"
       THEN Leave /\ UNCHANGED outcome
       ELSE /\ outcome' = [i \in Calls |-> Outcome(i)]
            /\ at' = "reported" /\ UNCHANGED <<asked, cancelling>>
  /\ UNCHANGED <<stopped, waited, events>> /\ ByBatch

Reported ==
  /\ at = "reported"
  /\ Leave
  /\ UNCHANGED <<stopped, waited, events, outcome>> /\ ByBatch

\* The consumer closes the generator at a yield, or is cancelled at an await.
Abandon ==
  /\ at \in {"loop", "yield", "drain", "grace", "lastdrain", "reported"}
  /\ Leave
  /\ UNCHANGED <<stopped, waited, events, outcome>> /\ ByBatch

\* _cancel_tasks has waited for them, once, for cancel_grace_seconds at most.
CleanedUp ==
  /\ at = "cleanup"
  /\ at' = "ended"
  /\ CancelAll
  /\ UNCHANGED <<stopped, waited, events, outcome>> /\ ByBatch

BatchStep ==
  \/ Stop \/ Progress \/ Resume \/ Drained \/ GraceEnds
  \/ Collect \/ Reported \/ CleanedUp

Expire ==
  /\ HasTimeout /\ ~expired /\ at \in {"loop", "yield"}
  /\ expired' = TRUE
  /\ UNCHANGED <<at, tasks, asked, isCancelled, stopped, waited, outcome>>

CancelRun ==
  /\ ~isCancelled
  /\ isCancelled' = TRUE
  /\ UNCHANGED <<at, tasks, asked, expired, stopped, waited, outcome>>

Next == BatchStep \/ Abandon \/ Expire \/ CancelRun \/ \E i \in Calls : TaskStep(i)

Spec == Init /\ [][Next]_vars

\* The batch polls, its timers fire and its consumer asks again.  Nothing makes
\* a tool return, and nothing makes it heed a cancellation.
Fairness == WF_vars(BatchStep) /\ WF_vars(Expire)

FairSpec == Spec /\ Fairness

-----------------------------------------------------------------------------
(* Properties.                                                             *)

TypeOK ==
  /\ at \in {"loop", "yield", "drain", "grace", "lastdrain", "reported", "cleanup", "ended"}
  /\ task \in [Calls -> Ended \cup {"ready", "slot", "checking", "running"}]
  /\ cancelling \subseteq asked /\ {asked, came, entered} \subseteq SUBSET Calls
  /\ {expired, isCancelled, stopped, waited} \subseteq BOOLEAN
  /\ events \in 0..emitted /\ emitted \in 0..MaxEvents
  /\ outcome \in [Calls -> Ended \cup {"none", "missing"}]

\* No tool is invoked any more once the batch has stopped, timed out or been
\* left, although semaphores are released then; nor in a cancelled run, when
\* the call still waits for its turn (ToolEngine.invoke_parallel and
\* _invoke_with_optional_events).  A call whose checks have begun when the run
\* is cancelled may still be invoked, until the batch looks at it.
NothingStartsLate ==
  /\ [][entered' # entered => at \in {"loop", "yield"}]_vars
  /\ \A i \in Calls :
       [](isCancelled /\ task[i] \in {"ready", "slot"} => [](i \notin entered))

\* A report is true of every call from then on, whatever tasks do that are
\* left behind: a result is reported if and only if the tool had returned it,
\* also after cancel(); what is said not to have been invoked was not; what
\* has no outcome was told to stop; and an error that ends the run is never
\* put into a report that it came in time for.  (One that did, or a consumer
\* that leaves, means no report at all: invoke_parallel raises.)
ReportIsTrue ==
  \A i \in Calls : outcome[i] # "none" =>
    /\ outcome[i] = "returned" <=> i \in came
    /\ outcome[i] = "skipped" => i \notin entered
    /\ outcome[i] = "missing" => stopped /\ i \in asked
    /\ task[i] = "fatal" => outcome[i] = "missing"

\* A batch with a time limit ends, whatever its tools do, and what it leaves
\* behind has been told to stop, after the batch has reported it too.
BatchEnds ==
  HasTimeout => <>(at = "ended" /\ \A i \in Calls : Done(i) \/ i \in asked)
=============================================================================
