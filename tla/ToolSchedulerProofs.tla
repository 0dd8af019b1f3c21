------------------------- MODULE ToolSchedulerProofs -------------------------
(***************************************************************************)
(* What ToolScheduler promises of a batch of any size, with any limits and *)
(* any number of events.                                                   *)
(***************************************************************************)
EXTENDS ToolScheduler, TLAPS

-----------------------------------------------------------------------------
(* Types.                                                                  *)

\* A step of a task changes no more than the types allow.
LEMMA TaskTypes ==
  ASSUME TypeOK, NEW i \in Calls, TaskStep(i)
  PROVE  TypeOK'
<1> USE DEF TypeOK, Ended, ByTasks
<1>1. CASE TakeSlot(i)
  BY <1>1 DEF TakeSlot, Invoke, Becomes
<1>2. CASE TakeSearch(i)
  BY <1>2 DEF TakeSearch, Invoke, Becomes
<1>3. CASE Emit(i)
  BY <1>3, SchedulerAssumption DEF Emit
<1>4. CASE End(i)
  BY <1>4 DEF End, Becomes
<1>5. CASE Cancelled(i)
  BY <1>5 DEF Cancelled, Becomes
<1>6. CASE Enter(i)
  BY <1>6 DEF Enter, Becomes
<1>7. CASE Rejected(i)
  BY <1>7 DEF Rejected, Becomes
<1> QED BY <1>1, <1>2, <1>3, <1>4, <1>5, <1>6, <1>7 DEF TaskStep

\* A step of the batch does not either.
LEMMA BatchTypes ==
  ASSUME TypeOK, BatchStep \/ Abandon \/ Expire \/ CancelRun
  PROVE  TypeOK'
<1> USE DEF TypeOK, Ended, ByBatch, CancelAll, Unfinished, Leave
<1>1. CASE Stop
  BY <1>1 DEF Stop
<1>2. CASE Progress
  BY <1>2, SchedulerAssumption DEF Progress
<1>3. CASE Resume
  BY <1>3 DEF Resume
<1>4. CASE Drained
  BY <1>4 DEF Drained
<1>5. CASE GraceEnds
  BY <1>5 DEF GraceEnds
<1>6. CASE Collect
  <2>1. \A j \in Calls : Outcome(j) \in Ended \cup {"none", "missing"}
    BY DEF Outcome, Done
  <2> QED BY <1>6, <2>1 DEF Collect
<1>7. CASE Reported
  BY <1>7 DEF Reported
<1>8. CASE CleanedUp
  BY <1>8 DEF CleanedUp
<1>9. CASE Abandon
  BY <1>9 DEF Abandon
<1>10. CASE Expire
  BY <1>10 DEF Expire, tasks
<1>11. CASE CancelRun
  BY <1>11 DEF CancelRun, tasks
<1> QED BY <1>1, <1>2, <1>3, <1>4, <1>5, <1>6, <1>7, <1>8, <1>9, <1>10, <1>11 DEF BatchStep

\* Every state of a batch has the types that the model gives it
\* (ToolEngine.invoke_parallel).
THEOREM TypeCorrect == Spec => []TypeOK
<1>1. Init => TypeOK
  <2>1. 0 \in 0..0 /\ 0 \in 0..MaxEvents
    BY SchedulerAssumption
  <2> QED BY <2>1 DEF Init, TypeOK, Ended
<1>2. TypeOK /\ [Next]_vars => TypeOK'
  <2> SUFFICES ASSUME TypeOK, [Next]_vars PROVE TypeOK'
    OBVIOUS
  <2>1. CASE \E i \in Calls : TaskStep(i)
    BY <2>1, TaskTypes
  <2>2. CASE BatchStep \/ Abandon \/ Expire \/ CancelRun
    BY <2>2, BatchTypes
  <2>3. CASE UNCHANGED vars
    BY <2>3 DEF TypeOK, vars, tasks
  <2> QED BY <2>1, <2>2, <2>3 DEF Next
<1> QED BY <1>1, <1>2, PTL DEF Spec

-----------------------------------------------------------------------------
(* Nothing starts late.                                                    *)

\* What makes the first part of NothingStartsLate true is that a batch which
\* has stopped has cancelled every task that waits for a semaphore or for its
\* checks, and that no such task can lose its cancellation but by ending.
Waiting == { i \in Calls : task[i] \in {"ready", "slot", "checking"} }

WaitersDoomed == at \notin {"loop", "yield"} => Waiting \subseteq cancelling

\* A task that has not got past its checks has not invoked its tool.
NotYetIn ==
  \A i \in Calls : task[i] \in {"ready", "slot", "checking", "skipped"} => i \notin entered

\* A cancellation that is not delivered is one of a task that has not ended.
StillThere == \A i \in cancelling : ~ Done(i)

SchedulerInv == TypeOK /\ WaitersDoomed /\ NotYetIn /\ StillThere

\* A task cannot get out of its cancellation, nor begin to wait for anything
\* else, once the batch has stopped.
LEMMA TaskKeepsDoom ==
  ASSUME SchedulerInv, NEW i \in Calls, TaskStep(i)
  PROVE  WaitersDoomed' /\ NotYetIn' /\ StillThere'
<1> USE DEF SchedulerInv, TypeOK, WaitersDoomed, NotYetIn, StillThere, Waiting, Done,
            ByTasks, Ended
<1>1. CASE TakeSlot(i)
  BY <1>1 DEF TakeSlot, Invoke, Becomes
<1>2. CASE TakeSearch(i)
  BY <1>2 DEF TakeSearch, Invoke, Becomes
<1>3. CASE Emit(i)
  BY <1>3 DEF Emit
<1>4. CASE End(i)
  BY <1>4 DEF End, Becomes
<1>5. CASE Cancelled(i)
  BY <1>5 DEF Cancelled, Becomes
<1>6. CASE Enter(i)
  BY <1>6 DEF Enter, Becomes
<1>7. CASE Rejected(i)
  BY <1>7 DEF Rejected, Becomes
<1> QED BY <1>1, <1>2, <1>3, <1>4, <1>5, <1>6, <1>7 DEF TaskStep

\* The batch leaves its loop only after it has cancelled what is unfinished,
\* or when nothing is.
LEMMA BatchDooms ==
  ASSUME SchedulerInv, BatchStep \/ Abandon \/ Expire \/ CancelRun
  PROVE  WaitersDoomed' /\ NotYetIn' /\ StillThere'
<1> USE DEF SchedulerInv, TypeOK, WaitersDoomed, NotYetIn, StillThere, Waiting, ByBatch,
            CancelAll, Unfinished, Leave, Done, Ended
<1>1. CASE Stop
  BY <1>1 DEF Stop
<1>2. CASE Progress
  BY <1>2 DEF Progress
<1>3. CASE Resume
  BY <1>3 DEF Resume
<1>4. CASE Drained
  BY <1>4 DEF Drained
<1>5. CASE GraceEnds
  BY <1>5 DEF GraceEnds
<1>6. CASE Collect
  BY <1>6 DEF Collect, AllDone
<1>7. CASE Reported
  BY <1>7 DEF Reported
<1>8. CASE CleanedUp
  BY <1>8 DEF CleanedUp
<1>9. CASE Abandon
  BY <1>9 DEF Abandon
<1>10. CASE Expire
  BY <1>10 DEF Expire, tasks
<1>11. CASE CancelRun
  BY <1>11 DEF CancelRun, tasks
<1> QED BY <1>1, <1>2, <1>3, <1>4, <1>5, <1>6, <1>7, <1>8, <1>9, <1>10, <1>11 DEF BatchStep

\* In every state the tasks that wait for a semaphore or a check of a batch
\* that has stopped are about to be cancelled (_cancel_tasks and the two loops
\* over the tasks in invoke_parallel).
THEOREM WaitersAreDoomed == Spec => []SchedulerInv
<1>1. Init => WaitersDoomed /\ NotYetIn /\ StillThere
  BY DEF Init, WaitersDoomed, NotYetIn, StillThere
<1>2. SchedulerInv /\ [Next]_vars => WaitersDoomed' /\ NotYetIn' /\ StillThere'
  <2> SUFFICES ASSUME SchedulerInv, [Next]_vars
               PROVE  WaitersDoomed' /\ NotYetIn' /\ StillThere'
    OBVIOUS
  <2>1. CASE \E i \in Calls : TaskStep(i)
    BY <2>1, TaskKeepsDoom
  <2>2. CASE BatchStep \/ Abandon \/ Expire \/ CancelRun
    BY <2>2, BatchDooms
  <2>3. CASE UNCHANGED vars
    BY <2>3 DEF SchedulerInv, WaitersDoomed, NotYetIn, StillThere, Waiting, Done, vars, tasks
  <2> QED BY <2>1, <2>2, <2>3 DEF Next
<1> QED BY <1>1, <1>2, TypeCorrect, PTL DEF Spec, SchedulerInv

\* What a call cannot leave in a cancelled run: its tool is not invoked, and it
\* is neither at its checks nor at work.
KeptOut(i) == isCancelled /\ i \notin entered /\ task[i] \notin {"checking", "running"}

\* No step lets a call in again that a cancelled run keeps out.
LEMMA StaysOut ==
  ASSUME TypeOK, NEW i \in Calls, KeptOut(i), [Next]_vars
  PROVE  KeptOut(i)'
<1> USE DEF KeptOut, TypeOK
<1>1. CASE \E j \in Calls : TaskStep(j)
  <2>1. PICK j \in Calls : TaskStep(j)
    BY <1>1
  <2>2. CASE TakeSlot(j) \/ TakeSearch(j)
    BY <2>2 DEF TakeSlot, TakeSearch, Invoke, Becomes, ByTasks
  <2>3. CASE Enter(j) \/ Rejected(j)
    BY <2>3 DEF Enter, Rejected, Becomes, ByTasks
  <2>4. CASE Emit(j) \/ End(j) \/ Cancelled(j)
    BY <2>4 DEF Emit, End, Cancelled, Becomes, ByTasks
  <2> QED BY <2>1, <2>2, <2>3, <2>4 DEF TaskStep
<1>2. CASE BatchStep \/ Abandon
  BY <1>2 DEF BatchStep, Stop, Progress, Resume, Drained, GraceEnds, Collect, Reported,
              CleanedUp, Abandon, ByBatch
<1>3. CASE Expire \/ CancelRun \/ UNCHANGED vars
  BY <1>3 DEF Expire, CancelRun, vars, tasks
<1> QED BY <1>1, <1>2, <1>3 DEF Next

\* A tool is invoked only while the batch is at work, and never for a call that
\* waited for its turn when the run was cancelled, however many calls wait and
\* however the semaphores are released (_invoke_with_optional_events and
\* invoke_tool_once under the semaphores of run_one).
THEOREM NoneStartsLate == Spec => NothingStartsLate
<1> DEFINE Late    == entered' # entered => at \in {"loop", "yield"}
           Held(i) == isCancelled /\ task[i] \in {"ready", "slot"}
<1>1. SchedulerInv /\ [Next]_vars => [Late]_vars
  <2> SUFFICES ASSUME SchedulerInv, Next PROVE Late
    OBVIOUS
  <2>1. CASE \E i \in Calls : TaskStep(i)
    <3>1. PICK i \in Calls : TaskStep(i)
      BY <2>1
    <3>2. entered' # entered => task[i] = "checking" /\ i \notin cancelling
      BY <3>1 DEF TaskStep, TakeSlot, TakeSearch, Enter, Rejected, Emit, End, Cancelled
    <3> QED BY <3>2 DEF SchedulerInv, WaitersDoomed, Waiting
  <2>2. CASE BatchStep \/ Abandon
    BY <2>2 DEF BatchStep, Stop, Progress, Resume, Drained, GraceEnds, Collect, Reported,
                CleanedUp, Abandon, ByBatch
  <2>3. CASE Expire \/ CancelRun
    BY <2>3 DEF Expire, CancelRun, tasks
  <2> QED BY <2>1, <2>2, <2>3 DEF Next
<1>2. Spec => [][Late]_vars
  BY <1>1, WaitersAreDoomed, PTL DEF Spec
<1>3. ASSUME NEW i \in Calls
      PROVE  Spec => [](Held(i) => [](i \notin entered))
  <2>1. SchedulerInv /\ Held(i) => KeptOut(i)
    BY DEF SchedulerInv, NotYetIn, KeptOut
  <2>2. SchedulerInv /\ KeptOut(i) /\ [Next]_vars => KeptOut(i)'
    BY StaysOut DEF SchedulerInv
  <2>3. KeptOut(i) => i \notin entered
    BY DEF KeptOut
  <2> HIDE DEF Held
  <2> QED BY <2>1, <2>2, <2>3, WaitersAreDoomed, PTL DEF Spec
<1> QED BY <1>2, <1>3 DEF NothingStartsLate

-----------------------------------------------------------------------------
(* A report is true.                                                       *)

\* What the batch knows of its calls before it reports them, ...
NothingSaid ==
  Unreported => \A i \in Calls : outcome[i] = "none" /\ (i \in came <=> task[i] = "returned")

\* ... that it has told every task to stop which it will not wait for, ...
ToldToStop == at \in {"drain", "grace", "lastdrain"} => stopped /\ Unfinished \subseteq asked

\* ... and what its report is worth while the tasks it has left go on.
Said ==
  \A i \in Calls : outcome[i] # "none" =>
    \/ outcome[i] = "missing" /\ stopped /\ i \in asked /\ i \notin came
    \/ /\ outcome[i] = task[i] /\ outcome[i] \in Ended \ {"fatal"}
       /\ i \in came <=> outcome[i] = "returned"

ReportInv == SchedulerInv /\ NothingSaid /\ ToldToStop /\ Said

\* A task that ends late changes nothing of what was said of it.
LEMMA TaskKeepsReport ==
  ASSUME ReportInv, NEW i \in Calls, TaskStep(i)
  PROVE  NothingSaid' /\ ToldToStop' /\ Said'
<1> USE DEF ReportInv, SchedulerInv, TypeOK, NothingSaid, ToldToStop, Said, Unreported,
            Unfinished, Done, Ended, ByTasks
<1>1. CASE TakeSlot(i)
  BY <1>1 DEF TakeSlot, Invoke, Becomes
<1>2. CASE TakeSearch(i)
  BY <1>2 DEF TakeSearch, Invoke, Becomes
<1>3. CASE Emit(i)
  BY <1>3 DEF Emit
<1>4. CASE End(i)
  BY <1>4 DEF End, Becomes
<1>5. CASE Cancelled(i)
  <2>1. ~ Done(i)
    BY <1>5 DEF Cancelled, StillThere
  <2> QED BY <1>5, <2>1 DEF Cancelled, Becomes
<1>6. CASE Enter(i)
  BY <1>6 DEF Enter, Becomes
<1>7. CASE Rejected(i)
  BY <1>7 DEF Rejected, Becomes
<1> QED BY <1>1, <1>2, <1>3, <1>4, <1>5, <1>6, <1>7 DEF TaskStep

\* The batch reports what it knows, and says nothing else afterwards.
LEMMA BatchKeepsReport ==
  ASSUME ReportInv, BatchStep \/ Abandon \/ Expire \/ CancelRun
  PROVE  NothingSaid' /\ ToldToStop' /\ Said'
<1> USE DEF ReportInv, SchedulerInv, TypeOK, NothingSaid, ToldToStop, Said, Unreported,
            Unfinished, Done, Ended, ByBatch, CancelAll, Leave
<1>1. CASE Stop
  BY <1>1 DEF Stop
<1>2. CASE Progress
  BY <1>2 DEF Progress
<1>3. CASE Resume
  BY <1>3 DEF Resume
<1>4. CASE Drained
  BY <1>4 DEF Drained
<1>5. CASE GraceEnds
  BY <1>5 DEF GraceEnds
<1>6. CASE Collect
  BY <1>6 DEF Collect, Outcome, AllDone
<1>7. CASE Reported
  BY <1>7 DEF Reported
<1>8. CASE CleanedUp
  BY <1>8 DEF CleanedUp
<1>9. CASE Abandon
  BY <1>9 DEF Abandon
<1>10. CASE Expire
  BY <1>10 DEF Expire, tasks
<1>11. CASE CancelRun
  BY <1>11 DEF CancelRun, tasks
<1> QED BY <1>1, <1>2, <1>3, <1>4, <1>5, <1>6, <1>7, <1>8, <1>9, <1>10, <1>11 DEF BatchStep

\* A report keeps the result of every tool that returned in time, whatever was
\* cancelled, and stays true of the calls it has no result of (the collection
\* of the outcomes in invoke_parallel).
THEOREM ReportsAreTrue == Spec => []ReportIsTrue
<1>1. Init => NothingSaid /\ ToldToStop /\ Said
  BY DEF Init, NothingSaid, ToldToStop, Said
<1>2. ReportInv /\ [Next]_vars => NothingSaid' /\ ToldToStop' /\ Said'
  <2> SUFFICES ASSUME ReportInv, [Next]_vars PROVE NothingSaid' /\ ToldToStop' /\ Said'
    OBVIOUS
  <2>1. CASE \E i \in Calls : TaskStep(i)
    BY <2>1, TaskKeepsReport
  <2>2. CASE BatchStep \/ Abandon \/ Expire \/ CancelRun
    BY <2>2, BatchKeepsReport
  <2>3. CASE UNCHANGED vars
    BY <2>3 DEF ReportInv, NothingSaid, ToldToStop, Said, Unreported, Unfinished, Done,
                Ended, vars, tasks
  <2> QED BY <2>1, <2>2, <2>3 DEF Next
<1>3. ReportInv => ReportIsTrue
  BY DEF ReportInv, SchedulerInv, NotYetIn, Said, ReportIsTrue, Ended
<1> QED BY <1>1, <1>2, <1>3, WaitersAreDoomed, PTL DEF Spec, ReportInv
=============================================================================
