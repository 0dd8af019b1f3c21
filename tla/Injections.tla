---------------------------- MODULE Injections ----------------------------
(***************************************************************************)
(* Supplements that a host injects into a running turn: InjectionManager   *)
(* and submit_user_input (injections.py), the loop that drains the queue   *)
(* at a step boundary (kernel/loop.py), and the scopes that AgentSession   *)
(* opens and closes around a run (agent_session.py).                       *)
(*                                                                         *)
(* The host retries: it may send an id again at any time.  A submission    *)
(* that changes nothing (a duplicate, a conflict) is a stutter.  Every     *)
(* accepted submission gets a number, known to the properties only.        *)
(*                                                                         *)
(* Bounds (all in guards): MaxSubmissions accepted submissions, MaxRuns    *)
(* runs, MaxRevisions edits of the history, MaxRestarts restarts of the    *)
(* process, MaxFailures failed flushes.                                    *)
(***************************************************************************)
EXTENDS Integers, Sequences, FiniteSets, SequencesExt

CONSTANTS
  Ids, Contents,
  NoInput,     \* no fingerprint
  MaxSubmissions, MaxRuns, MaxRevisions, MaxRestarts, MaxFailures

ASSUME InjectionBounds ==
  /\ NoInput \notin Contents
  /\ {MaxSubmissions, MaxRuns, MaxRevisions, MaxRestarts, MaxFailures} \subseteq Nat

VARIABLES
  queue,       \* the items of the asyncio queue
  statuses,    \* InjectionManager._statuses ("none": no entry)
  inputs,      \* InjectionManager._inputs
  unfinished,  \* the queue's count of items without a task_done()
  finished,    \* InjectionManager._run_finished
  phase,       \* where the run is
  taken,       \* the item that aapply_next prepares, in a sequence
  cancelled,   \* the run's cancellation token
  live,        \* the injected items among the messages in memory
  log,         \* the injected items that history_messages() returns
  saved,       \* how many of those are on the disk
  failed,      \* the log has failed
  submissions, runs, revisions, restarts, failures,  \* counters of the bounds
  withdrawn    \* history: the submissions whose cancellation was confirmed

manager == <<queue, statuses, inputs, unfinished, finished>>
store   == <<log, saved, failed>>
counts  == <<submissions, runs, revisions, restarts, failures>>
vars == <<manager, phase, taken, cancelled, live, store, counts, withdrawn>>

Phases == {
  "idle",     \* no run
  "step",     \* in a step of the loop
  "drain",    \* at a step boundary, in the loop that drains the queue
  "prepare",  \* aapply_next waits for prepare_input
  "raised" }  \* an exception is on its way out of the run

Item == [id : Ids, content : Contents, number : 1..MaxSubmissions]

Statuses == {"none", "pending", "taken", "injected", "cancelled", "discarded"}

Holds(s, id) == \E k \in DOMAIN s : s[k].id = id

NoStatus == [i \in Ids |-> "none"]

Init ==
  /\ queue = <<>> /\ taken = <<>> /\ live = <<>> /\ log = <<>>
  /\ statuses = NoStatus
  /\ inputs = [i \in Ids |-> NoInput]
  /\ unfinished = 0
  /\ finished = FALSE /\ cancelled = FALSE /\ failed = FALSE
  /\ phase = "idle"
  /\ saved = 0
  /\ submissions = 0 /\ runs = 0 /\ revisions = 0 /\ restarts = 0 /\ failures = 0
  /\ withdrawn = {}

-----------------------------------------------------------------------------
(* InjectionManager.                                                       *)

\* begin_run: only what is still pending keeps its receipt.
NewScope(st) == [i \in Ids |-> IF st[i] = "pending" THEN "pending" ELSE "none"]

\* The receipts that submit() looks at: submit opens a new scope when the run
\* before it has finished.
CurrentStatuses == IF finished THEN NewScope(statuses) ELSE statuses

\* Mutant of Logged: the history of the session is not consulted.
NeverLogged(id) == FALSE

Logged(id) == Holds(log, id)

\* submit_user_input and submit().  The receipt is looked up first, before
\* submit() opens a scope, and then the effective history.
Accept(id, content) ==
  /\ submissions < MaxSubmissions
  /\ statuses[id] = "none"
  /\ ~Logged(id)
  /\ submissions' = submissions + 1
  /\ queue' = Append(queue, [id |-> id, content |-> content, number |-> submissions + 1])
  /\ unfinished' = unfinished + 1
  /\ statuses' = [CurrentStatuses EXCEPT ![id] = "pending"]
  /\ inputs' = [i \in Ids |-> IF i = id THEN content
                              ELSE IF CurrentStatuses[i] = "none" THEN NoInput
                              ELSE inputs[i]]
  /\ finished' = FALSE
  /\ UNCHANGED <<phase, taken, cancelled, live, store, runs, revisions, restarts,
                 failures, withdrawn>>

\* The items that cancel() keeps, in the order in which it takes them out.
Kept(s, id) ==
  LET upTo[k \in 0..Len(s)] ==
        IF k = 0 THEN <<>>
        ELSE IF s[k].id = id THEN upTo[k - 1] ELSE Append(upTo[k - 1], s[k])
  IN  upTo[Len(s)]

\* cancel() of an item in the queue: every item is taken out, the others are
\* put back behind each other; each removed one has its task_done().
CancelPending(id) ==
  /\ statuses[id] = "pending"
  /\ queue' = Kept(queue, id)
  /\ unfinished' = unfinished - (Len(queue) - Len(queue'))
  /\ statuses' = [statuses EXCEPT ![id] = "cancelled"]
  /\ withdrawn' = withdrawn \cup { queue[k].number : k \in {j \in DOMAIN queue : queue[j].id = id} }
  /\ UNCHANGED <<inputs, finished, phase, taken, cancelled, live, store, counts>>

\* cancel() of an item that is being prepared.
CancelTaken(id) ==
  /\ statuses[id] = "taken"
  /\ statuses' = [statuses EXCEPT ![id] = "cancelled"]
  /\ withdrawn' = withdrawn \cup { taken[k].number : k \in {j \in DOMAIN taken : taken[j].id = id} }
  /\ UNCHANGED <<queue, inputs, unfinished, finished, phase, taken, cancelled, live,
                 store, counts>>

\* discard_pending: every queued item becomes "discarded".
Discarded(st) == [i \in Ids |-> IF Holds(queue, i) THEN "discarded" ELSE st[i]]

-----------------------------------------------------------------------------
(* The run.                                                                *)

\* AgentSession.run_events opens a scope and keeps what was queued before.
BeginRun ==
  /\ phase = "idle"
  /\ runs < MaxRuns
  /\ ~failed
  /\ runs' = runs + 1
  /\ phase' = "step"
  /\ cancelled' = FALSE
  /\ statuses' = NewScope(statuses)
  /\ inputs' = [i \in Ids |-> IF statuses[i] = "pending" THEN inputs[i] ELSE NoInput]
  /\ finished' = FALSE
  /\ UNCHANGED <<queue, unfinished, taken, live, store, submissions, revisions,
                 restarts, failures, withdrawn>>

\* The step boundary: a cancelled run does not get there.
Boundary ==
  /\ phase = "step"
  /\ ~cancelled
  /\ queue # <<>>
  /\ phase' = "drain"
  /\ UNCHANGED <<manager, taken, cancelled, live, store, counts, withdrawn>>

\* aapply_next up to its await.
Take ==
  /\ phase = "drain"
  /\ queue # <<>>
  /\ phase' = "prepare"
  /\ taken' = <<Head(queue)>>
  /\ queue' = Tail(queue)
  /\ statuses' = [statuses EXCEPT ![Head(queue).id] = "taken"]
  /\ UNCHANGED <<inputs, unfinished, finished, cancelled, live, store, counts, withdrawn>>

Drained ==
  /\ phase = "drain"
  /\ queue = <<>>
  /\ phase' = "step"
  /\ UNCHANGED <<manager, taken, cancelled, live, store, counts, withdrawn>>

\* The end of aapply_next: its finally, the status of the item.
Settle(status, next) ==
  /\ taken' = <<>>
  /\ unfinished' = unfinished - 1
  /\ statuses' = [statuses EXCEPT ![taken[1].id] = status]
  /\ phase' = next
  /\ UNCHANGED <<queue, inputs, finished, cancelled, withdrawn, submissions, runs,
                 revisions, restarts>>

\* Mutant of Withdrawn: only the cancellation of the run is looked at.
RunWithdrawn == cancelled

Withdrawn == cancelled \/ statuses[taken[1].id] = "cancelled"

Adopt ==
  /\ phase = "prepare"
  /\ \/ /\ Withdrawn
        /\ Settle("cancelled", "drain")
        /\ UNCHANGED <<live, store, failures>>
     \/ /\ ~Withdrawn
        /\ ~failed
        /\ live' = Append(live, taken[1])
        /\ log' = Append(log, taken[1])
        /\ saved' = Len(log')
        /\ Settle("injected", "drain")
        /\ UNCHANGED <<failed, failures>>

\* The commit of the injected message fails in its flush: the message goes from
\* memory, the record is in the log's buffer, and the log is of no more use.
\* Mutant: the message stays in memory.
CommitFailsKept ==
  /\ phase = "prepare"
  /\ ~Withdrawn
  /\ failures < MaxFailures
  /\ failures' = failures + 1
  /\ failed' = TRUE
  /\ log' = Append(log, taken[1])
  /\ live' = Append(live, taken[1])
  /\ Settle("discarded", "raised")
  /\ UNCHANGED saved

CommitFails ==
  /\ phase = "prepare"
  /\ ~Withdrawn
  /\ failures < MaxFailures
  /\ failures' = failures + 1
  /\ failed' = TRUE
  /\ log' = Append(log, taken[1])
  /\ Settle("discarded", "raised")
  /\ UNCHANGED <<live, saved>>

\* prepare_input raises, or the run's task is cancelled while it waits.
PrepareFails ==
  /\ phase = "prepare"
  /\ Settle("discarded", "raised")
  /\ UNCHANGED <<live, store, failures>>

\* Mutant of EndRun: what is pending stays pending.
EndRunKeeping ==
  /\ phase \in {"step", "drain", "raised"}
  /\ phase' = "idle"
  /\ finished' = TRUE
  /\ UNCHANGED <<queue, unfinished, statuses, inputs, taken, cancelled, live, store,
                 counts, withdrawn>>

\* The run ends, or its stream is closed: end_run().
EndRun ==
  /\ phase \in {"step", "drain", "raised"}
  /\ phase' = "idle"
  /\ queue' = <<>>
  /\ unfinished' = unfinished - Len(queue)
  /\ statuses' = Discarded(statuses)
  /\ finished' = TRUE
  /\ UNCHANGED <<inputs, taken, cancelled, live, store, counts, withdrawn>>

RequestCancel ==
  /\ phase # "idle"
  /\ ~cancelled
  /\ cancelled' = TRUE
  /\ UNCHANGED <<manager, phase, taken, live, store, counts, withdrawn>>

\* An edit of the history goes back to a prefix of the conversation, drops what
\* is queued and closes the scope.
Revise(keep) ==
  /\ phase = "idle"
  /\ revisions < MaxRevisions
  /\ ~failed
  /\ revisions' = revisions + 1
  /\ log' = SubSeq(log, 1, keep) /\ live' = log' /\ saved' = keep
  /\ queue' = <<>>
  /\ unfinished' = unfinished - Len(queue)
  /\ statuses' = NoStatus
  /\ inputs' = [i \in Ids |-> NoInput]
  /\ finished' = TRUE
  /\ UNCHANGED <<phase, taken, cancelled, failed, submissions, runs, restarts,
                 failures, withdrawn>>

\* The process is gone; a new manager starts from the log.  A record that was
\* handed to the system before its flush failed may be there or not.
Restart ==
  /\ restarts < MaxRestarts
  /\ restarts' = restarts + 1
  /\ \E n \in saved..Len(log) :
       log' = SubSeq(log, 1, n) /\ live' = log' /\ saved' = n
  /\ queue' = <<>> /\ taken' = <<>>
  /\ unfinished' = 0
  /\ statuses' = NoStatus
  /\ inputs' = [i \in Ids |-> NoInput]
  /\ finished' = FALSE /\ cancelled' = FALSE /\ failed' = FALSE
  /\ phase' = "idle"
  /\ UNCHANGED <<submissions, runs, revisions, failures, withdrawn>>

-----------------------------------------------------------------------------
RunStep == Boundary \/ Take \/ Drained \/ Adopt \/ EndRun

Host ==
  \/ \E id \in Ids : CancelPending(id) \/ CancelTaken(id)
  \/ \E id \in Ids, content \in Contents : Accept(id, content)
  \/ BeginRun \/ RequestCancel
  \/ \E keep \in 0..Len(log) : Revise(keep)

Next == RunStep \/ Host \/ CommitFails \/ PrepareFails \/ Restart

Spec == Init /\ [][Next]_vars

\* The event loop runs a ready run, prepare_input returns, and a run has a
\* bounded number of steps, so that it ends.
Fairness == WF_vars(Boundary \/ Take \/ Adopt) /\ WF_vars(EndRun)

FairSpec == Spec /\ Fairness

-----------------------------------------------------------------------------
(* Properties.                                                             *)

TypeOK ==
  /\ queue \in Seq(Item) /\ taken \in Seq(Item) /\ live \in Seq(Item) /\ log \in Seq(Item)
  /\ statuses \in [Ids -> Statuses]
  /\ inputs \in [Ids -> Contents \cup {NoInput}]
  /\ unfinished \in 0..MaxSubmissions   \* a task_done() too many would raise
  /\ {finished, cancelled, failed} \subseteq BOOLEAN
  /\ phase \in Phases
  /\ Len(taken) = (IF phase = "prepare" THEN 1 ELSE 0)
  /\ saved \in 0..Len(log)
  /\ withdrawn \subseteq 1..MaxSubmissions

\* Whatever the host retries, over runs, failed commits and restarts of the
\* process, an id is at most once in the conversation; and messages reach it in
\* the order in which they were accepted: taking one out of the queue, which
\* cancel() does by emptying and refilling it, does not move the others.
OnceInOrder ==
  LET all == log \o taken \o queue
  IN  /\ \A j, k \in DOMAIN log : log[j].id = log[k].id => j = k
      /\ \A j, k \in DOMAIN all : j < k => all[j].number < all[k].number

\* A submission whose cancellation was confirmed (cancel() returned True) is
\* never injected, not even when it was being prepared at that moment.
CancelHonoured == \A k \in DOMAIN log : log[k].number \notin withdrawn

\* The receipt of an id says where its message is: an injected one is in the
\* conversation, every other one is not, and a message that is waiting is the
\* one that was accepted, not a later one with the same id.  The count of
\* unfinished items, which join() waits for, is what is queued or being prepared.
ReceiptsTruthful ==
  /\ \A id \in Ids :
       /\ statuses[id] = "injected" => Holds(live, id)
       /\ statuses[id] \in {"pending", "taken", "cancelled", "discarded"} => ~Holds(live, id)
       /\ statuses[id] = "pending" <=> Holds(queue, id)
       /\ statuses[id] = "taken" => Holds(taken, id)
  /\ \A k \in DOMAIN queue : inputs[queue[k].id] = queue[k].content
  /\ unfinished = Len(queue) + Len(taken)

\* What waits while a run is active is settled by that run: injected,
\* cancelled or discarded, never left behind.
Settles ==
  \A id \in Ids : (phase # "idle" /\ statuses[id] = "pending")
                    ~> statuses[id] \notin {"pending", "taken"}
=============================================================================
