---------------------------- MODULE DurableTurn ----------------------------
(***************************************************************************)
(* One Agent running turns against one Session Log: Agent.run_events       *)
(* (agent.py), the agent loop (kernel/loop.py), the tool engine as far as  *)
(* the log sees it (tools/engine), the writer's buffer and its fsync       *)
(* (session_log.py), process crashes and the repair on the next open.      *)
(*                                                                         *)
(* events is everything the writer has appended, durable is how many of    *)
(* those records the last successful flush() put on the disk, live is the  *)
(* in-memory message list without its system message.  One action is what  *)
(* the code does between two points where the event loop, the provider, a  *)
(* tool or a crash can step in.                                            *)
(*                                                                         *)
(* Bounds (all in guards): MaxTurns user prompts, MaxSteps steps of a      *)
(* turn, MaxCompactions compactions, MaxCrashes crashes, MaxFailures       *)
(* failed flushes.  The provider never uses the id of a call twice.        *)
(***************************************************************************)
EXTENDS SessionLog

CONSTANTS
  MaxTurns, MaxSteps, MaxCompactions, MaxCrashes, MaxFailures,
  TornWrites    \* may a crash keep a part of what was not flushed?

ASSUME BoundsAssumption ==
  /\ {MaxTurns, MaxSteps, MaxCompactions, MaxCrashes, MaxFailures} \subseteq Nat
  /\ TornWrites \in BOOLEAN

VARIABLES
  events,       \* SessionLog._events
  durable,      \* how many of them are known to be on the disk
  live,         \* Agent.messages[1:]
  pc,           \* where the process is
  cancelled,    \* the run's cancellation token
  stage,        \* how far each call of the current response has come
  turns, steps, compactions, crashes, failures,   \* counters of the bounds
  asked,        \* the ids that the provider has used
  invoked       \* history: the calls whose tool has really been entered

vars == <<events, durable, live, pc, cancelled, stage,
          turns, steps, compactions, crashes, failures, asked, invoked>>

counters == <<turns, steps, compactions, crashes, failures>>

Places == {
  "down",      \* no process has the log open
  "idle",      \* open, no turn
  "prompted",  \* ... and a new message of the user is on the disk
  "entry",     \* turn/start written, the loop has not started
  "boundary",  \* between two steps
  "opened",    \* step/start written, surface not committed
  "request",   \* surface committed, provider not called
  "model",     \* waiting for the provider
  "answer",    \* a response without tool calls is in the log
  "tools",     \* a response with tool calls is in the log
  "batch",     \* some calls of a parallel batch are recorded, not flushed
  "broken" }   \* the log has failed: every append raises

Stages == {"none", "todo", "leftover", "ready", "running", "done"}

InStep == pc \in {"opened", "request", "model", "answer", "tools", "batch"}
InTurn == InStep \/ pc \in {"entry", "boundary"}
At(s)  == { c \in Calls : stage[c] = s }

NoStages == [c \in Calls |-> "none"]

-----------------------------------------------------------------------------
Init ==
  /\ events = <<>>
  /\ durable = 0
  /\ live = <<>>
  /\ pc = "idle"
  /\ cancelled = FALSE
  /\ stage = NoStages
  /\ turns = 0 /\ steps = 0 /\ compactions = 0 /\ crashes = 0 /\ failures = 0
  /\ asked = {}
  /\ invoked = {}

\* append(...) of the records that turn events into log, and flush().  The
\* handler goes on to next when the flush succeeds; when it fails the log is
\* failed, the run raises and its finalizer leaves the log alone.  A process
\* killed inside the handler is a failed flush followed by Crash.
Flushed(log, next) ==
  /\ events' = log
  /\ \/ /\ durable' = Len(log)
        /\ pc' = next
        /\ failures' = failures
     \/ /\ failures < MaxFailures
        /\ durable' = durable
        /\ pc' = "broken"
        /\ failures' = failures + 1

Buffered(log) == events' = log /\ UNCHANGED <<durable, failures>>

-----------------------------------------------------------------------------
(* The turn.                                                               *)

\* add_user_message: the message is durable before its turn begins.  When the
\* flush fails, memory is rolled back.
AddUserMessage ==
  /\ pc \in {"idle", "prompted"}
  /\ turns < MaxTurns
  /\ turns' = turns + 1
  /\ LET msgs == Append(live, UserMsg(turns + 1))
     IN  /\ Flushed(AppendUnlogged(events, msgs), "prompted")
         /\ live' = IF pc' = "broken" THEN live ELSE msgs
  /\ UNCHANGED <<cancelled, stage, steps, compactions, crashes, asked, invoked>>

\* run_events: turn/start, without a flush.
StartTurn ==
  /\ pc = "prompted"
  /\ steps' = 0
  /\ cancelled' = FALSE
  /\ Buffered(AppendUnlogged(Mark(events, "turn/start"), live))
  /\ pc' = "entry"
  /\ UNCHANGED <<live, stage, turns, compactions, crashes, asked, invoked>>

\* _sanitize_dangling_tool_calls at the entry of the loop, one message of the
\* assistant at a time.
Heal(i) ==
  /\ pc = "entry"
  /\ \E e \in DOMAIN live :
       /\ Dangling(live, i, e)
       /\ \E order \in SetToSeqs(live[i].calls \ AnsweredIn(live, i, e)) :
            live' = SubSeq(live, 1, e)
                      \o [k \in 1..Len(order) |-> ToolMsg(order[k], "interrupted")]
                      \o SubSeq(live, e + 1, Len(live))
  /\ UNCHANGED <<events, durable, pc, cancelled, stage, counters, asked, invoked>>

\* Mutant of EnterLoop: the list is not sanitized.
EnterUnhealed ==
  /\ pc = "entry"
  /\ pc' = "boundary"
  /\ UNCHANGED <<events, durable, live, cancelled, stage, counters, asked, invoked>>

EnterLoop ==
  /\ pc = "entry"
  /\ \A i, e \in DOMAIN live : ~Dangling(live, i, e)
  /\ pc' = "boundary"
  /\ UNCHANGED <<events, durable, live, cancelled, stage, counters, asked, invoked>>

\* The StepStart event: Agent persists the live suffix and writes step/start.
\* After a final answer the loop may go back without the end of its step, when
\* a message was injected during the completion checks.
BeginStep ==
  /\ pc \in {"boundary", "answer"}
  /\ ~cancelled
  /\ steps < MaxSteps
  /\ steps' = steps + 1
  /\ Buffered(Mark(AppendUnlogged(events, live), "step/start"))
  /\ pc' = "opened"
  /\ UNCHANGED <<live, cancelled, stage, turns, compactions, crashes, asked, invoked>>

CommitSurface ==
  /\ pc = "opened"
  /\ ~cancelled
  /\ Flushed(AppendUnlogged(events, live), "request")
  /\ UNCHANGED <<live, cancelled, stage, turns, steps, compactions, crashes,
                 asked, invoked>>

\* commit_compaction: a summary and the newest complete groups, from message k
\* on, replace the Surface; the live list is then what replay() returns.
Compact(k) ==
  /\ pc = "request"
  /\ compactions < MaxCompactions
  /\ ~IsTool(live, k)
  /\ compactions' = compactions + 1
  /\ Flushed(ReplaceSurface(events, <<SummaryMsg>> \o SubSeq(live, k, Len(live))),
             "request")
  /\ live' = Surface(events')
  /\ UNCHANGED <<cancelled, stage, turns, steps, crashes, asked, invoked>>

SendRequest ==
  /\ pc = "request"
  /\ ~cancelled
  /\ Flushed(Mark(AppendUnlogged(events, live), "request/context"), "model")
  /\ UNCHANGED <<live, cancelled, stage, turns, steps, compactions, crashes,
                 asked, invoked>>

\* commit_model_response: the response is durable before any call is looked at.
Respond(S) ==
  /\ pc = "model"
  /\ S \cap asked = {}
  /\ asked' = asked \cup S
  /\ live' = Append(live, AssistantMsg(S))
  /\ Flushed(AppendUnlogged(events, live'), IF S = {} THEN "answer" ELSE "tools")
  /\ stage' = [c \in Calls |-> IF c \in S THEN "todo" ELSE "none"]
  /\ UNCHANGED <<cancelled, turns, steps, compactions, crashes, invoked>>

-----------------------------------------------------------------------------
(* The tool step.  Serial calls go one at a time; then the parallel batch  *)
(* is recorded, flushed once and started; refused calls and duplicates are *)
(* answered by the engine and have no tool/call record.                    *)

Quiet == At("ready") \cup At("running") = {}

Reached(c, s) == stage' = [stage EXCEPT ![c] = s]

RecordSerial(c) ==
  /\ pc = "tools"
  /\ stage[c] = "todo"
  /\ Quiet /\ At("done") = {}
  /\ Flushed(Append(events, CallRecord(events, c)), "tools")
  /\ Reached(c, "ready")
  /\ UNCHANGED <<live, cancelled, turns, steps, compactions, crashes, asked, invoked>>

RecordParallel(c) ==
  /\ \/ pc = "tools" /\ Quiet /\ At("done") = {}
     \/ pc = "batch"
  /\ stage[c] = "todo"
  /\ Buffered(Append(events, CallRecord(events, c)))
  /\ pc' = "batch"
  /\ Reached(c, "ready")
  /\ UNCHANGED <<live, cancelled, turns, steps, compactions, crashes, asked, invoked>>

\* Mutant of FlushCalls: the batch is started before it is flushed.
StartUnflushed ==
  /\ pc = "batch"
  /\ pc' = "tools"
  /\ stage' = [c \in Calls |-> IF stage[c] = "todo" THEN "leftover" ELSE stage[c]]
  /\ UNCHANGED <<events, durable, live, cancelled, counters, asked, invoked>>

FlushCalls ==
  /\ pc = "batch"
  /\ Flushed(events, "tools")
  /\ stage' = [c \in Calls |-> IF stage[c] = "todo" THEN "leftover" ELSE stage[c]]
  /\ UNCHANGED <<live, cancelled, turns, steps, compactions, crashes, asked, invoked>>

\* _invoke_with_optional_events: the tool is entered.  The checks that
\* invoke_tool_once awaits in between write nothing: a cancellation that comes
\* during them is, for the log, one that comes after.
Invoke(c) ==
  /\ pc = "tools"
  /\ stage[c] = "ready"
  /\ ~cancelled
  /\ invoked' = invoked \cup {c}
  /\ Reached(c, "running")
  /\ UNCHANGED <<events, durable, live, pc, cancelled, counters, asked>>

\* Mutant of Skip: a cancelled call gets no result of its own.
SkipRefused(c) ==
  /\ pc = "tools"
  /\ stage[c] = "ready"
  /\ ~cancelled
  /\ Reached(c, "done")
  /\ UNCHANGED <<events, durable, live, pc, cancelled, counters, asked, invoked>>

\* ... or is not: the run is cancelled, or the admission check refuses.
Skip(c) ==
  /\ pc = "tools"
  /\ stage[c] = "ready"
  /\ Reached(c, "done")
  /\ UNCHANGED <<events, durable, live, pc, cancelled, counters, asked, invoked>>

\* The tool returns, raises, times out or is cancelled.
Return(c) ==
  /\ pc = "tools"
  /\ stage[c] = "running"
  /\ Reached(c, "done")
  /\ UNCHANGED <<events, durable, live, pc, cancelled, counters, asked, invoked>>

\* commit_result: only a result with an image is flushed at once.
Answer(c) ==
  /\ live' = Append(live, ToolMsg(c, "answered"))
  /\ \/ Buffered(AppendUnlogged(events, live')) /\ pc' = pc
     \/ Flushed(AppendUnlogged(events, live'), pc)
  /\ Reached(c, "none")
  /\ UNCHANGED <<cancelled, turns, steps, compactions, crashes, asked, invoked>>

\* _finish_call: the results of a batch are committed when all have returned.
Commit(c) ==
  /\ pc = "tools"
  /\ stage[c] = "done"
  /\ Quiet
  /\ Answer(c)

Reject(c) ==
  /\ pc = "tools"
  /\ Quiet
  /\ \/ stage[c] = "leftover"
     \/ stage[c] = "todo" /\ At("done") = {}
  /\ Answer(c)

-----------------------------------------------------------------------------
(* The ends of steps and turns.                                            *)

\* The StepEnd event, after a final answer, a retried response, or the last
\* tool result.
EndStep ==
  /\ \/ pc \in {"answer", "model"}
     \/ pc = "tools" /\ stage = NoStages
  /\ Flushed(Mark(AppendUnlogged(events, live), "step/end"), "boundary")
  /\ UNCHANGED <<live, cancelled, stage, turns, steps, compactions, crashes,
                 asked, invoked>>

\* What Agent writes for a DoneEvent, and in its finalizer, for the messages
\* that are left in memory.
Closed(msgs) ==
  LET persisted == AppendUnlogged(events, msgs)
  IN  Mark(IF InStep THEN Mark(persisted, "step/end") ELSE persisted, "turn/end")

\* Mutant of EndTurn: turn/end is left in the buffer.
EndUnflushed(msgs) ==
  /\ live' = msgs
  /\ Buffered(Closed(msgs))
  /\ pc' = "idle"
  /\ stage' = NoStages
  /\ UNCHANGED <<cancelled, turns, steps, compactions, crashes, asked, invoked>>

EndTurn(msgs) ==
  /\ live' = msgs
  /\ Flushed(Closed(msgs), "idle")
  /\ stage' = NoStages
  /\ UNCHANGED <<cancelled, turns, steps, compactions, crashes, asked, invoked>>

\* A DoneEvent between two steps: the answer is final, the steps are used up,
\* or the run is cancelled there.
Done ==
  /\ pc = "boundary"
  /\ steps > 0 \/ cancelled
  /\ EndTurn(live)

\* A DoneEvent inside a step: cancelled, or a fatal error of the stream or of
\* the response.  From the provider call on, the incomplete response goes away.
StopInStep ==
  /\ pc \in {"opened", "request", "model", "answer", "tools"}
  /\ Quiet /\ At("done") = {}
  /\ pc = "tools" => cancelled \/ ~IsTool(live, Len(live))
  /\ EndTurn(IF pc \in {"opened", "request"} THEN live ELSE Cleaned(live))

\* The finalizer of run_events: the generator is closed, or something raised.
Abort == InTurn /\ EndTurn(live)

RequestCancel ==
  /\ InTurn
  /\ ~cancelled
  /\ cancelled' = TRUE
  /\ UNCHANGED <<events, durable, live, pc, stage, counters, asked, invoked>>

-----------------------------------------------------------------------------
(* Crash and recovery.                                                     *)

\* The process is gone and its log keeps n records, all that a reader finds.
Gone(n) ==
  /\ pc # "down"
  /\ crashes < MaxCrashes
  /\ crashes' = crashes + 1
  /\ events' = SubSeq(events, 1, n)
  /\ durable' = n
  /\ live' = <<>>
  /\ pc' = "down"
  /\ cancelled' = FALSE
  /\ stage' = NoStages
  /\ UNCHANGED <<turns, steps, compactions, failures, asked, invoked>>

\* A crash.  What was flushed is there; of the rest, all that was
\* still in the buffer is lost or all of it had just been handed to the
\* system, and with TornWrites any part of it may have been.
Crash ==
  \E n \in durable..Len(events) :
    /\ TornWrites \/ n \in {durable, Len(events)}
    /\ Gone(n)

\* Mutant of Resume: a log with pending calls is refused.
ResumeQuiet ==
  /\ pc = "down"
  /\ PendingCalls(events) = {}
  /\ Flushed(PreparedResume(events, <<>>), "idle")
  /\ live' = Surface(events')
  /\ UNCHANGED <<cancelled, stage, turns, steps, compactions, crashes, asked, invoked>>

\* open, prepare_resume and the projection that the next Agent starts from.
Resume ==
  /\ pc = "down"
  /\ \E order \in SetToSeqs(PendingCalls(events)) :
       Flushed(PreparedResume(events, order), "idle")
  /\ live' = Surface(events')
  /\ UNCHANGED <<cancelled, stage, turns, steps, compactions, crashes, asked, invoked>>

-----------------------------------------------------------------------------
ToolStep ==
  \/ FlushCalls
  \/ \E c \in Calls :
       \/ RecordSerial(c) \/ RecordParallel(c) \/ Reject(c)
       \/ Invoke(c) \/ Skip(c) \/ Return(c) \/ Commit(c)

LoopStep ==
  \/ EnterLoop \/ BeginStep \/ CommitSurface \/ SendRequest
  \/ EndStep \/ Done \/ StopInStep
  \/ \E i \in DOMAIN live : Heal(i) \/ Compact(i)
  \/ \E S \in SUBSET Calls : Respond(S)

Next ==
  \/ AddUserMessage \/ StartTurn \/ LoopStep \/ ToolStep
  \/ RequestCancel \/ Abort
  \/ Crash \/ Resume

Spec == Init /\ [][Next]_vars

\* The event loop runs the task that is ready, the provider and the tools
\* return (both have timeouts), and the user reopens the session.
Fairness == WF_vars(LoopStep \/ ToolStep) /\ WF_vars(Resume)

FairSpec == Spec /\ Fairness

-----------------------------------------------------------------------------
(* Properties.                                                             *)

TypeOK ==
  /\ events \in Seq(Record)
  /\ durable \in 0..Len(events)
  /\ live \in Seq(Message)
  /\ pc \in Places
  /\ cancelled \in BOOLEAN
  /\ stage \in [Calls -> Stages]
  /\ turns \in 0..MaxTurns /\ steps \in 0..MaxSteps
  /\ compactions \in 0..MaxCompactions
  /\ crashes \in 0..MaxCrashes /\ failures \in 0..MaxFailures
  /\ asked \subseteq Calls /\ invoked \subseteq Calls

DurableLog == SubSeq(events, 1, durable)
Dispatched(c) == \E i \in 1..durable : Dispatches(events[i], c)

\* A tool is entered only when the record of its call is on the disk, and no
\* crash takes that record away again (record_call and flush_calls before
\* invoke_serial and invoke_parallel).
WriteAhead == \A c \in invoked : Dispatched(c)

\* What makes WriteAhead inductive: a call that is ready to be entered has its
\* record on the disk, or, while the batch is being recorded, in the buffer.
ReadyRecorded ==
  \A c \in At("ready") :
    /\ pc = "tools" => Dispatched(c)
    /\ pc = "batch" => \E i \in 1..Len(events) : Dispatches(events[i], c)

IInv == TypeOK /\ WriteAhead /\ ReadyRecorded

Says(c, r) == \E i \in DOMAIN events : /\ Answers(events[i], c)
                                       /\ events[i].msg.result = r

\* A call that the log declares not started, hence free to be asked for again,
\* has no dispatch record: nothing can have been done on its behalf.
HonestNotStarted ==
  \A c \in Calls : Says(c, "not_started") => c \notin invoked /\ ~Dispatched(c)

\* What the provider is sent obeys its protocol, is all on the disk, and is
\* what a restart would send.
RequestWellFormed ==
  pc = "model" => /\ Paired(live)
                  /\ live = ReplayedSurface(events)
                  /\ durable = Len(events)

\* Between turns everything is on the disk: no turn is open, and a process
\* that reopens the log continues from the messages this one has in memory.
IdleIsDurable ==
  pc \in {"idle", "prompted"} => /\ ~OpenTurn(events)
                                 /\ durable = Len(events)
                                 /\ live = Surface(events)

\* What has been flushed stays as it is, through appends, compactions, repairs
\* and crashes: the log is append-only.
DurableNeverLost == [][IsPrefix(DurableLog, DurableLog')]_vars

\* The log implements the contract that the rest of the system relies on.
Contract == INSTANCE DispatchContract WITH
  recorded <- {c \in Calls : Dispatched(c)},
  denied   <- {c \in Calls : \E i \in 1..durable :
                 Answers(events[i], c) /\ events[i].msg.result = "not_started"}

ImplementsContract == Contract!Spec

\* A run that is not killed and whose log does not fail ends its turn.
TurnEnds == InTurn ~> pc \in {"idle", "down", "broken"}

\* After a crash the session can be prompted again, unless its log fails.
Recovers == pc = "down" ~> pc \in {"idle", "broken"}
=============================================================================
