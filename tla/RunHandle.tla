----------------------------- MODULE RunHandle -----------------------------
(***************************************************************************)
(* One protocol-facing run: AgentRunHandle (agent_run.py) with its channel *)
(* and its control gate.  The runner task drives the agent's events and    *)
(* publishes them; a side publisher is the permission prompt of a sub-agent *)
(* that runs in a task of its own, through handle.publish; the consumer    *)
(* reads the events, or is the private drain of a result-only run; the     *)
(* host pauses, resumes, cancels, closes, and asks for the result.         *)
(*                                                                         *)
(* An await is where another task may step in: one action is what a task   *)
(* does between two awaits.                                                *)
(*                                                                         *)
(* Bounds (in guards): MaxProduced events of the run, MaxPrompts side      *)
(* events, MaxPauses pauses.                                               *)
(***************************************************************************)
EXTENDS RunControl, RunChannel

CONSTANTS MaxProduced, MaxPrompts, MaxPauses

ASSUME HandleBounds == {MaxProduced, MaxPrompts, MaxPauses} \subseteq Nat

VARIABLES
  runner,       \* where _run is
  checked,      \* the loop has passed a checkpoint since its last event
  raised,       \* the exception that _run carries out of its loop
  killed,       \* the runner's task.cancel() is not delivered yet
  deliveryError,\* _delivery_error is set
  terminal,     \* _collector.result, without a DoneEvent "none"
  settled,      \* what _result_future holds
  mode,         \* who consumes: "nobody", "events" or "drain"
  reader,       \* where the consumer is
  closing,      \* an aclose() waits for the runner
  seen,         \* history: the number of the last envelope that was consumed,
  verdictSeen,  \* and the verdict that was among them, if any
  produced, prompts, pauses

handle == <<runner, checked, raised, killed, deliveryError, terminal, settled,
            mode, reader, closing, seen, verdictSeen, produced, prompts, pauses>>
vars == <<control, channel, handle>>

Runners == {
  "created",  \* the task has not taken its first step
  "events",   \* in the agent's generator: a provider, a tool, a hook
  "gate",     \* in checkpoint(), waiting for the gate
  "publish",  \* in publish(), waiting for capacity
  "cleanup",  \* waiting for the generator's aclose()
  "done" }

Init ==
  /\ ControlInit /\ ChannelInit
  /\ runner = "created" /\ checked = FALSE
  /\ raised = "none" /\ killed = FALSE
  /\ deliveryError = FALSE
  /\ terminal = "none" /\ settled = "none"
  /\ mode = "nobody" /\ reader = "away" /\ verdictSeen = "none"
  /\ closing = FALSE
  /\ seen = 0 /\ produced = 0 /\ prompts = 0 /\ pauses = 0

Active == runner # "done"

-----------------------------------------------------------------------------
(* The runner.                                                             *)

Start ==
  /\ runner = "created" /\ ~killed
  /\ runner' = "events"
  /\ UNCHANGED <<checked, control, channel, raised, killed, deliveryError, terminal,
                 settled, mode, reader, closing, seen, verdictSeen, produced, prompts,
                 pauses>>

\* The loop's run_checkpoint(), at its start and after each wake-up.
Checkpoint ==
  /\ ~killed
  /\ \/ runner = "events" /\ ~checked /\ terminal = "none"
     \/ runner = "gate" /\ gateWoken
  /\ \/ Pauses /\ runner' = "gate" /\ UNCHANGED checked
     \/ Passes /\ runner' = "events" /\ checked' = TRUE
     \/ Refuses /\ runner' = "events" /\ checked' = TRUE
  /\ UNCHANGED <<channel, raised, killed, deliveryError, terminal, settled, mode,
                 reader, closing, seen, verdictSeen, produced, prompts, pauses>>

\* The event is published and collected, with the verdict of its stop_reason;
\* the loop goes on.
Collected(verdict) ==
  /\ terminal' = IF verdict = "none" THEN terminal ELSE verdict
  /\ runner' = "events"
  /\ UNCHANGED raised

Leaves(exception) == runner' = "cleanup" /\ raised' = exception /\ UNCHANGED terminal

\* The generator yields an event.  In a cancelled run it may go on for a while,
\* and its DoneEvent may have any verdict: the run may have been about to end,
\* and a session can be cancelled without the control of its run.  The loop's
\* own check of _delivery_error never comes first: handle.publish sets it and
\* cancels the runner's task in one step.
Yield(size, verdict) ==
  /\ runner = "events" /\ ~killed /\ terminal = "none"
  /\ verdict = "none" => produced < MaxProduced
  /\ checked' = FALSE
  /\ produced' = IF verdict = "none" THEN produced + 1 ELSE produced
  /\ \/ PutAtOnce("runner", size, verdict) /\ Collected(verdict)
     \/ /\ Sleep("runner", size, verdict)
        /\ runner' = "publish" /\ UNCHANGED <<raised, terminal>>
     \/ Refused(size) /\ Leaves("delivery")
     \/ InterruptedAtOnce(size) /\ Leaves("cancelled")
  /\ UNCHANGED <<control, killed, deliveryError, settled, mode, reader, closing,
                 seen, verdictSeen, prompts, pauses>>

\* The runner goes on in publish(), or is interrupted there.  The channel is not
\* closed yet: only the end of _run closes it.
Published ==
  /\ runner = "publish" /\ ~killed
  /\ \/ PutLate("runner") /\ Collected(pending["runner"].verdict)
     \/ SleepAgain("runner") /\ UNCHANGED <<runner, raised, terminal>>
     \/ Awake("runner") /\ interrupted /\ LeaveWait("runner") /\ Leaves("cancelled")
  /\ UNCHANGED <<checked, control, killed, deliveryError, settled, mode, reader,
                 closing, seen, verdictSeen, produced, prompts, pauses>>

\* congestion_timeout_seconds is over.
TimesOut ==
  /\ runner = "publish" /\ ~killed
  /\ LeaveWait("runner")
  /\ Leaves("delivery")
  /\ UNCHANGED <<checked, control, killed, deliveryError, settled, mode, reader,
                 closing, seen, verdictSeen, produced, prompts, pauses>>

\* The generator ends, with a DoneEvent or without one, or it raises.
Exhausted(exception) ==
  /\ runner = "events" /\ ~killed
  /\ Leaves(exception)
  /\ UNCHANGED <<checked, control, channel, killed, deliveryError, settled, mode,
                 reader, closing, seen, verdictSeen, produced, prompts, pauses>>

\* A CancelledError is delivered where the runner waits; a task that has not
\* started yet is just gone.
Killed ==
  /\ killed
  /\ killed' = FALSE
  /\ \/ runner = "created" /\ runner' = "done" /\ UNCHANGED <<raised, terminal, channel>>
     \/ runner \in {"events", "gate"} /\ Leaves("cancelled") /\ UNCHANGED channel
     \/ runner = "publish" /\ LeaveWait("runner") /\ Leaves("cancelled")
     \/ runner = "cleanup" /\ Leaves("cancelled") /\ UNCHANGED channel
  /\ UNCHANGED <<checked, control, deliveryError, settled, mode, reader, closing,
                 seen, verdictSeen, produced, prompts, pauses>>

\* Mutant of Result: a cancellation during the cleanup replaces the verdictSeen.
ResultReplaced(exception) ==
  IF exception = "none" THEN IF terminal = "none" THEN "failed" ELSE terminal
  ELSE IF exception = "cancelled" THEN "cancelled" ELSE "failed"

\* The result that _run settles on.
Result(exception) ==
  IF exception = "none" \/ (exception = "cancelled" /\ terminal # "none")
  THEN IF terminal = "none" THEN "failed" ELSE terminal
  ELSE IF exception = "cancelled" THEN "cancelled" ELSE "failed"

\* The generator is closed, which takes the side publisher with it and may
\* raise; _run settles the result and closes the channel.
Finish ==
  /\ runner = "cleanup" /\ ~killed
  /\ \E last \in {raised, "error"} :
       LET exception == IF deliveryError /\ last # "none" THEN "delivery" ELSE last
       IN  /\ settled' = IF settled = "none" THEN Result(exception) ELSE settled
           /\ terminal' = Result(exception)
  /\ runner' = "done"
  /\ pending' = [pending EXCEPT !["side"] = Nothing]
  /\ CloseChannel
  /\ UNCHANGED <<checked, control, queue, bytes, sequence, interrupted, raised, killed,
                 deliveryError, mode, reader, closing, seen, verdictSeen, produced,
                 prompts, pauses>>

-----------------------------------------------------------------------------
(* A permission prompt of a sub-agent that runs beside the runner.         *)

SideGoesOn == UNCHANGED <<deliveryError, killed, control>>

\* handle.publish after a delivery error: the run is cancelled and killed.
SideFails ==
  /\ deliveryError' = TRUE
  /\ CancelControl
  /\ killed' = Active

Prompt(size) ==
  /\ "side" \notin Waiting /\ runner \in {"events", "publish"} /\ terminal = "none"
  /\ prompts < MaxPrompts
  /\ prompts' = prompts + 1
  /\ \/ PutAtOnce("side", size, "none") /\ SideGoesOn
     \/ Sleep("side", size, "none") /\ SideGoesOn
     \/ Refused(size) /\ SideFails
     \/ InterruptedAtOnce(size) /\ SideGoesOn
  /\ UNCHANGED <<checked, runner, raised, terminal, settled, mode, reader, closing,
                 seen, verdictSeen, produced, pauses>>

SidePublished ==
  /\ \/ PutLate("side") /\ SideGoesOn
     \/ SleepAgain("side") /\ SideGoesOn
     \/ Awake("side") /\ interrupted /\ LeaveWait("side") /\ SideGoesOn
     \/ (Awake("side") => ~interrupted) /\ LeaveWait("side") /\ SideFails
  /\ UNCHANGED <<checked, runner, raised, terminal, settled, mode, reader, closing,
                 seen, verdictSeen, produced, prompts, pauses>>

-----------------------------------------------------------------------------
(* The consumer: "away" between two envelopes, "get" in get(), "ended"     *)
(* after END or when it has closed the handle.                             *)

Reads ==
  /\ \/ /\ Pop /\ reader' = "away"
        /\ seen' = Head(queue).n
        /\ verdictSeen' = IF Head(queue).verdict = "none" THEN verdictSeen ELSE Head(queue).verdict
     \/ AtEnd /\ reader' = "ended" /\ UNCHANGED <<seen, verdictSeen>>
     \/ WaitFor("reader") /\ reader' = "get" /\ UNCHANGED <<seen, verdictSeen>>
  /\ UNCHANGED <<checked, control, runner, raised, killed, deliveryError, terminal,
                 settled, mode, closing, produced, prompts, pauses>>

AskNext == mode # "nobody" /\ reader = "away" /\ Reads
Woken   == reader = "get" /\ "reader" \notin asleep /\ Reads

\* events() and result() choose the consumer, once.
Consume(m) ==
  /\ mode = "nobody"
  /\ mode' = m
  /\ UNCHANGED <<checked, control, channel, runner, raised, killed, deliveryError,
                 terminal, settled, reader, closing, seen, verdictSeen, produced,
                 prompts, pauses>>

-----------------------------------------------------------------------------
(* The host.                                                               *)

Unhandled == Active /\ terminal = "none"   \* send() takes commands

Pause ==
  /\ Unhandled
  /\ pauses < MaxPauses
  /\ pauses' = pauses + 1
  /\ RequestPause
  /\ UNCHANGED <<checked, channel, runner, raised, killed, deliveryError, terminal,
                 settled, mode, reader, closing, seen, verdictSeen, produced, prompts>>

Resume == Unhandled /\ RequestResume /\ UNCHANGED <<channel, handle>>

\* request_cancel, by a command or through the session.
Cancel ==
  /\ Active
  /\ Interrupt
  /\ CancelControl
  /\ UNCHANGED <<queue, bytes, sequence, closed, pending, handle>>

\* aclose(): by the host, or by a consumer of the events that stops early.
Close ==
  /\ ~closing /\ settled = "none"
  /\ closing' = TRUE
  /\ reader' \in IF mode = "events" /\ reader = "away" THEN {"away", "ended"} ELSE {reader}
  /\ Interrupt
  /\ killed' = Active
  /\ UNCHANGED <<checked, control, queue, bytes, sequence, closed, pending, runner, raised,
                 deliveryError, terminal, settled, mode, seen, verdictSeen, produced,
                 prompts, pauses>>

\* aclose() after the runner: a task that was cancelled before its first step
\* has settled nothing.
CloseEnds ==
  /\ closing /\ ~Active
  /\ closing' = FALSE
  /\ IF settled = "none"
     THEN terminal' = "cancelled" /\ settled' = "cancelled" /\ CloseChannel
     ELSE UNCHANGED <<terminal, settled, closed, asleep>>
  /\ UNCHANGED <<checked, control, queue, bytes, sequence, interrupted, pending, runner,
                 raised, killed, deliveryError, mode, reader, seen, verdictSeen,
                 produced, prompts, pauses>>

-----------------------------------------------------------------------------
RunnerStep ==
  \/ Start \/ Checkpoint \/ Published \/ Killed \/ Finish
  \/ \E size \in Sizes, verdict \in Verdicts \cup {"none"} : Yield(size, verdict)
  \/ \E exception \in {"none", "error"} : Exhausted(exception)

ConsumerStep == AskNext \/ Woken \/ \E m \in {"events", "drain"} : Consume(m)
SideStep     == SidePublished \/ \E size \in Sizes : Prompt(size)
HostStep     == Pause \/ Resume \/ Cancel \/ Close \/ CloseEnds

Next == RunnerStep \/ TimesOut \/ SideStep \/ ConsumerStep \/ HostStep

Spec == Init /\ [][Next]_vars

\* The event loop runs every task that is ready, timers fire, and the private
\* drain always asks for the next event.  Nothing makes the host resume a run,
\* or a consumer of the events ask again.
Fairness ==
  /\ WF_vars(RunnerStep) /\ WF_vars(TimesOut) /\ WF_vars(SidePublished)
  /\ WF_vars(Woken) /\ WF_vars(mode = "drain" /\ AskNext)
  /\ WF_vars(CloseEnds)

FairSpec == Spec /\ Fairness

-----------------------------------------------------------------------------
(* Properties.                                                             *)

TypeOK ==
  /\ ControlType
  /\ queue \in Seq(Envelope) /\ sequence \in Nat
  /\ bytes = FoldLeft(LAMBDA total, e : total + e.size, 0, queue)
  /\ {closed, interrupted} \subseteq BOOLEAN
  /\ pending \in [Publishers -> Envelope \cup {Nothing}]
  /\ asleep \subseteq Waiting \cup {"reader"}
  /\ "runner" \in Waiting <=> runner = "publish"
  /\ runner \in Runners
  /\ raised \in {"none", "cancelled", "delivery", "error"}
  /\ {killed, deliveryError, closing} \subseteq BOOLEAN
  /\ {terminal, settled, verdictSeen} \subseteq Verdicts \cup {"none"}
  /\ mode \in {"nobody", "events", "drain"} /\ reader \in {"away", "get", "ended"}

\* The consumer gets every published envelope once, in the order of the
\* sequence numbers, though two tasks publish and a publisher computes its
\* number before it waits for capacity; and the channel never holds more than
\* its options allow.
InOrder ==
  /\ \A k \in DOMAIN queue : queue[k].n = seen + k
  /\ sequence = seen + Len(queue)
  /\ Len(queue) <= MaxEvents /\ bytes <= MaxBytes

\* A host that sees "paused" has a run that stands still at a checkpoint; the
\* control state and the gate agree.
PausedStandsStill ==
  /\ ControlConsistent
  /\ state = "paused" => runner \in {"gate", "cleanup", "done"}

\* The DoneEvent with this verdict has been published.
Out(verdict) == verdictSeen = verdict \/ \E k \in DOMAIN queue : queue[k].verdict = verdict

\* A result says that the run has completed, or waits for its user, only when
\* the DoneEvent that says so has been published; and the result of a run whose
\* DoneEvent is out is what the event says, or a failure of the run.
DoneStands ==
  /\ settled \in {"completed", "waiting_for_user"} => Out(settled)
  /\ \A verdict \in Verdicts : Out(verdict) => terminal \in {verdict, "failed"}

\* The result is settled once, and only an error of the run takes back what its
\* DoneEvent said: a cancelled cleanup does not (AgentRunHandle._run).
SettledOnce ==
  [][/\ DoneStands'
     /\ settled # "none" => settled' = settled
     /\ terminal # "none" => terminal' \in {terminal, "failed"}]_vars

\* A run ends by itself with a result, and whoever waits for an event gets it
\* or the end of the stream, whatever the consumer does and though publishers
\* and reader share one event and a resumed gate is set and cleared; unless the
\* host leaves the run paused, which a cancellation or a close takes back.
RunEnds ==
  <>[](\/ state = "paused" /\ ~isCancelled /\ ~interrupted
       \/ runner = "done" /\ settled # "none" /\ reader # "get")
=============================================================================
