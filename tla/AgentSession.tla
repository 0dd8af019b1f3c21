---------------------------- MODULE AgentSession ----------------------------
(***************************************************************************)
(* The ownership of a session's run (agent_session.py, agent_service.py):  *)
(* AgentService.start reserves the session and starts a runner, which      *)
(* drives the session's generator run_events; aclose() may come at any     *)
(* time, from the host and from the runtime that owns the session's        *)
(* plugins (plugins/runtime.py), and must end the run wherever it is: not  *)
(* begun, driven by the runner, or suspended at a yield, when aclose()     *)
(* closes the stream itself and the runner that comes back joins it.       *)
(*                                                                         *)
(* One action is what a task does between two awaits.  A run is known by   *)
(* where its runner is; the agent's stream and the plugins of the run      *)
(* (PluginHost) by whether they are open, or were closed.                  *)
(*                                                                         *)
(* Bounds (in guards): MaxRuns runs are started, MaxFaults closes raise    *)
(* or are interrupted, or handles are closed by their consumers.           *)
(***************************************************************************)
EXTENDS Naturals, FiniteSets

CONSTANTS
  Starters,    \* callers of AgentService.start
  Closers,     \* callers of aclose: "host" of the session's, "runtime" of the runtime's
  OwnsRuntime, \* the session was opened with a runtime of its own
  MaxRuns, MaxFaults

ASSUME SessionAssumption ==
  /\ Closers \subseteq {"host", "runtime"}
  /\ OwnsRuntime \in BOOLEAN
  /\ {MaxRuns, MaxFaults} \subseteq Nat

VARIABLES
  stage,      \* where the runner of the current handle is
  killed,     \* its task.cancel() is not delivered yet
  runTask,    \* _active_run_task is set
  driving,    \* _run_driving
  finished,   \* _active_run_finished is resolved
  external,   \* _external_run_cleanup
  stream,     \* the agent's generator
  held,       \* PluginSession._run is set
  session,    \* "open", "closing", "closed"
  released,   \* the plugin session is closed
  runtime,    \* the same of the PluginRuntime
  lock,       \* who holds AgentSession._close_lock
  rlock,      \* who holds PluginRuntime._close_lock
  closer,     \* where each aclose() is
  failing,    \* the closers that have an error to raise
  preparing,  \* the starter in add_user_input, if any
  runs, faults

run   == <<stage, killed, runTask, driving, finished, external, stream>>
close == <<session, released, runtime, lock, rlock, closer, failing>>
vars  == <<run, held, close, preparing, runs, faults>>

Stages == {
  "none", "created",
  "before",          \* the memory is refreshed, before run_events
  "opening",         \* in open_run()
  "driving",         \* in the agent's stream
  "yielded",         \* suspended at the yield, while the event is published
  "joining",         \* waiting for the close that aclose() has begun
  "events", "plugins", \* closing the stream, then the run's plugins
  "done" }

Init ==
  /\ stage = "none" /\ killed = FALSE
  /\ runTask = FALSE /\ driving = FALSE /\ finished = FALSE /\ external = "none"
  /\ stream = "none" /\ held = FALSE
  /\ session = "open" /\ released = FALSE /\ runtime = "open"
  /\ lock = "free" /\ rlock = "free"
  /\ closer = [c \in Closers |-> "away"] /\ failing = {}
  /\ preparing = {} /\ runs = 0 /\ faults = 0

Active == stage \notin {"none", "done"}     \* AgentRunHandle.is_active

Fault == faults < MaxFaults /\ faults' = faults + 1
Fine  == UNCHANGED faults

-----------------------------------------------------------------------------
(* AgentService.start.                                                     *)

\* Mutant of Busy: a start that prepares its input is not seen.
BusyWhenRunning == session # "open" \/ Active \/ runTask

Busy == session # "open" \/ Active \/ runTask \/ preparing # {}

\* The new handle replaces the old one, and its runner is created.
NewRun ==
  /\ runs' = runs + 1
  /\ stage' = "created" /\ killed' = FALSE
  /\ UNCHANGED <<runTask, driving, finished, external, stream>>

Start ==
  /\ ~Busy /\ runs < MaxRuns
  /\ NewRun
  /\ UNCHANGED <<held, close, preparing, faults>>

\* With user_input, the start waits for add_user_input.
Prepare(s) ==
  /\ ~Busy /\ s \notin preparing /\ runs < MaxRuns
  /\ preparing' = preparing \cup {s}
  /\ UNCHANGED <<run, held, close, runs, faults>>

\* It does not look at the session again.
StartPrepared(s) ==
  /\ s \in preparing
  /\ preparing' = preparing \ {s}
  /\ NewRun
  /\ UNCHANGED <<held, close, faults>>

InputRefused(s) ==
  /\ s \in preparing
  /\ preparing' = preparing \ {s}
  /\ UNCHANGED <<run, held, close, runs, faults>>

-----------------------------------------------------------------------------
(* The runner, in run_events.                                              *)

\* The last part of run_events' finally.
EndRun ==
  /\ stage' = "done"
  /\ runTask' = FALSE /\ driving' = FALSE /\ finished' = TRUE

\* Mutant of Leave: the runner closes the stream, whoever else does.
LeaveAlone ==
  IF stream = "open" THEN stage' = "events" /\ runTask' = TRUE /\ driving' = TRUE /\ UNCHANGED finished
  ELSE EndRun

\* The first part: join the close that aclose() has begun, or close.
Leave ==
  \/ external = "done" /\ EndRun
  \/ external = "none" /\ stream = "none" /\ EndRun
  \/ /\ \/ external = "pending" /\ stage' = "joining"
        \/ external = "none" /\ stream = "open" /\ stage' = "events"
     /\ runTask' = TRUE /\ driving' = TRUE /\ UNCHANGED finished

Begin ==
  /\ stage = "created" /\ ~killed
  /\ stage' = "before"
  /\ UNCHANGED <<killed, runTask, driving, finished, external, stream, held, close, preparing, runs, faults>>

\* Mutant of Refuses: only a session that has been closed refuses a run.
RefusesWhenClosed == session = "closed"

Refuses == session # "open" \/ runTask

EnterRunEvents ==
  /\ stage = "before" /\ ~killed
  /\ IF Refuses
       THEN stage' = "done" /\ UNCHANGED <<runTask, driving, finished, external, stream>>
       ELSE /\ stage' = "opening" /\ runTask' = TRUE /\ driving' = TRUE
            /\ finished' = FALSE /\ external' = "none" /\ stream' = "none"
  /\ UNCHANGED <<killed, held, close, preparing, runs, faults>>

\* A run whose disposer had raised is still held, and open_run refuses.
Opened ==
  /\ stage = "opening" /\ ~killed /\ ~held
  /\ held' = TRUE /\ stream' = "open" /\ stage' = "driving"
  /\ UNCHANGED <<killed, runTask, driving, finished, external, close, preparing, runs, faults>>

Stops ==
  /\ stage \in {"opening", "driving"} /\ ~killed
  /\ Leave
  /\ UNCHANGED <<killed, external, stream, held, close, preparing, runs, faults>>

Yields ==
  /\ stage = "driving" /\ ~killed
  /\ stage' = "yielded" /\ driving' = FALSE
  /\ UNCHANGED <<killed, runTask, finished, external, stream, held, close, preparing, runs, faults>>

\* The event is published, or could not be; a closing session stops the run.
Resumes ==
  /\ stage = "yielded" /\ ~killed
  /\ \/ session = "open" /\ stage' = "driving" /\ runTask' = TRUE /\ driving' = TRUE /\ UNCHANGED finished
     \/ Leave
  /\ UNCHANGED <<killed, external, stream, held, close, preparing, runs, faults>>

StreamEnds ==
  /\ stage = "events" /\ ~killed
  /\ stage' = "plugins" /\ stream' = "closed"
  /\ UNCHANGED <<killed, runTask, driving, finished, external, held, close, preparing, runs, faults>>

PluginsEnd ==
  /\ stage = "plugins" /\ ~killed
  /\ \/ held' = FALSE /\ Fine
     \/ UNCHANGED held /\ Fault
  /\ EndRun
  /\ UNCHANGED <<killed, external, stream, close, preparing, runs>>

Joined ==
  /\ stage = "joining" /\ ~killed /\ external = "done"
  /\ EndRun
  /\ UNCHANGED <<killed, external, stream, held, close, preparing, runs, faults>>

\* The cancellation is delivered where the runner waits.
Killed ==
  /\ killed /\ killed' = FALSE
  /\ \/ /\ stage \in {"created", "before"}
        /\ stage' = "done" /\ UNCHANGED <<runTask, driving, finished, stream>>
     \/ stage \in {"opening", "driving", "yielded"} /\ Leave /\ UNCHANGED stream
     \/ stage = "events" /\ stage' = "plugins" /\ stream' = "closed" /\ UNCHANGED <<runTask, driving, finished>>
     \/ stage \in {"plugins", "joining"} /\ EndRun /\ UNCHANGED stream
  /\ UNCHANGED <<external, held, close, preparing, runs, faults>>

\* The consumer of the handle closes it.
CloseHandle ==
  /\ Active /\ ~killed
  /\ Fault
  /\ killed' = TRUE
  /\ UNCHANGED <<stage, runTask, driving, finished, external, stream, held, close, preparing, runs>>

-----------------------------------------------------------------------------
(* aclose() of the session, by c.                                          *)

At(c, pc)   == closer' = [closer EXCEPT ![c] = pc]
Give(l, c)  == IF l = c THEN "free" ELSE l

\* c returns or raises, and leaves its locks.
Return(c) ==
  /\ At(c, "away")
  /\ lock' = Give(lock, c) /\ rlock' = Give(rlock, c)
  /\ failing' = failing \ {c}

\* Mutant of RuntimeIsMine: the runtime may be closing already.
RuntimeIsOwned == OwnsRuntime

RuntimeIsMine == OwnsRuntime /\ runtime = "open"

\* The plugins are released: what is left is a runtime of its own.
AfterPlugins(c) ==
  IF RuntimeIsMine
  THEN At(c, "rlock") /\ session' = "closing" /\ lock' = c
  ELSE At(c, IF c = "runtime" THEN "process" ELSE "away") /\ session' = "closed" /\ lock' = "free"

\* PluginSession.aclose: the run it still holds, then dispose_session.
ReleasePlugins(c) ==
  \/ released /\ AfterPlugins(c)
  \/ /\ ~released /\ At(c, IF held THEN "heldrun" ELSE "dispose")
     /\ session' = "closing" /\ lock' = c

Call(c) ==
  /\ closer[c] = "away"
  /\ At(c, IF c = "host" THEN "lock" ELSE "rlock")
  /\ UNCHANGED <<run, held, session, released, runtime, lock, rlock, failing, preparing, runs, faults>>

HasLock(c) == closer[c] = "lock" /\ lock = "free" /\ session # "closed"

\* Where aclose() finds the run: with its runner, but not in run_events ...
EndsHandle(c) ==
  /\ HasLock(c) /\ ~runTask /\ Active
  /\ killed' = TRUE
  /\ session' = "closing" /\ lock' = c /\ At(c, "handle")
  /\ UNCHANGED <<stage, runTask, driving, finished, external, stream, held, released, runtime, rlock,
                 failing, preparing, runs, faults>>

\* ... driven by the runner ...
EndsRun(c) ==
  /\ HasLock(c) /\ runTask /\ driving
  /\ killed' = TRUE
  /\ session' = "closing" /\ lock' = c /\ At(c, "finished")
  /\ UNCHANGED <<stage, runTask, driving, finished, external, stream, held, released, runtime, rlock,
                 failing, preparing, runs, faults>>

\* ... suspended at its yield ...
EndsStream(c) ==
  /\ HasLock(c) /\ runTask /\ ~driving
  /\ external' = "pending"
  /\ session' = "closing" /\ lock' = c /\ At(c, "events")
  /\ UNCHANGED <<stage, killed, runTask, driving, finished, stream, held, released, runtime, rlock,
                 failing, preparing, runs, faults>>

\* ... or nowhere, or it has just been ended.
RunIsOver(c) ==
  /\ \/ HasLock(c) /\ ~runTask /\ ~Active
     \/ closer[c] = "handle" /\ ~Active
     \/ closer[c] = "finished" /\ finished
  /\ ReleasePlugins(c)
  /\ UNCHANGED <<run, held, released, runtime, rlock, failing, preparing, runs, faults>>

ClosedAlready(c) ==
  /\ closer[c] = "lock" /\ lock = "free" /\ session = "closed"
  /\ At(c, IF c = "runtime" THEN "process" ELSE "away")
  /\ UNCHANGED <<run, held, session, released, runtime, lock, rlock, failing, preparing, runs, faults>>

\* aclose() closes the stream, and then the plugins of the run, itself.
ClosesStream(c) ==
  /\ closer[c] = "events"
  /\ stream' = "closed"
  /\ At(c, "plugins")
  /\ \/ Fine /\ UNCHANGED failing
     \/ Fault /\ failing' = failing \cup {c}
  /\ UNCHANGED <<stage, killed, runTask, driving, finished, external, held, session, released, runtime,
                 lock, rlock, preparing, runs>>

ClosesPlugins(c) ==
  /\ closer[c] = "plugins"
  /\ external' = "done" /\ runTask' = FALSE /\ driving' = FALSE /\ finished' = TRUE
  /\ \/ /\ Fine /\ held' = FALSE
        /\ IF c \in failing THEN Return(c) ELSE At(c, "dispose") /\ UNCHANGED <<lock, rlock, failing>>
     \/ Fault /\ UNCHANGED held /\ Return(c)
  /\ UNCHANGED <<stage, killed, stream, session, released, runtime, preparing, runs>>

ClosesHeldRun(c) ==
  /\ closer[c] = "heldrun"
  /\ \/ Fine /\ held' = FALSE /\ At(c, "dispose") /\ UNCHANGED <<lock, rlock, failing>>
     \/ Fault /\ UNCHANGED held /\ Return(c)
  /\ UNCHANGED <<run, session, released, runtime, preparing, runs>>

Disposes(c) ==
  /\ closer[c] = "dispose"
  /\ \/ /\ Fine /\ released' = TRUE
        /\ AfterPlugins(c) /\ UNCHANGED <<rlock, failing>>
     \/ Fault /\ Return(c) /\ UNCHANGED <<session, released>>
  /\ UNCHANGED <<run, held, runtime, preparing, runs>>

-----------------------------------------------------------------------------
(* aclose() of the runtime.                                                *)

\* It closes the session that it still knows, then the process plugins.
EnterRuntime(c) ==
  /\ closer[c] = "rlock" /\ rlock = "free"
  /\ IF runtime = "closed"
       THEN /\ session' = IF lock = c THEN "closed" ELSE session
            /\ Return(c) /\ UNCHANGED runtime
       ELSE /\ rlock' = c /\ runtime' = "closing"
            /\ At(c, IF released THEN "process" ELSE "lock")
            /\ UNCHANGED <<lock, session, failing>>
  /\ UNCHANGED <<run, held, released, preparing, runs, faults>>

\* host.close(); the session that owns its runtime is closed after it.
ClosesProcess(c) ==
  /\ closer[c] = "process"
  /\ \/ Fine /\ runtime' = "closed" /\ session' = IF lock = c THEN "closed" ELSE session
     \/ Fault /\ UNCHANGED <<runtime, session>>
  /\ Return(c)
  /\ UNCHANGED <<run, held, released, preparing, runs>>

\* The caller is cancelled where it waits for somebody else.
CancelCloser(c) ==
  /\ closer[c] \in {"lock", "rlock", "handle", "finished"}
  /\ Fault
  /\ Return(c)
  /\ killed' = (killed \/ (closer[c] = "handle" /\ Active))
  /\ UNCHANGED <<stage, runTask, driving, finished, external, stream, held, session, released, runtime,
                 preparing, runs>>

-----------------------------------------------------------------------------
RunnerStep == Begin \/ EnterRunEvents \/ Opened \/ Stops \/ Yields \/ Resumes
RunnerEnds == StreamEnds \/ PluginsEnd \/ Joined \/ Killed

CloserStep(c) ==
  \/ EndsHandle(c) \/ EndsRun(c) \/ EndsStream(c) \/ RunIsOver(c) \/ ClosedAlready(c)
  \/ ClosesStream(c) \/ ClosesPlugins(c) \/ ClosesHeldRun(c) \/ Disposes(c)
  \/ EnterRuntime(c) \/ ClosesProcess(c)

Next ==
  \/ Start \/ RunnerStep \/ RunnerEnds \/ CloseHandle
  \/ \E s \in Starters : Prepare(s) \/ StartPrepared(s) \/ InputRefused(s)
  \/ \E c \in Closers  : Call(c) \/ CloserStep(c) \/ CancelCloser(c)

Spec == Init /\ [][Next]_vars

\* The event loop runs every task that is ready, and the closes that plugins
\* and streams implement end.  Nothing makes a run end by itself, or anybody
\* call aclose().
Fairness == WF_vars(RunnerEnds) /\ \A c \in Closers : WF_vars(CloserStep(c))

FairSpec == Spec /\ Fairness

-----------------------------------------------------------------------------
(* Properties.                                                             *)

TypeOK ==
  /\ stage \in Stages /\ {killed, runTask, driving, finished, held, released} \subseteq BOOLEAN
  /\ external \in {"none", "pending", "done"} /\ stream \in {"none", "open", "closed"}
  /\ {session, runtime} \subseteq {"open", "closing", "closed"}
  /\ {lock, rlock} \subseteq Closers \cup {"free"}
  /\ failing \subseteq Closers /\ preparing \subseteq Starters
  /\ closer \in [Closers -> {"away", "lock", "rlock", "handle", "finished", "events", "plugins",
                             "heldrun", "dispose", "process"}]

\* The stream and the plugins of a run are closed by one task, and nobody
\* drives the stream meanwhile: the comment at agent_session.py:457.
ClosedByOne ==
  \A c \in Closers : closer[c] \in {"events", "plugins", "heldrun", "dispose"} =>
    stage \notin {"opening", "driving", "events", "plugins"}

\* When aclose() has returned nothing of a run is left, and none begins: not
\* even the run of a start() that was waiting for its input.
ClosedIsQuiet ==
  session = "closed" =>
    /\ stage \notin {"opening", "driving", "events", "plugins"}
    /\ stream # "open" /\ ~held /\ released

\* A handle is replaced only when its run is over, although start() does not
\* look again after it has waited for its input.
HandleStands == [][runs' # runs => ~Active]_vars

\* Every aclose() returns or raises, whatever the run does, and though the
\* session and its runtime close each other.
ClosersReturn == \A c \in Closers : closer[c] # "away" ~> closer[c] = "away"

\* A session that owns its runtime is closed only when the runtime is, or
\* somebody is at it: docs/AGENT_SESSION.md:99 promises that what was
\* interrupted remains for a subsequent aclose().
OwnedRuntimeCloses ==
  session = "closed" /\ OwnsRuntime => runtime = "closed" \/ \E c \in Closers : closer[c] # "away"

=============================================================================
