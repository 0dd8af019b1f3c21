------------------------- MODULE AgentSessionProofs -------------------------
(***************************************************************************)
(* What AgentSession promises for any callers of start(), any number of    *)
(* runs and any number of faults: a handle is not replaced under its run,  *)
(* the stream and the plugins of a run are closed by one task, and a       *)
(* session that has been closed is quiet.                                  *)
(*                                                                         *)
(* The invariant behind it says, of every place of the runner and of       *)
(* aclose(), what the flags between them (runTask, driving, finished,      *)
(* external) mean there.                                                   *)
(***************************************************************************)
EXTENDS AgentSession, TLAPS

-----------------------------------------------------------------------------
(* One start at a time.                                                    *)

\* Only one start() prepares its input, and no run is under way meanwhile.
OnePrepares ==
  /\ \A s, t \in preparing : s = t
  /\ preparing # {} => ~Active

-----------------------------------------------------------------------------
(* The runner.                                                             *)

\* Where the runner closes the stream and the plugins, or will do so.
Drives == {"opening", "driving", "events", "plugins"}

\* A task that is in run_events owns the run; finished is set by its end; a
\* run that is not driven is suspended at its yield, unless aclose() is done with it.
RunnerFlags ==
  /\ stage \in Drives => runTask /\ driving /\ external = "none"
  /\ stage = "yielded" /\ external # "done" => runTask /\ ~driving
  /\ stage = "joining" => external \in {"pending", "done"}
  /\ runTask => ~finished /\ stage \in Drives \cup {"yielded", "joining"}
  /\ runTask /\ ~driving => stage = "yielded" /\ external # "done"

\* An open stream belongs to the runner, or to the aclose() that closes it.
StreamOwned ==
  /\ stream = "open" => stage \in {"driving", "yielded", "joining", "events"} \/ external = "pending"
  /\ stage \in {"opening", "plugins"} \/ external = "done" => stream # "open"

-----------------------------------------------------------------------------
(* The closers.                                                            *)

\* Where a closer holds the lock of the session.
Inside == {"handle", "finished", "events", "plugins", "heldrun", "dispose"}

LockHeld ==
  /\ \A c \in Closers : closer[c] \in Inside => lock = c
  /\ \A c \in Closers : lock = c => session = "closing" /\ closer[c] \in Inside \cup {"rlock", "process"}

\* The close that a runner joins is under way, and only a closing session has one.
ExternalClose ==
  /\ external # "none" => session # "open"
  /\ external = "pending" => \E c \in Closers : closer[c] \in {"events", "plugins"}
  /\ \A c \in Closers :
       /\ closer[c] \in {"events", "plugins"} => external = "pending" /\ stage \notin Drives
       /\ closer[c] = "plugins" => stream # "open"

\* Nothing of the run is left, and none can begin.
Over ==
  /\ session # "open"
  /\ stage \notin Drives
  /\ stage \in {"yielded", "joining"} => external = "done"
  /\ external # "pending" /\ stream # "open"

\* From its release on, nothing of the session's run comes back.
ReleasedWhenOver ==
  /\ \A c \in Closers :
       /\ closer[c] \in {"heldrun", "dispose"} => Over
       /\ closer[c] = "dispose" => ~held
       /\ closer[c] = "finished" /\ finished => stage \notin Drives \cup {"yielded", "joining"}
       /\ closer[c] \in {"rlock", "process"} /\ lock = c => released
  /\ released => Over /\ ~held
  /\ session = "closed" => released

SessionInv ==
  /\ TypeOK /\ OnePrepares /\ RunnerFlags /\ StreamOwned
  /\ LockHeld /\ ExternalClose /\ ReleasedWhenOver

-----------------------------------------------------------------------------
LEMMA SessionInit == Init => SessionInv
  BY SessionAssumption
  DEF Init, SessionInv, TypeOK, Stages, OnePrepares, RunnerFlags, StreamOwned, LockHeld,
      ExternalClose, ReleasedWhenOver, Over, Active, Drives, Inside

\* The steps of AgentService.start.
LEMMA StartSteps ==
  ASSUME SessionInv, Start \/ \E s \in Starters : Prepare(s) \/ StartPrepared(s) \/ InputRefused(s)
  PROVE  SessionInv'
<1> USE SessionAssumption
    DEF SessionInv, TypeOK, Stages, OnePrepares, RunnerFlags, StreamOwned, LockHeld,
        ExternalClose, ReleasedWhenOver, Over, Active, Drives, Inside, run, close, NewRun, Busy
<1>1. CASE Start
  BY <1>1 DEF Start
<1>2. ASSUME NEW s \in Starters, Prepare(s) PROVE SessionInv'
  BY <1>2 DEF Prepare
<1>3. ASSUME NEW s \in Starters, StartPrepared(s) PROVE SessionInv'
  BY <1>3 DEF StartPrepared
<1>4. ASSUME NEW s \in Starters, InputRefused(s) PROVE SessionInv'
  BY <1>4 DEF InputRefused
<1> QED BY <1>1, <1>2, <1>3, <1>4

\* The steps of the runner, and of the consumer that closes its handle.
LEMMA RunnerSteps ==
  ASSUME SessionInv, RunnerStep \/ RunnerEnds \/ CloseHandle
  PROVE  SessionInv'
<1> USE SessionAssumption
    DEF SessionInv, TypeOK, Stages, OnePrepares, RunnerFlags, StreamOwned, LockHeld,
        ExternalClose, ReleasedWhenOver, Over, Active, Drives, Inside, run, close
<1>1. CASE Begin
  BY <1>1 DEF Begin
<1>2. CASE EnterRunEvents
  BY <1>2 DEF EnterRunEvents, Refuses
<1>3. CASE Opened
  BY <1>3 DEF Opened
<1>4. CASE Stops
  <2>1. TypeOK'
    BY <1>4 DEF Stops, Leave, EndRun
  <2>2. OnePrepares'
    BY <1>4 DEF Stops, Leave, EndRun
  <2>3. RunnerFlags'
    BY <1>4 DEF Stops, Leave, EndRun
  <2>4. StreamOwned'
    BY <1>4 DEF Stops, Leave, EndRun
  <2>5. LockHeld'
    BY <1>4 DEF Stops, Leave, EndRun
  <2>6. ExternalClose'
    BY <1>4 DEF Stops, Leave, EndRun
  <2>7. ReleasedWhenOver'
    BY <1>4 DEF Stops, Leave, EndRun
  <2> QED BY <2>1, <2>2, <2>3, <2>4, <2>5, <2>6, <2>7
<1>5. CASE Yields
  BY <1>5 DEF Yields
<1>6. CASE Resumes
  <2>1. TypeOK'
    BY <1>6 DEF Resumes, Leave, EndRun
  <2>2. OnePrepares'
    BY <1>6 DEF Resumes, Leave, EndRun
  <2>3. RunnerFlags'
    <3>1. CASE stage' = "driving"
      BY <1>6, <3>1 DEF Resumes, Leave, EndRun
    <3>2. CASE stage' = "done"
      BY <1>6, <3>2 DEF Resumes, Leave, EndRun
    <3>3. CASE stage' \in {"joining", "events"}
      BY <1>6, <3>3 DEF Resumes, Leave, EndRun
    <3> QED BY <1>6, <3>1, <3>2, <3>3 DEF Resumes, Leave, EndRun
  <2>4. StreamOwned'
    BY <1>6 DEF Resumes, Leave, EndRun
  <2>5. LockHeld'
    BY <1>6 DEF Resumes, Leave, EndRun
  <2>6. ExternalClose'
    BY <1>6 DEF Resumes, Leave, EndRun
  <2>7. ReleasedWhenOver'
    BY <1>6 DEF Resumes, Leave, EndRun
  <2> QED BY <2>1, <2>2, <2>3, <2>4, <2>5, <2>6, <2>7
<1>7. CASE StreamEnds
  BY <1>7 DEF StreamEnds
<1>8. CASE PluginsEnd
  BY <1>8 DEF PluginsEnd, EndRun, Fine, Fault
<1>9. CASE Joined
  BY <1>9 DEF Joined, EndRun
<1>10. CASE Killed
  <2>1. TypeOK'
    BY <1>10 DEF Killed, Leave, EndRun
  <2>2. OnePrepares'
    BY <1>10 DEF Killed, Leave, EndRun
  <2>3. RunnerFlags'
    BY <1>10 DEF Killed, Leave, EndRun
  <2>4. StreamOwned'
    BY <1>10 DEF Killed, Leave, EndRun
  <2>5. LockHeld'
    BY <1>10 DEF Killed, Leave, EndRun
  <2>6. ExternalClose'
    BY <1>10 DEF Killed, Leave, EndRun
  <2>7. ReleasedWhenOver'
    BY <1>10 DEF Killed, Leave, EndRun
  <2> QED BY <2>1, <2>2, <2>3, <2>4, <2>5, <2>6, <2>7
<1>11. CASE CloseHandle
  BY <1>11 DEF CloseHandle, Fault
<1> QED BY <1>1, <1>2, <1>3, <1>4, <1>5, <1>6, <1>7, <1>8, <1>9, <1>10, <1>11 DEF RunnerStep, RunnerEnds

\* The values, which need nothing but the values of before.
LEMMA CloserTypes ==
  ASSUME TypeOK, NEW c \in Closers,
         Disposes(c) \/ ClosesHeldRun(c) \/ EnterRuntime(c) \/ ClosesProcess(c) \/ CancelCloser(c)
  PROVE  TypeOK'
<1> USE SessionAssumption DEF TypeOK, run, close, At, Give, Return, Fine, Fault
<1>1. CASE Disposes(c)
  <2>1. lock' \in Closers \cup {"free"} /\ rlock' \in Closers \cup {"free"} /\ failing' \subseteq Closers
    BY <1>1 DEF Disposes, AfterPlugins
  <2>2. \E pc \in {"away", "rlock", "process"} : closer' = [closer EXCEPT ![c] = pc]
    BY <1>1 DEF Disposes, AfterPlugins
  <2>3. released' \in BOOLEAN /\ session' \in {"open", "closing", "closed"}
    BY <1>1 DEF Disposes, AfterPlugins
  <2>4. UNCHANGED <<run, held, runtime, preparing>>
    BY <1>1 DEF Disposes
  <2> QED BY <2>1, <2>2, <2>3, <2>4
<1>2. CASE ClosesHeldRun(c)
  <2>1. lock' \in Closers \cup {"free"} /\ rlock' \in Closers \cup {"free"} /\ failing' \subseteq Closers
    BY <1>2 DEF ClosesHeldRun
  <2>2. closer' = [closer EXCEPT ![c] = "away"] \/ closer' = [closer EXCEPT ![c] = "dispose"]
    BY <1>2 DEF ClosesHeldRun
  <2>3. held' \in BOOLEAN /\ UNCHANGED <<run, session, released, runtime, preparing>>
    BY <1>2 DEF ClosesHeldRun
  <2> QED BY <2>1, <2>2, <2>3
<1>3. CASE EnterRuntime(c)
  BY <1>3 DEF EnterRuntime
<1>4. CASE ClosesProcess(c)
  BY <1>4 DEF ClosesProcess
<1>5. CASE CancelCloser(c)
  BY <1>5 DEF CancelCloser, Active
<1> QED BY <1>1, <1>2, <1>3, <1>4, <1>5

\* The steps of aclose(), of the session and of the runtime.
LEMMA CloserSteps ==
  ASSUME SessionInv, NEW c \in Closers, Call(c) \/ CloserStep(c) \/ CancelCloser(c)
  PROVE  SessionInv'
<1> USE SessionAssumption
    DEF SessionInv, TypeOK, Stages, OnePrepares, RunnerFlags, StreamOwned, LockHeld,
        ExternalClose, ReleasedWhenOver, Over, Active, Drives, Inside, run, close,
        At, Give, Return, Fine, Fault, HasLock, AfterPlugins, ReleasePlugins, RuntimeIsMine
<1>1. CASE Call(c)
  BY <1>1 DEF Call
<1>2. CASE EndsHandle(c)
  BY <1>2 DEF EndsHandle
<1>3. CASE EndsRun(c)
  BY <1>3 DEF EndsRun
<1>4. CASE EndsStream(c)
  BY <1>4 DEF EndsStream
<1>5. CASE RunIsOver(c)
  BY <1>5 DEF RunIsOver
<1>6. CASE ClosedAlready(c)
  BY <1>6 DEF ClosedAlready
<1>7. CASE ClosesStream(c)
  BY <1>7 DEF ClosesStream
<1>8. CASE ClosesPlugins(c)
  <2>1. TypeOK'
    <3>1. lock' \in Closers \cup {"free"} /\ rlock' \in Closers \cup {"free"} /\ failing' \subseteq Closers
      BY <1>8 DEF ClosesPlugins
    <3>2. closer' = [closer EXCEPT ![c] = "away"] \/ closer' = [closer EXCEPT ![c] = "dispose"]
      BY <1>8 DEF ClosesPlugins
    <3>3. external' = "done" /\ {runTask', driving', finished', held'} \subseteq BOOLEAN
      BY <1>8 DEF ClosesPlugins
    <3>4. UNCHANGED <<stage, killed, stream, session, released, runtime, preparing>>
      BY <1>8 DEF ClosesPlugins
    <3> QED BY <3>1, <3>2, <3>3, <3>4
  <2>2. OnePrepares'
    BY <1>8 DEF ClosesPlugins
  <2>3. RunnerFlags'
    BY <1>8 DEF ClosesPlugins
  <2>4. StreamOwned'
    BY <1>8 DEF ClosesPlugins
  <2>5. LockHeld'
    BY <1>8 DEF ClosesPlugins
  <2>6. ExternalClose'
    <3>1. external' = "done" /\ session' = session /\ session # "open"
      BY <1>8 DEF ClosesPlugins
    <3>2. ASSUME NEW d \in Closers PROVE closer'[d] \notin {"events", "plugins"}
      <4>1. lock = c /\ closer'[c] \in {"away", "dispose"} /\ (d # c => closer'[d] = closer[d])
        BY <1>8 DEF ClosesPlugins
      <4>2. closer[d] \in Inside => lock = d
        OBVIOUS
      <4> QED BY <4>1, <4>2
    <3> QED BY <3>1, <3>2
  <2>7. ReleasedWhenOver'
    BY <1>8 DEF ClosesPlugins
  <2> QED BY <2>1, <2>2, <2>3, <2>4, <2>5, <2>6, <2>7
<1>9. CASE ClosesHeldRun(c)
  <2>1. TypeOK'
    BY <1>9, CloserTypes
  <2>2. OnePrepares'
    BY <1>9 DEF ClosesHeldRun
  <2>3. RunnerFlags'
    BY <1>9 DEF ClosesHeldRun
  <2>4. StreamOwned'
    BY <1>9 DEF ClosesHeldRun
  <2>5. LockHeld'
    BY <1>9 DEF ClosesHeldRun
  <2>6. ExternalClose'
    BY <1>9 DEF ClosesHeldRun
  <2>7. ReleasedWhenOver'
    BY <1>9 DEF ClosesHeldRun
  <2> QED BY <2>1, <2>2, <2>3, <2>4, <2>5, <2>6, <2>7
<1>10. CASE Disposes(c)
  <2>1. TypeOK'
    BY <1>10, CloserTypes
  <2>2. OnePrepares'
    BY <1>10 DEF Disposes
  <2>3. RunnerFlags'
    BY <1>10 DEF Disposes
  <2>4. StreamOwned'
    BY <1>10 DEF Disposes
  <2>5. LockHeld'
    BY <1>10 DEF Disposes
  <2>6. ExternalClose'
    BY <1>10 DEF Disposes
  <2>7. ReleasedWhenOver'
    BY <1>10 DEF Disposes
  <2> QED BY <2>1, <2>2, <2>3, <2>4, <2>5, <2>6, <2>7
<1>11. CASE EnterRuntime(c)
  <2>1. TypeOK'
    BY <1>11, CloserTypes
  <2>2. OnePrepares'
    BY <1>11 DEF EnterRuntime
  <2>3. RunnerFlags'
    BY <1>11 DEF EnterRuntime
  <2>4. StreamOwned'
    BY <1>11 DEF EnterRuntime
  <2>5. LockHeld'
    BY <1>11 DEF EnterRuntime
  <2>6. ExternalClose'
    BY <1>11 DEF EnterRuntime
  <2>7. ReleasedWhenOver'
    BY <1>11 DEF EnterRuntime
  <2> QED BY <2>1, <2>2, <2>3, <2>4, <2>5, <2>6, <2>7
<1>12. CASE ClosesProcess(c)
  BY <1>12 DEF ClosesProcess
<1>13. CASE CancelCloser(c)
  BY <1>13 DEF CancelCloser
<1> QED BY <1>1, <1>2, <1>3, <1>4, <1>5, <1>6, <1>7, <1>8, <1>9, <1>10, <1>11, <1>12, <1>13 DEF CloserStep

\* In every state of a session, the flags between the runner and aclose() mean
\* what SessionInv says (AgentSession.run_events, AgentSession.aclose).
THEOREM FlagsAgree == Spec => []SessionInv
<1>1. SessionInv /\ [Next]_vars => SessionInv'
  <2> SUFFICES ASSUME SessionInv, [Next]_vars PROVE SessionInv'
    OBVIOUS
  <2>1. CASE UNCHANGED vars
    BY <2>1 DEF vars, run, close, SessionInv, TypeOK, OnePrepares, RunnerFlags, StreamOwned, LockHeld,
                ExternalClose, ReleasedWhenOver, Over, Active
  <2> QED BY <2>1, StartSteps, RunnerSteps, CloserSteps DEF Next
<1> QED BY <1>1, SessionInit, PTL DEF Spec

\* The stream and the plugins of a run are closed by one task at a time, and
\* nobody drives the stream meanwhile (agent_session.py:457).
THEOREM OneTaskCloses == Spec => []ClosedByOne
<1>1. SessionInv => ClosedByOne
  BY DEF SessionInv, ClosedByOne, ExternalClose, ReleasedWhenOver, Over, Drives
<1> QED BY <1>1, FlagsAgree, PTL

\* A session whose aclose() has returned has nothing left of a run, and no run
\* gets in any more, whoever prepared one (AgentSession.aclose).
THEOREM ClosedStaysQuiet == Spec => []ClosedIsQuiet
<1>1. SessionInv => ClosedIsQuiet
  BY DEF SessionInv, ClosedIsQuiet, ReleasedWhenOver, Over, Drives
<1> QED BY <1>1, FlagsAgree, PTL

\* A handle is replaced only when its run is over, whatever start() waits for
\* (the checks of AgentService.start, and _preparing_input).
THEOREM HandlesStand == Spec => HandleStands
<1> DEFINE Stands == runs' # runs => ~Active
<1>1. SessionInv /\ [Next]_vars => [Stands]_vars
  <2> SUFFICES ASSUME SessionInv, Next, runs' # runs PROVE ~Active
    OBVIOUS
  <2>1. CASE Start \/ \E s \in Starters : Prepare(s) \/ StartPrepared(s) \/ InputRefused(s)
    BY <2>1 DEF Start, Busy, Prepare, StartPrepared, InputRefused, SessionInv, OnePrepares
  <2>2. CASE RunnerStep \/ RunnerEnds \/ CloseHandle
    BY <2>2 DEF RunnerStep, RunnerEnds, Begin, EnterRunEvents, Opened, Stops, Yields, Resumes,
                StreamEnds, PluginsEnd, Joined, Killed, CloseHandle
  <2>3. ASSUME NEW c \in Closers, Call(c) \/ CloserStep(c) \/ CancelCloser(c) PROVE runs' = runs
    BY <2>3 DEF CloserStep, Call, EndsHandle, EndsRun, EndsStream, RunIsOver, ClosedAlready,
                ClosesStream, ClosesPlugins, ClosesHeldRun, Disposes, EnterRuntime, ClosesProcess,
                CancelCloser
  <2> QED BY <2>1, <2>2, <2>3 DEF Next
<1> QED BY <1>1, FlagsAgree, PTL DEF Spec, HandleStands
=============================================================================
