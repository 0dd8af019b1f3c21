-------------------------- MODULE RunHandleProofs --------------------------
(***************************************************************************)
(* What RunHandle promises for any capacity of the channel, any sizes of   *)
(* the events, any number of pauses and any consumer: envelopes arrive     *)
(* once and in order within the bounds of the channel, a paused run stands *)
(* still, and the result is settled once and agrees with the DoneEvent.    *)
(*                                                                         *)
(* The three rest on one invariant of the channel (a publisher that waits  *)
(* holds the next number, and waits alone) and one of the runner (what is  *)
(* settled, collected and published at each place of _run).                *)
(*                                                                         *)
(* The last part is about the broker of the run (PermissionBroker), for    *)
(* any requests and whatever the host, the callbacks and the cancellations *)
(* do, in whatever order.  The two models share no state: each part is     *)
(* about its own specification.                                            *)
(***************************************************************************)
EXTENDS RunHandle, PermissionBroker, TLAPS

-----------------------------------------------------------------------------
(* The channel.                                                            *)

Types ==
  /\ queue \in Seq(Envelope) /\ sequence \in Nat /\ bytes \in Int /\ seen \in Nat
  /\ pending \in [Publishers -> Envelope \cup {Nothing}]
  /\ runner \in Runners

\* A publisher that waits has built the next envelope, and no other waits:
\* publish() holds its lock over the wait.
NextIsTaken ==
  /\ \A p \in Waiting : pending[p].n = sequence + 1
  /\ \A p, q \in Waiting : p = q

ChannelInv == Types /\ InOrder /\ NextIsTaken

\* What an envelope that joins the queue keeps.
LEMMA PutInOrder ==
  ASSUME ChannelInv, NEW p \in Publishers, NEW e \in Envelope,
         e.n = sequence + 1, ~Full(e.size), Waiting \subseteq {p},
         Put(p, e), runner' \in Runners, UNCHANGED seen
  PROVE  ChannelInv'
<1> USE ChannelAssumption DEF ChannelInv, Types, Publishers
<1>0. e.size \in Nat \ {0}
  BY DEF Envelope
<1>1. Types'
  BY <1>0 DEF Put
<1>2. Len(queue') = Len(queue) + 1 /\ \A k \in DOMAIN queue : queue'[k] = queue[k]
  BY DEF Put
<1>3. queue'[Len(queue) + 1] = e
  BY DEF Put
<1>4. InOrder'
  BY <1>0, <1>2, <1>3 DEF Put, InOrder, Full
<1>5. Waiting' = {}
  BY DEF Put, Waiting
<1>6. NextIsTaken'
  BY <1>5 DEF NextIsTaken
<1> QED BY <1>1, <1>4, <1>6

\* A publisher that goes to wait, keeps waiting or leaves its wait.
LEMMA WaitInOrder ==
  ASSUME ChannelInv, NEW p \in Publishers, UNCHANGED <<queue, bytes, sequence, seen>>,
         runner' \in Runners,
         \/ UNCHANGED pending
         \/ pending' = [pending EXCEPT ![p] = Nothing]
         \/ /\ Waiting = {}
            /\ \E e \in Envelope : e.n = sequence + 1 /\ pending' = [pending EXCEPT ![p] = e]
  PROVE  ChannelInv'
<1> USE DEF ChannelInv, Types, Publishers
<1>1. Types'
  OBVIOUS
<1>2. InOrder'
  BY DEF InOrder
<1>3. CASE UNCHANGED pending
  BY <1>1, <1>2, <1>3 DEF NextIsTaken, Waiting
<1>4. CASE pending' = [pending EXCEPT ![p] = Nothing]
  <2>1. Waiting' \subseteq Waiting /\ \A q \in Waiting' : pending'[q] = pending[q]
    BY <1>4 DEF Waiting
  <2> QED BY <1>1, <1>2, <2>1 DEF NextIsTaken
<1>5. CASE /\ Waiting = {}
           /\ \E e \in Envelope : e.n = sequence + 1 /\ pending' = [pending EXCEPT ![p] = e]
  <2>1. PICK e \in Envelope : e.n = sequence + 1 /\ pending' = [pending EXCEPT ![p] = e]
    BY <1>5
  <2>2. Waiting' \subseteq {p} /\ pending'[p] = e
    BY <1>5, <2>1 DEF Waiting
  <2> QED BY <1>1, <1>2, <2>1, <2>2 DEF NextIsTaken
<1> QED BY <1>3, <1>4, <1>5

\* get() takes the first envelope.
LEMMA PopInOrder ==
  ASSUME ChannelInv, Pop, seen' = Head(queue).n, UNCHANGED runner
  PROVE  ChannelInv'
<1> USE ChannelAssumption DEF ChannelInv, Types
<1>1. Head(queue) \in Envelope /\ Head(queue) = queue[1] /\ 1 \in DOMAIN queue
  BY DEF Pop
<1>2. Head(queue).size \in Nat \ {0} /\ Head(queue).n \in Nat
  BY <1>1 DEF Envelope
<1>3. Types'
  BY <1>2 DEF Pop
<1>4. seen' = seen + 1
  BY <1>1 DEF InOrder
<1>5. Len(queue') = Len(queue) - 1 /\ \A k \in DOMAIN queue' : k + 1 \in DOMAIN queue /\ queue'[k] = queue[k + 1]
  BY DEF Pop
<1>6. InOrder'
  <2>1. \A k \in DOMAIN queue' : queue'[k].n = seen' + k
    <3> SUFFICES ASSUME NEW k \in DOMAIN queue' PROVE queue'[k].n = seen' + k
      OBVIOUS
    <3>1. k \in Nat /\ queue'[k] = queue[k + 1] /\ k + 1 \in DOMAIN queue
      BY <1>3, <1>5
    <3>2. queue[k + 1].n = seen + (k + 1)
      BY <3>1 DEF InOrder
    <3> QED BY <3>1, <3>2, <1>4
  <2>2. sequence' = seen' + Len(queue')
    BY <1>4, <1>5 DEF InOrder, Pop
  <2>3. Len(queue') <= MaxEvents /\ bytes' <= MaxBytes
    BY <1>2, <1>5 DEF InOrder, Pop
  <2> QED BY <2>1, <2>2, <2>3 DEF InOrder
<1>7. NextIsTaken'
  BY DEF NextIsTaken, Waiting, Pop
<1> QED BY <1>3, <1>6, <1>7

LEMMA BuiltFits ==
  ASSUME ChannelInv, NEW size \in Sizes, NEW verdict \in Verdicts \cup {"none"}
  PROVE  Built(size, verdict) \in Envelope /\ Built(size, verdict).n = sequence + 1
                                        /\ Built(size, verdict).size = size
  BY DEF ChannelInv, Types, Built, Envelope

\* An event that is published at once, or whose publisher goes to wait.
LEMMA PublishInOrder ==
  ASSUME ChannelInv, NEW p \in Publishers, NEW size \in Sizes,
         NEW verdict \in Verdicts \cup {"none"},
         PutAtOnce(p, size, verdict) \/ Sleep(p, size, verdict) \/ Refused(size) \/ InterruptedAtOnce(size),
         runner' \in Runners, UNCHANGED seen
  PROVE  ChannelInv'
<1>1. /\ Built(size, verdict) \in Envelope
      /\ Built(size, verdict).n = sequence + 1 /\ Built(size, verdict).size = size
  BY BuiltFits
<1>2. CASE PutAtOnce(p, size, verdict)
  BY <1>1, <1>2, PutInOrder DEF PutAtOnce, LockFree
<1>3. CASE Sleep(p, size, verdict)
  BY <1>1, <1>3, WaitInOrder DEF Sleep, LockFree
<1>4. CASE Refused(size) \/ InterruptedAtOnce(size)
  BY <1>4, WaitInOrder DEF Refused, InterruptedAtOnce, channel
<1> QED BY <1>2, <1>3, <1>4

\* A publisher that goes on after its wait.
LEMMA LateInOrder ==
  ASSUME ChannelInv, NEW p \in Publishers, PutLate(p) \/ SleepAgain(p) \/ LeaveWait(p),
         runner' \in Runners, UNCHANGED seen
  PROVE  ChannelInv'
<1>1. CASE PutLate(p)
  <2>1. p \in Waiting /\ pending[p] \in Envelope /\ ~Full(pending[p].size)
    BY <1>1 DEF ChannelInv, Types, PutLate, Awake, Waiting, Roomy
  <2>2. pending[p].n = sequence + 1 /\ Waiting \subseteq {p}
    BY <2>1 DEF ChannelInv, NextIsTaken
  <2> QED BY <1>1, <2>1, <2>2, PutInOrder DEF PutLate
<1>2. CASE SleepAgain(p)
  BY <1>2, WaitInOrder DEF SleepAgain
<1>3. CASE LeaveWait(p)
  BY <1>3, WaitInOrder DEF LeaveWait
<1> QED BY <1>1, <1>2, <1>3

LEMMA ChannelHolds == Init => ChannelInv
  BY ChannelAssumption
  DEF Init, ChannelInit, ChannelInv, Types, InOrder, NextIsTaken, Waiting, Runners

LEMMA ChannelKept == ChannelInv /\ [Next]_vars => ChannelInv'
<1> SUFFICES ASSUME ChannelInv, [Next]_vars PROVE ChannelInv'
  OBVIOUS
<1> USE DEF Publishers
<1>0. runner \in Runners /\ Runners = {"created", "events", "gate", "publish", "cleanup", "done"}
  BY DEF ChannelInv, Types, Runners
<1>1. CASE Published
  BY <1>0, <1>1, LateInOrder DEF Published, Collected, Leaves
<1>2. CASE TimesOut
  BY <1>0, <1>2, LateInOrder DEF TimesOut, Leaves
<1>3. CASE Killed
  <2>1. CASE LeaveWait("runner")
    BY <1>0, <1>3, <2>1, LateInOrder DEF Killed, Leaves
  <2>2. CASE UNCHANGED channel
    BY <1>0, <1>3, <2>2, WaitInOrder DEF Killed, Leaves, channel
  <2> QED BY <1>3, <2>1, <2>2 DEF Killed
<1>4. CASE Finish
  BY <1>0, <1>4, WaitInOrder DEF Finish
<1>5. ASSUME NEW size \in Sizes, NEW verdict \in Verdicts \cup {"none"}, Yield(size, verdict)
      PROVE  ChannelInv'
  BY <1>0, <1>5, PublishInOrder DEF Yield, Collected, Leaves
<1>6. CASE SidePublished
  BY <1>0, <1>6, LateInOrder DEF SidePublished
<1>7. ASSUME NEW size \in Sizes, Prompt(size) PROVE ChannelInv'
  BY <1>0, <1>7, PublishInOrder DEF Prompt
<1>8. CASE AskNext \/ Woken
  <2>1. CASE Pop
    BY <1>8, <2>1, PopInOrder DEF AskNext, Woken, Reads, Pop, AtEnd, WaitFor
  <2>2. CASE ~Pop
    BY <1>0, <1>8, <2>2, WaitInOrder DEF AskNext, Woken, Reads, AtEnd, WaitFor, channel
  <2> QED BY <2>1, <2>2
<1>9. CASE \/ Start \/ Checkpoint \/ \E exception \in {"none", "error"} : Exhausted(exception)
           \/ \E m \in {"events", "drain"} : Consume(m)
           \/ HostStep \/ UNCHANGED vars
  <2>1. UNCHANGED <<queue, bytes, sequence, pending, seen>> /\ runner' \in Runners
    BY <1>0, <1>9
    DEF Start, Checkpoint, Exhausted, Leaves, Consume, HostStep, Pause, Resume, Cancel, Close,
        CloseEnds, vars, channel, handle
  <2> QED BY <2>1, WaitInOrder
<1> QED BY <1>1, <1>2, <1>3, <1>4, <1>5, <1>6, <1>7, <1>8, <1>9
        DEF Next, RunnerStep, ConsumerStep, SideStep

\* The consumer gets every published envelope once, in the order of the
\* numbers, and the channel never holds more than its options allow, though
\* two tasks publish and each numbers its envelope before it waits for room.
THEOREM AlwaysInOrder == Spec => []InOrder
<1>1. ChannelInv => InOrder
  BY DEF ChannelInv
<1> QED BY <1>1, ChannelHolds, ChannelKept, PTL DEF Spec

-----------------------------------------------------------------------------
(* The control gate.                                                       *)

StandsStill == ControlType /\ PausedStandsStill

LEMMA StandsStillKept == StandsStill /\ [Next]_vars => StandsStill'
<1> SUFFICES ASSUME StandsStill, [Next]_vars PROVE StandsStill'
  OBVIOUS
<1> USE DEF StandsStill, ControlType, States, PausedStandsStill, ControlConsistent
<1>0. gate \in BOOLEAN /\ isCancelled \in BOOLEAN /\ gateWoken \in BOOLEAN
  OBVIOUS
<1>1. CASE CancelControl /\ UNCHANGED runner
  BY <1>1 DEF CancelControl
<1>2. CASE RequestPause /\ UNCHANGED runner
  BY <1>0, <1>2 DEF RequestPause
<1>3. CASE RequestResume /\ UNCHANGED runner
  BY <1>0, <1>3 DEF RequestResume
<1>4. CASE Checkpoint
  <2>1. CASE Pauses /\ runner' = "gate"
    BY <1>0, <2>1 DEF Pauses
  <2>2. CASE Passes /\ runner' = "events"
    BY <1>0, <2>2 DEF Passes
  <2>3. CASE Refuses /\ runner' = "events"
    BY <1>0, <2>3 DEF Refuses, control
  <2> QED BY <1>4, <2>1, <2>2, <2>3 DEF Checkpoint
<1>5. CASE /\ UNCHANGED control
           /\ runner' # runner => runner \notin {"gate", "cleanup", "done"} \/ runner' \in {"cleanup", "done"}
  BY <1>0, <1>5 DEF control
<1>6. CASE Start \/ Published \/ TimesOut \/ Finish \/ Killed
  BY <1>5, <1>6 DEF Start, Published, TimesOut, Finish, Killed, Collected, Leaves
<1>7. CASE \/ \E size \in Sizes, verdict \in Verdicts \cup {"none"} : Yield(size, verdict)
           \/ \E exception \in {"none", "error"} : Exhausted(exception)
  BY <1>5, <1>7 DEF Yield, Exhausted, Collected, Leaves
<1>8. CASE SideStep
  BY <1>1, <1>5, <1>8 DEF SideStep, SidePublished, Prompt, SideGoesOn, SideFails
<1>9. CASE ConsumerStep
  BY <1>5, <1>9 DEF ConsumerStep, AskNext, Woken, Reads, Consume
<1>10. CASE HostStep
  BY <1>1, <1>2, <1>3, <1>5, <1>10
  DEF HostStep, Pause, Resume, Cancel, Close, CloseEnds, handle
<1>11. CASE UNCHANGED vars
  BY <1>5, <1>11 DEF vars, handle
<1> QED BY <1>4, <1>6, <1>7, <1>8, <1>9, <1>10, <1>11 DEF Next, RunnerStep

\* A host that sees "paused" has a run that stands still at a checkpoint, and
\* the state of the control never disagrees with its gate.
THEOREM AlwaysPausedStandsStill == Spec => []PausedStandsStill
<1>1. Init => StandsStill
  BY DEF Init, ControlInit, StandsStill, ControlType, States, PausedStandsStill, ControlConsistent
<1>2. StandsStill => PausedStandsStill
  BY DEF StandsStill
<1> QED BY <1>1, <1>2, StandsStillKept, PTL DEF Spec

-----------------------------------------------------------------------------
(* The result.                                                             *)

\* No step publishes a DoneEvent, or loses one.
AnswerKept == \A v \in Verdicts : Out(v)' <=> Out(v)

\* The collected result is what the published DoneEvent says.
AnswerCollected == \A v \in Verdicts : Out(v) <=> terminal = v

\* No run has two of them.
OneAnswer == \A v, w \in Verdicts : Out(v) /\ Out(w) => v = w

SettleTypes ==
  /\ Types
  /\ {verdictSeen, terminal, settled} \subseteq Verdicts \cup {"none"}

\* Who waits in publish(), and with what: only the runner publishes a DoneEvent.
WaitsInPublish ==
  /\ pending["side"].verdict = "none"
  /\ "runner" \in Waiting <=> runner = "publish"
  /\ runner \in {"created", "done"} => Waiting = {}

\* Until _run ends nothing is settled, and the collected result follows the
\* published DoneEvent; a runner that ends without settling has published none.
ResultFollows ==
  /\ Active => settled = "none" /\ AnswerCollected
  /\ runner \in {"created", "publish"} => terminal = "none"
  /\ ~Active /\ settled = "none" => AnswerCollected /\ terminal = "none"
  /\ DoneStands /\ OneAnswer

SettleInv == SettleTypes /\ WaitsInPublish /\ ResultFollows

\* What SettledOnce says of one step.
SettlesOnce ==
  /\ DoneStands'
  /\ settled # "none" => settled' = settled
  /\ terminal # "none" => terminal' \in {terminal, "failed"}

LEMMA NothingIsNoEnvelope == Nothing \notin Envelope
  BY ChannelAssumption DEF Nothing, Envelope

LEMMA PutIsOut ==
  ASSUME Types, NEW p \in Publishers, NEW e \in Envelope, Put(p, e), UNCHANGED verdictSeen
  PROVE  /\ \A v \in Verdicts : Out(v)' <=> Out(v) \/ e.verdict = v
         /\ Waiting' = Waiting \ {p}
         /\ pending'["side"] \in {pending["side"], Nothing}
<1> USE DEF Types, Put, Publishers
<1>1. /\ Len(queue') = Len(queue) + 1
      /\ \A k \in DOMAIN queue : queue'[k] = queue[k]
      /\ queue'[Len(queue) + 1] = e
  OBVIOUS
<1>2. DOMAIN queue' = DOMAIN queue \cup {Len(queue) + 1}
  BY <1>1
<1>3. \A v \in Verdicts : Out(v)' <=> Out(v) \/ e.verdict = v
  BY <1>1, <1>2 DEF Out
<1>4. Waiting' = Waiting \ {p}
  BY DEF Waiting
<1> QED BY <1>3, <1>4

LEMMA PopIsOut ==
  ASSUME Types, Pop,
         verdictSeen' = IF Head(queue).verdict = "none" THEN verdictSeen ELSE Head(queue).verdict,
         OneAnswer, verdictSeen \in Verdicts \cup {"none"}
  PROVE  AnswerKept /\ verdictSeen' \in Verdicts \cup {"none"}
<1> USE DEF Types, Pop
<1>1. Len(queue) > 0 /\ Head(queue) = queue[1]
  OBVIOUS
<1>2. /\ \A k \in DOMAIN queue' : k + 1 \in DOMAIN queue /\ queue'[k] = queue[k + 1]
      /\ \A k \in DOMAIN queue : k = 1 \/ (k - 1 \in DOMAIN queue' /\ queue[k] = queue'[k - 1])
  BY <1>1
<1>3. 1 \in DOMAIN queue
  BY <1>1
<1>4. Head(queue).verdict \in Verdicts \cup {"none"}
  <2>1. Head(queue) \in Envelope
    BY <1>1, <1>3
  <2> QED BY <2>1 DEF Envelope
<1>5. ASSUME NEW v \in Verdicts PROVE Out(v)' <=> Out(v)
  <2>0. v # "none"
    BY DEF Verdicts
  <2>1. CASE Head(queue).verdict = "none"
    BY <1>1, <1>2, <1>3, <2>0, <2>1 DEF Out
  <2>2. CASE Head(queue).verdict # "none"
    <3>1. Out(Head(queue).verdict) /\ Head(queue).verdict \in Verdicts
      BY <1>1, <1>3, <1>4, <2>2 DEF Out
    <3>2. Out(v) => v = Head(queue).verdict
      BY <3>1 DEF OneAnswer
    <3>3. Out(v)' => Out(v)
      BY <1>1, <1>2, <1>3, <2>2 DEF Out
    <3> QED BY <3>2, <3>3, <2>2 DEF Out
  <2> QED BY <2>1, <2>2
<1> QED BY <1>4, <1>5 DEF AnswerKept

LEMMA WaitsOut ==
  ASSUME Types, NEW p \in Publishers, UNCHANGED <<queue, verdictSeen>>
  PROVE  /\ AnswerKept
         /\ pending' = [pending EXCEPT ![p] = Nothing] =>
               /\ Waiting' = Waiting \ {p}
               /\ pending'["side"] \in {pending["side"], Nothing}
         /\ UNCHANGED pending => Waiting' = Waiting
         /\ \A e \in Envelope : pending' = [pending EXCEPT ![p] = e] =>
               /\ Waiting' = Waiting \cup {p}
               /\ pending'["side"] = IF p = "side" THEN e ELSE pending["side"]
<1>1. AnswerKept
  BY DEF AnswerKept, Out
<1> QED BY <1>1, NothingIsNoEnvelope DEF Types, Waiting, Publishers

\* A step that neither publishes nor settles anything, and may end a wait.
LEMMA QuietStep ==
  ASSUME SettleInv, Types', UNCHANGED <<queue, verdictSeen, settled, terminal>>,
         \/ UNCHANGED <<pending, runner>>
         \/ runner = "publish" /\ runner' = "cleanup" /\ pending' = [pending EXCEPT !["runner"] = Nothing]
         \/ UNCHANGED runner /\ pending' = [pending EXCEPT !["side"] = Nothing]
         \/ /\ UNCHANGED pending /\ runner \notin {"publish", "done"}
            /\ runner' \in {"events", "gate", "cleanup"}
  PROVE  SettleInv' /\ SettlesOnce
<1> USE DEF SettleInv, Publishers
<1>1. AnswerKept /\ (UNCHANGED pending => Waiting' = Waiting)
  BY WaitsOut DEF SettleTypes
<1>2. \A p \in Publishers : pending' = [pending EXCEPT ![p] = Nothing] =>
        Waiting' = Waiting \ {p} /\ pending'["side"] \in {pending["side"], Nothing}
  BY WaitsOut DEF SettleTypes
<1>3. SettleTypes'
  BY DEF SettleTypes
<1>4. WaitsInPublish'
  BY <1>1, <1>2 DEF WaitsInPublish, Nothing
<1>5. DoneStands'
  BY DEF ResultFollows, DoneStands, Out
<1>6. (AnswerCollected' <=> AnswerCollected) /\ (OneAnswer' <=> OneAnswer)
  BY <1>1 DEF AnswerCollected, AnswerKept, OneAnswer
<1>7. ResultFollows'
  BY <1>5, <1>6 DEF ResultFollows, Active
<1>8. SettlesOnce
  BY <1>5 DEF SettlesOnce
<1> QED BY <1>3, <1>4, <1>7, <1>8

\* While the runner is under way, the collected result may follow the DoneEvent.
LEMMA PublishStep ==
  ASSUME SettleInv, Types', Active, runner' # "done", UNCHANGED <<verdictSeen, settled>>,
         WaitsInPublish',
         terminal' \in Verdicts \cup {"none"}, AnswerCollected',
         terminal # "none" => terminal' = terminal,
         runner' \in {"created", "publish"} => terminal' = "none"
  PROVE  SettleInv' /\ SettlesOnce
<1> USE DEF SettleInv
<1>1. SettleTypes' /\ settled' = "none" /\ Active'
  BY DEF SettleTypes, ResultFollows, Active
<1>2. DoneStands' /\ OneAnswer'
  BY <1>1 DEF DoneStands, AnswerCollected, OneAnswer
<1>3. ResultFollows'
  BY <1>1, <1>2 DEF ResultFollows
<1>4. SettlesOnce
  BY <1>1, <1>2 DEF SettlesOnce, ResultFollows
<1> QED BY <1>1, <1>3, <1>4

\* What the runner publishes is what it collects.
LEMMA CollectedIsOut ==
  ASSUME SettleInv, Active, terminal = "none", NEW verdict \in Verdicts \cup {"none"},
         \A v \in Verdicts : Out(v)' <=> Out(v) \/ verdict = v,
         terminal' = IF verdict = "none" THEN terminal ELSE verdict
  PROVE  AnswerCollected' /\ terminal' \in Verdicts \cup {"none"}
<1>1. "none" \notin Verdicts
  BY DEF Verdicts
<1>2. \A v \in Verdicts : ~Out(v)
  BY <1>1 DEF SettleInv, ResultFollows, AnswerCollected
<1>3. \A v \in Verdicts : Out(v)' <=> terminal' = v
  BY <1>1, <1>2
<1> QED BY <1>3 DEF AnswerCollected

LEMMA YieldSettles ==
  ASSUME SettleInv, Types', NEW size \in Sizes, NEW verdict \in Verdicts \cup {"none"},
         Yield(size, verdict), ChannelInv
  PROVE  SettleInv' /\ SettlesOnce
<1> USE DEF SettleInv, Publishers
<1>1. Built(size, verdict) \in Envelope /\ Built(size, verdict).verdict = verdict
  BY BuiltFits DEF Built
<1>2. /\ runner = "events" /\ terminal = "none" /\ UNCHANGED <<verdictSeen, settled>>
      /\ Active /\ AnswerCollected
  BY DEF Yield, ResultFollows, Active
<1>3. CASE PutAtOnce("runner", size, verdict) /\ Collected(verdict)
  <2>1. /\ \A v \in Verdicts : Out(v)' <=> Out(v) \/ verdict = v
        /\ Waiting' = Waiting \ {"runner"}
        /\ pending'["side"] \in {pending["side"], Nothing}
    BY <1>1, <1>2, <1>3, PutIsOut DEF SettleTypes, PutAtOnce
  <2>2. runner' = "events" /\ terminal' = IF verdict = "none" THEN terminal ELSE verdict
    BY <1>3 DEF Collected
  <2>3. AnswerCollected' /\ terminal' \in Verdicts \cup {"none"}
    BY <1>2, <2>1, <2>2, CollectedIsOut
  <2>4. WaitsInPublish'
    BY <2>1, <2>2 DEF WaitsInPublish, Nothing
  <2> QED BY <1>2, <2>2, <2>3, <2>4, PublishStep
<1>4. CASE Sleep("runner", size, verdict) /\ runner' = "publish" /\ UNCHANGED terminal
  <2>1. /\ AnswerKept
        /\ Waiting' = Waiting \cup {"runner"}
        /\ pending'["side"] = pending["side"]
    BY <1>1, <1>2, <1>4, WaitsOut DEF SettleTypes, Sleep
  <2>2. WaitsInPublish'
    BY <1>4, <2>1 DEF WaitsInPublish
  <2>3. AnswerCollected'
    BY <1>2, <1>4, <2>1 DEF AnswerCollected, AnswerKept
  <2> QED BY <1>2, <1>4, <2>2, <2>3, PublishStep
<1>5. CASE UNCHANGED channel /\ runner' = "cleanup" /\ UNCHANGED terminal
  BY <1>2, <1>5, QuietStep DEF channel
<1> QED BY <1>3, <1>4, <1>5 DEF Yield, Refused, InterruptedAtOnce, Leaves

LEMMA PublishedSettles ==
  ASSUME SettleInv, Types', Published
  PROVE  SettleInv' /\ SettlesOnce
<1> USE DEF SettleInv, Publishers
<1> DEFINE verdict == pending["runner"].verdict
<1>1. /\ runner = "publish" /\ terminal = "none" /\ UNCHANGED <<verdictSeen, settled>> /\ Active
      /\ "runner" \in Waiting
  BY DEF Published, ResultFollows, WaitsInPublish, Active
<1>2. pending["runner"] \in Envelope /\ verdict \in Verdicts \cup {"none"}
  BY <1>1 DEF Waiting, SettleTypes, Types, Envelope
<1>3. CASE PutLate("runner") /\ Collected(verdict)
  <2>1. /\ \A v \in Verdicts : Out(v)' <=> Out(v) \/ verdict = v
        /\ Waiting' = Waiting \ {"runner"}
        /\ pending'["side"] \in {pending["side"], Nothing}
    BY <1>1, <1>2, <1>3, PutIsOut DEF SettleTypes, PutLate
  <2>2. runner' = "events" /\ terminal' = IF verdict = "none" THEN terminal ELSE verdict
    BY <1>3 DEF Collected
  <2>3. AnswerCollected' /\ terminal' \in Verdicts \cup {"none"}
    BY <1>1, <1>2, <2>1, <2>2, CollectedIsOut
  <2>4. WaitsInPublish'
    BY <2>1, <2>2 DEF WaitsInPublish, Nothing
  <2> QED BY <1>1, <2>2, <2>3, <2>4, PublishStep
<1>4. CASE SleepAgain("runner") /\ UNCHANGED <<runner, terminal>>
  BY <1>1, <1>4, QuietStep DEF SleepAgain
<1>5. CASE LeaveWait("runner") /\ Leaves("cancelled")
  BY <1>1, <1>5, QuietStep DEF LeaveWait, Leaves
<1> QED BY <1>3, <1>4, <1>5 DEF Published

LEMMA SideSettles ==
  ASSUME SettleInv, ChannelInv, Types', SideStep
  PROVE  SettleInv' /\ SettlesOnce
<1> USE DEF SettleInv, Publishers
<1>1. UNCHANGED <<runner, terminal, settled, verdictSeen>>
  BY DEF SideStep, SidePublished, Prompt
<1>2. ASSUME NEW e \in Envelope, Put("side", e), e.verdict = "none", Active
      PROVE  SettleInv' /\ SettlesOnce
  <2>1. /\ \A v \in Verdicts : Out(v)' <=> Out(v) \/ e.verdict = v
        /\ Waiting' = Waiting \ {"side"}
        /\ pending'["side"] \in {pending["side"], Nothing}
    BY <1>1, <1>2, PutIsOut DEF SettleTypes
  <2>2. WaitsInPublish'
    BY <1>1, <2>1 DEF WaitsInPublish, Nothing
  <2>3. AnswerCollected'
    BY <1>1, <1>2, <2>1 DEF AnswerCollected, ResultFollows, Verdicts
  <2> QED BY <1>1, <1>2, <2>2, <2>3, PublishStep DEF ResultFollows, Active, SettleTypes
<1>3. CASE SidePublished
  <2>1. CASE PutLate("side")
    <3>1. "side" \in Waiting /\ pending["side"] \in Envelope /\ pending["side"].verdict = "none"
      BY <2>1 DEF PutLate, Awake, Waiting, SettleTypes, Types, WaitsInPublish
    <3> QED BY <1>2, <2>1, <3>1 DEF PutLate, WaitsInPublish, Active
  <2>2. CASE SleepAgain("side") \/ LeaveWait("side")
    BY <1>1, <2>2, QuietStep DEF SleepAgain, LeaveWait
  <2> QED BY <1>3, <2>1, <2>2 DEF SidePublished
<1>4. ASSUME NEW size \in Sizes, Prompt(size) PROVE SettleInv' /\ SettlesOnce
  <2>1. Built(size, "none") \in Envelope /\ Built(size, "none").verdict = "none"
    BY BuiltFits DEF Built
  <2>2. Active /\ runner # "created"
    BY <1>4 DEF Prompt, Active
  <2>3. CASE PutAtOnce("side", size, "none")
    BY <1>2, <2>1, <2>2, <2>3 DEF PutAtOnce
  <2>4. CASE Sleep("side", size, "none")
    <3>1. /\ AnswerKept
          /\ Waiting' = Waiting \cup {"side"}
          /\ pending'["side"] = Built(size, "none")
      BY <1>1, <2>1, <2>4, WaitsOut DEF SettleTypes, Sleep
    <3>2. WaitsInPublish'
      BY <1>1, <2>1, <2>2, <3>1 DEF WaitsInPublish, Active
    <3>3. AnswerCollected'
      BY <1>1, <2>2, <3>1 DEF AnswerCollected, AnswerKept, ResultFollows
    <3> QED BY <1>1, <2>2, <3>2, <3>3, PublishStep DEF ResultFollows, Active, SettleTypes
  <2>5. CASE UNCHANGED channel
    BY <1>1, <2>5, QuietStep DEF channel
  <2> QED BY <1>4, <2>3, <2>4, <2>5 DEF Prompt, Refused, InterruptedAtOnce
<1> QED BY <1>3, <1>4 DEF SideStep

LEMMA FinishSettles ==
  ASSUME SettleInv, Types', Finish
  PROVE  SettleInv' /\ SettlesOnce
<1> USE DEF SettleInv
<1>1. Active /\ settled = "none" /\ runner' = "done" /\ UNCHANGED <<queue, verdictSeen>> /\ ~Active'
  BY DEF Finish, Active, ResultFollows
<1>2. PICK exception : settled' = Result(exception) /\ terminal' = Result(exception)
  BY <1>1 DEF Finish
<1>3. /\ Result(exception) \in Verdicts
      /\ Result(exception) \in {"completed", "waiting_for_user"} => Result(exception) = terminal
      /\ terminal # "none" => Result(exception) \in {terminal, "failed"}
  BY DEF Result, SettleTypes, Verdicts
<1>4. SettleTypes'
  BY <1>1, <1>2, <1>3 DEF SettleTypes
<1>5. \A v \in Verdicts : Out(v)' <=> terminal = v
  BY <1>1 DEF Out, ResultFollows, AnswerCollected
<1>6. DoneStands' /\ OneAnswer'
  BY <1>2, <1>3, <1>5 DEF DoneStands, OneAnswer, Verdicts
<1>7. pending'["side"] = Nothing /\ pending'["runner"] = pending["runner"]
  BY DEF Finish, SettleTypes, Types, Publishers
<1>8. Waiting' = {} /\ pending'["side"].verdict = "none"
  <2>1. "runner" \notin Waiting
    BY DEF Finish, WaitsInPublish
  <2> QED BY <1>7, <2>1 DEF Waiting, Publishers, Nothing
<1>9. WaitsInPublish'
  BY <1>1, <1>8 DEF WaitsInPublish
<1>10. ResultFollows'
  BY <1>1, <1>2, <1>3, <1>6 DEF ResultFollows, Verdicts
<1>11. SettlesOnce
  BY <1>1, <1>2, <1>3, <1>6 DEF SettlesOnce
<1> QED BY <1>4, <1>9, <1>10, <1>11

LEMMA CloseSettles ==
  ASSUME SettleInv, Types', CloseEnds
  PROVE  SettleInv' /\ SettlesOnce
<1> USE DEF SettleInv
<1>1. ~Active /\ UNCHANGED <<queue, verdictSeen, pending, runner>>
  BY DEF CloseEnds
<1>2. AnswerKept /\ Waiting' = Waiting /\ ~Active'
  BY <1>1 DEF AnswerKept, Out, Waiting, Active
<1>3. WaitsInPublish'
  BY <1>1, <1>2 DEF WaitsInPublish
<1>4. CASE settled = "none"
  <2>1. terminal' = "cancelled" /\ settled' = "cancelled" /\ terminal = "none"
    BY <1>1, <1>4 DEF CloseEnds, ResultFollows
  <2>2. DoneStands' /\ OneAnswer'
    <3>1. \A v \in Verdicts : ~Out(v)'
      BY <1>1, <1>2, <1>4 DEF AnswerKept, AnswerCollected, ResultFollows, Verdicts
    <3> QED BY <2>1, <3>1 DEF DoneStands, OneAnswer
  <2>3. SettleTypes'
    BY <1>1, <2>1 DEF SettleTypes, Verdicts
  <2>4. ResultFollows' /\ SettlesOnce
    BY <1>1, <1>2, <1>4, <2>1, <2>2 DEF ResultFollows, SettlesOnce, Active
  <2> QED BY <1>3, <2>3, <2>4
<1>5. CASE settled # "none"
  BY <1>1, <1>5, QuietStep DEF CloseEnds
<1> QED BY <1>4, <1>5

LEMMA ReadSettles ==
  ASSUME SettleInv, Types', AskNext \/ Woken
  PROVE  SettleInv' /\ SettlesOnce
<1> USE DEF SettleInv
<1>1. UNCHANGED <<runner, terminal, settled>>
  BY DEF AskNext, Woken, Reads
<1>2. CASE /\ Pop
           /\ verdictSeen' = IF Head(queue).verdict = "none" THEN verdictSeen ELSE Head(queue).verdict
  <2>1. AnswerKept /\ verdictSeen' \in Verdicts \cup {"none"}
    BY <1>2, PopIsOut DEF SettleTypes, ResultFollows
  <2>2. Waiting' = Waiting /\ UNCHANGED pending
    BY <1>2 DEF Pop, Waiting
  <2>3. SettleTypes'
    BY <1>1, <2>1 DEF SettleTypes
  <2>4. WaitsInPublish'
    BY <1>1, <2>2 DEF WaitsInPublish
  <2>5. DoneStands' /\ OneAnswer' /\ (AnswerCollected' <=> AnswerCollected)
    BY <1>1, <2>1 DEF DoneStands, ResultFollows, AnswerCollected, AnswerKept, OneAnswer, Verdicts
  <2>6. ResultFollows' /\ SettlesOnce
    BY <1>1, <2>5 DEF ResultFollows, SettlesOnce, Active
  <2> QED BY <2>3, <2>4, <2>6
<1>3. CASE UNCHANGED <<queue, pending, verdictSeen>>
  BY <1>1, <1>3, QuietStep
<1> QED BY <1>2, <1>3 DEF AskNext, Woken, Reads, AtEnd, WaitFor, channel

LEMMA KilledSettles ==
  ASSUME SettleInv, Types', Killed
  PROVE  SettleInv' /\ SettlesOnce
<1> USE DEF SettleInv
<1>1. UNCHANGED <<verdictSeen, settled>>
  BY DEF Killed
<1>2. CASE runner = "created"
  <2>1. runner' = "done" /\ UNCHANGED <<queue, pending, terminal>>
    BY <1>2 DEF Killed, channel
  <2>2. (AnswerCollected' <=> AnswerCollected) /\ (OneAnswer' <=> OneAnswer) /\ Waiting' = Waiting
    BY <1>1, <2>1 DEF AnswerCollected, OneAnswer, Out, Waiting
  <2>3. SettleTypes'
    BY <1>1, <2>1 DEF SettleTypes
  <2>4. WaitsInPublish'
    BY <1>2, <2>1, <2>2 DEF WaitsInPublish
  <2>5. DoneStands'
    BY <1>1, <2>1 DEF DoneStands, Out, ResultFollows
  <2>6. ResultFollows' /\ SettlesOnce
    BY <1>1, <1>2, <2>1, <2>2, <2>5 DEF ResultFollows, SettlesOnce, Active
  <2> QED BY <2>3, <2>4, <2>6
<1>3. CASE runner = "publish"
  BY <1>1, <1>3, QuietStep DEF Killed, LeaveWait, Leaves
<1>4. CASE runner \notin {"created", "publish"}
  BY <1>1, <1>4, QuietStep DEF Killed, Leaves, channel
<1> QED BY <1>2, <1>3, <1>4

LEMMA SettleKept == ChannelInv /\ SettleInv /\ [Next]_vars => SettleInv' /\ [SettlesOnce]_vars
<1> SUFFICES ASSUME ChannelInv, SettleInv, [Next]_vars PROVE SettleInv' /\ SettlesOnce
  OBVIOUS
<1>0. Types'
  BY ChannelKept DEF ChannelInv
<1> USE <1>0
<1>1. CASE TimesOut
  BY <1>1, QuietStep DEF TimesOut, LeaveWait, Leaves
<1>2. CASE Start \/ Checkpoint
  BY <1>2, QuietStep DEF Start, Checkpoint, channel
<1>3. ASSUME NEW exception \in {"none", "error"}, Exhausted(exception)
      PROVE  SettleInv' /\ SettlesOnce
  BY <1>3, QuietStep DEF Exhausted, Leaves, channel
<1>4. ASSUME NEW m \in {"events", "drain"}, Consume(m) PROVE SettleInv' /\ SettlesOnce
  BY <1>4, QuietStep DEF Consume, channel
<1>5. CASE Pause \/ Resume \/ Cancel \/ Close
  BY <1>5, QuietStep DEF Pause, Resume, Cancel, Close, channel, handle
<1>6. CASE UNCHANGED vars
  BY <1>6, QuietStep DEF vars, channel, handle
<1> QED BY <1>1, <1>2, <1>3, <1>4, <1>5, <1>6, YieldSettles, PublishedSettles, SideSettles,
           FinishSettles, CloseSettles, ReadSettles, KilledSettles
        DEF Next, RunnerStep, ConsumerStep, HostStep

LEMMA SettleHolds == Init => SettleInv
<1> SUFFICES ASSUME Init PROVE SettleInv
  OBVIOUS
<1>1. SettleTypes
  BY ChannelHolds DEF ChannelInv, SettleTypes, Init
<1>2. Waiting = {} /\ \A v \in Verdicts : ~Out(v)
  BY DEF Init, ChannelInit, Waiting, Out, Verdicts
<1>3. WaitsInPublish
  BY <1>2 DEF Init, ChannelInit, WaitsInPublish, Nothing, Publishers
<1>4. ResultFollows
  BY <1>2 DEF Init, ResultFollows, DoneStands, AnswerCollected, OneAnswer, Verdicts
<1> QED BY <1>1, <1>3, <1>4 DEF SettleInv

\* The result is settled once, it says that the run completed or waits for its
\* user only when the DoneEvent that says so is out, and no cancellation takes
\* back what a DoneEvent said, wherever it finds _run.
THEOREM AlwaysSettledOnce == Spec => SettledOnce
<1>1. ChannelInv /\ SettleInv /\ [Next]_vars =>
        [/\ DoneStands'
         /\ settled # "none" => settled' = settled
         /\ terminal # "none" => terminal' \in {terminal, "failed"}]_vars
  BY SettleKept DEF SettlesOnce
<1> QED BY <1>1, ChannelHolds, ChannelKept, SettleHolds, SettleKept, PTL DEF Spec, SettledOnce

-----------------------------------------------------------------------------
(* The broker: what is granted is what the host answered, nothing is       *)
(* granted after the cancellation, and nobody is asked about a request     *)
(* that is over.                                                           *)

\* An approval stands in a future only if the host gave it, and only in a form
\* that the request offered; a request that was granted is over.
Approved ==
  /\ \A r \in Requests : answer[r] \in Lifetimes => said[r] = answer[r]
  /\ \A r \in Requests : said[r] = "session" => r \notin OneShot
  /\ \A g \in grants : stage[g[1]] \in {"closing", "done"}

\* The inductive invariant of the broker.
BrokerInv == BrokerTypeOK /\ GrantIsTheHosts /\ Approved

-----------------------------------------------------------------------------
\* The initial state has asked nothing and granted nothing.
LEMMA BrokerStarts == BrokerInit => BrokerInv
  BY BrokerAssumption
  DEF BrokerInit, BrokerInv, BrokerTypeOK, GrantIsTheHosts, Approved, Stages, Answers, Lifetimes

\* Leaving negotiate() without a grant keeps the invariant: only a request that
\* is still pending leaves.
LEMMA LeaveStep ==
  ASSUME BrokerInv, NEW r \in Requests, NEW result \in {"denied", "raised"},
         stage[r] \in {"idle", "publish", "callback", "future"},
         Leave(r, result),
         UNCHANGED <<answer, fallback, grants, resultOnly, cancelled, said>>
  PROVE  BrokerInv'
<1>1. \A g \in grants : g[1] \in Requests /\ g[1] # r
  BY DEF BrokerInv, BrokerTypeOK, Approved, Lifetimes
<1>2. BrokerTypeOK'
  BY DEF BrokerInv, BrokerTypeOK, Leave, Alive, Stages, Answers, Lifetimes
<1>3. GrantIsTheHosts'
  BY <1>1 DEF BrokerInv, BrokerTypeOK, GrantIsTheHosts, Leave
<1>4. Approved'
  BY <1>1 DEF BrokerInv, BrokerTypeOK, Approved, Leave
<1> QED
  BY <1>2, <1>3, <1>4 DEF BrokerInv

\* The steps of negotiate() itself.
LEMMA AskStep ==
  ASSUME BrokerInv, NEW r \in Requests, Ask(r)
  PROVE  BrokerInv'
<1>1. CASE cancelled
  <2>1. Leave(r, "denied") /\ UNCHANGED <<answer, fallback, grants, resultOnly, cancelled, said>>
    BY <1>1 DEF Ask
  <2> QED
    BY <2>1, LeaveStep DEF Ask
<1>2. CASE ~cancelled
  <2>1. \A g \in grants : g[1] \in Requests /\ g[1] # r
    BY DEF BrokerInv, BrokerTypeOK, Approved, Lifetimes, Ask
  <2>2. BrokerTypeOK'
    BY <1>2 DEF BrokerInv, BrokerTypeOK, Ask, Stages, Answers, Lifetimes
  <2>3. GrantIsTheHosts'
    BY <1>2 DEF BrokerInv, GrantIsTheHosts, Ask
  <2>4. Approved'
    BY <1>2, <2>1 DEF BrokerInv, BrokerTypeOK, Approved, Ask
  <2> QED
    BY <2>2, <2>3, <2>4 DEF BrokerInv
<1> QED
  BY <1>1, <1>2

\* The prompt is published, its callback ends, and the task closes it.
LEMMA MoveOnStep ==
  ASSUME BrokerInv, NEW r \in Requests, PromptPublished(r) \/ CalledBack(r) \/ Closed(r)
  PROVE  BrokerInv'
<1>1. CASE UNCHANGED <<outcome, doomed>>
  <2>1. BrokerTypeOK'
    BY <1>1 DEF BrokerInv, BrokerTypeOK, PromptPublished, CalledBack, Closed, Leave, Stages, Answers, Lifetimes
  <2>2. GrantIsTheHosts'
    BY <1>1 DEF BrokerInv, GrantIsTheHosts, PromptPublished, CalledBack, Closed
  <2>3. Approved'
    BY <1>1 DEF BrokerInv, BrokerTypeOK, Approved, PromptPublished, CalledBack, Closed, Leave, Lifetimes
  <2> QED
    BY <2>1, <2>2, <2>3 DEF BrokerInv
<1>2. CASE Leave(r, "raised") /\ stage[r] \in {"publish", "callback"}
  BY <1>2, LeaveStep DEF PromptPublished, CalledBack, Closed
<1> QED
  BY <1>1, <1>2 DEF PromptPublished, CalledBack, Closed

\* The answer becomes the outcome, and a grant if the host gave one.
LEMMA DecideStep ==
  ASSUME BrokerInv, NEW r \in Requests, Decide(r)
  PROVE  BrokerInv'
<1>1. CASE ~Granted(r)
  BY <1>1, LeaveStep DEF Decide
<1>2. CASE Granted(r)
  <2>1. /\ answer[r] \in Lifetimes /\ said[r] = answer[r]
        /\ Leave(r, "granted") /\ grants' = grants \cup {<<r, answer[r]>>}
        /\ UNCHANGED <<answer, fallback, resultOnly, cancelled, said>>
    BY <1>2 DEF Decide, Granted, BrokerInv, Approved
  <2>2. \A g \in grants : g[1] \in Requests /\ g[1] # r
    BY DEF BrokerInv, BrokerTypeOK, Approved, Lifetimes, Decide
  <2>3. BrokerTypeOK'
    BY <2>1 DEF BrokerInv, BrokerTypeOK, Leave, Alive, Stages, Answers, Lifetimes
  <2>4. GrantIsTheHosts'
    <3>1. \A q \in Requests : said'[q] # "none" => answer'[q] = said'[q]
      BY <2>1 DEF BrokerInv, GrantIsTheHosts
    <3>2. \A q \in Requests : outcome'[q] = "granted" => <<q, said'[q]>> \in grants'
      BY <2>1 DEF BrokerInv, BrokerTypeOK, GrantIsTheHosts, Leave
    <3>3. ASSUME NEW g \in grants'
          PROVE  /\ said'[g[1]] = g[2] /\ outcome'[g[1]] \in {"granted", "raised"}
                 /\ g[2] = "session" => g[1] \notin OneShot
      <4>1. CASE g \in grants
        BY <4>1, <2>1, <2>2 DEF BrokerInv, BrokerTypeOK, GrantIsTheHosts, Leave
      <4>2. CASE g = <<r, answer[r]>>
        BY <4>2, <2>1 DEF BrokerInv, BrokerTypeOK, Approved, Leave
      <4> QED
        BY <3>3, <4>1, <4>2, <2>1
    <3> QED
      BY <3>1, <3>2, <3>3 DEF GrantIsTheHosts
  <2>5. Approved'
    BY <2>1, <2>2 DEF BrokerInv, BrokerTypeOK, Approved, Leave, Lifetimes
  <2> QED
    BY <2>3, <2>4, <2>5 DEF BrokerInv
<1> QED
  BY <1>1, <1>2

\* The task of a request is cancelled.
LEMMA AbandonStep ==
  ASSUME BrokerInv, NEW r \in Requests, Abandon(r)
  PROVE  BrokerInv'
<1>1. CASE stage[r] \in {"publish", "future"} /\ Leave(r, "raised")
  BY <1>1, LeaveStep DEF Abandon
<1>2. CASE stage[r] \in {"callback", "closing"} /\ UNCHANGED stage
  <2>1. BrokerTypeOK'
    BY <1>2 DEF BrokerInv, BrokerTypeOK, Abandon, Alive, Leave
  <2>2. GrantIsTheHosts'
    BY <1>2 DEF BrokerInv, BrokerTypeOK, GrantIsTheHosts, Abandon
  <2>3. Approved'
    BY <1>2 DEF BrokerInv, Approved, Abandon
  <2> QED
    BY <2>1, <2>2, <2>3 DEF BrokerInv
<1> QED
  BY <1>1, <1>2 DEF Abandon

\* The steps of the fallback task: only an open future is resolved, to "no".
LEMMA FallbackStep ==
  ASSUME BrokerInv, NEW r \in Requests, Call(r) \/ CallEnds(r)
  PROVE  BrokerInv'
<1>1. UNCHANGED <<stage, doomed, outcome, grants, resultOnly, cancelled, said>>
  BY DEF Call, CallEnds
<1>2. \A q \in Requests : answer'[q] = answer[q] \/ (answer[q] = "open" /\ answer'[q] = "no")
  BY DEF Call, CallEnds, Unanswered, BrokerInv, BrokerTypeOK
<1>3. BrokerTypeOK'
  BY <1>1 DEF BrokerInv, BrokerTypeOK, Call, CallEnds, Unanswered, Answers, Lifetimes
<1>4. GrantIsTheHosts'
  BY <1>1, <1>2 DEF BrokerInv, BrokerTypeOK, GrantIsTheHosts, Answers, Lifetimes
<1>5. Approved'
  BY <1>1, <1>2 DEF BrokerInv, BrokerTypeOK, Approved, Answers, Lifetimes
<1> QED
  BY <1>3, <1>4, <1>5 DEF BrokerInv

\* The host.  A response is accepted by an open future only, so it changes no
\* answer that was given before, and none that was granted.
LEMMA RespondStep ==
  ASSUME BrokerInv, NEW r \in Requests, NEW choice \in Answers, Respond(r, choice)
  PROVE  BrokerInv'
<1>1. said[r] = "none"
  BY DEF BrokerInv, BrokerTypeOK, GrantIsTheHosts, Respond, Answers, Lifetimes
<1>2. \A g \in grants : g[1] \in Requests /\ g[1] # r
  BY DEF BrokerInv, BrokerTypeOK, Approved, Lifetimes, Respond, Pending
<1>3. BrokerTypeOK'
  BY DEF BrokerInv, BrokerTypeOK, Respond, Answers, Lifetimes
<1>4. GrantIsTheHosts'
  <2>1. \A q \in Requests : said'[q] # "none" => answer'[q] = said'[q]
    BY DEF BrokerInv, BrokerTypeOK, GrantIsTheHosts, Respond
  <2>2. \A q \in Requests : outcome'[q] = "granted" => <<q, said'[q]>> \in grants'
    BY <1>2, <1>1 DEF BrokerInv, BrokerTypeOK, GrantIsTheHosts, Respond
  <2>3. \A g \in grants' : /\ said'[g[1]] = g[2] /\ outcome'[g[1]] \in {"granted", "raised"}
                           /\ g[2] = "session" => g[1] \notin OneShot
    BY <1>2 DEF BrokerInv, BrokerTypeOK, GrantIsTheHosts, Respond
  <2> QED
    BY <2>1, <2>2, <2>3 DEF GrantIsTheHosts
<1>5. Approved'
  BY DEF BrokerInv, BrokerTypeOK, Approved, Respond, Lifetimes
<1> QED
  BY <1>3, <1>4, <1>5 DEF BrokerInv

\* The two calls that reach every pending request at once.
LEMMA BrokerHostStep ==
  ASSUME BrokerInv, UseResultOnly \/ CancelBroker
  PROVE  BrokerInv'
<1>1. UNCHANGED <<stage, outcome, grants, said>>
  BY DEF UseResultOnly, CancelBroker
<1>2. \A q \in Requests : answer'[q] = answer[q] \/ (answer[q] = "open" /\ answer'[q] = "no")
  BY DEF UseResultOnly, CancelBroker
<1>3. BrokerTypeOK'
  <2>1. CASE UseResultOnly
    BY <1>1, <2>1 DEF BrokerInv, BrokerTypeOK, UseResultOnly
  <2>2. CASE CancelBroker
    <3>1. answer' \in [Requests -> Answers \cup {"open"}]
      BY <2>2 DEF BrokerInv, BrokerTypeOK, CancelBroker, Answers
    <3>2. doomed' \subseteq { q \in Requests : fallback'[q] # "none" }
      BY <2>2 DEF BrokerInv, BrokerTypeOK, CancelBroker, Alive
    <3>3. {resultOnly', cancelled'} \subseteq BOOLEAN
      BY <2>2 DEF BrokerInv, BrokerTypeOK, CancelBroker
    <3> QED
      BY <1>1, <2>2, <3>1, <3>2, <3>3 DEF BrokerInv, BrokerTypeOK, CancelBroker
  <2> QED
    BY <2>1, <2>2
<1>4. GrantIsTheHosts'
  BY <1>1, <1>2 DEF BrokerInv, BrokerTypeOK, GrantIsTheHosts, Answers, Lifetimes
<1>5. Approved'
  BY <1>1, <1>2 DEF BrokerInv, BrokerTypeOK, Approved, Answers, Lifetimes
<1> QED
  BY <1>3, <1>4, <1>5 DEF BrokerInv

\* Every step of the broker keeps the invariant.
LEMMA BrokerStep == BrokerInv /\ [BrokerNext]_brokerVars => BrokerInv'
<1> SUFFICES ASSUME BrokerInv, [BrokerNext]_brokerVars PROVE BrokerInv'
  OBVIOUS
<1>1. CASE UNCHANGED brokerVars
  BY <1>1 DEF BrokerInv, BrokerTypeOK, GrantIsTheHosts, Approved, brokerVars
<1>2. CASE UseResultOnly \/ CancelBroker
  BY <1>2, BrokerHostStep
<1>3. ASSUME NEW r \in Requests, Ask(r) \/ Task(r) \/ CallEnds(r) \/ Abandon(r)
      PROVE  BrokerInv'
  BY <1>3, AskStep, MoveOnStep, DecideStep, AbandonStep, FallbackStep DEF Task
<1>4. ASSUME NEW r \in Requests, NEW choice \in Answers, Respond(r, choice)
      PROVE  BrokerInv'
  BY <1>4, RespondStep
<1> QED
  BY <1>1, <1>2, <1>3, <1>4 DEF BrokerNext

\* So that it always holds.
LEMMA BrokerAlways == BrokerSpec => []BrokerInv
  BY BrokerStarts, BrokerStep, PTL DEF BrokerSpec

-----------------------------------------------------------------------------
\* The host's answers are the only source of grants: negotiate() returns True, and
\* GrantStore has a grant, only for a response that the host was told is accepted,
\* with the lifetime that it named.
THEOREM HostDecides == BrokerSpec => []GrantIsTheHosts
<1>1. BrokerInv => GrantIsTheHosts
  BY DEF BrokerInv
<1> QED
  BY <1>1, BrokerAlways, PTL

\* A broker that is cancelled grants nothing more, whatever was accepted before.
THEOREM NoGrantAfterCancel == BrokerSpec => CancelStands
<1>1. [BrokerNext]_brokerVars => [cancelled => grants' = grants]_brokerVars
  <2> SUFFICES ASSUME BrokerNext, cancelled PROVE grants' = grants
    BY DEF brokerVars
  <2>1. ASSUME NEW r \in Requests, Decide(r) PROVE grants' = grants
    BY <2>1 DEF Decide, Granted
  <2>2. ASSUME NEW r \in Requests, Ask(r) \/ CallEnds(r) \/ Abandon(r) PROVE grants' = grants
    BY <2>2 DEF Ask, CallEnds, Abandon
  <2>3. ASSUME NEW r \in Requests, PromptPublished(r) \/ CalledBack(r) \/ Closed(r) \/ Call(r)
        PROVE  grants' = grants
    BY <2>3 DEF PromptPublished, CalledBack, Closed, Call
  <2>4. ASSUME NEW r \in Requests, NEW choice \in Answers, Respond(r, choice)
        PROVE  grants' = grants
    BY <2>4 DEF Respond
  <2>5. ASSUME UseResultOnly \/ CancelBroker PROVE grants' = grants
    BY <2>5 DEF UseResultOnly, CancelBroker
  <2> QED
    BY <2>1, <2>2, <2>3, <2>4, <2>5 DEF BrokerNext, Task
<1> QED
  BY <1>1, PTL DEF BrokerSpec, CancelStands

\* A request leaves negotiate() only when its fallback task has ended, and none is
\* created for it afterwards (_notify_fallback, use_result_only).
THEOREM NobodyAsksAfterwards == BrokerSpec => []NothingStillAsks
<1>1. BrokerInit => NothingStillAsks
  BY DEF BrokerInit, NothingStillAsks
<1>2. BrokerInv /\ NothingStillAsks /\ [BrokerNext]_brokerVars => NothingStillAsks'
  <2> SUFFICES ASSUME BrokerInv, NothingStillAsks, [BrokerNext]_brokerVars PROVE NothingStillAsks'
    OBVIOUS
  <2> USE DEF NothingStillAsks, BrokerInv, BrokerTypeOK, Alive
  <2>1. CASE UNCHANGED brokerVars
    BY <2>1 DEF brokerVars
  <2>2. ASSUME NEW r \in Requests, Ask(r) PROVE NothingStillAsks'
    BY <2>2 DEF Ask, Leave
  <2>3. ASSUME NEW r \in Requests, PromptPublished(r) \/ CalledBack(r) \/ Decide(r) PROVE NothingStillAsks'
    BY <2>3 DEF PromptPublished, CalledBack, Decide, Leave
  <2>4. ASSUME NEW r \in Requests, Closed(r) \/ Abandon(r) PROVE NothingStillAsks'
    BY <2>4 DEF Closed, Abandon, Leave
  <2>5. ASSUME NEW r \in Requests, Call(r) \/ CallEnds(r) PROVE NothingStillAsks'
    BY <2>5 DEF Call, CallEnds
  <2>6. ASSUME NEW r \in Requests, NEW choice \in Answers, Respond(r, choice) PROVE NothingStillAsks'
    BY <2>6 DEF Respond
  <2>7. CASE UseResultOnly \/ CancelBroker
    BY <2>7 DEF UseResultOnly, CancelBroker, Pending
  <2> QED BY <2>1, <2>2, <2>3, <2>4, <2>5, <2>6, <2>7 DEF BrokerNext, Task
<1> QED BY <1>1, <1>2, BrokerAlways, PTL DEF BrokerSpec
=============================================================================
