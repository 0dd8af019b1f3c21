----------------------------- MODULE RunChannel -----------------------------
(***************************************************************************)
(* The bounded channel between a run and the consumer of its events:       *)
(* RunEventChannel (run_events.py).  publish() holds a lock over its await, *)
(* and all sides wait on one asyncio.Event, _changed: set() wakes every    *)
(* task that waits then, and a task clears the event before it waits, so   *)
(* what matters is who is asleep.                                          *)
(***************************************************************************)
EXTENDS Integers, Sequences, SequencesExt

CONSTANTS MaxEvents, MaxBytes, Sizes

ASSUME ChannelAssumption ==
  /\ {MaxEvents, MaxBytes} \subseteq Nat \ {0}
  /\ Sizes \subseteq Nat \ {0}

VARIABLES
  queue,        \* the envelopes: sequence number, size, and verdict
  bytes,        \* RunEventChannel._pending_bytes
  sequence,     \* RunEventChannel._sequence
  closed, interrupted,
  pending,      \* the envelope that a publisher has built and waits with
  asleep        \* the tasks that wait for _changed

channel == <<queue, bytes, sequence, closed, interrupted, pending, asleep>>

Publishers == {"runner", "side"}

\* The statuses that a DoneEvent gives its run.  An event that gives none is any
\* other one, or a DoneEvent without a stop_reason.
Verdicts == {"completed", "cancelled", "waiting_for_user", "failed"}

Envelope == [n : Nat, size : Sizes, verdict : Verdicts \cup {"none"}]
Nothing  == [n |-> 0, size |-> 0, verdict |-> "none"]

\* The publishers that hold _publish_lock over their wait.
Waiting == { p \in Publishers : pending[p] # Nothing }

ChannelInit ==
  /\ queue = <<>> /\ bytes = 0 /\ sequence = 0
  /\ pending = [p \in Publishers |-> Nothing]
  /\ closed = FALSE /\ interrupted = FALSE
  /\ asleep = {}

Full(size) == Len(queue) >= MaxEvents \/ bytes + size > MaxBytes

\* _wait_for_capacity: a publisher that had to wait goes on when half is free.
Roomy(size) ==
  /\ Len(queue) <= MaxEvents \div 2
  /\ bytes <= MaxBytes \div 2
  /\ ~Full(size)

\* Mutant of LockFree: publishers do not wait for each other.
NoLock == TRUE

LockFree == Waiting = {}

\* The envelope joins the queue.
Put(p, e) ==
  /\ queue' = Append(queue, e)
  /\ bytes' = bytes + e.size
  /\ sequence' = e.n
  /\ pending' = [pending EXCEPT ![p] = Nothing]
  /\ asleep' = {}
  /\ UNCHANGED <<closed, interrupted>>

Built(size, verdict) == [n |-> sequence + 1, size |-> size, verdict |-> verdict]

\* publish() without a wait.
PutAtOnce(p, size, verdict) ==
  /\ LockFree /\ ~closed
  /\ size <= MaxBytes
  /\ ~Full(size)
  /\ Put(p, Built(size, verdict))

\* publish() that has to wait: _wait_for_capacity looks at the interruption
\* before it sleeps for the first time.
Sleep(p, size, verdict) ==
  /\ LockFree /\ ~closed
  /\ size <= MaxBytes
  /\ Full(size) /\ ~interrupted
  /\ pending' = [pending EXCEPT ![p] = Built(size, verdict)]
  /\ asleep' = asleep \cup {p}
  /\ UNCHANGED <<queue, bytes, sequence, closed, interrupted>>

\* The two ways in which publish() raises before it waits.
Refused(size) == LockFree /\ (closed \/ size > MaxBytes) /\ UNCHANGED channel
InterruptedAtOnce(size) ==
  LockFree /\ ~closed /\ size <= MaxBytes /\ Full(size) /\ interrupted /\ UNCHANGED channel

Awake(p) == p \in Waiting \ asleep

\* A publisher that was woken: there is room, or there is none yet.
PutLate(p) ==
  /\ Awake(p)
  /\ ~interrupted
  /\ Roomy(pending[p].size)
  /\ Put(p, pending[p])

SleepAgain(p) ==
  /\ Awake(p)
  /\ ~interrupted
  /\ ~Roomy(pending[p].size)
  /\ asleep' = asleep \cup {p}
  /\ UNCHANGED <<queue, bytes, sequence, closed, interrupted, pending>>

\* A publisher leaves its wait without publishing: interrupted, timed out,
\* or with its task cancelled.
LeaveWait(p) ==
  /\ p \in Waiting
  /\ pending' = [pending EXCEPT ![p] = Nothing]
  /\ asleep' = asleep \ {p}
  /\ UNCHANGED <<queue, bytes, sequence, closed, interrupted>>

\* get(): an envelope, END, or a wait.
Pop ==
  /\ queue # <<>>
  /\ queue' = Tail(queue)
  /\ bytes' = bytes - Head(queue).size
  /\ asleep' = {}
  /\ UNCHANGED <<sequence, closed, interrupted, pending>>

AtEnd == queue = <<>> /\ closed /\ UNCHANGED channel

WaitFor(c) ==
  /\ queue = <<>> /\ ~closed
  /\ asleep' = asleep \cup {c}
  /\ UNCHANGED <<queue, bytes, sequence, closed, interrupted, pending>>

Interrupt == interrupted' = TRUE /\ asleep' = {}

\* Mutant of CloseChannel: nobody is woken.
CloseAsleep == closed' = TRUE /\ UNCHANGED asleep

CloseChannel == closed' = TRUE /\ asleep' = {}
=============================================================================
