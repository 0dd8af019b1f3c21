---------------------------- MODULE BrowserPool ----------------------------
(***************************************************************************)
(* The managed browser: PlaywrightSessionPool (playwright_session_pool.py).*)
(* The pool keeps one MCP client, and so one browser context, per session  *)
(* key.  A client is opened on the first browser call of its session; at   *)
(* most MaxClients exist; an idle one makes room for another session or is *)
(* reaped; the last one to leave is close_all(final=True).                 *)
(*                                                                         *)
(* What makes it hard is that every operation awaits.  Three locks are     *)
(* held across awaits: the lock of the session, the lock that serialises   *)
(* first calls, and the condition under which clients are opened and       *)
(* closed.  Everything read before one of them was taken may be stale, and *)
(* the task may be cancelled at every await.                               *)
(*                                                                         *)
(* Simplifications: a task asks for its session lock when it is free; time *)
(* passes at any speed, so that every idle client may be the least         *)
(* recently used one or due for the reaper, and every wait may run out; a  *)
(* runner that is told to stop stops.  The generation is left out: only     *)
(* invalidate() and a close_all() that is not final change it under a      *)
(* client, and the program calls neither.                                  *)
(***************************************************************************)
EXTENDS Integers, FiniteSets, Functions

CONSTANTS
  Tasks,        \* the callers
  Keys,         \* browser session keys
  MaxClients,
  Modes, DefaultMode,
  NoTask, NoKey

ASSUME PoolAssumption ==
  /\ IsFiniteSet(Keys) /\ IsFiniteSet(Tasks)
  /\ MaxClients \in Nat \ {0}
  /\ DefaultMode \in Modes
  /\ NoKey \notin Keys
  /\ NoTask \notin Tasks \cup {"reaper", "closer"}
  /\ Tasks \cap {"reaper", "closer"} = {}

VARIABLES
  clients,      \* _clients: the registered clients, by key
  contexts,     \* the runner tasks alive, per key: each owns a browser context
  opening,      \* the client whose readiness is awaited, if any
  modes,        \* _modes
  closed,       \* _closed
  holder,       \* who holds _condition
  session,      \* who holds the session lock, per key
  firstCall,    \* who holds _first_call_lock
  pc, job,      \* where each caller is, and what it was asked for
  reaper, closer

pool  == <<clients, contexts, opening>>
locks == <<holder, session, firstCall>>
vars  == <<pool, modes, closed, locks, pc, job, reaper, closer>>

Jobs == [kind : {"call", "close"}, key : Keys, mode : {DefaultMode}]
          \cup [kind : {"mode"}, key : Keys, mode : Modes]

NoJob == [kind |-> "none", key |-> NoKey, mode |-> DefaultMode]

Stages == {
  "idle", "begin", "lookup",
  "create", "room", "waiting", "woken", "evicting", "opening",  \* _create
  "limited",                     \* BrowserSessionLimitError is raised
  "first", "warming",            \* _warm_up
  "using", "notify", "notifyFailed",  \* _lease
  "discard", "discarding",       \* _discard_terminated
  "restart", "restarting",       \* set_browser_mode
  "shut", "shutting",            \* _close_session
  "cancelled" }                  \* closes a client; will raise CancelledError

NotOpening == [key |-> NoKey, mode |-> DefaultMode]

Init ==
  /\ clients = << >> /\ opening = NotOpening
  /\ contexts = [k \in Keys |-> 0]
  /\ modes = [k \in Keys |-> DefaultMode]
  /\ closed = FALSE /\ holder = NoTask /\ firstCall = NoTask
  /\ session = [k \in Keys |-> NoTask]
  /\ pc = [t \in Tasks |-> "idle"]
  /\ job = [t \in Tasks |-> NoJob]
  /\ reaper = "off" /\ closer = "off"

-----------------------------------------------------------------------------
(* The registry.                                                           *)

Registered == DOMAIN clients
Key(t)     == job[t].key

\* _live, _evictable and active_keys; close_client marks a client as closing.
Live(k)   == k \in Registered /\ ~clients[k].closing /\ clients[k].alive
Active    == { k \in Registered : ~clients[k].closing }

\* Mutant of Evictable: it does not look at in_use.
AnyActive == Active

Evictable == { k \in Active : clients[k].inUse = 0 }

\* A session is in use between in_use += 1 and in_use -= 1.
Busy(k, n) == IF k \in Registered THEN [clients EXCEPT ![k].inUse = @ + n] ELSE clients

Goto(t, stage) == pc' = [pc EXCEPT ![t] = stage]

\* The caller is done with its key.
Release(t, stage) ==
  IF stage = "idle" THEN /\ session' = [session EXCEPT ![Key(t)] = NoTask]
                         /\ job' = [job EXCEPT ![t] = NoJob]
                    ELSE UNCHANGED <<session, job>>

\* Where an exception leads: a failed switch closes its client, once more.
FailStage(t) == IF job[t].kind = "mode" /\ Key(t) \in Active THEN "shut" ELSE "idle"

\* An exception also leaves the first-call lock.
LeaveFirst(t) == firstCall' = IF firstCall = t THEN NoTask ELSE firstCall

Leave(t) == Goto(t, "idle") /\ Release(t, "idle")
Fail(t)  == Goto(t, FailStage(t)) /\ Release(t, FailStage(t)) /\ LeaveFirst(t)

\* The client of the key is taken, in the step that found it: counted as in
\* use by the call, by the warm-up that comes first, or left to wait for it.
Take(t, cs) ==
  LET c == cs[Key(t)] IN
  IF c.calls \/ firstCall = t
    THEN /\ clients' = [cs EXCEPT ![Key(t)].inUse = @ + 1, ![Key(t)].calls = TRUE]
         /\ Goto(t, IF c.calls THEN "using" ELSE "warming")
         /\ firstCall' = IF c.calls /\ firstCall = t THEN NoTask ELSE firstCall
    ELSE clients' = cs /\ Goto(t, "first") /\ UNCHANGED firstCall

-----------------------------------------------------------------------------
(* _close_client: two steps, under the condition.                          *)

CloseBegin(who, k) ==
  /\ holder' = who
  /\ clients' = [clients EXCEPT ![k].closing = TRUE]

\* Only the holder of the condition closes a client.
Closing == { k \in Registered : clients[k].closing }

\* The runner has settled: the client leaves the registry, waiters wake up.
Settle(k) ==
  /\ clients' = Restrict(clients, Registered \ {k})
  /\ contexts' = [contexts EXCEPT ![k] = IF clients[k].alive THEN @ - 1 ELSE @]

Woken(stages) == [t \in Tasks |-> IF stages[t] = "waiting" THEN "woken" ELSE stages[t]]
Wake(t, stage) == pc' = Woken([pc EXCEPT ![t] = stage])

-----------------------------------------------------------------------------
(* lease, close and set_browser_mode, up to their first await.             *)

Start(t) ==
  /\ pc[t] = "idle"
  /\ \E j \in Jobs :
       /\ session[j.key] = NoTask
       /\ job' = [job EXCEPT ![t] = j]
       /\ session' = [session EXCEPT ![j.key] = t]
  /\ Goto(t, "begin")
  /\ UNCHANGED <<pool, modes, closed, holder, firstCall, reaper, closer>>

BeginCall(t) ==
  /\ pc[t] = "begin" /\ job[t].kind = "call"
  /\ Goto(t, "lookup")
  /\ UNCHANGED <<pool, modes, closed, locks, job, reaper, closer>>

\* close() forgets the mode first.
BeginClose(t) ==
  /\ pc[t] = "begin" /\ job[t].kind = "close"
  /\ modes' = [modes EXCEPT ![Key(t)] = DefaultMode]
  /\ IF Key(t) \in Active THEN Goto(t, "shut") /\ UNCHANGED <<session, job>> ELSE Leave(t)
  /\ UNCHANGED <<pool, closed, holder, firstCall, reaper, closer>>

BeginMode(t) ==
  /\ pc[t] = "begin" /\ job[t].kind = "mode"
  /\ IF closed THEN Leave(t)
     ELSE /\ Goto(t, IF job[t].mode # modes[Key(t)] THEN "restart" ELSE "lookup")
          /\ UNCHANGED <<session, job>>
  /\ UNCHANGED <<pool, modes, closed, holder, firstCall, reaper, closer>>

\* The start of _lease.
Lookup(t) ==
  /\ pc[t] = "lookup"
  /\ CASE closed             -> Fail(t) /\ UNCHANGED clients
       [] ~closed /\ Live(Key(t))  -> Take(t, clients) /\ UNCHANGED <<session, job>>
       [] ~closed /\ ~Live(Key(t)) ->
            Goto(t, "create") /\ UNCHANGED <<clients, session, firstCall, job>>
  /\ UNCHANGED <<contexts, opening, modes, closed, holder, reaper, closer>>

-----------------------------------------------------------------------------
(* _create.                                                                *)

\* Entered with the condition free; a dead client of the key is closed first.
\* The code looks for a live one again here and after every wait: the session
\* lock keeps it from finding one.
EnterCreate(t) ==
  /\ pc[t] = "create" /\ holder = NoTask /\ ~closed
  /\ IF Key(t) \in Registered
       THEN CloseBegin(t, Key(t)) /\ Goto(t, "evicting")
       ELSE holder' = t /\ Goto(t, "room") /\ UNCHANGED clients
  /\ UNCHANGED <<contexts, opening, modes, closed, session, firstCall, job, reaper, closer>>

\* The condition is held: on entry, after a close, or again after a wake-up.
InRoom(t) ==
  \/ pc[t] = "room" /\ holder = t
  \/ pc[t] = "woken" /\ holder = NoTask

\* Mutant of Full: a client that is in use is not counted.
FullOfIdle == Cardinality(Evictable) >= MaxClients

Full == Cardinality(Active) >= MaxClients

CreateRefused(t) ==
  /\ InRoom(t) \/ (pc[t] = "create" /\ holder = NoTask)
  /\ closed
  /\ Fail(t)
  /\ holder' = NoTask
  /\ UNCHANGED <<pool, modes, closed, reaper, closer>>

Evict(t) ==
  /\ InRoom(t) /\ ~closed /\ Full
  /\ \E k \in Evictable : CloseBegin(t, k)
  /\ Goto(t, "evicting")
  /\ UNCHANGED <<contexts, opening, modes, closed, session, firstCall, job, reaper, closer>>

\* No idle client: the wait, or the deadline has passed.
Wait(t) ==
  /\ InRoom(t) /\ ~closed /\ Full /\ Evictable = {}
  /\ holder' = NoTask
  /\ \E stage \in {"waiting", "limited"} : Goto(t, stage)
  /\ UNCHANGED <<pool, modes, closed, session, firstCall, job, reaper, closer>>

\* wait_for() ends condition.wait(), which takes the condition back first;
\* nothing is looked at again.
TimeOut(t) ==
  /\ pc[t] \in {"waiting", "woken"} /\ holder = NoTask
  /\ Goto(t, "limited")
  /\ UNCHANGED <<pool, modes, closed, locks, job, reaper, closer>>

RaiseLimit(t) ==
  /\ pc[t] = "limited"
  /\ Fail(t)
  /\ UNCHANGED <<pool, modes, closed, holder, reaper, closer>>

Open(t) ==
  /\ InRoom(t) /\ ~closed /\ ~Full
  /\ holder' = t
  /\ opening' = [key |-> Key(t), mode |-> modes[Key(t)]]
  /\ contexts' = [contexts EXCEPT ![Key(t)] = @ + 1]
  /\ Goto(t, "opening")
  /\ UNCHANGED <<clients, modes, closed, session, firstCall, job, reaper, closer>>

NewClient == [alive |-> TRUE, calls |-> FALSE, inUse |-> 0,
              closing |-> FALSE, mode |-> opening.mode]

Opened(t) ==
  /\ pc[t] = "opening" /\ ~closed
  /\ Take(t, [k \in Registered \cup {Key(t)} |-> IF k = Key(t) THEN NewClient ELSE clients[k]])
  /\ opening' = NotOpening /\ holder' = NoTask
  /\ reaper' = IF reaper = "off" THEN "sleep" ELSE reaper     \* _ensure_reaper
  /\ UNCHANGED <<contexts, modes, closed, session, job, closer>>

\* Mutant of NotOpened: the runner is not cancelled.
RunnerLeaks(t) ==
  /\ pc[t] = "opening"
  /\ Fail(t)
  /\ opening' = NotOpening /\ holder' = NoTask
  /\ UNCHANGED <<clients, contexts, modes, closed, reaper, closer>>

\* The factory fails, the task is cancelled, or the pool is closed by now:
\* the runner is cancelled and has ended before the condition is released.
NotOpened(t) ==
  /\ pc[t] = "opening"
  /\ Fail(t)
  /\ opening' = NotOpening /\ holder' = NoTask
  /\ contexts' = [contexts EXCEPT ![Key(t)] = @ - 1]
  /\ UNCHANGED <<clients, modes, closed, reaper, closer>>

-----------------------------------------------------------------------------
(* _warm_up and the call itself.                                           *)

\* The client found by _lease may have been closed while this task waited.
FirstLock(t) ==
  /\ pc[t] = "first" /\ firstCall = NoTask
  /\ IF ~Live(Key(t))
       THEN Goto(t, "create") /\ firstCall' = t /\ UNCHANGED clients
       ELSE /\ clients' = [clients EXCEPT ![Key(t)].inUse = @ + 1, ![Key(t)].calls = TRUE]
            /\ IF clients[Key(t)].calls
                 THEN Goto(t, "using") /\ UNCHANGED firstCall
                 ELSE Goto(t, "warming") /\ firstCall' = t
  /\ UNCHANGED <<contexts, opening, modes, closed, holder, session, job, reaper, closer>>

\* The warm-up ends, whatever it returned; the count passes to the call.
Warmed(t) ==
  /\ pc[t] = "warming"
  /\ Goto(t, "using") /\ firstCall' = NoTask
  /\ UNCHANGED <<pool, modes, closed, holder, session, job, reaper, closer>>

\* A cancelled warm-up lets go of the client and tells no one who waits.
WarmUpCancelled(t) ==
  /\ pc[t] = "warming"
  /\ clients' = Busy(Key(t), -1)
  /\ Fail(t)
  /\ UNCHANGED <<contexts, opening, modes, closed, holder, reaper, closer>>

\* The call returns, fails, or is cancelled; a switch may have failed with it.
Used(t) ==
  /\ pc[t] = "using"
  /\ clients' = Busy(Key(t), -1)
  /\ \/ Goto(t, "notify")
     \/ job[t].kind = "mode" /\ Goto(t, "notifyFailed")
  /\ UNCHANGED <<contexts, opening, modes, closed, locks, job, reaper, closer>>

\* The transport is gone: this task retires its own client.
Terminated(t) ==
  /\ pc[t] \in {"warming", "using"}
  /\ Goto(t, "discard")
  /\ UNCHANGED <<pool, modes, closed, locks, job, reaper, closer>>

Discard(t) ==
  /\ pc[t] = "discard" /\ holder = NoTask /\ Key(t) \in Registered
  /\ CloseBegin(t, Key(t))
  /\ Goto(t, "discarding")
  /\ UNCHANGED <<contexts, opening, modes, closed, session, firstCall, job, reaper, closer>>

\* The client is gone already, or the wait for the condition is cancelled.
DiscardSkipped(t) ==
  /\ pc[t] = "discard"
  /\ clients' = Busy(Key(t), -1)
  /\ IF firstCall = t THEN Fail(t)
     ELSE Goto(t, "notifyFailed") /\ UNCHANGED <<session, job, firstCall>>
  /\ UNCHANGED <<contexts, opening, modes, closed, holder, reaper, closer>>

Ended(t) == IF pc[t] = "notifyFailed" THEN FailStage(t) ELSE "idle"

Notify(t) ==
  /\ pc[t] \in {"notify", "notifyFailed"} /\ holder = NoTask
  /\ Wake(t, Ended(t)) /\ Release(t, Ended(t))
  /\ UNCHANGED <<pool, modes, closed, holder, firstCall, reaper, closer>>

-----------------------------------------------------------------------------
(* Closing one's own key: set_browser_mode and _close_session.             *)

Restart(t) ==
  /\ pc[t] = "restart" /\ holder = NoTask
  /\ IF Key(t) \in Registered
       THEN /\ CloseBegin(t, Key(t)) /\ Goto(t, "restarting")
            /\ UNCHANGED modes
       ELSE /\ modes' = [modes EXCEPT ![Key(t)] = job[t].mode]
            /\ Goto(t, "lookup")
            /\ UNCHANGED <<clients, holder>>
  /\ UNCHANGED <<contexts, opening, closed, session, firstCall, job, reaper, closer>>

Shut(t) ==
  /\ pc[t] = "shut" /\ holder = NoTask
  /\ IF Key(t) \in Registered
       THEN CloseBegin(t, Key(t)) /\ Goto(t, "shutting") /\ UNCHANGED <<session, job>>
       ELSE Leave(t) /\ UNCHANGED <<clients, holder>>
  /\ UNCHANGED <<contexts, opening, modes, closed, firstCall, reaper, closer>>

\* What follows the close of a client by a caller.
AfterClose(t) ==
  CASE pc[t] = "evicting"   -> "room"
    [] pc[t] = "restarting" -> "lookup"
    [] pc[t] = "discarding" -> IF firstCall = t THEN "idle" ELSE "notifyFailed"
    [] OTHER                -> "idle"

CloseEnd(t) ==
  /\ holder = t
  /\ \E k \in Closing : Settle(k)
  /\ Wake(t, AfterClose(t)) /\ Release(t, AfterClose(t))
  /\ IF pc[t] = "evicting" THEN UNCHANGED <<holder, firstCall>>
                           ELSE holder' = NoTask /\ LeaveFirst(t)
  /\ modes' = IF pc[t] = "restarting" THEN [modes EXCEPT ![Key(t)] = job[t].mode] ELSE modes
  /\ UNCHANGED <<opening, closed, reaper, closer>>

-----------------------------------------------------------------------------
(* Cancellation at an await that is not above.                             *)

\* The tab cleanup is cut short; the client is torn down all the same.
CancelClose(t) ==
  /\ pc[t] \in {"evicting", "restarting", "shutting"}
  /\ Goto(t, "cancelled")
  /\ UNCHANGED <<pool, modes, closed, locks, job, reaper, closer>>

\* Waiting for a lock; condition.wait() takes the condition back first.
CancelWait(t) ==
  /\ \/ pc[t] \in {"create", "first"}
     \/ pc[t] \in {"waiting", "woken"} /\ holder = NoTask
  /\ Fail(t)
  /\ UNCHANGED <<pool, modes, closed, holder, reaper, closer>>

CancelOwnClose(t) ==
  /\ pc[t] \in {"restart", "shut"}
  /\ Leave(t)
  /\ UNCHANGED <<pool, modes, closed, holder, firstCall, reaper, closer>>

\* The call has ended, its client is idle, and no waiter hears of it.
CancelNotify(t) ==
  /\ pc[t] \in {"notify", "notifyFailed"} /\ holder # NoTask
  /\ Goto(t, FailStage(t)) /\ Release(t, FailStage(t))
  /\ UNCHANGED <<pool, modes, closed, holder, firstCall, reaper, closer>>

-----------------------------------------------------------------------------
(* The reaper, close_all(final=True), and what happens to a client.        *)

ReapBegin(k) ==
  /\ reaper = "sleep" /\ holder = NoTask /\ k \in Evictable
  /\ CloseBegin("reaper", k)
  /\ reaper' = "reap"
  /\ UNCHANGED <<contexts, opening, modes, closed, session, firstCall, pc, job, closer>>

\* The loop ends when the pool is closed or empty.
ReapEnd ==
  /\ holder = "reaper" /\ holder' = NoTask
  /\ \E k \in Closing : Settle(k)
  /\ pc' = Woken(pc)
  /\ reaper' = IF closed \/ DOMAIN clients' = {} THEN "off" ELSE "sleep"
  /\ UNCHANGED <<opening, modes, closed, session, firstCall, job, closer>>

\* Mutant of ReaperStops: close_all() does not cancel the reaper.
ReaperStopsWhenEmpty ==
  /\ reaper = "sleep" /\ Registered = {} /\ holder = NoTask
  /\ reaper' = "off"
  /\ UNCHANGED <<pool, modes, closed, locks, pc, job, closer>>

ReaperStops ==
  /\ reaper = "sleep" /\ (closed \/ (Registered = {} /\ holder = NoTask))
  /\ reaper' = "off"
  /\ UNCHANGED <<pool, modes, closed, locks, pc, job, closer>>

CloseAll ==
  /\ closer = "off"
  /\ closed' = TRUE /\ closer' = "begun"
  /\ UNCHANGED <<pool, modes, locks, pc, job, reaper>>

\* The reaper has been cancelled; every client goes, whoever uses it.
SweepBegin(k) ==
  /\ closer = "begun" /\ reaper = "off"
  /\ holder = NoTask \/ (holder = "closer" /\ Closing = {})
  /\ k \in Registered
  /\ CloseBegin("closer", k)
  /\ UNCHANGED <<contexts, opening, modes, closed, session, firstCall, pc, job, reaper, closer>>

SweepEnd ==
  /\ holder = "closer"
  /\ \E k \in Closing : Settle(k)
  /\ pc' = Woken(pc)
  /\ UNCHANGED <<opening, modes, closed, locks, job, reaper, closer>>

\* Mutant of AllClosed: it does not take the condition.
AllClosedAtOnce ==
  /\ closer = "begun" /\ reaper = "off" /\ Registered = {}
  /\ modes' = [k \in Keys |-> DefaultMode]
  /\ closer' = "done"
  /\ UNCHANGED <<pool, closed, locks, pc, job, reaper>>

AllClosed ==
  /\ closer = "begun" /\ reaper = "off"
  /\ holder \in {NoTask, "closer"} /\ Registered = {}
  /\ holder' = NoTask
  /\ modes' = [k \in Keys |-> DefaultMode]
  /\ closer' = "done"
  /\ UNCHANGED <<pool, closed, session, firstCall, pc, job, reaper>>

\* The transport of a client ends: its runner does, too.
RunnerEnds(k) ==
  /\ k \in Registered /\ clients[k].alive
  /\ clients' = [clients EXCEPT ![k].alive = FALSE]
  /\ contexts' = [contexts EXCEPT ![k] = @ - 1]
  /\ UNCHANGED <<opening, modes, closed, locks, pc, job, reaper, closer>>

-----------------------------------------------------------------------------

Creating(t) ==
  \/ EnterCreate(t) \/ CreateRefused(t) \/ Evict(t) \/ Wait(t)
  \/ TimeOut(t) \/ RaiseLimit(t) \/ Open(t) \/ Opened(t) \/ NotOpened(t)

Calling(t) == Start(t) \/ WarmUpCancelled(t) \/ Terminated(t)

Ending(t) ==
  \/ BeginCall(t) \/ Lookup(t) \/ FirstLock(t) \/ Warmed(t) \/ Used(t)
  \/ Discard(t) \/ DiscardSkipped(t) \/ Notify(t)

ClosingOwn(t) ==
  \/ BeginClose(t) \/ BeginMode(t) \/ Restart(t) \/ Shut(t) \/ CloseEnd(t)

Cancelling(t) ==
  CancelClose(t) \/ CancelWait(t) \/ CancelOwnClose(t) \/ CancelNotify(t)

Upkeep ==
  \/ ReapEnd \/ ReaperStops \/ CloseAll \/ SweepEnd \/ AllClosed
  \/ \E k \in Keys : ReapBegin(k) \/ SweepBegin(k) \/ RunnerEnds(k)

Next ==
  \/ \E t \in Tasks : Creating(t) \/ Calling(t) \/ Ending(t) \/ ClosingOwn(t) \/ Cancelling(t)
  \/ Upkeep

Spec == Init /\ [][Next]_vars

\* Every await of the pool ends by itself: the factory has its connect timeout,
\* the tab cleanup, the warm-up and the call have theirs.  A lock that is free
\* is taken by somebody; that suffices, because a closed pool opens nothing.
\* Callers, cancellations, the reaper's clock, lost transports and close_all()
\* are left to chance.
Fairness ==
  /\ \A t \in Tasks : WF_vars(Creating(t) \/ Ending(t) \/ ClosingOwn(t))
  /\ WF_vars(ReapEnd \/ ReaperStops \/ SweepEnd)
  /\ WF_vars(AllClosed \/ \E k \in Keys : SweepBegin(k))

FairSpec == Spec /\ Fairness

-----------------------------------------------------------------------------
(* Properties.                                                             *)

Client == [alive : BOOLEAN, calls : BOOLEAN, inUse : {0, 1}, closing : BOOLEAN, mode : Modes]

TypeOK ==
  /\ clients \in UNION { [ks -> Client] : ks \in SUBSET Keys }
  /\ contexts \in [Keys -> {0, 1}]
  /\ opening \in [key : Keys, mode : Modes] \cup {NotOpening}
  /\ modes \in [Keys -> Modes] /\ closed \in BOOLEAN
  /\ holder \in Tasks \cup {"reaper", "closer", NoTask}
  /\ session \in [Keys -> Tasks \cup {NoTask}] /\ firstCall \in Tasks \cup {NoTask}
  /\ pc \in [Tasks -> Stages] /\ job \in [Tasks -> Jobs \cup {NoJob}]
  /\ reaper \in {"off", "sleep", "reap"} /\ closer \in {"off", "begun", "done"}

\* At most max_clients browser contexts exist at a time, and one per session;
\* those being opened and those being torn down count ("at most max_clients
\* live at once"), and none is left behind by a failure or a cancellation: each
\* belongs to a registered client or to the one being opened.
WithinLimit ==
  /\ Cardinality({ k \in Keys : contexts[k] > 0 }) <= MaxClients
  /\ \A k \in Keys :
       contexts[k] = IF k \in Registered THEN (IF clients[k].alive THEN 1 ELSE 0)
                                         ELSE (IF opening.key = k THEN 1 ELSE 0)

\* The tasks that are between in_use += 1 and in_use -= 1.
Users(k) == { t \in Tasks : Key(t) = k /\ pc[t] \in {"warming", "using", "discard", "discarding"} }

\* A client that a call or a warm-up uses is closed by close_all(), or by the
\* very task that uses it when its transport is gone; never to make room,
\* never by the reaper, never for another session.
InUseStays ==
  [][\A k \in Registered :
       Users(k) # {} /\ k \in Closing' \ Closing
         => holder' = "closer" \/ holder' \in Users(k)]_vars

\* After close_all(final=True) there is no client and no context, and none
\* comes back, whatever was still under way ("a closed pool cannot create new
\* clients").
Settled == closer = "done" => Registered = {} /\ \A k \in Keys : contexts[k] = 0

\* close_all() ends although callers hold the condition, wait in it, or are
\* about to open a client, and although what they hold is cancelled anywhere.
CloseAllEnds == closed ~> closer = "done"
=============================================================================
