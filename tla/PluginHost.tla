----------------------------- MODULE PluginHost -----------------------------
(***************************************************************************)
(* The plugin host (plugins/host.py) under the sessions of one runtime     *)
(* (plugins/runtime.py).  A session activates the process and session      *)
(* plugins when it opens, and all of them for each run; the host creates   *)
(* what it has not cached, in the order of the dependencies, rolls back an *)
(* activation that fails, and disposes in the reverse order.               *)
(*                                                                         *)
(* Every factory and every disposer is a callback that may raise, and may  *)
(* be interrupted by a cancellation; an interrupted disposer is tried      *)
(* again later, a disposer that raises is not.  The host serializes its    *)
(* operations: op is the one in flight.                                    *)
(*                                                                         *)
(* Simplifications: a session key is opened once, so that a record is      *)
(* known by its plugin and the session whose activation created it.        *)
(***************************************************************************)
EXTENDS Naturals, SequencesExt

CONSTANTS
  Plan,       \* the plugins, dependencies first
  Scope,      \* of each: "process", "session" or "run"
  Sessions,   \* the session keys
  MaxCuts     \* bound: how many disposers are interrupted

Plugins == ToSet(Plan)

ASSUME HostAssumption ==
  /\ Plan \in Seq(Plugins) /\ IsInjective(Plan)
  /\ Scope \in [Plugins -> {"process", "session", "run"}]
  /\ MaxCuts \in Nat

VARIABLES
  live,       \* _live_records: records in the order of their creation
  disposed,   \* those of them that the operation in flight has disposed
  cached,     \* the records in the process and session caches
  pending,    \* _pending_run_rollbacks
  blocked,    \* _closing_sessions
  shut,       \* the host is closed
  op,         \* the operation in flight
  session,    \* the state of each PluginSession: "closing" until aclose() succeeds
  run,        \* PluginSession._run, and the records its activation still owns
  active,     \* the sessions with a run, opening or under way
  stopping,   \* PluginRuntime._closing
  cuts        \* how many disposers were interrupted

vars == <<live, disposed, cached, pending, blocked, shut, op, session, run, active, stopping, cuts>>

Records == Plugins \X Sessions

ScopeOf(r) == Scope[r[1]]
Runs(S)    == { r \in S : ScopeOf(r) = "run" }

\* The elements of s that are in S, in their order.
Only(s, S) ==
  LET upTo[n \in 0..Len(s)] ==
        IF n = 0 THEN <<>>
        ELSE IF s[n] \in S THEN Append(upTo[n - 1], s[n]) ELSE upTo[n - 1]
  IN  upTo[Len(s)]

\* A record is there until its disposer has ended, well or badly.
There(r)   == r \in ToSet(live) \ disposed
Latest(S)  == Reverse(Only(live, S))

NoRun == [held |-> FALSE, records |-> {}]
Idle  == [at |-> "idle", key |-> "none", plan |-> <<>>, made |-> {}, odd |-> {},
          todo |-> <<>>, bad |-> FALSE, cut |-> FALSE]

Init ==
  /\ live = <<>> /\ disposed = {} /\ cached = {} /\ blocked = {}
  /\ pending = [k \in Sessions |-> {}]
  /\ shut = FALSE /\ stopping = FALSE
  /\ op = Idle
  /\ session = [k \in Sessions |-> "new"]
  /\ run = [k \in Sessions |-> NoRun]
  /\ active = {}
  /\ cuts = 0

-----------------------------------------------------------------------------
(* activate().                                                             *)

Activate(k, at, scopes) ==
  op' = [Idle EXCEPT !.at = at, !.key = k,
                     !.plan = Only(Plan, { p \in Plugins : Scope[p] \in scopes })]

Creating == op.at \in {"open", "openrun"}

InCache(p, k) == { r \in cached : r[1] = p /\ (Scope[p] = "process" \/ r[2] = k) }

OpenSession(k) ==
  /\ op = Idle /\ session[k] = "new" /\ ~stopping
  /\ Activate(k, "open", {"process", "session"})
  /\ session' = [session EXCEPT ![k] = "opening"]
  /\ UNCHANGED <<live, disposed, cached, pending, blocked, shut, run, active, stopping, cuts>>

\* Mutant of Refused: the unfinished cleanup of the session is not looked at.
RefusedHeld(k) == run[k].held

Refused(k) == run[k].held \/ k \in blocked

OpenRun(k) ==
  /\ op = Idle /\ session[k] = "open" /\ k \notin active /\ ~stopping /\ ~Refused(k)
  /\ Activate(k, "openrun", {"process", "session", "run"})
  /\ active' = active \cup {k}
  /\ UNCHANGED <<live, disposed, cached, pending, blocked, shut, session, run, stopping, cuts>>

Reuse ==
  /\ Creating /\ op.plan # <<>> /\ InCache(Head(op.plan), op.key) # {}
  /\ op' = [op EXCEPT !.plan = Tail(@)]
  /\ UNCHANGED <<live, disposed, cached, pending, blocked, shut, session, run, active, stopping, cuts>>

MustCreate == Creating /\ op.plan # <<>> /\ InCache(Head(op.plan), op.key) = {}

Create ==
  LET r == <<Head(op.plan), op.key>> IN
  /\ MustCreate
  /\ live' = Append(live, r)
  /\ cached' = IF ScopeOf(r) = "run" THEN cached ELSE cached \cup {r}
  /\ op' = [op EXCEPT !.plan = Tail(@), !.made = @ \cup {r}]
  /\ UNCHANGED <<disposed, pending, blocked, shut, session, run, active, stopping, cuts>>

\* What was created leaves the caches, and is disposed latest first.
Undo ==
  /\ cached' = cached \ op.made
  /\ op' = [op EXCEPT !.at = "undo", !.plan = <<>>, !.todo = Latest(op.made)]

FactoryFails ==
  /\ MustCreate
  /\ Undo
  /\ UNCHANGED <<live, disposed, pending, blocked, shut, session, run, active, stopping, cuts>>

\* The instance does not have the port that its plugin declares: it is
\* disposed first, by itself.
Invalid ==
  LET r == <<Head(op.plan), op.key>> IN
  /\ MustCreate
  /\ live' = Append(live, r)
  /\ op' = [op EXCEPT !.at = "invalid", !.odd = {r}, !.todo = <<r>>]
  /\ UNCHANGED <<disposed, cached, pending, blocked, shut, session, run, active, stopping, cuts>>

Activated(at) == op.at = at /\ op.plan = <<>>

\* open_session goes on to prepare the session, outside the host.
SessionActivated ==
  /\ Activated("open")
  /\ session' = [session EXCEPT ![op.key] = "preparing"]
  /\ op' = Idle
  /\ UNCHANGED <<live, disposed, cached, pending, blocked, shut, run, active, stopping, cuts>>

RunActivated ==
  /\ Activated("openrun")
  /\ run' = [run EXCEPT ![op.key] = [held |-> TRUE, records |-> Runs(op.made)]]
  /\ op' = Idle
  /\ UNCHANGED <<live, disposed, cached, pending, blocked, shut, session, active, stopping, cuts>>

-----------------------------------------------------------------------------
(* _dispose_records(), and what each of its callers does after it.         *)

\* A disposer that ends or raises is done with; an interrupted one is not,
\* but does not stop the ones behind it either.
Dispose ==
  /\ op.todo # <<>>
  /\ \/ /\ disposed' = disposed \cup {Head(op.todo)}
        /\ op' \in {[op EXCEPT !.todo = Tail(@), !.bad = @ \/ raises] : raises \in BOOLEAN}
        /\ UNCHANGED cuts
     \/ /\ cuts < MaxCuts
        /\ op' = [op EXCEPT !.todo = Tail(@), !.cut = TRUE]
        /\ cuts' = cuts + 1
        /\ UNCHANGED disposed
  /\ UNCHANGED <<live, cached, pending, blocked, shut, session, run, active, stopping>>

Disposed(at) == op.at = at /\ op.todo = <<>>
Raises       == op.bad \/ op.cut

Purge ==
  /\ live' = Only(live, ToSet(live) \ disposed)
  /\ disposed' = {}

\* _retain_run_rollback: the session owns what is left of a failed run.
Retain(S) ==
  LET kept == Runs(S) \ disposed IN
  /\ pending' = [pending EXCEPT ![op.key] = @ \cup kept]
  /\ blocked' = IF kept = {} THEN blocked ELSE blocked \cup {op.key}

\* The rollback of the rest follows.
InvalidEnd ==
  /\ Disposed("invalid")
  /\ Undo
  /\ Purge
  /\ Retain(op.odd)
  /\ UNCHANGED <<shut, session, run, active, stopping, cuts>>

\* activate() raises.
UndoEnd ==
  /\ Disposed("undo")
  /\ Purge
  /\ Retain(op.made)
  /\ session' = IF session[op.key] = "opening" THEN [session EXCEPT ![op.key] = "failed"] ELSE session
  /\ active' = active \ {op.key}
  /\ op' = Idle
  /\ UNCHANGED <<cached, shut, run, stopping, cuts>>

Disposing(at, k, S) == op' = [Idle EXCEPT !.at = at, !.key = k, !.todo = Latest(S)]

\* The end of a run: close_run(), or the cleanup in open_run() when a binding
\* cannot be installed.  Also the retry of it, by the close of the session.
EndRun(k) ==
  /\ op = Idle /\ run[k].held /\ (k \in active \/ session[k] = "closing")
  /\ Disposing("run", k, run[k].records)
  /\ UNCHANGED <<live, disposed, cached, pending, blocked, shut, session, run, active, stopping, cuts>>

\* When a disposer raised the run stays, even with nothing left to dispose.
RunEnded ==
  LET left == run[op.key].records \ disposed IN
  /\ Disposed("run")
  /\ run' = [run EXCEPT ![op.key] = IF Raises THEN [held |-> TRUE, records |-> left] ELSE NoRun]
  /\ Purge
  /\ active' = active \ {op.key}
  /\ op' = Idle
  /\ UNCHANGED <<cached, pending, blocked, shut, session, stopping, cuts>>

-----------------------------------------------------------------------------
(* The close of a session, and of the runtime.                             *)

Prepared(k) ==
  /\ session[k] = "preparing" /\ ~stopping
  /\ session' = [session EXCEPT ![k] = "open"]
  /\ UNCHANGED <<live, disposed, cached, pending, blocked, shut, op, run, active, stopping, cuts>>

\* Also what a failed preparation does.
CloseSession(k) ==
  /\ session[k] \in {"preparing", "open"} /\ k \notin active
  /\ session' = [session EXCEPT ![k] = "closing"]
  /\ UNCHANGED <<live, disposed, cached, pending, blocked, shut, op, run, active, stopping, cuts>>

\* dispose_session(): what a failed run left comes first.
DisposeSession(k) ==
  /\ op = Idle /\ session[k] = "closing" /\ ~run[k].held
  /\ Disposing("pending", k, pending[k])
  /\ UNCHANGED <<live, disposed, cached, pending, blocked, shut, session, run, active, stopping, cuts>>

OwnedBy(k) == { r \in cached : ScopeOf(r) = "session" /\ r[2] = k }

\* Mutant of PendingDisposed: goes on after an interruption.
PendingDisposedAnyway ==
  /\ Disposed("pending")
  /\ pending' = [pending EXCEPT ![op.key] = @ \ disposed]
  /\ Purge
  /\ op' = [op EXCEPT !.at = "owned", !.todo = Latest(OwnedBy(op.key))]
  /\ blocked' = IF OwnedBy(op.key) = {} THEN blocked ELSE blocked \cup {op.key}
  /\ UNCHANGED <<cached, shut, session, run, active, stopping, cuts>>

PendingDisposed ==
  LET owned == OwnedBy(op.key) IN
  /\ Disposed("pending")
  /\ pending' = [pending EXCEPT ![op.key] = @ \ disposed]
  /\ Purge
  /\ IF op.cut
       THEN op' = Idle /\ UNCHANGED blocked
       ELSE /\ op' = [op EXCEPT !.at = "owned", !.todo = Latest(owned)]
            /\ blocked' = IF owned = {} THEN blocked ELSE blocked \cup {op.key}
  /\ UNCHANGED <<cached, shut, session, run, active, stopping, cuts>>

\* Mutant of OwnedDisposed: the session is closed whatever its disposers did.
OwnedDisposedAnyway ==
  /\ Disposed("owned")
  /\ cached' = cached \ disposed
  /\ Purge
  /\ blocked' = blocked \ {op.key}
  /\ session' = [session EXCEPT ![op.key] = "closed"]
  /\ op' = Idle
  /\ UNCHANGED <<pending, shut, run, active, stopping, cuts>>

OwnedDisposed ==
  /\ Disposed("owned")
  /\ cached' = cached \ disposed
  /\ Purge
  /\ blocked' = IF OwnedBy(op.key) \subseteq disposed THEN blocked \ {op.key} ELSE blocked
  /\ session' = IF Raises THEN session ELSE [session EXCEPT ![op.key] = "closed"]
  /\ op' = Idle
  /\ UNCHANGED <<pending, shut, run, active, stopping, cuts>>

StopRuntime ==
  /\ ~stopping
  /\ stopping' = TRUE
  /\ UNCHANGED <<live, disposed, cached, pending, blocked, shut, op, session, run, active, cuts>>

\* Mutant of HostClose: a second close finds the host closed.
HostCloseOnce ==
  /\ op = Idle /\ stopping /\ \A k \in Sessions : session[k] \in {"new", "failed", "closed"}
  /\ ~shut
  /\ shut' = TRUE
  /\ op' = [Idle EXCEPT !.at = "close", !.todo = Reverse(live)]
  /\ UNCHANGED <<live, disposed, cached, pending, blocked, session, run, active, stopping, cuts>>

\* close() of the host, when every session has been closed; and its retry.
HostClose ==
  /\ op = Idle /\ stopping /\ \A k \in Sessions : session[k] \in {"new", "failed", "closed"}
  /\ ~shut \/ live # <<>>
  /\ shut' = TRUE
  /\ op' = [Idle EXCEPT !.at = "close", !.todo = Reverse(live)]
  /\ UNCHANGED <<live, disposed, cached, pending, blocked, session, run, active, stopping, cuts>>

HostClosed ==
  /\ Disposed("close")
  /\ cached' = cached \ disposed
  /\ pending' = [k \in Sessions |-> pending[k] \ disposed]
  /\ Purge
  /\ op' = Idle
  /\ UNCHANGED <<blocked, shut, session, run, active, stopping, cuts>>

HostStep ==
  \/ Reuse \/ Create \/ FactoryFails \/ Invalid \/ SessionActivated \/ RunActivated
  \/ Dispose \/ InvalidEnd \/ UndoEnd \/ RunEnded \/ PendingDisposed \/ OwnedDisposed \/ HostClosed

Next ==
  \/ HostStep
  \/ StopRuntime \/ HostClose
  \/ \E k \in Sessions : \/ OpenSession(k) \/ Prepared(k) \/ CloseSession(k) \/ DisposeSession(k)
                         \/ OpenRun(k) \/ EndRun(k)

Spec == Init /\ [][Next]_vars

\* An operation of the host goes on; runs end; and the one who shuts the
\* runtime down closes its sessions, and calls again what raised.
Fairness ==
  /\ WF_vars(HostStep)
  /\ WF_vars(HostClose)
  /\ \A k \in Sessions : /\ WF_vars(stopping /\ CloseSession(k))
                         /\ WF_vars(DisposeSession(k)) /\ WF_vars(EndRun(k))

FairSpec == Spec /\ Fairness

-----------------------------------------------------------------------------
(* Properties.                                                             *)

TypeOK ==
  /\ live \in Seq(Records) /\ disposed \subseteq ToSet(live) /\ cached \subseteq Records
  /\ pending \in [Sessions -> SUBSET Records] /\ blocked \subseteq Sessions
  /\ session \in [Sessions -> {"new", "opening", "preparing", "open", "closing", "closed", "failed"}]
  /\ run \in [Sessions -> [held : BOOLEAN, records : SUBSET Records]]
  /\ active \subseteq Sessions /\ shut \in BOOLEAN /\ stopping \in BOOLEAN /\ cuts \in 0..MaxCuts

\* While a run's resource has not been disposed, what it was built on is
\* there: the session and process instances are not disposed under it.  (The order of
\* PluginSession.aclose, and of dispose_session with its early raise.)
RunsFirst ==
  \A r \in Runs(Records) : There(r) =>
    \A p \in Plugins : Scope[p] # "run" =>
      \E q \in cached : There(q) /\ q[1] = p /\ (Scope[p] = "process" \/ q[2] = r[2])

\* A session reports that it is closed only when nothing of it is left.
ClosedIsEmpty ==
  \A k \in Sessions : session[k] = "closed" =>
    \A r \in Records : r[2] = k /\ There(r) => Scope[r[1]] = "process"

\* An instance is never built twice on the same cache: one record of each
\* plugin for one session at most.
OneInstance == IsInjective(live)

\* Whatever raised or was interrupted, closing again empties the host.
ShutdownEmpties == stopping ~> (shut /\ live = <<>>)

=============================================================================
