-------------------------- MODULE PermissionBroker --------------------------
(***************************************************************************)
(* The permission prompts of one run: PermissionBroker (run_control.py).   *)
(* Each negotiate() is a task of its own (the run's, or a sub-agent's); it  *)
(* shows the prompt to the host, through the run's events or, for a        *)
(* result-only run, through a callback in a fallback task, and waits for a *)
(* future that respond(), the end of the callback or cancel() resolves.    *)
(*                                                                         *)
(* Every request has a fresh id and asks for a capability of its own.  The *)
(* host is free to answer at any time after it has seen the prompt, late,  *)
(* twice, or never.                                                        *)
(*                                                                         *)
(* The run handle owns the broker of its run.  No name here is one of      *)
(* RunHandle's, so that RunHandleProofs can extend both.                   *)
(***************************************************************************)
EXTENDS FiniteSets

CONSTANTS
  Requests,     \* the requests of the run
  OneShot       \* those that do not offer a grant for the session

ASSUME BrokerAssumption == IsFiniteSet(Requests) /\ OneShot \subseteq Requests

VARIABLES
  stage,        \* where negotiate() is, per request
  answer,       \* the request's future: "open", or what it was resolved to
  fallback,     \* the request's fallback task
  doomed,       \* the fallback tasks whose cancel() is not delivered yet
  outcome,      \* what negotiate() returns
  grants,       \* GrantStore: pairs of a request and a lifetime
  resultOnly, cancelled,
  said          \* history: the response of the host that respond() accepted

brokerVars == <<stage, answer, fallback, doomed, outcome, grants, resultOnly, cancelled, said>>

Lifetimes == {"prompt", "session"}
Answers   == Lifetimes \cup {"no"}

Stages == {
  "idle",
  "publish",   \* awaits the event sink
  "callback",  \* awaits the fallback task
  "future",    \* awaits the answer
  "closing",   \* no longer pending; waits for its fallback task
  "done" }

BrokerInit ==
  /\ stage = [r \in Requests |-> "idle"]
  /\ answer = [r \in Requests |-> "open"]
  /\ fallback = [r \in Requests |-> "none"]
  /\ outcome = [r \in Requests |-> "none"]
  /\ said = [r \in Requests |-> "none"]
  /\ doomed = {} /\ grants = {}
  /\ resultOnly = FALSE /\ cancelled = FALSE

\* The entries of _pending, and the fallback tasks that have not ended.
Pending == { r \in Requests : stage[r] \in {"publish", "callback", "future"} }
Alive   == { r \in Requests : fallback[r] \in {"created", "running"} }

-----------------------------------------------------------------------------
(* negotiate().                                                            *)

\* Mutant of Leave: the fallback task is forgotten, not cancelled.
LeaveAlone(r, result) ==
  /\ outcome' = [outcome EXCEPT ![r] = result]
  /\ stage' = [stage EXCEPT ![r] = "done"]
  /\ UNCHANGED doomed

\* The finally clause: the request is withdrawn, and its fallback task too.
Leave(r, result) ==
  /\ outcome' = [outcome EXCEPT ![r] = result]
  /\ stage' = [stage EXCEPT ![r] = IF r \in Alive THEN "closing" ELSE "done"]
  /\ doomed' = doomed \cup ({r} \cap Alive)

Ask(r) ==
  /\ stage[r] = "idle"
  /\ \/ cancelled /\ Leave(r, "denied") /\ UNCHANGED fallback
     \/ /\ ~cancelled /\ resultOnly
        /\ stage' = [stage EXCEPT ![r] = "callback"]
        /\ fallback' = [fallback EXCEPT ![r] = "created"]
        /\ UNCHANGED <<outcome, doomed>>
     \/ /\ ~cancelled /\ ~resultOnly
        /\ stage' = [stage EXCEPT ![r] = "publish"]
        /\ UNCHANGED <<fallback, outcome, doomed>>
  /\ UNCHANGED <<answer, grants, resultOnly, cancelled, said>>

\* The event sink, handle.publish, returns or raises.
PromptPublished(r) ==
  /\ stage[r] = "publish"
  /\ \/ stage' = [stage EXCEPT ![r] = "future"] /\ UNCHANGED <<outcome, doomed>>
     \/ Leave(r, "raised")
  /\ UNCHANGED <<answer, fallback, grants, resultOnly, cancelled, said>>

\* The fallback task that negotiate() awaits has returned or raised.
CalledBack(r) ==
  /\ stage[r] = "callback"
  /\ \/ /\ fallback[r] = "returned"
        /\ stage' = [stage EXCEPT ![r] = "future"]
        /\ UNCHANGED <<outcome, doomed>>
     \/ fallback[r] = "raised" /\ Leave(r, "raised")
  /\ UNCHANGED <<answer, fallback, grants, resultOnly, cancelled, said>>

\* Mutant of Granted: the cancellation is not looked at again after the wait.
GrantedLate(r) == answer[r] \in Lifetimes

Granted(r) == answer[r] \in Lifetimes /\ ~cancelled

Decide(r) ==
  /\ stage[r] = "future" /\ answer[r] # "open"
  /\ IF Granted(r)
     THEN Leave(r, "granted") /\ grants' = grants \cup {<<r, answer[r]>>}
     ELSE Leave(r, "denied") /\ UNCHANGED grants
  /\ UNCHANGED <<answer, fallback, resultOnly, cancelled, said>>

\* The task of negotiate() is cancelled: a tool timeout, or the run is closed.
\* Awaiting the fallback task, it passes the cancellation on to it; in the finally
\* clause the cancellation replaces the result, and what was granted stays granted.
Abandon(r) ==
  /\ \/ stage[r] \in {"publish", "future"} /\ Leave(r, "raised")
     \/ /\ stage[r] = "callback" /\ r \in Alive
        /\ doomed' = doomed \cup {r}
        /\ UNCHANGED <<stage, outcome>>
     \/ /\ stage[r] = "closing"
        /\ outcome' = [outcome EXCEPT ![r] = "raised"]
        /\ UNCHANGED <<stage, doomed>>
  /\ UNCHANGED <<answer, fallback, grants, resultOnly, cancelled, said>>

Closed(r) ==
  /\ stage[r] = "closing" /\ r \notin Alive
  /\ stage' = [stage EXCEPT ![r] = "done"]
  /\ UNCHANGED <<answer, fallback, doomed, outcome, grants, resultOnly, cancelled, said>>

-----------------------------------------------------------------------------
(* _notify_fallback().                                                     *)

\* The callback is called; a task cancelled before its first step is just gone.
Call(r) ==
  /\ fallback[r] = "created"
  /\ fallback' = [fallback EXCEPT ![r] = IF r \in doomed THEN "raised" ELSE "running"]
  /\ UNCHANGED <<stage, answer, doomed, outcome, grants, resultOnly, cancelled, said>>

\* Mutant of Unanswered: the end of the callback overrides the host's answer.
Overridden(r) == [answer EXCEPT ![r] = "no"]

\* The finally clause: a callback that ends without an answer denies.
Unanswered(r) == IF answer[r] = "open" THEN [answer EXCEPT ![r] = "no"] ELSE answer

CallEnds(r) ==
  /\ fallback[r] = "running"
  /\ \/ r \notin doomed /\ fallback' = [fallback EXCEPT ![r] = "returned"]
     \/ fallback' = [fallback EXCEPT ![r] = "raised"]
  /\ answer' = Unanswered(r)
  /\ UNCHANGED <<stage, doomed, outcome, grants, resultOnly, cancelled, said>>

-----------------------------------------------------------------------------
(* The host.                                                               *)

Shown(r) == stage[r] = "future" \/ fallback[r] = "running"

\* respond(): one that is late, or picks a lifetime that was not offered, is
\* refused.
Respond(r, choice) ==
  /\ Shown(r)
  /\ r \in Pending /\ answer[r] = "open"
  /\ ~(choice = "session" /\ r \in OneShot)
  /\ answer' = [answer EXCEPT ![r] = choice]
  /\ said' = [said EXCEPT ![r] = choice]
  /\ UNCHANGED <<stage, fallback, doomed, outcome, grants, resultOnly, cancelled>>

\* Mutant of UseResultOnly: only the requests to come use the callback.
UseLater ==
  /\ ~resultOnly
  /\ resultOnly' = TRUE
  /\ UNCHANGED <<stage, answer, fallback, doomed, outcome, grants, cancelled, said>>

\* use_result_only(), by handle.result().
UseResultOnly ==
  /\ ~resultOnly
  /\ resultOnly' = TRUE
  /\ fallback' = [r \in Requests |->
                    IF r \in Pending /\ answer[r] = "open" THEN "created" ELSE fallback[r]]
  /\ UNCHANGED <<stage, answer, doomed, outcome, grants, cancelled, said>>

\* cancel(), by request_cancel, aclose or the end of the run.
CancelBroker ==
  /\ ~cancelled
  /\ cancelled' = TRUE
  /\ doomed' = doomed \cup Alive
  /\ answer' = [r \in Requests |->
                  IF r \in Pending /\ answer[r] = "open" THEN "no" ELSE answer[r]]
  /\ UNCHANGED <<stage, fallback, outcome, grants, resultOnly, said>>

-----------------------------------------------------------------------------
\* What the event loop runs by itself.
Task(r) == PromptPublished(r) \/ CalledBack(r) \/ Decide(r) \/ Closed(r) \/ Call(r)

BrokerNext ==
  \/ \E r \in Requests :
       \/ Ask(r) \/ Task(r) \/ CallEnds(r) \/ Abandon(r)
       \/ \E choice \in Answers : Respond(r, choice)
  \/ UseResultOnly \/ CancelBroker

BrokerSpec == BrokerInit /\ [][BrokerNext]_brokerVars

\* Ready tasks run; the run's consumer makes room for the prompt; the host's
\* callback returns, answered or not, or lets itself be cancelled.
FairBrokerSpec ==
  BrokerSpec /\ \A r \in Requests : WF_brokerVars(Task(r)) /\ WF_brokerVars(CallEnds(r))

-----------------------------------------------------------------------------
(* Properties.                                                             *)

BrokerTypeOK ==
  /\ stage \in [Requests -> Stages]
  /\ answer \in [Requests -> Answers \cup {"open"}]
  /\ fallback \in [Requests -> {"none", "created", "running", "returned", "raised"}]
  /\ outcome \in [Requests -> {"none", "granted", "denied", "raised"}]
  /\ said \in [Requests -> Answers \cup {"none"}]
  /\ doomed \subseteq { r \in Requests : fallback[r] # "none" }
  /\ grants \subseteq Requests \X Lifetimes
  /\ {resultOnly, cancelled} \subseteq BOOLEAN

\* The future holds the one response that the host was told is accepted, and a
\* grant is that response with the lifetime that it named and the request offered.
GrantIsTheHosts ==
  /\ \A r \in Requests : said[r] # "none" => answer[r] = said[r]
  /\ \A r \in Requests : outcome[r] = "granted" => <<r, said[r]>> \in grants
  /\ \A g \in grants :
       /\ said[g[1]] = g[2] /\ outcome[g[1]] \in {"granted", "raised"}
       /\ g[2] = "session" => g[1] \notin OneShot

\* Nothing is granted after the cancellation, not even an approval that was
\* accepted just before it.
CancelStands == [][cancelled => grants' = grants]_brokerVars

\* A request that is over leaves no callback of the host behind that still asks.
NothingStillAsks == \A r \in Requests : stage[r] = "done" => r \notin Alive

\* In a result-only or cancelled run every request ends, the ones too that were
\* shown as events before the run became result-only.
Settles ==
  \A r \in Requests :
    (stage[r] # "idle" /\ (resultOnly \/ cancelled)) ~> (stage[r] = "done")
=============================================================================
