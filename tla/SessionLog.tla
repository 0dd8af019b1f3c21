----------------------------- MODULE SessionLog -----------------------------
(***************************************************************************)
(* The canonical Session Log of box_agent/session_log.py: its records, the *)
(* Surface that replay() derives from them, the two ways the runtime       *)
(* writes messages (append_unlogged_messages, replace_surface), and the    *)
(* crash repair (repair_interrupted_turn, prepare_resume).                 *)
(*                                                                         *)
(* Only constant operators live here: a log is a sequence of records and   *)
(* every operation returns the new sequence.  Which part of it is on disk  *)
(* is the business of DurableTurn.                                         *)
(*                                                                         *)
(* replay() is a left fold over the records, so every record carries, in   *)
(* its field "surface", the value replay() has reached when that record    *)
(* has been consumed.  ReplayedSurface is the fold itself, and the runs    *)
(* check that the two agree in every reachable state.                      *)
(*                                                                         *)
(* Abstracted: message text, usage metadata, images, goal/plan/todo/skill  *)
(* records, and the audit records that neither replay() nor the repair     *)
(* looks at (request/header, assistant/chunk, compaction/start, summary    *)
(* and end).  history/revise is not written in these runs.                 *)
(***************************************************************************)
EXTENDS Integers, FiniteSets, SequencesExt

CONSTANT
  Calls   \* the ids of the tool calls that the model may ask for

ASSUME CallsAssumption == IsFiniteSet(Calls)

-----------------------------------------------------------------------------
(* Messages.  A user message is known by a number (0 for the summary that  *)
(* a compaction puts first), an assistant message by the calls it asks     *)
(* for, a tool message by the call it answers and what it says about it.   *)

Results == {
  "answered",      \* what the tool, or the engine in its place, returned
  "unknown",       \* TOOL_OUTCOME_UNKNOWN, written by the repair
  "not_started",   \* TOOL_NOT_STARTED, written by the repair
  "interrupted"    \* _INTERRUPTED_TOOL_STUB, written at loop entry
}

UserMsg(n)      == [role |-> "user", id |-> n]
AssistantMsg(S) == [role |-> "assistant", calls |-> S]
ToolMsg(c, r)   == [role |-> "tool", call |-> c, result |-> r]

Message ==
  [role: {"user"}, id: Nat]
    \cup [role: {"assistant"}, calls: SUBSET Calls]
    \cup [role: {"tool"}, call: Calls, result: Results]

SummaryMsg == UserMsg(0)

-----------------------------------------------------------------------------
(* Records.                                                                *)

MarkTypes == {"turn/start", "turn/end", "step/start", "step/end",
              "request/context", "session/end-seed"}
MessageTypes == {"user/message", "assistant/message", "tool/result"}

Record ==
  [type: MarkTypes, surface: Seq(Message)]
    \cup [type: {"tool/call"}, call: Calls, surface: Seq(Message)]
    \cup [type: MessageTypes, op: {"append", "replace"}, msg: Message,
          surface: Seq(Message)]

Surface(log) == IF log = <<>> THEN <<>> ELSE log[Len(log)].surface

Mark(log, type) == Append(log, [type |-> type, surface |-> Surface(log)])

CallRecord(log, c) ==
  [type |-> "tool/call", call |-> c, surface |-> Surface(log)]

RecordType(m) ==
  CASE m.role = "user"      -> "user/message"
    [] m.role = "assistant" -> "assistant/message"
    [] m.role = "tool"      -> "tool/result"

\* The record that makes the i-th of msgs the last message of the Surface.
MessageRecord(op, msgs, i) ==
  [type |-> RecordType(msgs[i]), op |-> op, msg |-> msgs[i],
   surface |-> SubSeq(msgs, 1, i)]

\* One turn of the loop of replay(): an "append" extends the Surface; the only
\* range that a "replace" ever names is the whole of the old Surface.
Replayed(surface, r) ==
  IF r.type \notin MessageTypes THEN surface
  ELSE IF r.op = "append" THEN Append(surface, r.msg)
  ELSE <<r.msg>>

ReplayedSurface(log) ==
  LET after[n \in 0..Len(log)] ==
        IF n = 0 THEN <<>> ELSE Replayed(after[n - 1], log[n])
  IN  after[Len(log)]

\* Mutant of ReplaceSurface: the log is written anew from the messages.
RewriteSurface(log, msgs) ==
  [i \in 1..Len(msgs) |-> MessageRecord("append", msgs, i)]

\* replace_surface: the first message replaces every old node, the others are
\* appended one record at a time.
ReplaceSurface(log, msgs) ==
  log \o [i \in 1..Len(msgs) |->
            MessageRecord(IF i = 1 /\ Surface(log) # <<>>
                          THEN "replace" ELSE "append", msgs, i)]

\* append_unlogged_messages: the live suffix is appended; a live Surface that
\* no longer extends the stored one replaces it; an empty one never does.
AppendUnlogged(log, msgs) ==
  LET persisted == Len(Surface(log))
  IN  IF IsPrefix(Surface(log), msgs)
      THEN log \o [i \in 1..(Len(msgs) - persisted) |->
                     MessageRecord("append", msgs, persisted + i)]
      ELSE IF msgs = <<>> THEN log
      ELSE ReplaceSurface(log, msgs)

-----------------------------------------------------------------------------
(* The scan of repair_interrupted_turn.                                    *)

Declares(r, c)  == r.type = "assistant/message" /\ c \in r.msg.calls
Dispatches(r, c) == r.type = "tool/call" /\ r.call = c
Answers(r, c)   == r.type = "tool/result" /\ r.msg.call = c

OpenTurn(log) ==
  \E i \in DOMAIN log :
    /\ log[i].type = "turn/start"
    /\ \A j \in i + 1..Len(log) : log[j].type # "turn/end"

OpenStep(log) ==
  \E i \in DOMAIN log :
    /\ log[i].type = "step/start"
    /\ \A j \in i + 1..Len(log) :
         log[j].type \notin {"step/end", "turn/start", "turn/end"}

\* pending_calls when the scan ends: declared, not answered since, and not
\* cleared by the end of a step or by a turn boundary.
PendingCalls(log) ==
  { c \in Calls :
      \E i \in DOMAIN log :
        /\ Declares(log[i], c)
        /\ \A j \in i + 1..Len(log) :
             /\ ~Answers(log[j], c)
             /\ log[j].type \notin {"step/end", "turn/start", "turn/end"} }

\* Mutant of Started: only a tool/call that is the last record counts.
StartedLast(log, c) == log # <<>> /\ Dispatches(log[Len(log)], c)

\* call_seq is set by a tool/call that follows the last declaration.
Started(log, c) ==
  \E i \in DOMAIN log :
    /\ Dispatches(log[i], c)
    /\ \A j \in i + 1..Len(log) : ~Declares(log[j], c)

Closer(log, c) ==
  ToolMsg(c, IF Started(log, c) THEN "unknown" ELSE "not_started")

\* Mutant of Repaired: the turn is left open.
RepairedOpen(log, order) ==
  AppendUnlogged(log, Surface(log) \o
                        [i \in 1..Len(order) |-> Closer(log, order[i])])

\* prepare_resume: one result for every pending call, taken in some order,
\* then the ends of the open step and turn, then the session/end-seed mark.
Repaired(log, order) ==
  LET msgs   == Surface(log) \o [i \in 1..Len(order) |-> Closer(log, order[i])]
      closed == AppendUnlogged(log, msgs)
      step   == IF OpenStep(log) THEN Mark(closed, "step/end") ELSE closed
  IN  IF OpenTurn(log) THEN Mark(step, "turn/end") ELSE log

PreparedResume(log, order) == Mark(Repaired(log, order), "session/end-seed")

-----------------------------------------------------------------------------
(* Repairs of a live message list, kernel/tool_messages.py.                *)

IsTool(msgs, i) == i \in DOMAIN msgs /\ msgs[i].role = "tool"
IsAsking(msgs, i) == msgs[i].role = "assistant" /\ msgs[i].calls # {}

\* The last of the tool messages that directly follow message i, or i itself.
IsGroupEnd(msgs, i, e) ==
  /\ i <= e
  /\ \A j \in i + 1..e : IsTool(msgs, j)
  /\ ~IsTool(msgs, e + 1)

AnsweredIn(msgs, i, e) == { msgs[j].call : j \in i + 1..e }

Dangling(msgs, i, e) ==
  /\ IsAsking(msgs, i)
  /\ IsGroupEnd(msgs, i, e)
  /\ msgs[i].calls \ AnsweredIn(msgs, i, e) # {}

\* _cleanup_incomplete_messages: the last assistant message and all that
\* follows go away when fewer messages follow it than it asked for.
IsLastAssistant(msgs, i) ==
  /\ msgs[i].role = "assistant"
  /\ \A j \in i + 1..Len(msgs) : msgs[j].role # "assistant"

IsIncomplete(msgs, i) ==
  /\ IsLastAssistant(msgs, i)
  /\ Len(msgs) - i < Cardinality(msgs[i].calls)

Cleaned(msgs) ==
  IF \E i \in DOMAIN msgs : IsIncomplete(msgs, i)
  THEN SubSeq(msgs, 1, (CHOOSE i \in DOMAIN msgs : IsIncomplete(msgs, i)) - 1)
  ELSE msgs

-----------------------------------------------------------------------------
\* What a provider accepts: every tool call is answered once, directly after
\* the message that asks for it, and every tool message answers such a call.
Paired(msgs) ==
  \A i \in DOMAIN msgs :
    \/ msgs[i].role = "user"
    \/ /\ msgs[i].role = "assistant"
       /\ \A e \in DOMAIN msgs :
            IsGroupEnd(msgs, i, e) =>
              /\ AnsweredIn(msgs, i, e) = msgs[i].calls
              /\ e - i = Cardinality(msgs[i].calls)
    \/ /\ msgs[i].role = "tool"
       /\ \E a \in 1..i - 1 :
            /\ msgs[a].role = "assistant" /\ msgs[i].call \in msgs[a].calls
            /\ \A j \in a + 1..i : msgs[j].role = "tool"
=============================================================================
