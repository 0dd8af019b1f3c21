------------------------- MODULE DurableTurnProofs --------------------------
(***************************************************************************)
(* Proofs about DurableTurn, for every set of calls, every bound and every *)
(* kind of crash.  The first half is about the operators of SessionLog:    *)
(* each one that writes yields a log again that continues the one before,  *)
(* and says what a replay of it makes of the turns, the calls and the      *)
(* messages.  The second half is about the steps of a turn:                *)
(*                                                                         *)
(*   - what is flushed stays, and a tool is entered only after its call is *)
(*     on the disk (WriteAheadHolds), in every kind of crash;              *)
(*   - an idle session has everything on the disk, and the live messages   *)
(*     are those that a replay of the log gives (IdleInv);                 *)
(*   - the log knows of each call where it is (CallInv);                   *)
(*   - the log may end anywhere, and what was told to the model of a call  *)
(*     is true of it (CutInv), provided that a crash keeps all or nothing  *)
(*     of what was not flushed (TornWrites = FALSE): the model checker has *)
(*     the counterexample for a compaction that is torn apart.             *)
(***************************************************************************)
EXTENDS DurableTurn, SequenceTheorems, FiniteSetTheorems, WellFoundedInduction,
        TLAPS

\* The log next continues log.
Continues(log, next) ==
  /\ next \in Seq(Record)
  /\ Len(log) <= Len(next)
  /\ \A i \in 1..Len(log) : next[i] = log[i]

LEMMA ContinuesReflexive ==
  ASSUME NEW log \in Seq(Record) PROVE Continues(log, log)
BY DEF Continues

LEMMA ContinuesTransitive ==
  ASSUME NEW a \in Seq(Record), NEW b, NEW c, Continues(a, b), Continues(b, c)
  PROVE  Continues(a, c)
BY DEF Continues

LEMMA ContinuesAppend ==
  ASSUME NEW log \in Seq(Record), NEW r \in Record
  PROVE  Continues(log, Append(log, r))
BY DEF Continues

LEMMA ContinuesConcat ==
  ASSUME NEW log \in Seq(Record), NEW more \in Seq(Record)
  PROVE  Continues(log, log \o more)
BY ConcatProperties DEF Continues

-----------------------------------------------------------------------------
LEMMA SurfaceType ==
  ASSUME NEW log \in Seq(Record)
  PROVE  Surface(log) \in Seq(Message)
<1>1. ASSUME NEW r \in Record PROVE r.surface \in Seq(Message)
  BY <1>1 DEF Record
<1>2. CASE log = <<>>
  BY <1>2 DEF Surface
<1>3. CASE log # <<>>
  <2>1. Len(log) \in 1..Len(log)
    BY <1>3, EmptySeq
  <2>2. log[Len(log)] \in Record
    BY <2>1, ElementOfSeq
  <2> QED BY <1>1, <1>3, <2>2 DEF Surface
<1> QED BY <1>2, <1>3

LEMMA PrefixType ==
  ASSUME NEW S, NEW s \in Seq(S), NEW n \in 0..Len(s)
  PROVE  /\ SubSeq(s, 1, n) \in Seq(S)
         /\ Len(SubSeq(s, 1, n)) = n
         /\ \A i \in 1..n : SubSeq(s, 1, n)[i] = s[i]
BY SubSeqProperties, ElementOfSeq

\* Any part of a list, in any bounds that lie in it.
LEMMA PartType ==
  ASSUME NEW S, NEW s \in Seq(S), NEW m \in Nat \ {0}, NEW n \in 0..Len(s)
  PROVE  SubSeq(s, m, n) \in Seq(S)
BY SubSeqProperties, ElementOfSeq

LEMMA MessageRecordType ==
  ASSUME NEW msgs \in Seq(Message), NEW i \in 1..Len(msgs),
         NEW op \in {"append", "replace"}
  PROVE  MessageRecord(op, msgs, i) \in Record
<1>1. msgs[i] \in Message
  BY ElementOfSeq
<1>2. RecordType(msgs[i]) \in MessageTypes
  BY <1>1 DEF Message, RecordType, MessageTypes
<1>3. SubSeq(msgs, 1, i) \in Seq(Message)
  BY PrefixType
<1> QED BY <1>1, <1>2, <1>3 DEF MessageRecord, Record

LEMMA MarkContinues ==
  ASSUME NEW log \in Seq(Record), NEW type \in MarkTypes
  PROVE  Continues(log, Mark(log, type))
<1>1. [type |-> type, surface |-> Surface(log)] \in Record
  BY SurfaceType DEF Record
<1> QED BY <1>1, ContinuesAppend DEF Mark

LEMMA CallRecordType ==
  ASSUME NEW log \in Seq(Record), NEW c \in Calls
  PROVE  CallRecord(log, c) \in Record
BY SurfaceType DEF CallRecord, Record

LEMMA ReplaceSurfaceContinues ==
  ASSUME NEW log \in Seq(Record), NEW msgs \in Seq(Message)
  PROVE  Continues(log, ReplaceSurface(log, msgs))
<1> DEFINE Op(i) == IF i = 1 /\ Surface(log) # <<>> THEN "replace" ELSE "append"
           more == [i \in 1..Len(msgs) |-> MessageRecord(Op(i), msgs, i)]
<1>1. \A i \in 1..Len(msgs) : MessageRecord(Op(i), msgs, i) \in Record
  BY MessageRecordType
<1>2. more \in Seq(Record)
  BY <1>1
<1>3. ReplaceSurface(log, msgs) = log \o more
  BY DEF ReplaceSurface
<1> QED BY <1>2, <1>3, ContinuesConcat

LEMMA AppendUnloggedContinues ==
  ASSUME NEW log \in Seq(Record), NEW msgs \in Seq(Message)
  PROVE  Continues(log, AppendUnlogged(log, msgs))
<1> DEFINE p == Len(Surface(log))
           more == [i \in 1..(Len(msgs) - p) |-> MessageRecord("append", msgs, p + i)]
<1>1. CASE IsPrefix(Surface(log), msgs)
  <2>1. p \in Nat /\ p <= Len(msgs)
    BY <1>1, SurfaceType, LenProperties DEF IsPrefix
  <2>2. \A i \in 1..(Len(msgs) - p) : MessageRecord("append", msgs, p + i) \in Record
    <3> SUFFICES ASSUME NEW i \in 1..(Len(msgs) - p)
                 PROVE  MessageRecord("append", msgs, p + i) \in Record
      OBVIOUS
    <3>1. p + i \in 1..Len(msgs)
      BY <2>1
    <3> QED BY <3>1, MessageRecordType
  <2>3. more \in Seq(Record)
    BY <2>1, <2>2
  <2>4. AppendUnlogged(log, msgs) = log \o more
    BY <1>1 DEF AppendUnlogged
  <2> QED BY <2>3, <2>4, ContinuesConcat
<1>2. CASE ~IsPrefix(Surface(log), msgs) /\ msgs = <<>>
  BY <1>2, ContinuesReflexive DEF AppendUnlogged
<1>3. CASE ~IsPrefix(Surface(log), msgs) /\ msgs # <<>>
  BY <1>3, ReplaceSurfaceContinues DEF AppendUnlogged
<1> QED BY <1>1, <1>2, <1>3

-----------------------------------------------------------------------------
(* The repair.                                                             *)

LEMMA OrderType ==
  ASSUME NEW S, IsFiniteSet(S), NEW order \in SetToSeqs(S)
  PROVE  order \in Seq(S)
<1>1. Cardinality(S) \in Nat
  BY FS_CardinalityType
<1>2. order \in [1..Cardinality(S) -> S]
  BY DEF SetToSeqs
<1> QED BY <1>1, <1>2

LEMMA SubsetIsFinite ==
  ASSUME NEW S \in SUBSET Calls PROVE IsFiniteSet(S)
BY CallsAssumption, FS_Subset

LEMMA ClosersType ==
  ASSUME NEW log \in Seq(Record), NEW order \in Seq(Calls)
  PROVE  Surface(log) \o [i \in 1..Len(order) |-> Closer(log, order[i])] \in Seq(Message)
<1> DEFINE closers == [i \in 1..Len(order) |-> Closer(log, order[i])]
<1>1. \A c \in Calls : Closer(log, c) \in Message
  BY DEF Closer, ToolMsg, Message, Results
<1>2. closers \in Seq(Message)
  BY <1>1
<1> QED BY <1>2, SurfaceType, ConcatProperties

LEMMA RepairedContinues ==
  ASSUME NEW log \in Seq(Record), NEW order \in Seq(Calls)
  PROVE  Continues(log, Repaired(log, order))
<1> DEFINE msgs == Surface(log) \o [i \in 1..Len(order) |-> Closer(log, order[i])]
           closed == AppendUnlogged(log, msgs)
           step == IF OpenStep(log) THEN Mark(closed, "step/end") ELSE closed
<1>1. Continues(log, closed)
  BY ClosersType, AppendUnloggedContinues
<1>2. closed \in Seq(Record)
  BY <1>1 DEF Continues
<1>3. Continues(closed, step)
  BY <1>2, MarkContinues, ContinuesReflexive DEF MarkTypes
<1>4. step \in Seq(Record)
  BY <1>3 DEF Continues
<1>5. Continues(step, Mark(step, "turn/end"))
  BY <1>4, MarkContinues DEF MarkTypes
<1>6. Continues(log, Mark(step, "turn/end"))
  BY <1>1, <1>2, <1>3, <1>4, <1>5, ContinuesTransitive
<1> HIDE DEF step, closed, msgs
<1>7. Repaired(log, order) = IF OpenTurn(log) THEN Mark(step, "turn/end") ELSE log
  BY DEF Repaired, step, closed, msgs
<1> QED BY <1>6, <1>7, ContinuesReflexive

LEMMA PreparedResumeContinues ==
  ASSUME NEW log \in Seq(Record), NEW order \in Seq(Calls)
  PROVE  Continues(log, PreparedResume(log, order))
<1>1. Continues(log, Repaired(log, order))
  BY RepairedContinues
<1>2. Repaired(log, order) \in Seq(Record)
  BY <1>1 DEF Continues
<1>3. Continues(Repaired(log, order), PreparedResume(log, order))
  BY <1>2, MarkContinues DEF PreparedResume, MarkTypes
<1> QED BY <1>1, <1>2, <1>3, ContinuesTransitive

-----------------------------------------------------------------------------
(* The repairs of a live list.                                             *)

LEMMA CleanedType ==
  ASSUME NEW msgs \in Seq(Message)
  PROVE  Cleaned(msgs) \in Seq(Message)
<1>1. CASE \E i \in DOMAIN msgs : IsIncomplete(msgs, i)
  <2> DEFINE k == CHOOSE i \in DOMAIN msgs : IsIncomplete(msgs, i)
  <2>1. k \in DOMAIN msgs
    BY <1>1
  <2>2. k - 1 \in 0..Len(msgs)
    BY <2>1, LenProperties
  <2>3. SubSeq(msgs, 1, k - 1) \in Seq(Message)
    BY <2>2, PrefixType
  <2> QED BY <1>1, <2>3 DEF Cleaned
<1>2. CASE ~\E i \in DOMAIN msgs : IsIncomplete(msgs, i)
  BY <1>2 DEF Cleaned
<1> QED BY <1>1, <1>2

-----------------------------------------------------------------------------
(* What is written.                                                        *)

\* next is log and, behind it, one record for each message of msgs after from.
Writes(log, next, msgs, from) ==
  /\ Len(next) = Len(log) + (Len(msgs) - from)
  /\ \A i \in 1..Len(log) : next[i] = log[i]
  /\ \A i \in 1..(Len(msgs) - from) :
       /\ next[Len(log) + i].type = RecordType(msgs[from + i])
       /\ next[Len(log) + i].msg = msgs[from + i]
       /\ next[Len(log) + i].surface = SubSeq(msgs, 1, from + i)

LEMMA MessageTypeOf ==
  ASSUME NEW m \in Message
  PROVE  /\ RecordType(m) \in MessageTypes
         /\ RecordType(m) = "assistant/message" <=> m.role = "assistant"
         /\ RecordType(m) = "tool/result" <=> m.role = "tool"
         /\ m.role = "assistant" => m.calls \in SUBSET Calls
         /\ m.role = "tool" => m.call \in Calls /\ m.result \in Results
  BY DEF Message, RecordType, MessageTypes

LEMMA ReplaceWrites ==
  ASSUME NEW log \in Seq(Record), NEW msgs \in Seq(Message)
  PROVE  Writes(log, ReplaceSurface(log, msgs), msgs, 0)
<1> DEFINE Op(i) == IF i = 1 /\ Surface(log) # <<>> THEN "replace" ELSE "append"
           more == [i \in 1..Len(msgs) |-> MessageRecord(Op(i), msgs, i)]
<1>1. \A i \in 1..Len(msgs) : MessageRecord(Op(i), msgs, i) \in Record
  BY MessageRecordType
<1>2. more \in Seq(Record) /\ Len(more) = Len(msgs)
  BY <1>1
<1>3. ReplaceSurface(log, msgs) = log \o more
  BY DEF ReplaceSurface
<1>4. /\ Len(log \o more) = Len(log) + Len(msgs)
      /\ \A i \in 1..Len(log) : (log \o more)[i] = log[i]
      /\ \A i \in 1..Len(msgs) : (log \o more)[Len(log) + i] = more[i]
  <2> HIDE DEF more
  <2> QED BY <1>2
<1>5. Len(msgs) \in Nat
  OBVIOUS
<1> QED BY <1>3, <1>4, <1>5 DEF Writes, MessageRecord

\* The records that append_unlogged_messages writes.
LEMMA AppendUnloggedWrites ==
  ASSUME NEW log \in Seq(Record), NEW msgs \in Seq(Message)
  PROVE  \E from \in 0..Len(msgs) :
           /\ Writes(log, AppendUnlogged(log, msgs), msgs, from)
           /\ IsPrefix(Surface(log), msgs) => from = Len(Surface(log))
<1>0. Len(msgs) \in Nat /\ Len(log) \in Nat
  OBVIOUS
<1>1. CASE IsPrefix(Surface(log), msgs)
  <2> DEFINE p == Len(Surface(log))
             more == [i \in 1..(Len(msgs) - p) |-> MessageRecord("append", msgs, p + i)]
  <2>1. p \in 0..Len(msgs)
    BY <1>1, SurfaceType, LenProperties DEF IsPrefix
  <2> HIDE DEF p
  <2>2. \A i \in 1..(Len(msgs) - p) : MessageRecord("append", msgs, p + i) \in Record
    <3> SUFFICES ASSUME NEW i \in 1..(Len(msgs) - p)
                 PROVE  MessageRecord("append", msgs, p + i) \in Record
      OBVIOUS
    <3>1. p + i \in 1..Len(msgs)
      BY <1>0, <2>1
    <3> QED BY <3>1, MessageRecordType
  <2>3. more \in Seq(Record) /\ Len(more) = Len(msgs) - p
    BY <1>0, <2>1, <2>2
  <2>4. AppendUnlogged(log, msgs) = log \o more
    BY <1>1 DEF AppendUnlogged, p
  <2>5. /\ Len(log \o more) = Len(log) + (Len(msgs) - p)
        /\ \A i \in 1..Len(log) : (log \o more)[i] = log[i]
        /\ \A i \in 1..(Len(msgs) - p) : (log \o more)[Len(log) + i] = more[i]
    <3> HIDE DEF more
    <3> QED BY <2>3
  <2>6. Writes(log, AppendUnlogged(log, msgs), msgs, p)
    <3>1. \A i \in 1..(Len(msgs) - p) : (log \o more)[Len(log) + i] = MessageRecord("append", msgs, p + i)
      BY <2>5
    <3>2. \A i \in 1..(Len(msgs) - p) :
             LET m == MessageRecord("append", msgs, p + i)
             IN  /\ m.type = RecordType(msgs[p + i]) /\ m.msg = msgs[p + i]
                 /\ m.surface = SubSeq(msgs, 1, p + i)
      BY DEF MessageRecord
    <3> HIDE DEF more
    <3> QED BY <2>4, <2>5, <3>1, <3>2 DEF Writes
  <2> QED BY <2>1, <2>6 DEF p
<1>2. CASE ~IsPrefix(Surface(log), msgs) /\ msgs = <<>>
  <2>1. AppendUnlogged(log, msgs) = log
    BY <1>2 DEF AppendUnlogged
  <2>2. Writes(log, log, msgs, 0)
    BY <1>0, <1>2 DEF Writes
  <2> QED BY <1>0, <1>2, <2>1, <2>2
<1>3. CASE ~IsPrefix(Surface(log), msgs) /\ msgs # <<>>
  BY <1>0, <1>3, ReplaceWrites DEF AppendUnlogged
<1> QED BY <1>1, <1>2, <1>3

\* What is written last is the new Surface.
LEMMA SurfaceWritten ==
  ASSUME NEW log \in Seq(Record), NEW msgs \in Seq(Message), msgs # <<>>,
         NEW from \in 0..Len(msgs), NEW next, Writes(log, next, msgs, from),
         from = Len(msgs) => msgs = Surface(log)
  PROVE  next # <<>> => Surface(next) = msgs
<1> SUFFICES ASSUME next # <<>> PROVE Surface(next) = msgs
  OBVIOUS
<1>0. Len(msgs) \in Nat /\ Len(log) \in Nat /\ from \in Nat /\ from <= Len(msgs)
  OBVIOUS
<1>3. SubSeq(msgs, 1, Len(msgs)) = msgs
  BY SubSeqFull
<1>1. CASE from < Len(msgs)
  <2>1. Len(msgs) - from \in 1..(Len(msgs) - from) /\ from + (Len(msgs) - from) = Len(msgs)
    BY <1>0, <1>1
  <2>2. next[Len(next)].surface = SubSeq(msgs, 1, Len(msgs))
    BY <2>1 DEF Writes
  <2> QED BY <1>3, <2>2 DEF Surface
<1>2. CASE from = Len(msgs)
  <2>1. log # <<>>
    BY <1>2 DEF Surface
  <2>2. Len(next) = Len(log) /\ Len(log) \in 1..Len(log)
    BY <1>0, <1>2, <2>1 DEF Writes
  <2>3. next[Len(next)] = log[Len(log)]
    BY <2>2 DEF Writes
  <2>4. log[Len(log)].surface = msgs
    BY <1>2, <2>1 DEF Surface
  <2> QED BY <2>3, <2>4 DEF Surface
<1> QED BY <1>0, <1>1, <1>2

LEMMA SurfaceOfUnlogged ==
  ASSUME NEW log \in Seq(Record), NEW msgs \in Seq(Message), msgs # <<>>
  PROVE  Surface(AppendUnlogged(log, msgs)) = msgs
<1> DEFINE next == AppendUnlogged(log, msgs)
<1>1. PICK from \in 0..Len(msgs) : /\ Writes(log, next, msgs, from)
                                   /\ IsPrefix(Surface(log), msgs) => from = Len(Surface(log))
  BY AppendUnloggedWrites
<1>2. CASE IsPrefix(Surface(log), msgs) /\ from = Len(msgs)
  <2>1. Surface(log) = msgs
    <3>1. SubSeq(Surface(log), 1, Len(Surface(log))) = SubSeq(msgs, 1, Len(msgs))
      BY <1>1, <1>2 DEF IsPrefix
    <3>2. Surface(log) \in Seq(Message)
      BY SurfaceType
    <3> QED BY <3>1, <3>2, SubSeqFull
  <2>2. next # <<>>
    <3>1. Len(next) = Len(log) + 0 /\ Len(log) \in Nat /\ log # <<>>
      BY <1>1, <1>2, <2>1 DEF Writes, Surface
    <3>2. Len(next) # 0
      BY <3>1
    <3> QED BY <3>2
  <2> QED BY <1>1, <2>1, <2>2, SurfaceWritten
<1>3. CASE ~IsPrefix(Surface(log), msgs)
  <2>1. next = ReplaceSurface(log, msgs)
    BY <1>3 DEF AppendUnlogged
  <2>2. Writes(log, next, msgs, 0) /\ 0 # Len(msgs)
    BY <2>1, ReplaceWrites
  <2>3. next # <<>>
    <3>1. Len(next) = Len(log) + (Len(msgs) - 0) /\ Len(log) \in Nat /\ Len(msgs) \in Nat
      BY <2>2 DEF Writes
    <3> QED BY <2>2, <3>1
  <2> QED BY <2>2, <2>3, SurfaceWritten
<1>4. CASE from # Len(msgs)
  <2>1. next # <<>>
    <3>1. Len(next) = Len(log) + (Len(msgs) - from) /\ Len(log) \in Nat /\ Len(msgs) \in Nat
      BY <1>1 DEF Writes
    <3> QED BY <1>4, <3>1
  <2> QED BY <1>1, <1>4, <2>1, SurfaceWritten
<1> QED BY <1>2, <1>3, <1>4

LEMMA SurfaceOfMark ==
  ASSUME NEW log \in Seq(Record), NEW type \in MarkTypes
  PROVE  /\ Surface(Mark(log, type)) = Surface(log)
         /\ Mark(log, type) # <<>> /\ Len(Mark(log, type)) = Len(log) + 1
         /\ Mark(log, type)[Len(log) + 1].type = type
         /\ Mark(log, type)[Len(log) + 1].surface = Surface(log)
         /\ \A i \in 1..Len(log) : Mark(log, type)[i] = log[i]
<1> DEFINE r == [type |-> type, surface |-> Surface(log)]
<1>1. /\ Len(Append(log, r)) = Len(log) + 1 /\ Append(log, r)[Len(log) + 1] = r
      /\ \A i \in 1..Len(log) : Append(log, r)[i] = log[i]
      /\ Append(log, r) # <<>>
  OBVIOUS
<1> QED BY <1>1 DEF Mark, Surface

-----------------------------------------------------------------------------
(* The Surface that a record carries is the one that replay() computes.    *)

SurfaceBefore(log, i) == IF i = 1 THEN <<>> ELSE log[i - 1].surface

Follows(log, i) == log[i].surface = Replayed(SurfaceBefore(log, i), log[i])

\* Every record follows from the one before it, as in the loop of replay().
Carried(log) == \A i \in 1..Len(log) : Follows(log, i)

LEMMA LastSurface ==
  ASSUME NEW log \in Seq(Record), NEW next, \A i \in 1..Len(log) : next[i] = log[i]
  PROVE  SurfaceBefore(next, Len(log) + 1) = Surface(log)
<1>1. Len(log) \in Nat /\ (log = <<>> <=> Len(log) = 0)
  BY EmptySeq
<1>2. CASE log = <<>>
  BY <1>1, <1>2 DEF SurfaceBefore, Surface
<1>3. CASE log # <<>>
  <2>1. Len(log) \in 1..Len(log) /\ Len(log) + 1 # 1 /\ Len(log) + 1 - 1 = Len(log)
    BY <1>1, <1>3
  <2>2. SurfaceBefore(next, Len(log) + 1) = next[Len(log)].surface
    BY <2>1 DEF SurfaceBefore
  <2> QED BY <1>3, <2>1, <2>2 DEF Surface
<1> QED BY <1>2, <1>3

LEMMA OneMore ==
  ASSUME NEW S, NEW s \in Seq(S), NEW n \in 1..Len(s)
  PROVE  SubSeq(s, 1, n) = Append(SubSeq(s, 1, n - 1), s[n])
<1>0. n \in Nat /\ n <= Len(s) /\ Len(s) \in Nat /\ n - 1 \in 0..Len(s) /\ n \in 0..Len(s)
  OBVIOUS
<1>1. /\ SubSeq(s, 1, n) \in Seq(S) /\ Len(SubSeq(s, 1, n)) = n
      /\ \A i \in 1..n : SubSeq(s, 1, n)[i] = s[i]
  BY <1>0, PrefixType
<1>2. /\ SubSeq(s, 1, n - 1) \in Seq(S) /\ Len(SubSeq(s, 1, n - 1)) = n - 1
      /\ \A i \in 1..n - 1 : SubSeq(s, 1, n - 1)[i] = s[i]
  BY <1>0, PrefixType
<1>3. s[n] \in S
  BY ElementOfSeq
<1> DEFINE a == SubSeq(s, 1, n)
           b == SubSeq(s, 1, n - 1)
<1>4. /\ Append(b, s[n]) \in Seq(S) /\ Len(Append(b, s[n])) = n
      /\ \A i \in 1..n - 1 : Append(b, s[n])[i] = b[i]
      /\ Append(b, s[n])[n] = s[n]
  <2> HIDE DEF b
  <2> QED BY <1>0, <1>2, <1>3 DEF b
<1>5. \A i \in 1..n : a[i] = Append(b, s[n])[i]
  <2> TAKE i \in 1..n
  <2>1. CASE i = n
    BY <1>1, <1>4, <2>1
  <2>2. CASE i # n
    <3>1. i \in 1..n - 1
      BY <1>0, <2>2
    <3> QED BY <1>1, <1>2, <1>4, <3>1
  <2> QED BY <2>1, <2>2
<1> HIDE DEF a, b
<1>6. a = Append(b, s[n])
  BY <1>1, <1>4, <1>5, SeqEqual DEF a
<1> QED BY <1>6 DEF a, b

\* A message record that is written behind its predecessor.
LEMMA RecordFollows ==
  ASSUME NEW msgs \in Seq(Message), NEW n \in 1..Len(msgs), NEW op \in {"append", "replace"},
         NEW surface, op = "append" => surface = SubSeq(msgs, 1, n - 1),
         op = "replace" => n = 1
  PROVE  MessageRecord(op, msgs, n).surface = Replayed(surface, MessageRecord(op, msgs, n))
<1>1. RecordType(msgs[n]) \in MessageTypes
  <2>1. msgs[n] \in Message
    BY ElementOfSeq
  <2> QED BY <2>1, MessageTypeOf
<1>2. SubSeq(msgs, 1, n) = Append(SubSeq(msgs, 1, n - 1), msgs[n])
  BY OneMore
<1>3. CASE op = "append"
  BY <1>1, <1>2, <1>3 DEF MessageRecord, Replayed
<1>4. CASE op = "replace"
  <2>1. n = 1 /\ SubSeq(msgs, 1, 0) = <<>> /\ op # "append"
    <3>1. Len(SubSeq(msgs, 1, 0)) = 0 /\ SubSeq(msgs, 1, 0) \in Seq(Message)
      BY PrefixType
    <3> QED BY <1>4, <3>1, EmptySeq
  <2>2. SubSeq(msgs, 1, 1) = <<msgs[1]>>
    <3>1. 1 - 1 = 0 /\ SubSeq(msgs, 1, 1) = Append(SubSeq(msgs, 1, 1 - 1), msgs[1])
      BY <1>2, <2>1
    <3>2. SubSeq(msgs, 1, 1) = Append(<<>>, msgs[1])
      BY <2>1, <3>1
    <3> QED BY <3>2
  <2> QED BY <1>1, <1>4, <2>1, <2>2 DEF MessageRecord, Replayed
<1> QED BY <1>3, <1>4

LEMMA ReplaceFollows ==
  ASSUME NEW log \in Seq(Record), NEW msgs \in Seq(Message),
         NEW i \in 1..Len(msgs)
  PROVE  Follows(ReplaceSurface(log, msgs), Len(log) + i)
<1> DEFINE Op(k) == IF k = 1 /\ Surface(log) # <<>> THEN "replace" ELSE "append"
           next == ReplaceSurface(log, msgs)
           more == [k \in 1..Len(msgs) |-> MessageRecord(Op(k), msgs, k)]
<1>0. i \in Nat /\ i >= 1 /\ Len(log) \in Nat /\ i <= Len(msgs) /\ Len(msgs) \in Nat
  OBVIOUS
<1>1. Writes(log, next, msgs, 0)
  BY ReplaceWrites
<1>2. next[Len(log) + i] = MessageRecord(Op(i), msgs, i)
  <2>1. \A k \in 1..Len(msgs) : MessageRecord(Op(k), msgs, k) \in Record
    BY MessageRecordType
  <2>2. more \in Seq(Record) /\ Len(more) = Len(msgs) /\ more[i] = MessageRecord(Op(i), msgs, i)
    BY <2>1
  <2>3. next = log \o more
    BY DEF ReplaceSurface
  <2> HIDE DEF more, next
  <2> QED BY <2>2, <2>3
<1>3. CASE i = 1
  <2>1. SurfaceBefore(next, Len(log) + 1) = Surface(log)
    <3>1. \A k \in 1..Len(log) : next[k] = log[k]
      BY <1>1 DEF Writes
    <3> HIDE DEF next
    <3> QED BY <3>1, LastSurface
  <2>2. SubSeq(msgs, 1, 1 - 1) = <<>>
    <3>1. Len(SubSeq(msgs, 1, 0)) = 0 /\ SubSeq(msgs, 1, 0) \in Seq(Message)
      BY PrefixType
    <3> QED BY <3>1, EmptySeq
  <2>3. Op(1) = "append" => Surface(log) = <<>>
    OBVIOUS
  <2> HIDE DEF Op, next
  <2>4. Op(1) \in {"append", "replace"}
    BY DEF Op
  <2>5. MessageRecord(Op(1), msgs, 1).surface
          = Replayed(Surface(log), MessageRecord(Op(1), msgs, 1))
    <3> DEFINE op == Op(1)
    <3>1. op = "append" => Surface(log) = SubSeq(msgs, 1, 1 - 1)
      BY <2>2, <2>3
    <3>2. op \in {"append", "replace"} /\ 1 \in 1..Len(msgs)
      BY <1>3, <2>4
    <3> HIDE DEF op
    <3>3. MessageRecord(op, msgs, 1).surface = Replayed(Surface(log), MessageRecord(op, msgs, 1))
      BY <3>1, <3>2, RecordFollows
    <3> QED BY <3>3 DEF op
  <2>6. Follows(next, Len(log) + i)
    BY <1>2, <1>3, <2>1, <2>5 DEF Follows
  <2> QED BY <2>6 DEF next
<1>4. CASE i # 1
  <2>1. i - 1 \in 1..Len(msgs) /\ Len(log) + i - 1 = Len(log) + (i - 1) /\ Len(log) + i # 1
    BY <1>0, <1>4
  <2>2. SurfaceBefore(next, Len(log) + i) = SubSeq(msgs, 1, i - 1)
    <3> HIDE DEF next
    <3>3. PICK j \in 1..Len(msgs) - 0 : j = i - 1
      BY <1>0, <2>1
    <3>1. next[Len(log) + j].surface = SubSeq(msgs, 1, 0 + j)
      BY <1>1 DEF Writes
    <3>2. 0 + j = i - 1 /\ Len(log) + j = Len(log) + i - 1
      BY <1>0, <3>3
    <3>4. next[Len(log) + i - 1].surface = SubSeq(msgs, 1, i - 1)
      BY <3>1, <3>2
    <3>5. Len(log) + i # 1
      BY <2>1
    <3> QED BY <3>4, <3>5 DEF SurfaceBefore
  <2>3. Op(i) = "append"
    BY <1>4
  <2>4. MessageRecord("append", msgs, i).surface
          = Replayed(SubSeq(msgs, 1, i - 1), MessageRecord("append", msgs, i))
    BY RecordFollows
  <2> HIDE DEF Op, next
  <2>5. Follows(next, Len(log) + i)
    BY <1>2, <2>2, <2>3, <2>4 DEF Follows
  <2> QED BY <2>5 DEF next
<1> QED BY <1>3, <1>4

LEMMA UnloggedFollows ==
  ASSUME NEW log \in Seq(Record), NEW msgs \in Seq(Message),
         NEW i \in Len(log) + 1..Len(AppendUnlogged(log, msgs))
  PROVE  Follows(AppendUnlogged(log, msgs), i)
<1> DEFINE next == AppendUnlogged(log, msgs)
<1>0. Len(log) \in Nat /\ Len(msgs) \in Nat
  OBVIOUS
<1>1. CASE IsPrefix(Surface(log), msgs)
  <2> DEFINE p == Len(Surface(log))
             more == [k \in 1..(Len(msgs) - p) |-> MessageRecord("append", msgs, p + k)]
  <2>1. p \in 0..Len(msgs) /\ SubSeq(msgs, 1, p) = Surface(log)
    <3>1. SubSeq(Surface(log), 1, p) = Surface(log)
      BY SurfaceType, SubSeqFull
    <3> QED BY <1>1, <3>1, SurfaceType, LenProperties DEF IsPrefix
  <2> HIDE DEF p
  <2>2. \A k \in 1..(Len(msgs) - p) : p + k \in 1..Len(msgs)
    BY <1>0, <2>1
  <2>3. more \in Seq(Record) /\ Len(more) = Len(msgs) - p
    <3>1. \A k \in 1..(Len(msgs) - p) : MessageRecord("append", msgs, p + k) \in Record
      BY <2>2, MessageRecordType
    <3> QED BY <1>0, <2>1, <3>1
  <2>4. next = log \o more
    BY <1>1 DEF AppendUnlogged, p
  <2>5. /\ Len(log \o more) = Len(log) + (Len(msgs) - p)
        /\ \A j \in 1..Len(log) : (log \o more)[j] = log[j]
        /\ \A j \in 1..(Len(msgs) - p) : (log \o more)[Len(log) + j] = more[j]
    <3> HIDE DEF more
    <3> QED BY <2>3
  <2>6. PICK k \in 1..(Len(msgs) - p) : i = Len(log) + k
    <3>1. i - Len(log) \in 1..(Len(msgs) - p) /\ i = Len(log) + (i - Len(log))
      BY <1>0, <2>1, <2>4, <2>5
    <3> QED BY <3>1
  <2>11. \A j \in 1..(Len(msgs) - p) :
           (log \o more)[Len(log) + j] = MessageRecord("append", msgs, p + j)
    BY <2>5
  <2> HIDE DEF more
  <2>8. PICK n \in 1..Len(msgs) : n = p + k
    BY <2>2
  <2>7. next[i] = MessageRecord("append", msgs, n)
    BY <2>4, <2>6, <2>8, <2>11
  <2>13. k \in Nat /\ p \in Nat
    BY <2>1
  <2>9. SurfaceBefore(next, i) = SubSeq(msgs, 1, n - 1)
    <3>1. CASE k = 1
      <4>1. n - 1 = p /\ i = Len(log) + 1
        BY <2>6, <2>8, <2>13, <3>1
      <4>2. SurfaceBefore(next, Len(log) + 1) = Surface(log)
        <5> HIDE DEF next
        <5> QED BY <2>4, <2>5, LastSurface
      <4> QED BY <2>1, <4>1, <4>2
    <3>2. CASE k # 1
      <4>1. /\ k - 1 \in 1..(Len(msgs) - p) /\ i - 1 = Len(log) + (k - 1) /\ i # 1
            /\ p + (k - 1) = n - 1
        BY <1>0, <2>6, <2>8, <2>13, <3>2
      <4>2. next[i - 1] = MessageRecord("append", msgs, n - 1)
        <5>1. (log \o more)[Len(log) + (k - 1)] = MessageRecord("append", msgs, p + (k - 1))
          BY <2>11, <4>1
        <5> QED BY <2>4, <4>1, <5>1
      <4>3. MessageRecord("append", msgs, n - 1).surface = SubSeq(msgs, 1, n - 1)
        BY DEF MessageRecord
      <4> HIDE DEF next
      <4> QED BY <4>1, <4>2, <4>3 DEF SurfaceBefore
    <3> QED BY <3>1, <3>2
  <2>10. MessageRecord("append", msgs, n).surface
           = Replayed(SubSeq(msgs, 1, n - 1), MessageRecord("append", msgs, n))
    BY RecordFollows
  <2> HIDE DEF next
  <2>12. Follows(next, i)
    BY <2>7, <2>9, <2>10 DEF Follows
  <2> QED BY <2>12 DEF next
<1>2. CASE ~IsPrefix(Surface(log), msgs) /\ msgs = <<>>
  <2>1. next = log
    BY <1>2 DEF AppendUnlogged
  <2> QED BY <1>0, <2>1
<1>3. CASE ~IsPrefix(Surface(log), msgs) /\ msgs # <<>>
  <2>1. next = ReplaceSurface(log, msgs)
    BY <1>3 DEF AppendUnlogged
  <2>2. Len(ReplaceSurface(log, msgs)) = Len(log) + (Len(msgs) - 0)
    BY ReplaceWrites DEF Writes
  <2>3. i - Len(log) \in 1..Len(msgs) /\ i = Len(log) + (i - Len(log))
    BY <1>0, <2>1, <2>2
  <2>4. Follows(ReplaceSurface(log, msgs), Len(log) + (i - Len(log)))
    BY <2>3, ReplaceFollows
  <2> QED BY <2>1, <2>3, <2>4
<1> QED BY <1>1, <1>2, <1>3

LEMMA CarriedExtends ==
  ASSUME NEW log \in Seq(Record), Carried(log), NEW next \in Seq(Record), Continues(log, next),
         \A i \in Len(log) + 1..Len(next) : Follows(next, i)
  PROVE  Carried(next)
<1> SUFFICES ASSUME NEW i \in 1..Len(next) PROVE Follows(next, i)
  BY DEF Carried
<1>0. Len(log) \in Nat /\ Len(next) \in Nat
  OBVIOUS
<1>1. CASE i > Len(log)
  BY <1>0, <1>1
<1>2. CASE i <= Len(log)
  <2>1. i \in 1..Len(log) /\ next[i] = log[i]
    BY <1>0, <1>2 DEF Continues
  <2>2. SurfaceBefore(next, i) = SurfaceBefore(log, i)
    <3>1. CASE i # 1
      <4>1. i - 1 \in 1..Len(log)
        BY <1>0, <2>1, <3>1
      <4> QED BY <3>1, <4>1 DEF Continues, SurfaceBefore
    <3> QED BY <3>1 DEF SurfaceBefore
  <2> QED BY <2>1, <2>2 DEF Carried, Follows
<1> QED BY <1>0, <1>1, <1>2

\* The least member of a set of numbers.
LEMMA LeastNumber ==
  ASSUME NEW S \in SUBSET Nat, NEW n \in S
  PROVE  \E x \in S : \A y \in S : x <= y
<1>1. \E x \in S : \A y \in S : <<y, x>> \notin OpToRel(<, Nat)
  BY WFMin, NatLessThanWellFounded
<1>2. PICK x \in S : \A y \in S : <<y, x>> \notin OpToRel(<, Nat)
  BY <1>1
<1>3. \A y \in S : ~(y < x)
  BY <1>2 DEF OpToRel
<1>4. \A y \in S : x \in Nat /\ y \in Nat
  OBVIOUS
<1> QED BY <1>3, <1>4

\* What replay() computes from the records is what the last of them carries.
LEMMA ReplayedIsCarried ==
  ASSUME NEW log \in Seq(Record), Carried(log)
  PROVE  ReplayedSurface(log) = Surface(log)
<1> DEFINE N == Len(log)
           carried == [n \in 0..N |-> IF n = 0 THEN <<>> ELSE log[n].surface]
           body(g) == [n \in 0..N |-> IF n = 0 THEN <<>> ELSE Replayed(g[n - 1], log[n])]
           after[n \in 0..N] == IF n = 0 THEN <<>> ELSE Replayed(after[n - 1], log[n])
<1>0. N \in Nat
  OBVIOUS
<1>1. \A n \in 1..N : /\ carried[n] = log[n].surface
                      /\ carried[n - 1] = SurfaceBefore(log, n)
  <2> HIDE DEF N
  <2> QED BY <1>0 DEF SurfaceBefore
<1>2. \A n \in 1..N : carried[n] = Replayed(carried[n - 1], log[n])
  <2> TAKE n \in 1..N
  <2>1. log[n].surface = Replayed(SurfaceBefore(log, n), log[n])
    BY DEF Carried, Follows
  <2> HIDE DEF carried
  <2> QED BY <1>1, <2>1
<1>3. carried = body(carried)
  <2>1. carried[0] = <<>>
    BY <1>0
  <2>2. \A n \in 0..N : carried[n] = body(carried)[n]
    <3> HIDE DEF carried, N
    <3> QED BY <1>0, <1>2, <2>1
  <2> HIDE DEF N
  <2> QED BY <2>2
<1>4. after = body(after)
  <2>1. \E g : g = body(g)
    BY <1>3
  <2> HIDE DEF body
  <2>2. after = CHOOSE g : g = body(g)
    BY DEF body
  <2> QED BY <2>1, <2>2
<1>5. after[N] = carried[N]
  <2> DEFINE bad == { n \in 0..N : after[n] # carried[n] }
  <2> HIDE DEF N, after, carried
  <2> SUFFICES ASSUME NEW m \in bad PROVE FALSE
    BY <1>0
  <2>1. bad \in SUBSET Nat
    BY <1>0
  <2> HIDE DEF bad
  <2>2. PICK n \in bad : \A k \in bad : n <= k
    BY <2>1, LeastNumber
  <2>3. n \in 0..N /\ after[n] # carried[n]
    BY <2>2 DEF bad
  <2>4. n # 0
    <3>1. after[0] = <<>>
      BY <1>0, <1>4
    <3>2. carried[0] = <<>>
      BY <1>0, <1>3
    <3> QED BY <2>3, <3>1, <3>2
  <2>5. n \in 1..N /\ n - 1 \in 0..N /\ ~(n <= n - 1)
    BY <1>0, <2>3, <2>4
  <2>6. n - 1 \notin bad
    BY <2>2, <2>5
  <2>7. after[n - 1] = carried[n - 1]
    BY <2>5, <2>6 DEF bad
  <2>8. after[n] = Replayed(after[n - 1], log[n])
    BY <1>4, <2>4, <2>5
  <2> QED BY <1>2, <2>3, <2>5, <2>7, <2>8
<1>6. ReplayedSurface(log) = after[N]
  BY DEF ReplayedSurface
<1>7. carried[N] = Surface(log)
  <2>1. N = 0 <=> log = <<>>
    BY EmptySeq
  <2>2. carried[N] = IF N = 0 THEN <<>> ELSE log[N].surface
    BY <1>0
  <2> QED BY <2>1, <2>2 DEF Surface
<1> QED BY <1>5, <1>6, <1>7

-----------------------------------------------------------------------------
(* What is in a log that only these operations have written.               *)

\* A record that puts the k-th of msgs on the Surface.
IsCopy(r, msgs, k) ==
  /\ r.type = RecordType(msgs[k]) /\ r.msg = msgs[k]
  /\ r.surface = SubSeq(msgs, 1, k)

LEMMA Written ==
  ASSUME NEW log \in Seq(Record), NEW next, NEW msgs \in Seq(Message),
         NEW from \in 0..Len(msgs), Writes(log, next, msgs, from), NEW i \in 1..Len(next)
  PROVE  \/ i \in 1..Len(log) /\ next[i] = log[i]
         \/ /\ i > Len(log)
            /\ \E k \in from + 1..Len(msgs) :
                 k = from + (i - Len(log)) /\ IsCopy(next[i], msgs, k)
<1>0. Len(log) \in Nat /\ Len(msgs) \in Nat /\ from \in Nat
      /\ Len(next) = Len(log) + (Len(msgs) - from)
  BY DEF Writes
<1>1. CASE i <= Len(log)
  BY <1>0, <1>1 DEF Writes
<1>2. CASE i > Len(log)
  <2>1. PICK j \in 1..(Len(msgs) - from) : j = i - Len(log)
    <3>1. i - Len(log) \in 1..(Len(msgs) - from)
      BY <1>0, <1>2
    <3> QED BY <3>1
  <2>2. PICK k \in from + 1..Len(msgs) : k = from + j
    BY <1>0, <2>1
  <2>3. i = Len(log) + j
    BY <1>0, <2>1
  <2>4. IsCopy(next[i], msgs, k)
    BY <2>2, <2>3 DEF Writes, IsCopy
  <2> QED BY <1>2, <2>1, <2>2, <2>4
<1> QED BY <1>0, <1>1, <1>2

UserFirst(msgs) == msgs # <<>> => msgs[1].role = "user"

\* Every Surface has begun with a message of the user, and once a message has
\* been written the Surface is not empty again.
Rooted(log) == \A i \in 1..Len(log) : UserFirst(log[i].surface)

NeverEmptied(log) ==
  \A i \in 1..Len(log) : \A j \in i..Len(log) :
    log[i].type \in MessageTypes => log[j].surface # <<>>

WellBuilt(log) == Carried(log) /\ Rooted(log) /\ NeverEmptied(log)

\* A record that replay() passes over.
Silent(log, r) == r \in Record /\ r.type \notin MessageTypes /\ r.surface = Surface(log)

LEMMA SilentMark ==
  ASSUME NEW log \in Seq(Record), NEW type \in MarkTypes
  PROVE  Silent(log, [type |-> type, surface |-> Surface(log)])
BY SurfaceType DEF Silent, Record, MarkTypes, MessageTypes

LEMMA SilentCall ==
  ASSUME NEW log \in Seq(Record), NEW c \in Calls
  PROVE  Silent(log, CallRecord(log, c))
BY CallRecordType DEF CallRecord, Silent, MessageTypes

LEMMA SurfaceOfSilent ==
  ASSUME NEW log \in Seq(Record), NEW r, Silent(log, r)
  PROVE  /\ Append(log, r) \in Seq(Record) /\ Len(Append(log, r)) = Len(log) + 1
         /\ Append(log, r)[Len(log) + 1] = r
         /\ \A i \in 1..Len(log) : Append(log, r)[i] = log[i]
         /\ Surface(Append(log, r)) = Surface(log)
<1>1. r \in Record
  BY DEF Silent
<1>2. /\ Append(log, r) \in Seq(Record) /\ Len(Append(log, r)) = Len(log) + 1
      /\ Append(log, r)[Len(log) + 1] = r
      /\ \A i \in 1..Len(log) : Append(log, r)[i] = log[i]
      /\ Append(log, r) # <<>>
  BY <1>1
<1>3. r.surface = Surface(log)
  BY DEF Silent
<1>4. Surface(Append(log, r)) = r.surface
  BY <1>2 DEF Surface
<1> QED BY <1>2, <1>3, <1>4

LEMMA RootedSurface ==
  ASSUME NEW log \in Seq(Record), Rooted(log)
  PROVE  UserFirst(Surface(log))
<1>1. CASE log = <<>>
  BY <1>1 DEF Surface, UserFirst
<1>2. CASE log # <<>>
  <2>1. Len(log) \in 1..Len(log)
    BY <1>2, EmptySeq
  <2> QED BY <1>2, <2>1 DEF Rooted, Surface
<1> QED BY <1>1, <1>2

LEMMA BuiltSilent ==
  ASSUME NEW log \in Seq(Record), WellBuilt(log), NEW r, Silent(log, r)
  PROVE  WellBuilt(Append(log, r))
<1> DEFINE next == Append(log, r)
           N == Len(log)
<1>1. /\ next \in Seq(Record) /\ Len(next) = N + 1 /\ next[N + 1] = r
      /\ \A i \in 1..N : next[i] = log[i]
  BY SurfaceOfSilent
<1>2. r.type \notin MessageTypes /\ r.surface = Surface(log) /\ N \in Nat
  BY DEF Silent
<1>3. Carried(next)
  <2>1. Follows(next, N + 1)
    <3>1. SurfaceBefore(next, N + 1) = Surface(log)
      BY <1>1, LastSurface
    <3> HIDE DEF next
    <3> QED BY <1>1, <1>2, <3>1 DEF Follows, Replayed
  <2>2. Continues(log, next)
    BY <1>1, <1>2 DEF Continues
  <2>3. \A i \in N + 1..Len(next) : i = N + 1
    BY <1>1, <1>2
  <2> HIDE DEF next
  <2> QED BY <1>1, <2>1, <2>2, <2>3, CarriedExtends DEF WellBuilt
<1> HIDE DEF next
<1>4. Rooted(next)
  <2> SUFFICES ASSUME NEW i \in 1..Len(next) PROVE UserFirst(next[i].surface)
    BY DEF Rooted
  <2>1. CASE i = N + 1
    BY <1>1, <1>2, <2>1, RootedSurface DEF WellBuilt
  <2>2. CASE i # N + 1
    <3>1. i \in 1..N
      BY <1>1, <1>2, <2>2
    <3> QED BY <1>1, <3>1 DEF WellBuilt, Rooted
  <2> QED BY <2>1, <2>2
<1>5. NeverEmptied(next)
  <2> SUFFICES ASSUME NEW i \in 1..Len(next), NEW j \in i..Len(next),
                      next[i].type \in MessageTypes
               PROVE  next[j].surface # <<>>
    BY DEF NeverEmptied
  <2>1. i \in 1..N
    BY <1>1, <1>2
  <2>2. CASE j = N + 1
    <3>1. N \in i..N /\ log # <<>>
      BY <1>2, <2>1
    <3>2. log[N].surface # <<>>
      BY <1>1, <2>1, <3>1 DEF WellBuilt, NeverEmptied
    <3> QED BY <1>1, <1>2, <2>2, <3>1, <3>2 DEF Surface
  <2>3. CASE j # N + 1
    <3>1. j \in i..N /\ j \in 1..N
      BY <1>1, <1>2, <2>1, <2>3
    <3> QED BY <1>1, <2>1, <3>1 DEF WellBuilt, NeverEmptied
  <2> QED BY <2>2, <2>3
<1> QED BY <1>3, <1>4, <1>5 DEF WellBuilt, next

LEMMA BuiltPrefix ==
  ASSUME NEW log \in Seq(Record), WellBuilt(log), NEW n \in 0..Len(log)
  PROVE  WellBuilt(SubSeq(log, 1, n))
<1> DEFINE cut == SubSeq(log, 1, n)
<1>1. cut \in Seq(Record) /\ Len(cut) = n /\ \A i \in 1..n : cut[i] = log[i]
  BY PrefixType
<1>2. n \in Nat /\ Len(log) \in Nat /\ \A i \in 1..n : i \in 1..Len(log)
  OBVIOUS
<1> HIDE DEF cut
<1>3. Carried(cut)
  <2> SUFFICES ASSUME NEW i \in 1..n PROVE Follows(cut, i)
    BY <1>1 DEF Carried
  <2>1. i \in 1..Len(log) /\ cut[i] = log[i] /\ Follows(log, i)
    BY <1>1, <1>2 DEF WellBuilt, Carried
  <2>2. SurfaceBefore(cut, i) = SurfaceBefore(log, i)
    <3>1. CASE i # 1
      <4>1. i - 1 \in 1..n
        BY <1>2, <3>1
      <4> QED BY <1>1, <3>1, <4>1 DEF SurfaceBefore
    <3> QED BY <3>1 DEF SurfaceBefore
  <2> QED BY <2>1, <2>2 DEF Follows
<1>4. Rooted(cut)
  BY <1>1, <1>2 DEF WellBuilt, Rooted
<1>5. NeverEmptied(cut)
  <2> SUFFICES ASSUME NEW i \in 1..n, NEW j \in i..n, cut[i].type \in MessageTypes
               PROVE  cut[j].surface # <<>>
    BY <1>1 DEF NeverEmptied
  <2>1. i \in 1..Len(log) /\ j \in i..Len(log) /\ j \in 1..n
    BY <1>2
  <2> QED BY <1>1, <2>1 DEF WellBuilt, NeverEmptied
<1> QED BY <1>3, <1>4, <1>5 DEF WellBuilt, cut

\* Records that copy a list which the user has begun.
LEMMA BuiltCopies ==
  ASSUME NEW log \in Seq(Record), WellBuilt(log), NEW next \in Seq(Record),
         NEW msgs \in Seq(Message), msgs # <<>>, UserFirst(msgs),
         NEW from \in 0..Len(msgs), Writes(log, next, msgs, from),
         \A i \in Len(log) + 1..Len(next) : Follows(next, i)
  PROVE  WellBuilt(next)
<1>0. Len(log) \in Nat /\ Len(next) \in Nat /\ from \in Nat
  OBVIOUS
<1>1. Continues(log, next)
  BY <1>0 DEF Continues, Writes
<1>2. Carried(next)
  BY <1>1, CarriedExtends DEF WellBuilt
<1>3. ASSUME NEW k \in 1..Len(msgs)
      PROVE  SubSeq(msgs, 1, k) # <<>> /\ UserFirst(SubSeq(msgs, 1, k))
  <2>1. /\ SubSeq(msgs, 1, k) \in Seq(Message) /\ Len(SubSeq(msgs, 1, k)) = k /\ k # 0
        /\ SubSeq(msgs, 1, k)[1] = msgs[1]
    <3>1. k \in 0..Len(msgs) /\ 1 \in 1..k /\ k # 0
      OBVIOUS
    <3> QED BY <3>1, PrefixType
  <2> QED BY <2>1 DEF UserFirst
<1>4. ASSUME NEW i \in 1..Len(next), i > Len(log)
      PROVE  next[i].surface # <<>> /\ UserFirst(next[i].surface)
  <2>3. i \notin 1..Len(log)
    BY <1>0, <1>4
  <2>4. \E k \in from + 1..Len(msgs) :
          k = from + (i - Len(log)) /\ IsCopy(next[i], msgs, k)
    BY <2>3, Written
  <2>1. PICK k \in from + 1..Len(msgs) : IsCopy(next[i], msgs, k)
    BY <2>4
  <2>2. k \in 1..Len(msgs)
    BY <1>0
  <2> QED BY <1>3, <2>1, <2>2 DEF IsCopy
<1>5. Rooted(next)
  <2> SUFFICES ASSUME NEW i \in 1..Len(next) PROVE UserFirst(next[i].surface)
    BY DEF Rooted
  <2>1. CASE i \in 1..Len(log)
    BY <1>1, <2>1 DEF WellBuilt, Rooted, Continues
  <2>2. CASE i > Len(log)
    BY <1>4, <2>2
  <2> QED BY <1>0, <2>1, <2>2
<1>6. NeverEmptied(next)
  <2> SUFFICES ASSUME NEW i \in 1..Len(next), NEW j \in i..Len(next),
                      next[i].type \in MessageTypes
               PROVE  next[j].surface # <<>>
    BY DEF NeverEmptied
  <2>1. CASE j > Len(log)
    <3>1. j \in 1..Len(next)
      BY <1>0
    <3> QED BY <1>4, <2>1, <3>1
  <2>2. CASE j <= Len(log)
    <3>1. i \in 1..Len(log) /\ j \in i..Len(log) /\ j \in 1..Len(log)
      BY <1>0, <2>2
    <3> QED BY <1>1, <3>1 DEF WellBuilt, NeverEmptied, Continues
  <2> QED BY <1>0, <2>1, <2>2
<1> QED BY <1>2, <1>5, <1>6 DEF WellBuilt

LEMMA BuiltUnlogged ==
  ASSUME NEW log \in Seq(Record), WellBuilt(log),
         NEW msgs \in Seq(Message), msgs # <<>>, UserFirst(msgs)
  PROVE  WellBuilt(AppendUnlogged(log, msgs))
<1> DEFINE next == AppendUnlogged(log, msgs)
<1>1. PICK from \in 0..Len(msgs) : Writes(log, next, msgs, from)
  BY AppendUnloggedWrites
<1>2. next \in Seq(Record)
  BY AppendUnloggedContinues DEF Continues
<1>3. \A i \in Len(log) + 1..Len(next) : Follows(next, i)
  BY UnloggedFollows
<1> HIDE DEF next
<1>4. WellBuilt(next)
  BY <1>1, <1>2, <1>3, BuiltCopies
<1> QED BY <1>4 DEF next

LEMMA BuiltReplace ==
  ASSUME NEW log \in Seq(Record), WellBuilt(log),
         NEW msgs \in Seq(Message), msgs # <<>>, UserFirst(msgs)
  PROVE  /\ WellBuilt(ReplaceSurface(log, msgs))
         /\ Surface(ReplaceSurface(log, msgs)) = msgs
<1> DEFINE next == ReplaceSurface(log, msgs)
<1>0. Len(log) \in Nat /\ Len(msgs) \in Nat /\ Len(msgs) # 0 /\ 0 \in 0..Len(msgs)
  BY EmptySeq
<1>1. Writes(log, next, msgs, 0)
  BY ReplaceWrites
<1>2. next \in Seq(Record)
  BY ReplaceSurfaceContinues DEF Continues
<1>3. \A i \in Len(log) + 1..Len(next) : Follows(next, i)
  <2> SUFFICES ASSUME NEW i \in Len(log) + 1..Len(next) PROVE Follows(next, i)
    OBVIOUS
  <2>1. Len(next) = Len(log) + (Len(msgs) - 0)
    BY <1>1 DEF Writes
  <2>2. PICK k \in 1..Len(msgs) : i = Len(log) + k
    <3>1. i - Len(log) \in 1..Len(msgs) /\ i = Len(log) + (i - Len(log))
      BY <1>0, <2>1
    <3> QED BY <3>1
  <2> QED BY <2>2, ReplaceFollows
<1>4. next # <<>>
  <2>1. Len(next) = Len(log) + (Len(msgs) - 0)
    BY <1>1 DEF Writes
  <2>2. Len(next) # 0
    BY <1>0, <2>1
  <2> HIDE DEF next
  <2> QED BY <2>2, EmptySeq
<1> HIDE DEF next
<1>5. WellBuilt(next)
  BY <1>0, <1>1, <1>2, <1>3, BuiltCopies
<1>6. Surface(next) = msgs
  BY <1>0, <1>1, <1>4, SurfaceWritten
<1> QED BY <1>5, <1>6 DEF next

\* The same list again is not written again.
LEMMA UnloggedNothing ==
  ASSUME NEW log \in Seq(Record)
  PROVE  AppendUnlogged(log, Surface(log)) = log
<1> DEFINE msgs == Surface(log)
           p == Len(msgs)
           more == [i \in 1..(Len(msgs) - p) |-> MessageRecord("append", msgs, p + i)]
<1>1. msgs \in Seq(Message) /\ p \in Nat
  BY SurfaceType
<1>2. IsPrefix(msgs, msgs)
  BY <1>1 DEF IsPrefix
<1>3. AppendUnlogged(log, msgs) = log \o more
  BY <1>2 DEF AppendUnlogged
<1>4. more = <<>>
  <2>1. 1..(Len(msgs) - p) = {}
    BY <1>1
  <2>2. more = [i \in {} |-> MessageRecord("append", msgs, p + i)]
    BY <2>1
  <2> QED BY <2>2
<1>5. log \o <<>> = log
  BY ConcatEmptySeq
<1> QED BY <1>3, <1>4, <1>5

-----------------------------------------------------------------------------
(* The ends of turns.                                                      *)

LEMMA AppendParts ==
  ASSUME NEW S, NEW s \in Seq(S), NEW m \in S
  PROVE  /\ Append(s, m) \in Seq(S) /\ Len(Append(s, m)) = Len(s) + 1 /\ Len(s) \in Nat
         /\ \A i \in 1..Len(s) : Append(s, m)[i] = s[i]
         /\ Append(s, m)[Len(s) + 1] = m
OBVIOUS

LEMMA TurnClosed ==
  ASSUME NEW log \in Seq(Record)
  PROVE  ~OpenTurn(Mark(log, "turn/end"))
<1> DEFINE next == Mark(log, "turn/end")
<1>1. /\ Len(next) = Len(log) + 1 /\ next[Len(log) + 1].type = "turn/end"
      /\ next \in Seq(Record)
  BY SurfaceOfMark, MarkContinues DEF MarkTypes, Continues
<1>2. DOMAIN next = 1..Len(next) /\ Len(log) \in Nat
  BY <1>1
<1> HIDE DEF next
<1> SUFFICES ASSUME NEW i \in DOMAIN next, next[i].type = "turn/start",
                    \A j \in i + 1..Len(next) : next[j].type # "turn/end"
             PROVE  FALSE
  BY DEF OpenTurn, next
<1>3. CASE i = Len(log) + 1
  BY <1>1, <1>3
<1>4. CASE i # Len(log) + 1
  <2>1. Len(log) + 1 \in i + 1..Len(next)
    BY <1>1, <1>2, <1>4
  <2> QED BY <1>1, <2>1
<1> QED BY <1>3, <1>4

\* Only a turn/start opens a turn.
LEMMA OpenAppend ==
  ASSUME NEW log \in Seq(Record), NEW r \in Record, r.type # "turn/start",
         OpenTurn(Append(log, r))
  PROVE  OpenTurn(log)
<1> DEFINE next == Append(log, r)
<1>1. /\ next \in Seq(Record) /\ Len(next) = Len(log) + 1 /\ next[Len(log) + 1] = r
      /\ \A i \in 1..Len(log) : next[i] = log[i] /\ Len(log) \in Nat
  BY AppendParts
<1>2. DOMAIN next = 1..Len(next) /\ Len(log) \in Nat /\ DOMAIN log = 1..Len(log)
  BY <1>1
<1> HIDE DEF next
<1>3. PICK i \in DOMAIN next :
        /\ next[i].type = "turn/start"
        /\ \A j \in i + 1..Len(next) : next[j].type # "turn/end"
  BY DEF OpenTurn, next
<1>4. i \in 1..Len(log)
  BY <1>1, <1>2, <1>3
<1>5. \A j \in i + 1..Len(log) : j \in i + 1..Len(next) /\ j \in 1..Len(log)
  BY <1>1, <1>2, <1>4
<1>6. log[i].type = "turn/start" /\ \A j \in i + 1..Len(log) : log[j].type # "turn/end"
  BY <1>1, <1>3, <1>4, <1>5
<1> QED BY <1>2, <1>4, <1>6 DEF OpenTurn

LEMMA MarkedShut ==
  ASSUME NEW log \in Seq(Record), ~OpenTurn(log), NEW type \in MarkTypes \ {"turn/start"}
  PROVE  ~OpenTurn(Mark(log, type))
<1> DEFINE r == [type |-> type, surface |-> Surface(log)]
<1>1. r \in Record /\ r.type # "turn/start"
  BY SilentMark DEF Silent
<1> HIDE DEF r
<1>2. Mark(log, type) = Append(log, r)
  BY DEF Mark, r
<1> QED BY <1>1, <1>2, OpenAppend

LEMMA BuiltMark ==
  ASSUME NEW log \in Seq(Record), WellBuilt(log), NEW type \in MarkTypes
  PROVE  WellBuilt(Mark(log, type)) /\ Mark(log, type) \in Seq(Record)
<1>1. Silent(log, [type |-> type, surface |-> Surface(log)])
  BY SilentMark
<1> QED BY <1>1, BuiltSilent, SurfaceOfSilent DEF Mark

\* A log with pending calls has a Surface that the user has begun.
LEMMA PendingOnSurface ==
  ASSUME NEW log \in Seq(Record), WellBuilt(log), PendingCalls(log) # {}
  PROVE  Surface(log) # <<>>
<1>1. PICK i \in DOMAIN log : log[i].type = "assistant/message"
  BY DEF PendingCalls, Declares
<1>2. i \in 1..Len(log) /\ Len(log) \in i..Len(log) /\ log # <<>>
  OBVIOUS
<1>3. log[Len(log)].surface # <<>>
  BY <1>1, <1>2 DEF WellBuilt, NeverEmptied, MessageTypes
<1> QED BY <1>2, <1>3 DEF Surface

LEMMA BuiltResume ==
  ASSUME NEW log \in Seq(Record), WellBuilt(log),
         NEW order \in SetToSeqs(PendingCalls(log))
  PROVE  /\ order \in Seq(Calls)
         /\ PreparedResume(log, order) \in Seq(Record)
         /\ WellBuilt(PreparedResume(log, order))
         /\ ~OpenTurn(PreparedResume(log, order))
<1> DEFINE closers == [i \in 1..Len(order) |-> Closer(log, order[i])]
           msgs == Surface(log) \o closers
           closed == AppendUnlogged(log, msgs)
           step == IF OpenStep(log) THEN Mark(closed, "step/end") ELSE closed
<1>1. order \in Seq(Calls) /\ order \in Seq(PendingCalls(log))
  <2>1. PendingCalls(log) \in SUBSET Calls
    BY DEF PendingCalls
  <2>2. order \in Seq(PendingCalls(log))
    BY <2>1, SubsetIsFinite, OrderType
  <2> QED BY <2>1, <2>2, SeqMonotonic
<1>2. msgs \in Seq(Message) /\ Surface(log) \in Seq(Message) /\ closers \in Seq(Message)
  <2>1. \A c \in Calls : Closer(log, c) \in Message
    BY DEF Closer, ToolMsg, Message, Results
  <2> QED BY <1>1, <2>1, ClosersType, SurfaceType
<1>3. closed \in Seq(Record) /\ WellBuilt(closed)
  <2>1. closed \in Seq(Record)
    BY <1>2, AppendUnloggedContinues DEF Continues
  <2>2. CASE order = <<>>
    <3>1. closers = <<>>
      <4>1. 1..Len(order) = {}
        BY <2>2
      <4>2. closers = [i \in {} |-> Closer(log, order[i])]
        BY <4>1
      <4> QED BY <4>2
    <3>2. msgs = Surface(log)
      <4> HIDE DEF closers
      <4> QED BY <1>2, <3>1, ConcatEmptySeq
    <3>3. closed = log
      BY <3>2, UnloggedNothing
    <3> QED BY <3>3
  <2>3. CASE order # <<>>
    <3>1. PendingCalls(log) # {}
      <4>1. order[1] \in PendingCalls(log)
        BY <1>1, <2>3
      <4> QED BY <4>1
    <3>2. Surface(log) # <<>> /\ UserFirst(Surface(log))
      BY <3>1, PendingOnSurface, RootedSurface DEF WellBuilt
    <3>3. msgs # <<>> /\ UserFirst(msgs)
      <4> HIDE DEF closers
      <4>1. 1 \in 1..Len(Surface(log)) /\ Len(msgs) # 0 /\ msgs[1] = Surface(log)[1]
        BY <1>2, <3>2
      <4> HIDE DEF msgs
      <4> QED BY <1>2, <3>2, <4>1, EmptySeq DEF UserFirst
    <3> HIDE DEF msgs
    <3> QED BY <1>2, <2>1, <3>3, BuiltUnlogged
  <2> QED BY <2>2, <2>3, <2>1
<1> HIDE DEF closed
<1>4. step \in Seq(Record) /\ WellBuilt(step)
  BY <1>3, BuiltMark DEF MarkTypes
<1> HIDE DEF step
<1> DEFINE repaired == IF OpenTurn(log) THEN Mark(step, "turn/end") ELSE log
<1>5. repaired \in Seq(Record) /\ WellBuilt(repaired) /\ ~OpenTurn(repaired)
  BY <1>4, BuiltMark, TurnClosed DEF MarkTypes
<1>6. PreparedResume(log, order) = Mark(repaired, "session/end-seed")
  BY DEF PreparedResume, Repaired, step, closed
<1> HIDE DEF repaired
<1> QED BY <1>1, <1>5, <1>6, BuiltMark, MarkedShut DEF MarkTypes

-----------------------------------------------------------------------------
(* Calls in a list of messages.                                            *)

Asks(m, c)    == m.role = "assistant" /\ c \in m.calls
Replies(m, c) == m.role = "tool" /\ m.call = c

\* Message i's call c is answered further down.
AnsweredAfter(msgs, i, c) == \E j \in i + 1..Len(msgs) : Replies(msgs[j], c)

\* Every call of the list is answered further down, except those in open.
Settled(msgs, open) ==
  \A i \in 1..Len(msgs), c \in Calls :
    Asks(msgs[i], c) => c \in open \/ AnsweredAfter(msgs, i, c)

\* One more message settles what it answers and opens what it asks for.
LEMMA SettledAppend ==
  ASSUME NEW msgs \in Seq(Message), NEW m \in Message, NEW open, NEW left,
         Settled(msgs, open),
         \A c \in Calls : Asks(m, c) => c \in left,
         \A c \in open \cap Calls : c \in left \/ Replies(m, c)
  PROVE  Settled(Append(msgs, m), left)
<1> DEFINE next == Append(msgs, m)
<1>1. /\ Len(next) = Len(msgs) + 1 /\ next[Len(msgs) + 1] = m
      /\ \A i \in 1..Len(msgs) : next[i] = msgs[i] /\ Len(msgs) \in Nat
  BY AppendParts
<1>2. Len(msgs) \in Nat
  OBVIOUS
<1> HIDE DEF next
<1> SUFFICES ASSUME NEW i \in 1..Len(next), NEW c \in Calls, Asks(next[i], c), c \notin left
             PROVE  AnsweredAfter(next, i, c)
  BY DEF Settled, next
<1>3. i \in 1..Len(msgs) /\ next[i] = msgs[i]
  <2>1. i # Len(msgs) + 1
    BY <1>1
  <2>2. i \in 1..Len(msgs)
    BY <1>1, <1>2, <2>1
  <2> QED BY <1>1, <2>2
<1>4. CASE c \in open
  <2>1. Replies(next[Len(msgs) + 1], c) /\ Len(msgs) + 1 \in i + 1..Len(next)
    BY <1>1, <1>2, <1>3, <1>4
  <2> QED BY <2>1 DEF AnsweredAfter
<1>5. CASE c \notin open
  <2>1. PICK j \in i + 1..Len(msgs) : Replies(msgs[j], c)
    BY <1>3, <1>5 DEF Settled, AnsweredAfter
  <2>2. j \in 1..Len(msgs) /\ j \in i + 1..Len(next)
    BY <1>1, <1>2, <1>3
  <2> QED BY <1>1, <2>1, <2>2 DEF AnsweredAfter
<1> QED BY <1>4, <1>5

\* A list that needs no mending is settled.
LEMMA SettledHealed ==
  ASSUME NEW msgs \in Seq(Message), \A i, e \in DOMAIN msgs : ~Dangling(msgs, i, e)
  PROVE  Settled(msgs, {})
<1>0. DOMAIN msgs = 1..Len(msgs) /\ Len(msgs) \in Nat
  OBVIOUS
<1> SUFFICES ASSUME NEW i \in 1..Len(msgs), NEW c \in Calls, Asks(msgs[i], c)
             PROVE  AnsweredAfter(msgs, i, c)
  BY DEF Settled
<1> DEFINE ends == { e \in i..Len(msgs) : ~IsTool(msgs, e + 1) }
<1>1. ends \in SUBSET Nat /\ Len(msgs) \in ends
  BY <1>0 DEF IsTool
<1>2. PICK e \in ends : \A k \in ends : e <= k
  <2> HIDE DEF ends
  <2> QED BY <1>1, LeastNumber
<1>3. e \in i..Len(msgs) /\ ~IsTool(msgs, e + 1)
  OBVIOUS
<1>4. ASSUME NEW j \in i + 1..e PROVE IsTool(msgs, j)
  <2>1. j - 1 \in i..Len(msgs) /\ ~(e <= j - 1) /\ j - 1 + 1 = j
    BY <1>0, <1>3
  <2>2. j - 1 \notin ends
    BY <1>2, <2>1
  <2> QED BY <2>1, <2>2
<1>5. IsGroupEnd(msgs, i, e) /\ e \in DOMAIN msgs /\ i \in DOMAIN msgs
  BY <1>0, <1>3, <1>4 DEF IsGroupEnd
<1>6. c \in AnsweredIn(msgs, i, e)
  BY <1>5 DEF Dangling, IsAsking, Asks
<1>7. PICK j \in i + 1..e : msgs[j].call = c
  BY <1>6 DEF AnsweredIn
<1>8. msgs[j].role = "tool" /\ j \in i + 1..Len(msgs)
  BY <1>0, <1>3, <1>4 DEF IsTool
<1> QED BY <1>7, <1>8 DEF AnsweredAfter, Replies

\* What a compaction keeps of a settled list, behind its summary, is settled.
LEMMA CompactedParts ==
  ASSUME NEW msgs \in Seq(Message), NEW k \in 1..Len(msgs)
  PROVE  LET kept == <<SummaryMsg>> \o SubSeq(msgs, k, Len(msgs))
         IN  /\ kept \in Seq(Message) /\ Len(kept) = Len(msgs) - k + 2
             /\ kept[1] = SummaryMsg
             /\ \A i \in 2..Len(kept) : kept[i] = msgs[i + k - 2]
<1> DEFINE tail == SubSeq(msgs, k, Len(msgs))
           kept == <<SummaryMsg>> \o tail
<1>0. Len(msgs) \in Nat /\ k \in Nat /\ k <= Len(msgs)
  OBVIOUS
<1>1. tail \in Seq(Message) /\ Len(tail) = Len(msgs) - k + 1
      /\ \A j \in 1..Len(msgs) - k + 1 : tail[j] = msgs[k + j - 1]
  <2>1. tail \in Seq(Message)
    BY <1>0, PartType
  <2> QED BY <1>0, <2>1, SubSeqProperties
<1>2. <<SummaryMsg>> \in Seq(Message) /\ Len(<<SummaryMsg>>) = 1
  BY DEF SummaryMsg, UserMsg, Message
<1> HIDE DEF tail
<1>3. /\ kept \in Seq(Message) /\ Len(kept) = 1 + Len(tail)
      /\ \A i \in 1..1 + Len(tail) :
           kept[i] = IF i <= 1 THEN <<SummaryMsg>>[i] ELSE tail[i - 1]
  BY <1>1, <1>2, ConcatProperties
<1> HIDE DEF kept
<1>4. kept[1] = SummaryMsg
  <2>1. 1 \in 1..1 + Len(tail)
    BY <1>0, <1>1
  <2> QED BY <1>3, <2>1
<1>5. ASSUME NEW i \in 2..Len(kept) PROVE kept[i] = msgs[i + k - 2]
  <2>1. PICK j \in 1..Len(msgs) - k + 1 : j = i - 1
    <3>1. i - 1 \in 1..Len(msgs) - k + 1
      BY <1>0, <1>1, <1>3
    <3> QED BY <3>1
  <2>2. i \in 1..1 + Len(tail) /\ ~(i <= 1) /\ k + j - 1 = i + k - 2
    BY <1>0, <1>1, <1>3, <2>1
  <2>3. kept[i] = tail[i - 1]
    BY <1>3, <2>2
  <2>4. tail[j] = msgs[k + j - 1]
    BY <1>1
  <2> QED BY <2>1, <2>2, <2>3, <2>4
<1>6. Len(kept) = Len(msgs) - k + 2
  BY <1>0, <1>1, <1>3
<1> QED BY <1>3, <1>4, <1>5, <1>6 DEF kept, tail

LEMMA SettledCompacted ==
  ASSUME NEW msgs \in Seq(Message), Settled(msgs, {}), NEW k \in 1..Len(msgs)
  PROVE  Settled(<<SummaryMsg>> \o SubSeq(msgs, k, Len(msgs)), {})
<1> DEFINE kept == <<SummaryMsg>> \o SubSeq(msgs, k, Len(msgs))
<1>0. Len(msgs) \in Nat /\ k \in Nat /\ k >= 1
  OBVIOUS
<1>1. /\ kept \in Seq(Message) /\ Len(kept) = Len(msgs) - k + 2 /\ kept[1] = SummaryMsg
      /\ \A i \in 2..Len(kept) : kept[i] = msgs[i + k - 2]
  BY CompactedParts
<1> HIDE DEF kept
<1> SUFFICES ASSUME NEW i \in 1..Len(kept), NEW c \in Calls, Asks(kept[i], c)
             PROVE  AnsweredAfter(kept, i, c)
  BY DEF Settled, kept
<1>2. i # 1
  BY <1>1 DEF Asks, SummaryMsg, UserMsg
<1>3. i \in 2..Len(kept) /\ i + k - 2 \in 1..Len(msgs) /\ i \in Nat
  BY <1>0, <1>1, <1>2
<1>4. PICK j \in i + k - 2 + 1..Len(msgs) : Replies(msgs[j], c)
  BY <1>1, <1>3 DEF Settled, AnsweredAfter
<1>5. PICK n \in i + 1..Len(kept) : n = j - k + 2
  <2>1. j - k + 2 \in i + 1..Len(kept)
    BY <1>0, <1>1, <1>3
  <2> QED BY <2>1
<1>6. n \in 2..Len(kept) /\ n + k - 2 = j
  BY <1>0, <1>3, <1>5
<1> QED BY <1>1, <1>4, <1>6 DEF AnsweredAfter

-----------------------------------------------------------------------------
(* Calls in a log.                                                         *)

Ends == {"step/end", "turn/start", "turn/end"}

EverDispatched(log, c) == \E i \in 1..Len(log) : Dispatches(log[i], c)

\* One more record.
LEMMA PendingAppend ==
  ASSUME NEW log \in Seq(Record), NEW r \in Record, NEW c \in PendingCalls(Append(log, r))
  PROVE  \/ c \in PendingCalls(log) /\ ~Answers(r, c) /\ r.type \notin Ends
         \/ Declares(r, c)
<1> DEFINE next == Append(log, r)
<1>1. /\ next \in Seq(Record) /\ Len(next) = Len(log) + 1 /\ next[Len(log) + 1] = r
      /\ \A i \in 1..Len(log) : next[i] = log[i] /\ Len(log) \in Nat
  BY AppendParts
<1>2. Len(log) \in Nat /\ DOMAIN log = 1..Len(log)
  OBVIOUS
<1> HIDE DEF next
<1>3. PICK i \in DOMAIN next :
        /\ Declares(next[i], c)
        /\ \A j \in i + 1..Len(next) : ~Answers(next[j], c) /\ next[j].type \notin Ends
  BY DEF PendingCalls, next, Ends
<1>4. i \in 1..Len(log) + 1 /\ c \in Calls
  BY <1>1 DEF PendingCalls
<1>5. CASE i = Len(log) + 1
  BY <1>1, <1>3, <1>5
<1>6. CASE i # Len(log) + 1
  <2>1. i \in 1..Len(log) /\ Len(log) + 1 \in i + 1..Len(next)
    BY <1>1, <1>2, <1>4, <1>6
  <2>2. \A j \in i + 1..Len(log) : j \in i + 1..Len(next) /\ j \in 1..Len(log)
    BY <1>1, <1>2, <2>1
  <2>3. Declares(log[i], c) /\ \A j \in i + 1..Len(log) :
                                 ~Answers(log[j], c) /\ log[j].type \notin Ends
    BY <1>1, <1>3, <2>1, <2>2
  <2>4. c \in PendingCalls(log)
    BY <1>2, <1>4, <2>1, <2>3 DEF PendingCalls, Ends
  <2> QED BY <1>1, <1>3, <2>1, <2>4
<1> QED BY <1>5, <1>6

LEMMA StartedAppend ==
  ASSUME NEW log \in Seq(Record), NEW r \in Record, NEW c
  PROVE  /\ Started(log, c) /\ ~Declares(r, c) => Started(Append(log, r), c)
         /\ Dispatches(r, c) => Started(Append(log, r), c)
         /\ EverDispatched(Append(log, r), c) => EverDispatched(log, c) \/ Dispatches(r, c)
<1> DEFINE next == Append(log, r)
<1>1. /\ next \in Seq(Record) /\ Len(next) = Len(log) + 1 /\ next[Len(log) + 1] = r
      /\ \A i \in 1..Len(log) : next[i] = log[i] /\ Len(log) \in Nat
  BY AppendParts
<1>2. Len(log) \in Nat /\ DOMAIN log = 1..Len(log) /\ DOMAIN next = 1..Len(log) + 1
  BY <1>1
<1> HIDE DEF next
<1>3. ASSUME Started(log, c), ~Declares(r, c) PROVE Started(next, c)
  <2>1. PICK i \in 1..Len(log) : /\ Dispatches(log[i], c)
                                 /\ \A j \in i + 1..Len(log) : ~Declares(log[j], c)
    BY <1>2, <1>3 DEF Started
  <2>2. ASSUME NEW j \in i + 1..Len(next) PROVE ~Declares(next[j], c)
    <3>1. CASE j = Len(log) + 1
      BY <1>1, <1>3, <3>1
    <3>2. CASE j # Len(log) + 1
      <4>1. j \in i + 1..Len(log) /\ j \in 1..Len(log)
        BY <1>1, <1>2, <3>2
      <4> QED BY <1>1, <2>1, <4>1
    <3> QED BY <3>1, <3>2
  <2>3. i \in DOMAIN next /\ next[i] = log[i]
    BY <1>1, <1>2
  <2> QED BY <2>1, <2>2, <2>3 DEF Started
<1>4. ASSUME Dispatches(r, c) PROVE Started(next, c)
  <2>1. Len(log) + 1 \in DOMAIN next /\ \A j \in Len(log) + 1 + 1..Len(next) : FALSE
    BY <1>1, <1>2
  <2> QED BY <1>1, <1>4, <2>1 DEF Started
<1>5. ASSUME EverDispatched(next, c) PROVE EverDispatched(log, c) \/ Dispatches(r, c)
  <2>1. PICK i \in 1..Len(next) : Dispatches(next[i], c)
    BY <1>5 DEF EverDispatched
  <2>2. CASE i = Len(log) + 1
    BY <1>1, <2>1, <2>2
  <2>3. CASE i # Len(log) + 1
    <3>1. i \in 1..Len(log)
      BY <1>1, <1>2, <2>3
    <3> QED BY <1>1, <2>1, <3>1 DEF EverDispatched
  <2> QED BY <2>2, <2>3
<1> QED BY <1>3, <1>4, <1>5 DEF next

\* A list that is written: what it leaves pending was pending, or is asked for
\* in it without an answer.  No call is recorded with it.
LEMMA PendingWritten ==
  ASSUME NEW log \in Seq(Record), NEW next \in Seq(Record), NEW msgs \in Seq(Message),
         NEW from \in 0..Len(msgs), Writes(log, next, msgs, from), Settled(msgs, {})
  PROVE  PendingCalls(next) \subseteq PendingCalls(log)
<1>0. /\ Len(log) \in Nat /\ Len(msgs) \in Nat /\ from \in Nat
      /\ Len(next) = Len(log) + (Len(msgs) - from)
      /\ DOMAIN log = 1..Len(log) /\ DOMAIN next = 1..Len(next)
  BY DEF Writes
<1> SUFFICES ASSUME NEW c \in PendingCalls(next) PROVE c \in PendingCalls(log)
  OBVIOUS
<1>1. PICK i \in 1..Len(next) :
        /\ Declares(next[i], c)
        /\ \A j \in i + 1..Len(next) : ~Answers(next[j], c) /\ next[j].type \notin Ends
  BY <1>0 DEF PendingCalls, Ends
<1>2. c \in Calls
  BY DEF PendingCalls
<1>3. CASE i \in 1..Len(log) /\ next[i] = log[i]
  <2>1. \A j \in i + 1..Len(log) : j \in i + 1..Len(next) /\ j \in 1..Len(log)
    BY <1>0, <1>3
  <2>2. \A j \in i + 1..Len(log) : next[j] = log[j]
    BY <2>1 DEF Writes
  <2> QED BY <1>0, <1>1, <1>2, <1>3, <2>1, <2>2 DEF PendingCalls, Ends
<1>4. ASSUME i > Len(log), NEW k \in from + 1..Len(msgs), k = from + (i - Len(log)),
             IsCopy(next[i], msgs, k)
      PROVE  FALSE
  <2>1. k \in 1..Len(msgs) /\ msgs[k] \in Message
    <3>1. k \in 1..Len(msgs)
      BY <1>0
    <3> QED BY <3>1, ElementOfSeq
  <2>2. Asks(msgs[k], c)
    BY <1>1, <1>4, <2>1, MessageTypeOf DEF Declares, IsCopy, Asks
  <2>3. PICK m \in k + 1..Len(msgs) : Replies(msgs[m], c)
    BY <1>2, <2>1, <2>2 DEF Settled, AnsweredAfter
  <2>4. PICK j \in i + 1..Len(next) : j = Len(log) + (m - from)
    <3>1. Len(log) + (m - from) \in i + 1..Len(next)
      BY <1>0, <1>4
    <3> QED BY <3>1
  <2>5. j \in 1..Len(next) /\ j > Len(log) /\ j \notin 1..Len(log) /\ from + (j - Len(log)) = m
    BY <1>0, <1>4, <2>4
  <2>6. IsCopy(next[j], msgs, m)
    BY <2>5, Written
  <2>7. m \in 1..Len(msgs) /\ msgs[m] \in Message
    <3>1. m \in 1..Len(msgs)
      BY <1>0, <2>1
    <3> QED BY <3>1, ElementOfSeq
  <2>8. Answers(next[j], c)
    BY <2>3, <2>6, <2>7, MessageTypeOf DEF Answers, IsCopy, Replies
  <2> QED BY <1>1, <2>8
<1> QED BY <1>3, <1>4, Written

LEMMA DispatchedWritten ==
  ASSUME NEW log \in Seq(Record), NEW next \in Seq(Record), NEW msgs \in Seq(Message),
         NEW from \in 0..Len(msgs), Writes(log, next, msgs, from),
         NEW c, EverDispatched(next, c)
  PROVE  EverDispatched(log, c)
<1>1. PICK i \in 1..Len(next) : Dispatches(next[i], c)
  BY DEF EverDispatched
<1>2. CASE i \in 1..Len(log) /\ next[i] = log[i]
  BY <1>1, <1>2 DEF EverDispatched
<1>3. ASSUME NEW k \in from + 1..Len(msgs), IsCopy(next[i], msgs, k) PROVE FALSE
  <2>1. msgs[k] \in Message
    <3>1. k \in 1..Len(msgs)
      OBVIOUS
    <3> QED BY <3>1, ElementOfSeq
  <2> QED BY <1>1, <1>3, <2>1, MessageTypeOf DEF Dispatches, IsCopy, MessageTypes
<1> QED BY <1>2, <1>3, Written

\* One more message behind a Surface that is up to date.
LEMMA UnloggedOne ==
  ASSUME NEW log \in Seq(Record), NEW m \in Message
  PROVE  \E r \in Record :
           /\ AppendUnlogged(log, Append(Surface(log), m)) = Append(log, r)
           /\ r.type = RecordType(m) /\ r.msg = m /\ r.surface = Append(Surface(log), m)
<1> DEFINE old == Surface(log)
           msgs == Append(old, m)
           p == Len(old)
           more == [i \in 1..(Len(msgs) - p) |-> MessageRecord("append", msgs, p + i)]
           r == MessageRecord("append", msgs, p + 1)
<1>1. old \in Seq(Message)
  BY SurfaceType
<1>2. /\ msgs \in Seq(Message) /\ Len(msgs) = p + 1 /\ p \in Nat
      /\ \A i \in 1..p : msgs[i] = old[i] /\ msgs[p + 1] = m
      /\ msgs[p + 1] = m
  BY <1>1, AppendParts
<1>3. IsPrefix(old, msgs)
  <2>1. p \in 0..Len(msgs)
    BY <1>2
  <2> HIDE DEF msgs
  <2>2. SubSeq(msgs, 1, p) \in Seq(Message) /\ Len(SubSeq(msgs, 1, p)) = p
        /\ \A i \in 1..p : SubSeq(msgs, 1, p)[i] = msgs[i]
    BY <1>2, <2>1, PrefixType
  <2>3. SubSeq(msgs, 1, p) = old
    <3>1. \A i \in 1..p : SubSeq(msgs, 1, p)[i] = old[i]
      BY <1>2, <2>2
    <3> QED BY <1>1, <2>2, <3>1, SeqEqual
  <2>4. SubSeq(old, 1, p) = old
    BY <1>1, SubSeqFull
  <2> QED BY <1>2, <2>3, <2>4 DEF IsPrefix
<1>4. AppendUnlogged(log, msgs) = log \o more
  BY <1>3 DEF AppendUnlogged
<1> HIDE DEF old, p
<1>5. r \in Record
  <2>1. p + 1 \in 1..Len(msgs)
    BY <1>2
  <2> HIDE DEF msgs
  <2> QED BY <1>2, <2>1, MessageRecordType
<1>6. more = <<r>>
  <2> HIDE DEF msgs
  <2>1. 1..(Len(msgs) - p) = 1..1
    BY <1>2
  <2>2. more = [i \in 1..1 |-> MessageRecord("append", msgs, p + i)]
    BY <2>1
  <2>3. \A i \in 1..1 : i = 1
    OBVIOUS
  <2>4. [i \in 1..1 |-> MessageRecord("append", msgs, p + i)] = [i \in 1..1 |-> r]
    BY <2>3
  <2>5. [i \in 1..1 |-> r] = <<r>>
    <3> HIDE DEF r
    <3> QED OBVIOUS
  <2> QED BY <2>2, <2>4, <2>5
<1>7. log \o <<r>> = Append(log, r)
  BY <1>5, AppendIsConcat
<1>8. r.type = RecordType(m) /\ r.msg = m /\ r.surface = SubSeq(msgs, 1, p + 1)
  <2> HIDE DEF msgs
  <2> QED BY <1>2 DEF MessageRecord
<1>9. SubSeq(msgs, 1, p + 1) = msgs
  <2> HIDE DEF msgs
  <2> QED BY <1>2, SubSeqFull
<1> HIDE DEF r, more
<1> QED BY <1>4, <1>5, <1>6, <1>7, <1>8, <1>9 DEF old

\* An end of a step or of a turn leaves nothing pending.
LEMMA PendingEnded ==
  ASSUME NEW log \in Seq(Record), NEW type \in Ends
  PROVE  PendingCalls(Mark(log, type)) = {}
<1>1. type \in MarkTypes /\ type # "assistant/message"
  BY DEF Ends, MarkTypes
<1> DEFINE r == [type |-> type, surface |-> Surface(log)]
<1>2. r \in Record /\ r.type = type
  BY <1>1, SilentMark DEF Silent
<1> HIDE DEF r
<1>3. Mark(log, type) = Append(log, r)
  BY DEF Mark, r
<1> SUFFICES ASSUME NEW c \in PendingCalls(Append(log, r)) PROVE FALSE
  BY <1>3
<1> QED BY <1>1, <1>2, PendingAppend DEF Declares

LEMMA PendingSilent ==
  ASSUME NEW log \in Seq(Record), NEW r, Silent(log, r)
  PROVE  PendingCalls(Append(log, r)) \subseteq PendingCalls(log)
BY PendingAppend DEF Silent, Declares, MessageTypes

LEMMA PendingMark ==
  ASSUME NEW log \in Seq(Record), NEW type \in MarkTypes
  PROVE  /\ PendingCalls(Mark(log, type)) \subseteq PendingCalls(log)
         /\ \A c : EverDispatched(Mark(log, type), c) => EverDispatched(log, c)
<1> DEFINE r == [type |-> type, surface |-> Surface(log)]
<1>1. Silent(log, r) /\ r \in Record /\ r.type # "tool/call"
  BY SilentMark DEF Silent, MarkTypes
<1> HIDE DEF r
<1>2. Mark(log, type) = Append(log, r)
  BY DEF Mark, r
<1> QED BY <1>1, <1>2, PendingSilent, StartedAppend DEF Dispatches

LEMMA PendingUnlogged ==
  ASSUME NEW log \in Seq(Record), NEW msgs \in Seq(Message)
  PROVE  /\ Settled(msgs, {}) => PendingCalls(AppendUnlogged(log, msgs)) \subseteq PendingCalls(log)
         /\ \A c : EverDispatched(AppendUnlogged(log, msgs), c) => EverDispatched(log, c)
<1>1. PICK from \in 0..Len(msgs) : Writes(log, AppendUnlogged(log, msgs), msgs, from)
  BY AppendUnloggedWrites
<1>2. AppendUnlogged(log, msgs) \in Seq(Record)
  BY AppendUnloggedContinues DEF Continues
<1> QED BY <1>1, <1>2, PendingWritten, DispatchedWritten

LEMMA PendingReplace ==
  ASSUME NEW log \in Seq(Record), NEW msgs \in Seq(Message)
  PROVE  /\ Settled(msgs, {}) => PendingCalls(ReplaceSurface(log, msgs)) \subseteq PendingCalls(log)
         /\ \A c : EverDispatched(ReplaceSurface(log, msgs), c) => EverDispatched(log, c)
<1>1. Writes(log, ReplaceSurface(log, msgs), msgs, 0) /\ 0 \in 0..Len(msgs)
  BY ReplaceWrites
<1>2. ReplaceSurface(log, msgs) \in Seq(Record)
  BY ReplaceSurfaceContinues DEF Continues
<1> QED BY <1>1, <1>2, PendingWritten, DispatchedWritten

LEMMA DispatchedPrefix ==
  ASSUME NEW log \in Seq(Record), NEW n \in 0..Len(log), NEW c,
         EverDispatched(SubSeq(log, 1, n), c)
  PROVE  EverDispatched(log, c)
<1>1. Len(SubSeq(log, 1, n)) = n /\ \A i \in 1..n : SubSeq(log, 1, n)[i] = log[i]
  BY PrefixType
<1>2. \A i \in 1..n : i \in 1..Len(log)
  OBVIOUS
<1> QED BY <1>1, <1>2 DEF EverDispatched

\* The repair leaves no call pending in a turn that it closes, and dispatches
\* none.
LEMMA PendingResume ==
  ASSUME NEW log \in Seq(Record), NEW order \in Seq(Calls)
  PROVE  /\ PendingCalls(PreparedResume(log, order)) \subseteq PendingCalls(log)
         /\ OpenTurn(log) => PendingCalls(PreparedResume(log, order)) = {}
         /\ \A c : EverDispatched(PreparedResume(log, order), c) => EverDispatched(log, c)
<1> DEFINE msgs == Surface(log) \o [i \in 1..Len(order) |-> Closer(log, order[i])]
           closed == AppendUnlogged(log, msgs)
           step == IF OpenStep(log) THEN Mark(closed, "step/end") ELSE closed
           repaired == IF OpenTurn(log) THEN Mark(step, "turn/end") ELSE log
<1>1. msgs \in Seq(Message)
  BY ClosersType
<1> HIDE DEF msgs
<1>2. closed \in Seq(Record) /\ \A c : EverDispatched(closed, c) => EverDispatched(log, c)
  BY <1>1, AppendUnloggedContinues, PendingUnlogged DEF Continues
<1> HIDE DEF closed
<1>3. step \in Seq(Record) /\ \A c : EverDispatched(step, c) => EverDispatched(log, c)
  BY <1>2, MarkContinues, PendingMark DEF Continues, MarkTypes
<1> HIDE DEF step
<1>4. /\ repaired \in Seq(Record) /\ \A c : EverDispatched(repaired, c) => EverDispatched(log, c)
      /\ OpenTurn(log) => PendingCalls(repaired) = {}
      /\ ~OpenTurn(log) => repaired = log
  BY <1>3, MarkContinues, PendingMark, PendingEnded DEF Continues, MarkTypes, Ends
<1>5. PreparedResume(log, order) = Mark(repaired, "session/end-seed")
  BY DEF PreparedResume, Repaired, step, closed, msgs
<1> HIDE DEF repaired
<1> QED BY <1>4, <1>5, PendingMark DEF MarkTypes

\* The call c is asked for by the last message that is not a result, and none
\* of the results answers it.
Awaits(msgs, c) ==
  \E a \in 1..Len(msgs) :
    /\ Asks(msgs[a], c)
    /\ \A j \in a + 1..Len(msgs) : msgs[j].role = "tool" /\ msgs[j].call # c

LEMMA AwaitsAsked ==
  ASSUME NEW msgs \in Seq(Message), NEW S \in SUBSET Calls, NEW c \in S
  PROVE  Awaits(Append(msgs, AssistantMsg(S)), c)
<1> DEFINE m == AssistantMsg(S)
           next == Append(msgs, m)
<1>1. m \in Message /\ Asks(m, c)
  BY DEF AssistantMsg, Message, Asks
<1> HIDE DEF m
<1>2. /\ Len(next) = Len(msgs) + 1 /\ Len(msgs) \in Nat /\ next[Len(msgs) + 1] = m
  BY <1>1, AppendParts
<1> HIDE DEF next
<1>3. Len(msgs) + 1 \in 1..Len(next) /\ \A j \in Len(msgs) + 1 + 1..Len(next) : FALSE
  BY <1>2
<1>4. Awaits(next, c)
  BY <1>1, <1>2, <1>3 DEF Awaits
<1> QED BY <1>4 DEF next, m

LEMMA AwaitsReply ==
  ASSUME NEW msgs \in Seq(Message), NEW d \in Calls, NEW r \in Results,
         NEW c, Awaits(msgs, c), c # d
  PROVE  Awaits(Append(msgs, ToolMsg(d, r)), c)
<1> DEFINE m == ToolMsg(d, r)
           next == Append(msgs, m)
<1>1. m \in Message /\ m.role = "tool" /\ m.call # c
  BY DEF ToolMsg, Message
<1> HIDE DEF m
<1>2. /\ Len(next) = Len(msgs) + 1 /\ Len(msgs) \in Nat /\ next[Len(msgs) + 1] = m
      /\ \A i \in 1..Len(msgs) : next[i] = msgs[i]
  BY <1>1, AppendParts
<1> HIDE DEF next
<1>3. PICK a \in 1..Len(msgs) :
        /\ Asks(msgs[a], c)
        /\ \A j \in a + 1..Len(msgs) : msgs[j].role = "tool" /\ msgs[j].call # c
  BY DEF Awaits
<1>4. ASSUME NEW j \in a + 1..Len(next) PROVE next[j].role = "tool" /\ next[j].call # c
  <2>1. CASE j = Len(msgs) + 1
    BY <1>1, <1>2, <2>1
  <2>2. CASE j # Len(msgs) + 1
    <3>1. j \in a + 1..Len(msgs) /\ j \in 1..Len(msgs)
      BY <1>2, <2>2
    <3> QED BY <1>2, <1>3, <3>1
  <2> QED BY <2>1, <2>2
<1>5. a \in 1..Len(next) /\ Asks(next[a], c)
  BY <1>2, <1>3
<1>6. Awaits(next, c)
  BY <1>4, <1>5 DEF Awaits
<1> QED BY <1>6 DEF next, m

-----------------------------------------------------------------------------
(* Lists in which every result stands behind its call.                     *)

\* A result follows the message that asks for it, with only results between.
Grouped(msgs) ==
  \A t \in 1..Len(msgs) : msgs[t].role = "tool" =>
    \E a \in 1..t - 1 : /\ Asks(msgs[a], msgs[t].call)
                        /\ \A j \in a + 1..t : msgs[j].role = "tool"

AnsweredOnce(msgs) ==
  \A j, k \in 1..Len(msgs), c \in Calls :
    Replies(msgs[j], c) /\ Replies(msgs[k], c) => j = k

AskedOnce(msgs) ==
  \A j, k \in 1..Len(msgs), c \in Calls :
    Asks(msgs[j], c) /\ Asks(msgs[k], c) => j = k

Orderly(msgs) == Grouped(msgs) /\ AnsweredOnce(msgs) /\ AskedOnce(msgs)

LEMMA OrderlyPrefix ==
  ASSUME NEW msgs \in Seq(Message), Orderly(msgs), NEW n \in 0..Len(msgs)
  PROVE  Orderly(SubSeq(msgs, 1, n))
<1> DEFINE cut == SubSeq(msgs, 1, n)
<1>1. Len(cut) = n /\ \A i \in 1..n : cut[i] = msgs[i]
  BY PrefixType
<1>2. \A i \in 1..n : i \in 1..Len(msgs) /\ i \in Nat
  OBVIOUS
<1> HIDE DEF cut
<1>3. Grouped(cut)
  <2> SUFFICES ASSUME NEW t \in 1..n, cut[t].role = "tool"
               PROVE  \E a \in 1..t - 1 : /\ Asks(cut[a], cut[t].call)
                                          /\ \A j \in a + 1..t : cut[j].role = "tool"
    BY <1>1 DEF Grouped
  <2>1. PICK a \in 1..t - 1 : /\ Asks(msgs[a], msgs[t].call)
                              /\ \A j \in a + 1..t : msgs[j].role = "tool"
    BY <1>1, <1>2 DEF Orderly, Grouped
  <2>2. a \in 1..n /\ \A j \in a + 1..t : j \in 1..n
    BY <1>2
  <2> QED BY <1>1, <2>1, <2>2
<1>4. AnsweredOnce(cut) /\ AskedOnce(cut)
  BY <1>1, <1>2 DEF Orderly, AnsweredOnce, AskedOnce
<1> QED BY <1>3, <1>4 DEF Orderly, cut

\* One more message: of the user, a response with new calls, an awaited result.
LEMMA OrderlyAppend ==
  ASSUME NEW msgs \in Seq(Message), Orderly(msgs), NEW m \in Message,
         \/ m.role = "user"
         \/ m.role = "assistant" /\ \A i \in 1..Len(msgs), c \in Calls :
                                       ~(Asks(msgs[i], c) /\ Asks(m, c))
         \/ m.role = "tool" /\ Awaits(msgs, m.call)
  PROVE  Orderly(Append(msgs, m))
<1> DEFINE next == Append(msgs, m)
           N == Len(msgs)
<1>1. /\ Len(next) = N + 1 /\ next[N + 1] = m /\ N \in Nat
      /\ \A i \in 1..N : next[i] = msgs[i]
  BY AppendParts
<1>2. \A i \in 1..Len(next) : i = N + 1 \/ i \in 1..N
  BY <1>1
<1>3. m.role = "tool" => m.call \in Calls
  BY MessageTypeOf
<1>4. m.role \in {"user", "assistant", "tool"}
  BY DEF Message
<1> HIDE DEF next, N
<1>5. ASSUME m.role = "tool"
      PROVE  \E a \in 1..N : /\ Asks(msgs[a], m.call)
                             /\ \A j \in a + 1..N : msgs[j].role = "tool" /\ msgs[j].call # m.call
  BY <1>5 DEF Awaits, N
<1>6. Grouped(next)
  <2> SUFFICES ASSUME NEW t \in 1..Len(next), next[t].role = "tool"
               PROVE  \E a \in 1..t - 1 : /\ Asks(next[a], next[t].call)
                                          /\ \A j \in a + 1..t : next[j].role = "tool"
    BY DEF Grouped
  <2>1. CASE t \in 1..N
    <3>1. PICK a \in 1..t - 1 : /\ Asks(msgs[a], msgs[t].call)
                                /\ \A j \in a + 1..t : msgs[j].role = "tool"
      BY <1>1, <2>1 DEF Orderly, Grouped, N
    <3>2. a \in 1..N /\ \A j \in a + 1..t : j \in 1..N
      BY <1>1, <2>1
    <3> QED BY <1>1, <2>1, <3>1, <3>2
  <2>2. CASE t = N + 1
    <3>1. PICK a \in 1..N : /\ Asks(msgs[a], m.call)
                            /\ \A j \in a + 1..N : msgs[j].role = "tool"
      BY <1>1, <1>5, <2>2
    <3>2. a \in 1..t - 1 /\ \A j \in a + 1..t : j = N + 1 \/ (j \in a + 1..N /\ j \in 1..N)
      BY <1>1, <2>2
    <3> QED BY <1>1, <2>2, <3>1, <3>2
  <2> QED BY <1>2, <2>1, <2>2
<1>7. ASSUME m.role = "tool", NEW t \in 1..N PROVE ~Replies(msgs[t], m.call)
  <2> SUFFICES ASSUME Replies(msgs[t], m.call) PROVE FALSE
    OBVIOUS
  <2>1. PICK a \in 1..N : /\ Asks(msgs[a], m.call)
                          /\ \A j \in a + 1..N : msgs[j].role = "tool" /\ msgs[j].call # m.call
    BY <1>5, <1>7
  <2>2. PICK b \in 1..t - 1 : Asks(msgs[b], m.call)
    BY DEF Orderly, Grouped, Replies, N
  <2>3. b \in 1..N
    BY <1>1
  <2>4. a = b
    BY <1>3, <1>7, <2>1, <2>2, <2>3 DEF Orderly, AskedOnce, N
  <2>5. t \in a + 1..N
    BY <1>1, <2>4
  <2> QED BY <2>1, <2>5 DEF Replies
<1>8. AnsweredOnce(next)
  <2> SUFFICES ASSUME NEW j \in 1..Len(next), NEW k \in 1..Len(next), NEW c \in Calls,
                      Replies(next[j], c), Replies(next[k], c)
               PROVE  j = k
    BY DEF AnsweredOnce
  <2>1. CASE j \in 1..N /\ k \in 1..N
    BY <1>1, <2>1 DEF Orderly, AnsweredOnce, N
  <2>2. CASE j = N + 1 /\ k \in 1..N
    BY <1>1, <1>7, <2>2 DEF Replies
  <2>3. CASE k = N + 1 /\ j \in 1..N
    BY <1>1, <1>7, <2>3 DEF Replies
  <2> QED BY <1>2, <2>1, <2>2, <2>3
<1>9. AskedOnce(next)
  <2> SUFFICES ASSUME NEW j \in 1..Len(next), NEW k \in 1..Len(next), NEW c \in Calls,
                      Asks(next[j], c), Asks(next[k], c)
               PROVE  j = k
    BY DEF AskedOnce
  <2>1. CASE j \in 1..N /\ k \in 1..N
    BY <1>1, <2>1 DEF Orderly, AskedOnce, N
  <2>2. CASE j = N + 1 /\ k \in 1..N
    BY <1>1, <1>4, <2>2 DEF Asks, N
  <2>3. CASE k = N + 1 /\ j \in 1..N
    BY <1>1, <1>4, <2>3 DEF Asks, N
  <2> QED BY <1>2, <2>1, <2>2, <2>3
<1> QED BY <1>6, <1>8, <1>9 DEF Orderly, next

LEMMA OrderlyCompacted ==
  ASSUME NEW msgs \in Seq(Message), Orderly(msgs), NEW k \in 1..Len(msgs), ~IsTool(msgs, k)
  PROVE  Orderly(<<SummaryMsg>> \o SubSeq(msgs, k, Len(msgs)))
<1> DEFINE kept == <<SummaryMsg>> \o SubSeq(msgs, k, Len(msgs))
           was(i) == i + k - 2
<1>0. Len(msgs) \in Nat /\ k \in Nat /\ k >= 1 /\ k <= Len(msgs)
  OBVIOUS
<1>1. /\ kept \in Seq(Message) /\ Len(kept) = Len(msgs) - k + 2 /\ kept[1] = SummaryMsg
      /\ \A i \in 2..Len(kept) : kept[i] = msgs[was(i)]
  BY CompactedParts
<1>2. SummaryMsg.role = "user"
  BY DEF SummaryMsg, UserMsg
<1>3. msgs[k].role # "tool"
  BY DEF IsTool
<1> HIDE DEF kept
<1>4. ASSUME NEW i \in 1..Len(kept), kept[i].role # "user"
      PROVE  i \in 2..Len(kept) /\ was(i) \in k..Len(msgs) /\ kept[i] = msgs[was(i)]
  <2>1. i # 1
    BY <1>1, <1>2, <1>4
  <2>2. i \in 2..Len(kept)
    BY <1>0, <1>1, <2>1
  <2> QED BY <1>0, <1>1, <2>2
<1>5. \A i \in k..Len(msgs) : i \in 1..Len(msgs)
  BY <1>0
<1>6. Grouped(kept)
  <2> SUFFICES ASSUME NEW t \in 1..Len(kept), kept[t].role = "tool"
               PROVE  \E a \in 1..t - 1 : /\ Asks(kept[a], kept[t].call)
                                          /\ \A j \in a + 1..t : kept[j].role = "tool"
    BY DEF Grouped
  <2>1. t \in 2..Len(kept) /\ was(t) \in k..Len(msgs) /\ kept[t] = msgs[was(t)]
    BY <1>4
  <2> DEFINE u == was(t)
  <2>2. u \in 1..Len(msgs) /\ msgs[u].role = "tool"
    BY <1>5, <2>1
  <2> HIDE DEF u
  <2>3. PICK b \in 1..u - 1 : /\ Asks(msgs[b], msgs[u].call)
                              /\ \A j \in b + 1..u : msgs[j].role = "tool"
    BY <2>2 DEF Orderly, Grouped
  <2>4. b >= k
    <3>1. ~(k \in b + 1..u)
      BY <1>3, <2>3
    <3> QED BY <1>0, <2>1, <2>2, <3>1 DEF u
  <2>5. PICK a \in 1..t - 1 : a = b - k + 2
    <3>1. b - k + 2 \in 1..t - 1
      BY <1>0, <2>1, <2>4 DEF u
    <3> QED BY <3>1
  <2>6. a \in 2..Len(kept) /\ was(a) = b
    BY <1>0, <2>1, <2>4, <2>5
  <2>7. Asks(kept[a], kept[t].call)
    BY <1>1, <2>1, <2>3, <2>6 DEF u
  <2>8. ASSUME NEW j \in a + 1..t PROVE kept[j].role = "tool"
    <3>1. j \in 2..Len(kept) /\ was(j) \in b + 1..u
      BY <1>0, <2>1, <2>5, <2>6 DEF u
    <3> QED BY <1>1, <2>3, <3>1
  <2> QED BY <2>7, <2>8
<1>7. \A i, j \in 1..Len(kept) : was(i) = was(j) => i = j
  BY <1>0, <1>1
<1>8. AnsweredOnce(kept)
  <2> SUFFICES ASSUME NEW i \in 1..Len(kept), NEW j \in 1..Len(kept), NEW c \in Calls,
                      Replies(kept[i], c), Replies(kept[j], c)
               PROVE  i = j
    BY DEF AnsweredOnce
  <2>1. /\ was(i) \in 1..Len(msgs) /\ kept[i] = msgs[was(i)]
        /\ was(j) \in 1..Len(msgs) /\ kept[j] = msgs[was(j)]
    BY <1>4, <1>5 DEF Replies
  <2> HIDE DEF was
  <2>2. was(i) = was(j)
    BY <2>1 DEF Orderly, AnsweredOnce
  <2> QED BY <1>7, <2>2
<1>9. AskedOnce(kept)
  <2> SUFFICES ASSUME NEW i \in 1..Len(kept), NEW j \in 1..Len(kept), NEW c \in Calls,
                      Asks(kept[i], c), Asks(kept[j], c)
               PROVE  i = j
    BY DEF AskedOnce
  <2>1. /\ was(i) \in 1..Len(msgs) /\ kept[i] = msgs[was(i)]
        /\ was(j) \in 1..Len(msgs) /\ kept[j] = msgs[was(j)]
    BY <1>4, <1>5 DEF Asks
  <2> HIDE DEF was
  <2>2. was(i) = was(j)
    BY <2>1 DEF Orderly, AskedOnce
  <2> QED BY <1>7, <2>2
<1> QED BY <1>6, <1>8, <1>9 DEF Orderly, kept

\* Results put behind the last result of a group, for calls that the message
\* before the group asks for and that have none: what Heal and the repair do.
LEMMA OrderlyInsert ==
  ASSUME NEW msgs \in Seq(Message), Orderly(msgs), NEW e \in 0..Len(msgs), ~IsTool(msgs, e + 1),
         NEW order \in Seq(Calls),
         \A j, k \in 1..Len(order) : order[j] = order[k] => j = k,
         \A k \in 1..Len(order) : \E a \in 1..e :
           /\ Asks(msgs[a], order[k])
           /\ \A j \in a + 1..e : msgs[j].role = "tool" /\ msgs[j].call # order[k],
         NEW next \in Seq(Message), Len(next) = Len(msgs) + Len(order),
         \A p \in 1..e : next[p] = msgs[p],
         \A k \in 1..Len(order) : next[e + k].role = "tool" /\ next[e + k].call = order[k],
         \A p \in e + 1..Len(msgs) : next[p + Len(order)] = msgs[p]
  PROVE  Orderly(next)
<1> DEFINE n == Len(order)
           N == Len(msgs)
           came(p, q) == (p = q /\ q <= e) \/ (p = q + n /\ q > e)
<1>0. n \in Nat /\ N \in Nat /\ e \in Nat /\ e <= N /\ Len(next) = N + n
  BY LenProperties
<1>1. e + 1 \in 1..N => msgs[e + 1].role # "tool"
  BY DEF IsTool
<1>2. ASSUME NEW k \in 1..n
      PROVE  /\ order[k] \in Calls
             /\ \E a \in 1..e :
                  /\ Asks(msgs[a], order[k])
                  /\ \A j \in a + 1..e : msgs[j].role = "tool" /\ msgs[j].call # order[k]
  BY <1>2, ElementOfSeq
<1>3. \A p \in 1..Len(next) : \/ \E q \in 1..N : came(p, q)
                              \/ \E k \in 1..n : p = e + k
  <2> TAKE p \in 1..Len(next)
  <2>1. CASE p <= e
    BY <1>0, <2>1
  <2>2. CASE p > e /\ p <= e + n
    <3>1. p - e \in 1..n /\ p = e + (p - e)
      BY <1>0, <2>2
    <3> QED BY <3>1
  <2>3. CASE p > e + n
    <3>1. p - n \in 1..N /\ came(p, p - n)
      BY <1>0, <2>3
    <3> QED BY <3>1
  <2> QED BY <1>0, <2>1, <2>2, <2>3
<1>4. ASSUME NEW p \in 1..Len(next), NEW q \in 1..N, came(p, q) PROVE next[p] = msgs[q]
  <2>1. q \in 1..e \/ q \in e + 1..N
    BY <1>0
  <2> QED BY <1>0, <1>4, <2>1
<1>5. \A k \in 1..n : next[e + k].role = "tool" /\ next[e + k].call = order[k]
  OBVIOUS
<1>6. \A j, k \in 1..n : order[j] = order[k] => j = k
  OBVIOUS
<1> HIDE DEF n, N
<1>7. ASSUME NEW k \in 1..n, NEW t \in 1..N PROVE ~Replies(msgs[t], order[k])
  <2> SUFFICES ASSUME Replies(msgs[t], order[k]) PROVE FALSE
    OBVIOUS
  <2>1. PICK a \in 1..e : /\ Asks(msgs[a], order[k])
                          /\ \A j \in a + 1..e : msgs[j].role = "tool" /\ msgs[j].call # order[k]
    BY <1>2
  <2>2. PICK b \in 1..t - 1 : /\ Asks(msgs[b], order[k])
                              /\ \A j \in b + 1..t : msgs[j].role = "tool"
    BY DEF Orderly, Grouped, Replies, N
  <2>3. a \in 1..N /\ b \in 1..N
    BY <1>0
  <2>4. a = b
    BY <1>2, <2>1, <2>2, <2>3 DEF Orderly, AskedOnce, N
  <2>5. t \in a + 1..e \/ (e + 1 \in b + 1..t /\ e + 1 \in 1..N)
    BY <1>0, <2>4
  <2> QED BY <1>1, <2>1, <2>2, <2>5 DEF Replies
<1>8. Grouped(next)
  <2> SUFFICES ASSUME NEW t \in 1..Len(next), next[t].role = "tool"
               PROVE  \E a \in 1..t - 1 : /\ Asks(next[a], next[t].call)
                                          /\ \A j \in a + 1..t : next[j].role = "tool"
    BY DEF Grouped
  <2>1. ASSUME NEW q \in 1..N, came(t, q)
        PROVE  \E a \in 1..t - 1 : /\ Asks(next[a], next[t].call)
                                   /\ \A j \in a + 1..t : next[j].role = "tool"
    <3>1. next[t] = msgs[q]
      BY <1>4, <2>1
    <3>2. PICK b \in 1..q - 1 : /\ Asks(msgs[b], next[t].call)
                                /\ \A j \in b + 1..q : msgs[j].role = "tool"
      BY <3>1 DEF Orderly, Grouped, N
    <3>3. CASE q <= e
      <4>1. t = q /\ b \in 1..t - 1 /\ b \in 1..e /\ \A j \in b + 1..t : j \in 1..e
        BY <1>0, <2>1, <3>3
      <4>2. Asks(next[b], next[t].call)
        BY <3>2, <4>1
      <4>3. \A j \in b + 1..t : next[j].role = "tool"
        BY <3>2, <4>1
      <4> QED BY <4>1, <4>2, <4>3
    <3>4. CASE q > e
      <4>1. t = q + n
        BY <1>0, <2>1, <3>4
      <4>2. b > e
        <5> SUFFICES ASSUME b <= e PROVE FALSE
          BY <1>0
        <5>1. e + 1 \in b + 1..q /\ e + 1 \in 1..N
          BY <1>0, <3>4
        <5> QED BY <1>1, <3>2, <5>1
      <4>3. PICK a \in 1..t - 1 : a = b + n
        <5>1. b + n \in 1..t - 1
          BY <1>0, <4>1
        <5> QED BY <5>1
      <4>4. a \in 1..Len(next) /\ came(a, b) /\ b \in 1..N
        BY <1>0, <4>2, <4>3
      <4>5. Asks(next[a], next[t].call)
        BY <1>4, <3>2, <4>4
      <4>6. ASSUME NEW j \in a + 1..t PROVE next[j].role = "tool"
        <5>1. PICK i \in b + 1..q : i = j - n
          <6>1. j - n \in b + 1..q
            BY <1>0, <4>1, <4>3
          <6> QED BY <6>1
        <5>2. j \in 1..Len(next) /\ i \in 1..N /\ came(j, i)
          BY <1>0, <4>2, <4>3, <5>1
        <5> QED BY <1>4, <3>2, <5>2
      <4> QED BY <4>5, <4>6
    <3> QED BY <1>0, <3>3, <3>4
  <2>2. ASSUME NEW k \in 1..n, t = e + k
        PROVE  \E a \in 1..t - 1 : /\ Asks(next[a], next[t].call)
                                   /\ \A j \in a + 1..t : next[j].role = "tool"
    <3>1. PICK a \in 1..e : /\ Asks(msgs[a], order[k])
                            /\ \A j \in a + 1..e : msgs[j].role = "tool"
      BY <1>2
    <3>2. a \in 1..t - 1 /\ Asks(next[a], next[t].call)
      BY <1>0, <1>5, <2>2, <3>1
    <3>3. ASSUME NEW j \in a + 1..t PROVE next[j].role = "tool"
      <4>1. CASE j <= e
        <5>1. j \in a + 1..e /\ j \in 1..e
          BY <1>0, <4>1
        <5> QED BY <3>1, <5>1
      <4>2. CASE j > e
        <5>1. j - e \in 1..n /\ e + (j - e) = j
          BY <1>0, <2>2, <4>2
        <5> QED BY <1>5, <5>1
      <4> QED BY <1>0, <4>1, <4>2
    <3> QED BY <3>2, <3>3
  <2> QED BY <1>3, <2>1, <2>2
<1>9. AnsweredOnce(next)
  <2> SUFFICES ASSUME NEW s \in 1..Len(next), NEW t \in 1..Len(next), NEW c \in Calls,
                      Replies(next[s], c), Replies(next[t], c)
               PROVE  s = t
    BY DEF AnsweredOnce
  <2>1. ASSUME NEW q \in 1..N, came(s, q), NEW r \in 1..N, came(t, r) PROVE s = t
    <3>1. q = r
      BY <1>4, <2>1 DEF Orderly, AnsweredOnce, N
    <3> QED BY <1>0, <2>1, <3>1
  <2>2. ASSUME NEW q \in 1..N, came(s, q), NEW k \in 1..n, t = e + k PROVE FALSE
    <3>1. Replies(msgs[q], c)
      BY <1>4, <2>2
    <3>2. order[k] = c
      BY <1>5, <2>2 DEF Replies
    <3> QED BY <1>7, <3>1, <3>2
  <2>3. ASSUME NEW q \in 1..N, came(t, q), NEW k \in 1..n, s = e + k PROVE FALSE
    <3>1. Replies(msgs[q], c)
      BY <1>4, <2>3
    <3>2. order[k] = c
      BY <1>5, <2>3 DEF Replies
    <3> QED BY <1>7, <3>1, <3>2
  <2>4. ASSUME NEW j \in 1..n, s = e + j, NEW k \in 1..n, t = e + k PROVE s = t
    <3>1. order[j] = c
      BY <1>5, <2>4 DEF Replies
    <3>2. order[k] = c
      BY <1>5, <2>4 DEF Replies
    <3> QED BY <1>6, <2>4, <3>1, <3>2
  <2> QED BY <1>3, <2>1, <2>2, <2>3, <2>4
<1>10. AskedOnce(next)
  <2> SUFFICES ASSUME NEW s \in 1..Len(next), NEW t \in 1..Len(next), NEW c \in Calls,
                      Asks(next[s], c), Asks(next[t], c)
               PROVE  s = t
    BY DEF AskedOnce
  <2>1. PICK q \in 1..N : came(s, q)
    BY <1>3, <1>5 DEF Asks
  <2>2. PICK r \in 1..N : came(t, r)
    BY <1>3, <1>5 DEF Asks
  <2>3. Asks(msgs[q], c) /\ Asks(msgs[r], c)
    BY <1>4, <2>1, <2>2
  <2>4. q = r
    BY <2>3 DEF Orderly, AskedOnce, N
  <2> QED BY <1>0, <2>1, <2>2, <2>4
<1> QED BY <1>8, <1>9, <1>10 DEF Orderly

\* In an orderly list whose calls are all answered every group is complete.
LEMMA PairedWhenSettled ==
  ASSUME NEW msgs \in Seq(Message), Orderly(msgs), Settled(msgs, {})
  PROVE  Paired(msgs)
<1> DEFINE N == Len(msgs)
<1>0. N \in Nat /\ DOMAIN msgs = 1..N
  BY LenProperties
<1>1. \A i \in 1..N : msgs[i] \in Message /\ msgs[i].role \in {"user", "assistant", "tool"}
  <2> TAKE i \in 1..N
  <2>1. msgs[i] \in Message
    BY ElementOfSeq
  <2> QED BY <2>1 DEF Message
<1> HIDE DEF N
<1>2. ASSUME NEW i \in 1..N, msgs[i].role = "tool"
      PROVE  \E a \in 1..i - 1 :
               /\ msgs[a].role = "assistant" /\ msgs[i].call \in msgs[a].calls
               /\ \A j \in a + 1..i : msgs[j].role = "tool"
  BY <1>2 DEF Orderly, Grouped, Asks, N
<1>3. ASSUME NEW i \in 1..N, msgs[i].role = "assistant", NEW e \in 1..N, IsGroupEnd(msgs, i, e)
      PROVE  /\ AnsweredIn(msgs, i, e) = msgs[i].calls
             /\ e - i = Cardinality(msgs[i].calls)
  <2>1. /\ i <= e /\ \A j \in i + 1..e : j \in 1..N /\ msgs[j].role = "tool" /\ msgs[j].call \in Calls
        /\ e + 1 \in 1..N => msgs[e + 1].role # "tool"
    <3>1. i <= e /\ \A j \in i + 1..e : j \in 1..N /\ msgs[j].role = "tool"
      BY <1>0, <1>3 DEF IsGroupEnd, IsTool
    <3>2. e + 1 \in 1..N => msgs[e + 1].role # "tool"
      BY <1>0, <1>3 DEF IsGroupEnd, IsTool
    <3>3. \A j \in i + 1..e : msgs[j].call \in Calls
      BY <1>1, <3>1, MessageTypeOf
    <3> QED BY <3>1, <3>2, <3>3
  <2>2. msgs[i].calls \in SUBSET Calls
    BY <1>1, <1>3, MessageTypeOf
  <2>3. ASSUME NEW j \in i + 1..e PROVE msgs[j].call \in msgs[i].calls
    <3>1. PICK a \in 1..j - 1 : /\ msgs[a].role = "assistant" /\ msgs[j].call \in msgs[a].calls
                                /\ \A k \in a + 1..j : msgs[k].role = "tool"
      BY <1>2, <2>1
    <3>2. ~(a > i)
      <4> SUFFICES ASSUME a > i PROVE FALSE
        OBVIOUS
      <4>1. a \in i + 1..e
        BY <1>0
      <4> QED BY <2>1, <3>1, <4>1
    <3>3. ~(a < i)
      <4> SUFFICES ASSUME a < i PROVE FALSE
        OBVIOUS
      <4>1. i \in a + 1..j
        BY <1>0
      <4> QED BY <1>3, <3>1, <4>1
    <3>4. a = i
      BY <1>0, <3>2, <3>3
    <3> QED BY <3>1, <3>4
  <2>4. ASSUME NEW c \in msgs[i].calls PROVE \E j \in i + 1..e : msgs[j].call = c
    <3>1. c \in Calls /\ Asks(msgs[i], c)
      BY <1>3, <2>2 DEF Asks
    <3>2. PICK j \in i + 1..N : Replies(msgs[j], c)
      BY <3>1 DEF Settled, AnsweredAfter, N
    <3>3. PICK a \in 1..j - 1 : /\ msgs[a].role = "assistant" /\ c \in msgs[a].calls
                                /\ \A k \in a + 1..j : msgs[k].role = "tool"
      <4>1. j \in 1..N /\ msgs[j].role = "tool" /\ msgs[j].call = c
        BY <1>0, <3>2 DEF Replies
      <4> QED BY <1>2, <4>1
    <3>4. a = i
      <4>1. a \in 1..N /\ Asks(msgs[a], c)
        BY <1>0, <3>3 DEF Asks
      <4> QED BY <3>1, <4>1 DEF Orderly, AskedOnce, N
    <3>5. ~(j > e)
      <4> SUFFICES ASSUME j > e PROVE FALSE
        OBVIOUS
      <4>1. e + 1 \in a + 1..j /\ e + 1 \in 1..N
        BY <1>0, <2>1, <3>4
      <4> QED BY <2>1, <3>3, <4>1
    <3>6. j \in i + 1..e
      BY <1>0, <3>5
    <3> QED BY <3>2, <3>6 DEF Replies
  <2>5. ASSUME NEW j \in i + 1..e, NEW k \in i + 1..e, msgs[j].call = msgs[k].call PROVE j = k
    <3>1. /\ j \in 1..Len(msgs) /\ Replies(msgs[j], msgs[j].call)
          /\ k \in 1..Len(msgs) /\ Replies(msgs[k], msgs[j].call)
      BY <2>1, <2>5 DEF Replies, N
    <3> QED BY <2>1, <3>1 DEF Orderly, AnsweredOnce
  <2>6. AnsweredIn(msgs, i, e) = msgs[i].calls
    BY <2>3, <2>4 DEF AnsweredIn
  <2>7. e - i = Cardinality(msgs[i].calls)
    <3> DEFINE f == [j \in i + 1..e |-> msgs[j].call]
    <3>1. f \in Bijection(i + 1..e, msgs[i].calls)
      <4>1. f \in [i + 1..e -> msgs[i].calls]
        BY <2>3
      <4>2. \A j, k \in i + 1..e : f[j] = f[k] => j = k
        BY <2>5
      <4>3. \A c \in msgs[i].calls : \E j \in i + 1..e : f[j] = c
        BY <2>4
      <4> QED BY <4>1, <4>2, <4>3 DEF Bijection, Injection, Surjection, IsInjective
    <3>2. IsFiniteSet(i + 1..e) /\ Cardinality(i + 1..e) = e - i
      <4>1. i + 1 \in Int /\ e \in Int /\ i <= e
        BY <1>0, <2>1
      <4>2. IsFiniteSet(i + 1..e)
            /\ Cardinality(i + 1..e) = IF i + 1 > e THEN 0 ELSE e - (i + 1) + 1
        BY <4>1, FS_Interval
      <4> QED BY <1>0, <4>1, <4>2
    <3>3. Cardinality(msgs[i].calls) = Cardinality(i + 1..e)
      BY <3>1, <3>2, FS_Bijection DEF ExistsBijection
    <3> QED BY <3>2, <3>3
  <2> QED BY <2>6, <2>7
<1>4. ASSUME NEW i \in 1..N
      PROVE  \/ msgs[i].role = "user"
             \/ /\ msgs[i].role = "assistant"
                /\ \A e \in 1..N : IsGroupEnd(msgs, i, e) =>
                     /\ AnsweredIn(msgs, i, e) = msgs[i].calls
                     /\ e - i = Cardinality(msgs[i].calls)
             \/ /\ msgs[i].role = "tool"
                /\ \E a \in 1..i - 1 :
                     /\ msgs[a].role = "assistant" /\ msgs[i].call \in msgs[a].calls
                     /\ \A j \in a + 1..i : msgs[j].role = "tool"
  BY <1>1, <1>2, <1>3
<1> QED BY <1>0, <1>4 DEF Paired

-----------------------------------------------------------------------------
(* Lists and logs that hold only messages of a kind.                       *)

SoundLists(G) ==
  { s \in Seq(Message) : Orderly(s) /\ \A k \in 1..Len(s) : s[k] \in G }

\* Every Surface is one of Q, and a message record is about its last message.
Shows(r, Q) ==
  /\ r.surface \in Q
  /\ r.type \in MessageTypes =>
       /\ r.type = RecordType(r.msg)
       /\ \E k \in 1..Len(r.surface) : r.surface[k] = r.msg

ShowsOnly(log, Q) == \A i \in 1..Len(log) : Shows(log[i], Q)

LEMMA SoundEmpty ==
  ASSUME NEW G
  PROVE  <<>> \in SoundLists(G)
<1>1. <<>> \in Seq(Message) /\ 1..Len(<<>>) = {}
  OBVIOUS
<1> QED BY <1>1 DEF SoundLists, Orderly, Grouped, AnsweredOnce, AskedOnce

LEMMA SoundPrefix ==
  ASSUME NEW G, NEW s \in SoundLists(G), NEW n \in 0..Len(s)
  PROVE  SubSeq(s, 1, n) \in SoundLists(G)
<1>1. s \in Seq(Message) /\ Orderly(s) /\ \A k \in 1..Len(s) : s[k] \in G
  BY DEF SoundLists
<1>2. /\ SubSeq(s, 1, n) \in Seq(Message) /\ Len(SubSeq(s, 1, n)) = n
      /\ \A k \in 1..n : SubSeq(s, 1, n)[k] = s[k] /\ k \in 1..Len(s)
  BY <1>1, PrefixType
<1>3. Orderly(SubSeq(s, 1, n))
  BY <1>1, OrderlyPrefix
<1> QED BY <1>1, <1>2, <1>3 DEF SoundLists

LEMMA SoundAppend ==
  ASSUME NEW G, NEW s \in SoundLists(G), NEW m \in G, m \in Message, Orderly(Append(s, m))
  PROVE  Append(s, m) \in SoundLists(G)
<1>1. s \in Seq(Message) /\ \A k \in 1..Len(s) : s[k] \in G
  BY DEF SoundLists
<1>2. /\ Append(s, m) \in Seq(Message) /\ Len(Append(s, m)) = Len(s) + 1 /\ Len(s) \in Nat
      /\ \A i \in 1..Len(s) : Append(s, m)[i] = s[i]
      /\ Append(s, m)[Len(s) + 1] = m
  BY <1>1, AppendParts
<1>3. \A k \in 1..Len(Append(s, m)) : Append(s, m)[k] \in G
  <2> TAKE k \in 1..Len(Append(s, m))
  <2>1. k \in 1..Len(s) \/ k = Len(s) + 1
    BY <1>2
  <2> QED BY <1>1, <1>2, <2>1
<1> QED BY <1>2, <1>3 DEF SoundLists

LEMMA SoundMonotone ==
  ASSUME NEW G, NEW H, G \subseteq H
  PROVE  SoundLists(G) \subseteq SoundLists(H)
BY DEF SoundLists

LEMMA ShowsMonotone ==
  ASSUME NEW Q, NEW R, Q \subseteq R, NEW log, ShowsOnly(log, Q)
  PROVE  ShowsOnly(log, R)
BY DEF ShowsOnly, Shows

LEMMA ShownSurface ==
  ASSUME NEW log \in Seq(Record), NEW Q, <<>> \in Q, ShowsOnly(log, Q)
  PROVE  Surface(log) \in Q
<1>1. CASE log = <<>>
  BY <1>1 DEF Surface
<1>2. CASE log # <<>>
  <2>1. Len(log) \in 1..Len(log)
    BY <1>2, EmptySeq, LenProperties
  <2> QED BY <1>2, <2>1 DEF Surface, ShowsOnly, Shows
<1> QED BY <1>1, <1>2

LEMMA ShowsPrefix ==
  ASSUME NEW log \in Seq(Record), NEW Q, ShowsOnly(log, Q), NEW n \in 0..Len(log)
  PROVE  ShowsOnly(SubSeq(log, 1, n), Q)
<1>1. /\ Len(SubSeq(log, 1, n)) = n
      /\ \A i \in 1..n : SubSeq(log, 1, n)[i] = log[i] /\ i \in 1..Len(log)
  BY PrefixType
<1> QED BY <1>1 DEF ShowsOnly

LEMMA ShowsSilent ==
  ASSUME NEW log \in Seq(Record), NEW Q, <<>> \in Q, ShowsOnly(log, Q),
         NEW r, Silent(log, r)
  PROVE  ShowsOnly(Append(log, r), Q)
<1> DEFINE next == Append(log, r)
<1>1. /\ Len(next) = Len(log) + 1 /\ next[Len(log) + 1] = r /\ Len(log) \in Nat
      /\ \A i \in 1..Len(log) : next[i] = log[i]
  BY SurfaceOfSilent
<1>2. Shows(r, Q)
  BY ShownSurface DEF Silent, Shows
<1> HIDE DEF next
<1>3. \A i \in 1..Len(next) : Shows(next[i], Q)
  <2> TAKE i \in 1..Len(next)
  <2>1. i \in 1..Len(log) \/ i = Len(log) + 1
    BY <1>1
  <2> QED BY <1>1, <1>2, <2>1 DEF ShowsOnly
<1> QED BY <1>3 DEF ShowsOnly, next

LEMMA ShowsMark ==
  ASSUME NEW log \in Seq(Record), NEW Q, <<>> \in Q, ShowsOnly(log, Q), NEW type \in MarkTypes
  PROVE  ShowsOnly(Mark(log, type), Q)
BY SilentMark, ShowsSilent DEF Mark

\* A list that is written shows that list and its prefixes.
LEMMA ShowsWritten ==
  ASSUME NEW log \in Seq(Record), NEW G, ShowsOnly(log, SoundLists(G)),
         NEW msgs \in SoundLists(G), NEW from \in 0..Len(msgs), NEW next,
         Writes(log, next, msgs, from)
  PROVE  ShowsOnly(next, SoundLists(G))
<1>0. msgs \in Seq(Message)
  BY DEF SoundLists
<1> SUFFICES ASSUME NEW i \in 1..Len(next) PROVE Shows(next[i], SoundLists(G))
  BY DEF ShowsOnly
<1>1. CASE i \in 1..Len(log) /\ next[i] = log[i]
  BY <1>1 DEF ShowsOnly
<1>2. ASSUME NEW k \in from + 1..Len(msgs), IsCopy(next[i], msgs, k)
      PROVE  Shows(next[i], SoundLists(G))
  <2>1. k \in 0..Len(msgs) /\ k \in 1..k /\ from \in Nat
    BY <1>0, LenProperties
  <2>2. /\ SubSeq(msgs, 1, k) \in SoundLists(G) /\ Len(SubSeq(msgs, 1, k)) = k
        /\ SubSeq(msgs, 1, k)[k] = msgs[k]
    BY <1>0, <2>1, SoundPrefix, PrefixType
  <2> QED BY <1>2, <2>1, <2>2 DEF IsCopy, Shows
<1> QED BY <1>0, <1>1, <1>2, Written

LEMMA ShowsUnlogged ==
  ASSUME NEW log \in Seq(Record), NEW G, ShowsOnly(log, SoundLists(G)), NEW msgs \in SoundLists(G)
  PROVE  /\ ShowsOnly(AppendUnlogged(log, msgs), SoundLists(G))
         /\ ShowsOnly(ReplaceSurface(log, msgs), SoundLists(G))
<1>0. msgs \in Seq(Message) /\ 0 \in 0..Len(msgs)
  BY LenProperties DEF SoundLists
<1>1. PICK from \in 0..Len(msgs) : Writes(log, AppendUnlogged(log, msgs), msgs, from)
  BY <1>0, AppendUnloggedWrites
<1>2. ShowsOnly(AppendUnlogged(log, msgs), SoundLists(G))
  BY <1>1, ShowsWritten
<1>3. Writes(log, ReplaceSurface(log, msgs), msgs, 0)
  BY <1>0, ReplaceWrites
<1>4. ShowsOnly(ReplaceSurface(log, msgs), SoundLists(G))
  BY <1>0, <1>3, ShowsWritten
<1> QED BY <1>2, <1>4

-----------------------------------------------------------------------------
(* Logs that may be cut off where they end.                                *)

\* In a turn that the repair would close, a call that is pending is awaited on
\* the Surface, and if it has a record that record follows its declaration,
\* where the repair looks for it.
CutsWell(log) ==
  OpenTurn(log) =>
    \A c \in PendingCalls(log) :
      /\ Awaits(Surface(log), c)
      /\ EverDispatched(log, c) => Started(log, c)

LEMMA CutsSilent ==
  ASSUME NEW log \in Seq(Record), CutsWell(log), NEW r, Silent(log, r)
  PROVE  CutsWell(Append(log, r))
<1>1. r \in Record /\ Surface(Append(log, r)) = Surface(log) /\ \A c : ~Declares(r, c)
  BY SurfaceOfSilent DEF Silent, MessageTypes, Declares
<1> SUFFICES ASSUME OpenTurn(Append(log, r)), NEW c \in PendingCalls(Append(log, r))
             PROVE  /\ Awaits(Surface(log), c)
                    /\ EverDispatched(Append(log, r), c) => Started(Append(log, r), c)
  BY <1>1 DEF CutsWell
<1>2. c \in PendingCalls(log) /\ r.type \notin Ends
  BY <1>1, PendingAppend
<1>3. OpenTurn(log)
  BY <1>1, <1>2, OpenAppend DEF Ends
<1>4. Awaits(Surface(log), c) /\ (EverDispatched(log, c) => Started(log, c))
  BY <1>2, <1>3 DEF CutsWell
<1> QED BY <1>1, <1>4, StartedAppend

LEMMA CutsMark ==
  ASSUME NEW log \in Seq(Record), CutsWell(log), NEW type \in MarkTypes
  PROVE  CutsWell(Mark(log, type))
BY SilentMark, CutsSilent DEF Mark

LEMMA CutsResume ==
  ASSUME NEW log \in Seq(Record), CutsWell(log), NEW order \in Seq(Calls)
  PROVE  CutsWell(PreparedResume(log, order))
<1>1. CASE OpenTurn(log)
  BY <1>1, PendingResume DEF CutsWell
<1>2. CASE ~OpenTurn(log)
  <2>1. PreparedResume(log, order) = Mark(log, "session/end-seed")
    BY <1>2 DEF PreparedResume, Repaired
  <2> QED BY <2>1, CutsMark DEF MarkTypes
<1> QED BY <1>1, <1>2

\* The repair of an open turn in a log that was cut off well shows only sound
\* lists.
LEMMA ShowsRepair ==
  ASSUME NEW log \in Seq(Record), CutsWell(log), NEW G, ShowsOnly(log, SoundLists(G)),
         NEW order \in SetToSeqs(PendingCalls(log)), OpenTurn(log),
         \A c \in PendingCalls(log) : Closer(log, c) \in G
  PROVE  ShowsOnly(PreparedResume(log, order), SoundLists(G))
<1> DEFINE old == Surface(log)
           closers == [i \in 1..Len(order) |-> Closer(log, order[i])]
           msgs == old \o closers
           closed == AppendUnlogged(log, msgs)
           step == IF OpenStep(log) THEN Mark(closed, "step/end") ELSE closed
           repaired == IF OpenTurn(log) THEN Mark(step, "turn/end") ELSE log
<1>1. /\ order \in Seq(PendingCalls(log)) /\ order \in Seq(Calls)
      /\ \A j, k \in 1..Len(order) : order[j] = order[k] => j = k
  <2>1. PendingCalls(log) \in SUBSET Calls
    BY DEF PendingCalls
  <2>2. order \in Seq(PendingCalls(log)) /\ IsFiniteSet(PendingCalls(log))
    BY <2>1, SubsetIsFinite, OrderType
  <2>3. order \in Seq(Calls)
    BY <2>1, <2>2, SeqMonotonic
  <2>4. Cardinality(PendingCalls(log)) \in Nat
    BY <2>2, FS_CardinalityType
  <2>5. Len(order) = Cardinality(PendingCalls(log))
    BY <2>4 DEF SetToSeqs
  <2>6. \A j, k \in 1..Len(order) : order[j] = order[k] => j = k
    BY <2>5 DEF SetToSeqs
  <2> QED BY <2>2, <2>3, <2>6
<1>2. old \in SoundLists(G) /\ old \in Seq(Message)
  BY SoundEmpty, ShownSurface, SurfaceType
<1>3. \A k \in 1..Len(order) : /\ order[k] \in PendingCalls(log)
                               /\ closers[k] = Closer(log, order[k]) /\ closers[k] \in G
  BY <1>1, ElementOfSeq
<1>4. \A c \in Calls : Closer(log, c) \in Message /\ Closer(log, c).role = "tool"
                       /\ Closer(log, c).call = c
  BY DEF Closer, ToolMsg, Message, Results
<1>5. closers \in Seq(Message) /\ Len(closers) = Len(order) /\ Len(order) \in Nat
  BY <1>1, <1>4
<1> HIDE DEF closers, old
<1>6. /\ msgs \in Seq(Message) /\ Len(msgs) = Len(old) + Len(order) /\ Len(old) \in Nat
      /\ \A p \in 1..Len(old) : msgs[p] = old[p]
      /\ \A k \in 1..Len(order) : msgs[Len(old) + k] = closers[k]
  <2>1. msgs \in Seq(Message) /\ Len(msgs) = Len(old) + Len(closers) /\ Len(old) \in Nat
    BY <1>2, <1>5, ConcatProperties, LenProperties
  <2>2. \A p \in 1..Len(old) : msgs[p] = old[p]
    BY <1>2, <1>5
  <2>3. \A k \in 1..Len(closers) : msgs[Len(old) + k] = closers[k]
    BY <1>2, <1>5
  <2> QED BY <1>5, <2>1, <2>2, <2>3
<1> HIDE DEF msgs
<1>7. Orderly(msgs)
  <2>1. \A k \in 1..Len(order) : \E a \in 1..Len(old) :
          /\ Asks(old[a], order[k])
          /\ \A j \in a + 1..Len(old) : old[j].role = "tool" /\ old[j].call # order[k]
    BY <1>3 DEF CutsWell, Awaits, old
  <2>2. \A k \in 1..Len(order) : msgs[Len(old) + k].role = "tool"
                                 /\ msgs[Len(old) + k].call = order[k]
    BY <1>1, <1>3, <1>4, <1>6, ElementOfSeq
  <2>3. Len(old) \in 0..Len(old) /\ ~IsTool(old, Len(old) + 1) /\ Orderly(old)
    BY <1>2, <1>6 DEF IsTool, SoundLists
  <2>4. \A p \in Len(old) + 1..Len(old) : FALSE
    BY <1>6
  <2> QED BY <1>1, <1>2, <1>6, <2>1, <2>2, <2>3, <2>4, OrderlyInsert
<1>8. msgs \in SoundLists(G)
  <2>1. \A k \in 1..Len(msgs) : msgs[k] \in G
    <3> TAKE k \in 1..Len(msgs)
    <3>1. CASE k \in 1..Len(old)
      BY <1>2, <1>6, <3>1 DEF SoundLists
    <3>2. CASE k \notin 1..Len(old)
      <4>1. k - Len(old) \in 1..Len(order) /\ Len(old) + (k - Len(old)) = k
        BY <1>5, <1>6, <3>2
      <4> QED BY <1>3, <1>6, <4>1
    <3> QED BY <3>1, <3>2
  <2> QED BY <1>6, <1>7, <2>1 DEF SoundLists
<1>9. closed \in Seq(Record) /\ ShowsOnly(closed, SoundLists(G))
  BY <1>6, <1>8, AppendUnloggedContinues, ShowsUnlogged DEF Continues
<1> HIDE DEF closed
<1>10. step \in Seq(Record) /\ ShowsOnly(step, SoundLists(G))
  BY <1>9, MarkContinues, ShowsMark, SoundEmpty DEF Continues, MarkTypes
<1> HIDE DEF step
<1>11. repaired \in Seq(Record) /\ ShowsOnly(repaired, SoundLists(G))
  BY <1>10, MarkContinues, ShowsMark, SoundEmpty DEF Continues, MarkTypes
<1>12. PreparedResume(log, order) = Mark(repaired, "session/end-seed")
  BY DEF PreparedResume, Repaired, repaired, step, closed, msgs, closers, old
<1> HIDE DEF repaired
<1> QED BY <1>11, <1>12, ShowsMark, SoundEmpty DEF MarkTypes

\* A log without an open turn is only marked.
LEMMA ShowsResume ==
  ASSUME NEW log \in Seq(Record), CutsWell(log), NEW G, ShowsOnly(log, SoundLists(G)),
         NEW order \in SetToSeqs(PendingCalls(log)),
         OpenTurn(log) => \A c \in PendingCalls(log) : Closer(log, c) \in G
  PROVE  ShowsOnly(PreparedResume(log, order), SoundLists(G))
<1>1. CASE OpenTurn(log)
  BY <1>1, ShowsRepair
<1>2. CASE ~OpenTurn(log)
  <2>1. PreparedResume(log, order) = Mark(log, "session/end-seed")
    BY <1>2 DEF PreparedResume, Repaired
  <2> QED BY <2>1, ShowsMark, SoundEmpty DEF MarkTypes
<1> QED BY <1>1, <1>2

-----------------------------------------------------------------------------
(* The steps of a turn.                                                     *)

\* One step leaves the part of the log that is on the disk as it is.
LogKept ==
  /\ events' \in Seq(Record)
  /\ durable' \in 0..Len(events')
  /\ durable <= durable'
  /\ \A i \in 1..durable : events'[i] = events[i]

LEMMA FlushedKeeps ==
  ASSUME TypeOK, NEW log, Continues(events, log), NEW next \in Places,
         Flushed(log, next)
  PROVE  /\ LogKept /\ pc' \in {next, "broken"} /\ pc' \in Places
         /\ failures' \in 0..MaxFailures
<1>1. Len(log) \in Nat /\ Len(events) \in Nat
  BY LenProperties DEF Continues, TypeOK
<1>2. failures' \in 0..MaxFailures
  BY BoundsAssumption DEF Flushed, TypeOK
<1> QED BY <1>1, <1>2 DEF Flushed, LogKept, Continues, TypeOK, Places

LEMMA BufferedKeeps ==
  ASSUME TypeOK, NEW log, Continues(events, log), Buffered(log)
  PROVE  LogKept /\ failures' \in 0..MaxFailures /\ durable' = durable
<1>1. Len(log) \in Nat /\ Len(events) \in Nat
  BY LenProperties DEF Continues, TypeOK
<1> QED BY <1>1 DEF Buffered, LogKept, Continues, TypeOK

LEMMA UnchangedKeeps ==
  ASSUME TypeOK, UNCHANGED <<events, durable>>
  PROVE  LogKept
BY DEF TypeOK, LogKept

\* Appending one message to the live list.
LEMMA LiveAppend ==
  ASSUME TypeOK, NEW m \in Message
  PROVE  Append(live, m) \in Seq(Message)
BY DEF TypeOK

LEMMA MarkedContinues ==
  ASSUME NEW log \in Seq(Record), NEW msgs \in Seq(Message), NEW type \in MarkTypes
  PROVE  /\ Continues(log, Mark(AppendUnlogged(log, msgs), type))
         /\ Continues(log, AppendUnlogged(Mark(log, type), msgs))
<1>1. Continues(log, AppendUnlogged(log, msgs)) /\ AppendUnlogged(log, msgs) \in Seq(Record)
  BY AppendUnloggedContinues DEF Continues
<1>2. Continues(AppendUnlogged(log, msgs), Mark(AppendUnlogged(log, msgs), type))
  BY <1>1, MarkContinues
<1>3. Continues(log, Mark(log, type)) /\ Mark(log, type) \in Seq(Record)
  BY MarkContinues DEF Continues
<1>4. Continues(Mark(log, type), AppendUnlogged(Mark(log, type), msgs))
  BY <1>3, AppendUnloggedContinues
<1> QED BY <1>1, <1>2, <1>3, <1>4, ContinuesTransitive

LEMMA ClosedContinues ==
  ASSUME TypeOK, NEW msgs \in Seq(Message)
  PROVE  Continues(events, Closed(msgs))
<1> DEFINE persisted == AppendUnlogged(events, msgs)
           step == IF InStep THEN Mark(persisted, "step/end") ELSE persisted
<1>0. events \in Seq(Record)
  BY DEF TypeOK
<1>1. Continues(events, persisted) /\ persisted \in Seq(Record)
  BY <1>0, AppendUnloggedContinues DEF Continues
<1>2. Continues(persisted, step) /\ step \in Seq(Record)
  BY <1>1, MarkContinues, ContinuesReflexive DEF Continues, MarkTypes
<1>3. Continues(step, Mark(step, "turn/end"))
  BY <1>2, MarkContinues DEF MarkTypes
<1>4. Closed(msgs) = Mark(step, "turn/end")
  BY DEF Closed
<1> QED BY <1>0, <1>1, <1>2, <1>3, <1>4, ContinuesTransitive

-----------------------------------------------------------------------------
LEMMA EndTurnStep ==
  ASSUME TypeOK, NEW msgs \in Seq(Message), EndTurn(msgs)
  PROVE  TypeOK' /\ LogKept /\ stage' = NoStages /\ pc' \in {"idle", "broken"}
<1>1. LogKept /\ pc' \in {"idle", "broken"} /\ failures' \in 0..MaxFailures
  BY ClosedContinues, FlushedKeeps DEF EndTurn, Places
<1> QED BY <1>1 DEF EndTurn, TypeOK, LogKept, Places, NoStages, Stages

LEMMA AnswerStep ==
  ASSUME TypeOK, NEW c \in Calls, Answer(c)
  PROVE  TypeOK' /\ LogKept
<1>1. live' \in Seq(Message)
  BY LiveAppend DEF Answer, ToolMsg, Message, Results
<1>2. Continues(events, AppendUnlogged(events, live'))
  BY <1>1, AppendUnloggedContinues DEF TypeOK
<1>3. LogKept /\ pc' \in Places /\ failures' \in 0..MaxFailures
  <2>1. CASE Buffered(AppendUnlogged(events, live')) /\ pc' = pc
    BY <1>2, <2>1, BufferedKeeps DEF TypeOK
  <2>2. CASE Flushed(AppendUnlogged(events, live'), pc)
    BY <1>2, <2>2, FlushedKeeps DEF TypeOK
  <2> QED BY <2>1, <2>2 DEF Answer
<1> QED BY <1>1, <1>3 DEF Answer, Reached, TypeOK, LogKept, Stages

\* What Heal makes of the list: the closers of one message between the last of
\* the results that follow it and the rest.
LEMMA HealParts ==
  ASSUME TypeOK, NEW i \in DOMAIN live, Heal(i)
  PROVE  \E e \in 1..Len(live) : \E order \in Seq(Calls) :
           /\ Dangling(live, i, e)
           /\ order \in SetToSeqs(live[i].calls \ AnsweredIn(live, i, e))
           /\ live' \in Seq(Message) /\ Len(live') = Len(live) + Len(order)
           /\ \A k \in 1..e : live'[k] = live[k]
           /\ \A k \in 1..Len(order) : live'[e + k] = ToolMsg(order[k], "interrupted")
           /\ \A k \in e + 1..Len(live) : live'[k + Len(order)] = live[k]
<1>0. live \in Seq(Message) /\ Len(live) \in Nat /\ DOMAIN live = 1..Len(live)
  BY DEF TypeOK
<1>1. PICK e \in 1..Len(live) : /\ Dangling(live, i, e)
        /\ \E order \in SetToSeqs(live[i].calls \ AnsweredIn(live, i, e)) :
             live' = SubSeq(live, 1, e)
                       \o [k \in 1..Len(order) |-> ToolMsg(order[k], "interrupted")]
                       \o SubSeq(live, e + 1, Len(live))
  BY <1>0 DEF Heal
<1>2. PICK order \in SetToSeqs(live[i].calls \ AnsweredIn(live, i, e)) :
        live' = SubSeq(live, 1, e)
                  \o [k \in 1..Len(order) |-> ToolMsg(order[k], "interrupted")]
                  \o SubSeq(live, e + 1, Len(live))
  BY <1>1
<1>3. live[i].calls \ AnsweredIn(live, i, e) \in SUBSET Calls
  <2>1. live[i] \in Message /\ live[i].role = "assistant"
    BY <1>0, <1>1, ElementOfSeq DEF Dangling, IsAsking
  <2>2. live[i].calls \in SUBSET Calls
    BY <2>1 DEF Message
  <2> QED BY <2>2
<1>4. order \in Seq(Calls)
  <2>1. order \in Seq(live[i].calls \ AnsweredIn(live, i, e))
    BY <1>3, SubsetIsFinite, OrderType
  <2> QED BY <1>3, <2>1, SeqMonotonic
<1> DEFINE left == SubSeq(live, 1, e)
           closers == [k \in 1..Len(order) |-> ToolMsg(order[k], "interrupted")]
           right == SubSeq(live, e + 1, Len(live))
<1>5. closers \in Seq(Message) /\ Len(closers) = Len(order) /\ Len(order) \in Nat
  BY <1>4 DEF ToolMsg, Message, Results
<1>6. left \in Seq(Message) /\ Len(left) = e /\ \A k \in 1..e : left[k] = live[k]
  <2>1. e \in 0..Len(live)
    OBVIOUS
  <2> QED BY <1>0, <2>1, PrefixType
<1>7. /\ right \in Seq(Message) /\ Len(right) = Len(live) - e
      /\ \A k \in 1..Len(live) - e : right[k] = live[e + k]
  <2>1. e + 1 \in Nat \ {0} /\ Len(live) \in 0..Len(live)
    BY <1>0
  <2>2. right \in Seq(Message)
    BY <1>0, <2>1, PartType
  <2>3. Len(right) = Len(live) - e
    BY <1>0, SubSeqProperties
  <2>4. \A k \in 1..Len(live) - e : right[k] = live[e + 1 + k - 1] /\ e + 1 + k - 1 = e + k
    BY <1>0, SubSeqProperties
  <2> QED BY <2>2, <2>3, <2>4
<1>8. \A k \in 1..Len(order) : closers[k] = ToolMsg(order[k], "interrupted")
  OBVIOUS
<1> HIDE DEF left, closers, right
<1>9. live' = left \o closers \o right
  BY <1>2 DEF left, closers, right
<1>10. /\ left \o closers \in Seq(Message) /\ Len(left \o closers) = e + Len(order)
       /\ \A k \in 1..e : (left \o closers)[k] = live[k]
       /\ \A k \in 1..Len(order) : (left \o closers)[e + k] = ToolMsg(order[k], "interrupted")
  BY <1>5, <1>6, <1>8
<1> DEFINE both == left \o closers
<1> HIDE DEF both
<1>11. /\ both \in Seq(Message) /\ Len(both) = e + Len(order) /\ live' = both \o right
       /\ \A k \in 1..e : both[k] = live[k]
       /\ \A k \in 1..Len(order) : both[e + k] = ToolMsg(order[k], "interrupted")
  BY <1>9, <1>10 DEF both
<1>12. live' \in Seq(Message) /\ Len(live') = Len(live) + Len(order)
  <2>1. both \o right \in Seq(Message) /\ Len(both \o right) = Len(both) + Len(right)
    BY <1>7, <1>11, ConcatProperties
  <2> QED BY <1>0, <1>5, <1>7, <1>11, <2>1
<1>13. \A k \in 1..e + Len(order) : live'[k] = both[k]
  BY <1>0, <1>5, <1>7, <1>11
<1>14. \A k \in 1..e : live'[k] = live[k]
  <2>1. \A k \in 1..e : k \in 1..e + Len(order)
    BY <1>5
  <2> QED BY <1>11, <1>13, <2>1
<1>15. \A k \in 1..Len(order) : live'[e + k] = ToolMsg(order[k], "interrupted")
  <2>1. \A k \in 1..Len(order) : e + k \in 1..e + Len(order)
    BY <1>5
  <2> QED BY <1>11, <1>13, <2>1
<1>16. \A k \in e + 1..Len(live) : live'[k + Len(order)] = live[k]
  <2> TAKE k \in e + 1..Len(live)
  <2>1. PICK j \in 1..Len(live) - e : j = k - e
    <3>1. k - e \in 1..Len(live) - e
      BY <1>0
    <3> QED BY <3>1
  <2>2. k + Len(order) = Len(both) + j /\ e + j = k /\ j \in 1..Len(right)
    BY <1>0, <1>5, <1>7, <1>11, <2>1
  <2>3. Len(both) + j \in 1..Len(both) + Len(right) /\ Len(both) + j > Len(both)
        /\ Len(both) + j - Len(both) = j
    BY <1>0, <1>5, <1>7, <1>11, <2>2
  <2>4. (both \o right)[Len(both) + j] = right[j]
    BY <1>7, <1>11, <2>3, ConcatProperties
  <2> QED BY <1>7, <1>11, <2>2, <2>4
<1> QED BY <1>1, <1>2, <1>4, <1>12, <1>14, <1>15, <1>16

LEMMA LoopTypeStep ==
  ASSUME TypeOK, AddUserMessage \/ StartTurn \/ LoopStep \/ RequestCancel \/ Abort
  PROVE  TypeOK' /\ LogKept
<1> USE BoundsAssumption
<1>0. events \in Seq(Record) /\ live \in Seq(Message)
  BY DEF TypeOK
<1>1. CASE AddUserMessage
  <2> DEFINE msgs == Append(live, UserMsg(turns + 1))
  <2>1. msgs \in Seq(Message)
    BY <1>1, LiveAppend DEF AddUserMessage, UserMsg, Message, TypeOK
  <2> HIDE DEF msgs
  <2>2. Flushed(AppendUnlogged(events, msgs), "prompted") /\ live' \in {live, msgs}
    BY <1>1 DEF AddUserMessage, msgs
  <2>3. LogKept /\ pc' \in Places /\ failures' \in 0..MaxFailures
    BY <1>0, <2>1, <2>2, AppendUnloggedContinues, FlushedKeeps DEF Places
  <2>4. turns' \in 0..MaxTurns
        /\ UNCHANGED <<cancelled, stage, steps, compactions, crashes, asked, invoked>>
    BY <1>1 DEF AddUserMessage, TypeOK
  <2> QED BY <1>0, <2>1, <2>2, <2>3, <2>4 DEF TypeOK, LogKept
<1>14. CASE StartTurn
  <2>1. LogKept /\ failures' \in 0..MaxFailures
    BY <1>0, <1>14, MarkedContinues, BufferedKeeps DEF StartTurn, MarkTypes
  <2>2. /\ pc' \in Places /\ steps' = 0 /\ cancelled' \in BOOLEAN
        /\ UNCHANGED <<live, stage, turns, compactions, crashes, asked, invoked>>
    BY <1>14 DEF StartTurn, Places
  <2>3. 0 \in 0..MaxSteps
    OBVIOUS
  <2> QED BY <1>0, <2>1, <2>2, <2>3 DEF TypeOK, LogKept
<1>2. ASSUME NEW i \in DOMAIN live, Heal(i) PROVE TypeOK' /\ LogKept
  <2>1. live' \in Seq(Message)
    BY <1>2, HealParts
  <2>2. LogKept
    BY <1>2, UnchangedKeeps DEF Heal
  <2> QED BY <1>2, <2>1, <2>2 DEF Heal, TypeOK, counters
<1>3. CASE EnterLoop
  <2>1. LogKept
    BY <1>3, UnchangedKeeps DEF EnterLoop
  <2> QED BY <1>3, <2>1 DEF EnterLoop, TypeOK, counters, Places
<1>4. CASE BeginStep
  <2>1. LogKept /\ failures' \in 0..MaxFailures
    BY <1>0, <1>4, MarkedContinues, BufferedKeeps DEF BeginStep, MarkTypes
  <2> QED BY <1>4, <2>1 DEF BeginStep, TypeOK, LogKept, Places
<1>5. CASE CommitSurface
  <2>1. LogKept /\ pc' \in Places /\ failures' \in 0..MaxFailures
    BY <1>0, <1>5, AppendUnloggedContinues, FlushedKeeps DEF CommitSurface, Places
  <2> QED BY <1>5, <2>1 DEF CommitSurface, TypeOK, LogKept
<1>6. ASSUME NEW k \in DOMAIN live, Compact(k) PROVE TypeOK' /\ LogKept
  <2> DEFINE kept == <<SummaryMsg>> \o SubSeq(live, k, Len(live))
  <2>1. kept \in Seq(Message)
    <3>1. SubSeq(live, k, Len(live)) \in Seq(Message)
      BY <1>0, LenProperties, PartType
    <3>2. <<SummaryMsg>> \in Seq(Message)
      BY DEF SummaryMsg, UserMsg, Message
    <3> QED BY <3>1, <3>2, ConcatProperties
  <2>2. LogKept /\ pc' \in Places /\ failures' \in 0..MaxFailures
    BY <1>0, <1>6, <2>1, ReplaceSurfaceContinues, FlushedKeeps DEF Compact, Places
  <2>3. live' \in Seq(Message)
    BY <1>6, <2>2, SurfaceType DEF Compact, LogKept
  <2>4. compactions' \in 0..MaxCompactions
    BY <1>6 DEF Compact, TypeOK
  <2>5. UNCHANGED <<cancelled, stage, turns, steps, crashes, asked, invoked>>
    BY <1>6 DEF Compact
  <2> QED BY <2>2, <2>3, <2>4, <2>5 DEF TypeOK, LogKept
<1>7. CASE SendRequest
  <2>1. LogKept /\ pc' \in Places /\ failures' \in 0..MaxFailures
    BY <1>0, <1>7, MarkedContinues, FlushedKeeps DEF SendRequest, Places, MarkTypes
  <2> QED BY <1>7, <2>1 DEF SendRequest, TypeOK, LogKept
<1>8. ASSUME NEW S \in SUBSET Calls, Respond(S) PROVE TypeOK' /\ LogKept
  <2>1. live' \in Seq(Message)
    BY <1>8, LiveAppend DEF Respond, AssistantMsg, Message
  <2>2. Continues(events, AppendUnlogged(events, live'))
    BY <1>0, <2>1, AppendUnloggedContinues
  <2>3. LogKept /\ pc' \in Places /\ failures' \in 0..MaxFailures
    BY <1>8, <2>2, FlushedKeeps DEF Respond, Places
  <2> QED BY <1>8, <2>1, <2>3 DEF Respond, TypeOK, LogKept, Stages
<1>9. CASE EndStep
  <2>1. LogKept /\ pc' \in Places /\ failures' \in 0..MaxFailures
    BY <1>0, <1>9, MarkedContinues, FlushedKeeps DEF EndStep, Places, MarkTypes
  <2> QED BY <1>9, <2>1 DEF EndStep, TypeOK, LogKept
<1>10. CASE Done
  BY <1>0, <1>10, EndTurnStep DEF Done
<1>11. CASE StopInStep
  BY <1>0, <1>11, CleanedType, EndTurnStep DEF StopInStep
<1>12. CASE RequestCancel
  <2>1. LogKept
    BY <1>12, UnchangedKeeps DEF RequestCancel
  <2> QED BY <1>12, <2>1 DEF RequestCancel, TypeOK, counters
<1>13. CASE Abort
  BY <1>0, <1>13, EndTurnStep DEF Abort
<1> QED BY <1>1, <1>2, <1>3, <1>4, <1>5, <1>6, <1>7, <1>8, <1>9, <1>10, <1>11,
           <1>12, <1>13, <1>14 DEF LoopStep

LEMMA ToolTypeStep ==
  ASSUME TypeOK, ToolStep
  PROVE  TypeOK' /\ LogKept
<1>0. events \in Seq(Record) /\ live \in Seq(Message)
  BY DEF TypeOK
<1>1. CASE FlushCalls
  <2>1. LogKept /\ pc' \in Places /\ failures' \in 0..MaxFailures
    BY <1>0, <1>1, ContinuesReflexive, FlushedKeeps DEF FlushCalls, Places
  <2> QED BY <1>1, <2>1 DEF FlushCalls, TypeOK, LogKept, Stages
<1>2. ASSUME NEW c \in Calls, RecordSerial(c) PROVE TypeOK' /\ LogKept
  <2>1. LogKept /\ pc' \in Places /\ failures' \in 0..MaxFailures
    BY <1>0, <1>2, CallRecordType, ContinuesAppend, FlushedKeeps DEF RecordSerial, Places
  <2> QED BY <1>2, <2>1 DEF RecordSerial, Reached, TypeOK, LogKept, Stages
<1>3. ASSUME NEW c \in Calls, RecordParallel(c) PROVE TypeOK' /\ LogKept
  <2>1. LogKept /\ failures' \in 0..MaxFailures
    BY <1>0, <1>3, CallRecordType, ContinuesAppend, BufferedKeeps DEF RecordParallel
  <2> QED BY <1>3, <2>1 DEF RecordParallel, Reached, TypeOK, LogKept, Stages, Places
<1>4. ASSUME NEW c \in Calls, Reject(c) \/ Commit(c) PROVE TypeOK' /\ LogKept
  BY <1>4, AnswerStep DEF Reject, Commit
<1>5. ASSUME NEW c \in Calls, Invoke(c) \/ Skip(c) \/ Return(c) PROVE TypeOK' /\ LogKept
  <2>1. LogKept
    BY <1>5, UnchangedKeeps DEF Invoke, Skip, Return
  <2> QED BY <1>5, <2>1 DEF Invoke, Skip, Return, Reached, TypeOK, counters, Stages
<1> QED BY <1>1, <1>2, <1>3, <1>4, <1>5 DEF ToolStep

LEMMA CrashTypeStep ==
  ASSUME TypeOK, Crash
  PROVE  TypeOK' /\ LogKept
<1>1. PICK n \in durable..Len(events) : Gone(n)
  BY DEF Crash
<1>2. Len(events) \in Nat /\ durable \in 0..Len(events) /\ n \in 0..Len(events)
  BY LenProperties DEF TypeOK
<1>3. events' = SubSeq(events, 1, n) /\ durable' = n
  BY <1>1 DEF Gone
<1>4. LogKept
  BY <1>2, <1>3, PrefixType DEF LogKept, TypeOK
<1>5. crashes' \in 0..MaxCrashes
  BY <1>1, BoundsAssumption DEF Gone, TypeOK
<1>6. live' \in Seq(Message)
  BY <1>1, EmptySeq DEF Gone
<1>8. pc' \in Places /\ cancelled' \in BOOLEAN /\ stage' = NoStages
  BY <1>1 DEF Gone, Places
<1>9. NoStages \in [Calls -> Stages]
  BY DEF NoStages, Stages
<1>7. UNCHANGED <<turns, steps, compactions, failures, asked, invoked>>
  BY <1>1 DEF Gone
<1> QED BY <1>4, <1>5, <1>6, <1>7, <1>8, <1>9 DEF TypeOK, LogKept

LEMMA ResumeTypeStep ==
  ASSUME TypeOK, Resume
  PROVE  TypeOK' /\ LogKept
<1>0. events \in Seq(Record)
  BY DEF TypeOK
<1>1. PICK order \in SetToSeqs(PendingCalls(events)) :
        Flushed(PreparedResume(events, order), "idle")
  BY DEF Resume
<1>2. order \in Seq(Calls)
  <2>1. PendingCalls(events) \in SUBSET Calls
    BY DEF PendingCalls
  <2>2. order \in Seq(PendingCalls(events))
    BY <2>1, SubsetIsFinite, OrderType
  <2> QED BY <2>1, <2>2, SeqMonotonic
<1>3. LogKept /\ pc' \in Places /\ failures' \in 0..MaxFailures
  BY <1>0, <1>1, <1>2, PreparedResumeContinues, FlushedKeeps DEF Places
<1>4. live' \in Seq(Message)
  BY <1>3, SurfaceType DEF Resume, LogKept
<1>5. UNCHANGED <<cancelled, stage, turns, steps, compactions, crashes, asked, invoked>>
  BY DEF Resume
<1> QED BY <1>3, <1>4, <1>5 DEF TypeOK, LogKept

\* Every step keeps the types and the flushed part of the log.
LEMMA TypeStep ==
  ASSUME TypeOK, [Next]_vars
  PROVE  TypeOK' /\ LogKept
<1>1. CASE UNCHANGED vars
  BY <1>1, UnchangedKeeps DEF vars, TypeOK
<1>2. CASE Next
  BY <1>2, LoopTypeStep, ToolTypeStep, CrashTypeStep, ResumeTypeStep DEF Next
<1> QED BY <1>1, <1>2

LEMMA TypeInit ==
  ASSUME Init PROVE TypeOK
<1>1. events \in Seq(Record) /\ durable \in 0..Len(events) /\ live \in Seq(Message)
  BY EmptySeq DEF Init
<1>2. pc \in Places /\ cancelled \in BOOLEAN /\ asked \subseteq Calls /\ invoked \subseteq Calls
  BY DEF Init, Places
<1>3. stage \in [Calls -> Stages]
  BY DEF Init, NoStages, Stages
<1>4. /\ turns \in 0..MaxTurns /\ steps \in 0..MaxSteps
      /\ compactions \in 0..MaxCompactions
      /\ crashes \in 0..MaxCrashes /\ failures \in 0..MaxFailures
  BY BoundsAssumption DEF Init
<1> QED BY <1>1, <1>2, <1>3, <1>4 DEF TypeOK

\* The state of the turn, the log and the message list always have their types:
\* no handler of the loop, the engine or the repair builds a malformed record.
THEOREM TypeCorrect == Spec => []TypeOK
<1>1. Init => TypeOK
  BY TypeInit
<1>2. TypeOK /\ [Next]_vars => TypeOK'
  BY TypeStep
<1> QED BY <1>1, <1>2, PTL DEF Spec

-----------------------------------------------------------------------------
\* A record that is on the disk, or in a log that was flushed, stays found.
LEMMA DispatchedKept ==
  ASSUME TypeOK, LogKept, NEW c \in Calls, Dispatched(c)
  PROVE  Dispatched(c)'
<1>1. PICK i \in 1..durable : Dispatches(events[i], c)
  BY DEF Dispatched
<1>2. i \in 1..durable' /\ events'[i] = events[i]
  <2>1. durable \in Nat /\ durable' \in Nat
    BY LenProperties DEF TypeOK, LogKept
  <2> QED BY <2>1 DEF LogKept
<1> QED BY <1>1, <1>2 DEF Dispatched

\* What has been flushed stays as it is, through appends, compactions, repairs
\* and crashes: the log of session_log.py is append-only.
THEOREM FlushedIsForever == Spec => DurableNeverLost
<1>1. TypeOK /\ [Next]_vars => [IsPrefix(DurableLog, DurableLog')]_vars
  <2> SUFFICES ASSUME TypeOK, [Next]_vars PROVE IsPrefix(DurableLog, DurableLog')
    OBVIOUS
  <2>1. TypeOK' /\ LogKept
    BY TypeStep
  <2> DEFINE old == SubSeq(events, 1, durable)
             new == SubSeq(events', 1, durable')
  <2>2. old \in Seq(Record) /\ Len(old) = durable /\ \A i \in 1..durable : old[i] = events[i]
    BY PrefixType DEF TypeOK
  <2>3. new \in Seq(Record) /\ Len(new) = durable'
        /\ \A i \in 1..durable' : new[i] = events'[i]
    BY <2>1, PrefixType DEF LogKept
  <2>4. durable \in Nat /\ durable' \in Nat /\ durable <= durable'
    BY <2>1, LenProperties DEF TypeOK, LogKept
  <2> HIDE DEF old, new
  <2>10. durable \in 0..Len(new)
    BY <2>3, <2>4
  <2>5. SubSeq(new, 1, durable) \in Seq(Record) /\ Len(SubSeq(new, 1, durable)) = durable
        /\ \A i \in 1..durable : SubSeq(new, 1, durable)[i] = new[i]
    BY <2>3, <2>10, PrefixType
  <2>6. \A i \in 1..durable : old[i] = SubSeq(new, 1, durable)[i]
    <3> TAKE i \in 1..durable
    <3>1. old[i] = events[i] /\ SubSeq(new, 1, durable)[i] = new[i] /\ events'[i] = events[i]
      BY <2>1, <2>2, <2>5 DEF LogKept
    <3>2. new[i] = events'[i]
      BY <2>3, <2>4
    <3> QED BY <3>1, <3>2
  <2>7. old = SubSeq(new, 1, durable)
    BY <2>2, <2>5, <2>6, SeqEqual
  <2>8. SubSeq(old, 1, Len(old)) = old
    BY <2>2, SubSeqFull
  <2>9. IsPrefix(old, new)
    BY <2>2, <2>3, <2>4, <2>7, <2>8 DEF IsPrefix
  <2> QED BY <2>9 DEF DurableLog, old, new
<1> QED BY <1>1, TypeCorrect, PTL DEF Spec, DurableNeverLost

-----------------------------------------------------------------------------
\* Only Invoke enters a tool.
LEMMA InvokedBy ==
  ASSUME [Next]_vars, NEW c \in invoked' \ invoked
  PROVE  \E d \in Calls : Invoke(d) /\ invoked' = invoked \cup {d}
<1>1. CASE UNCHANGED vars
  BY <1>1 DEF vars
<1>2. CASE \E d \in Calls : Invoke(d)
  BY <1>2 DEF Invoke
<1>3. CASE AddUserMessage \/ StartTurn \/ LoopStep \/ RequestCancel \/ Abort
  BY <1>3 DEF AddUserMessage, StartTurn, LoopStep, RequestCancel, Abort, EnterLoop, BeginStep,
       CommitSurface, SendRequest, EndStep, Done, StopInStep, EndTurn, Heal,
       Compact, Respond
<1>4. CASE Crash \/ Resume \/ FlushCalls
  BY <1>4 DEF Crash, Gone, Resume, FlushCalls
<1>5. CASE \E d \in Calls : \/ RecordSerial(d) \/ RecordParallel(d) \/ Reject(d)
                            \/ Skip(d) \/ Return(d) \/ Commit(d)
  BY <1>5 DEF RecordSerial, RecordParallel, Reject, Skip, Return, Commit, Answer
<1> QED BY <1>1, <1>2, <1>3, <1>4, <1>5 DEF Next, ToolStep

\* A step that makes no call ready and does not start the batch.
LEMMA ReadyKept ==
  ASSUME IInv, LogKept, At("ready")' \subseteq At("ready"),
         pc' = "tools" => pc = "tools" \/ At("ready")' = {},
         pc' = "batch" => pc = "batch" /\ events' = events
  PROVE  ReadyRecorded'
<1> SUFFICES ASSUME NEW c \in At("ready")'
             PROVE  /\ pc' = "tools" => Dispatched(c)'
                    /\ pc' = "batch" =>
                         \E i \in 1..Len(events') : Dispatches(events'[i], c)
  BY DEF ReadyRecorded
<1>1. c \in At("ready") /\ c \in Calls
  BY DEF At
<1>2. ASSUME pc' = "tools" PROVE Dispatched(c)'
  BY <1>1, <1>2, DispatchedKept DEF IInv, ReadyRecorded
<1>3. ASSUME pc' = "batch" PROVE \E i \in 1..Len(events') : Dispatches(events'[i], c)
  BY <1>1, <1>3 DEF IInv, ReadyRecorded
<1> QED BY <1>2, <1>3

LEMMA NoneReady ==
  ASSUME stage' = NoStages PROVE At("ready")' = {}
BY DEF At, NoStages

LEMMA ReadyStep ==
  ASSUME IInv, [Next]_vars, LogKept
  PROVE  ReadyRecorded'
<1>0. /\ events \in Seq(Record) /\ durable \in 0..Len(events) /\ Len(events) \in Nat
      /\ stage \in [Calls -> Stages]
  BY LenProperties DEF IInv, TypeOK
<1>1. ASSUME NEW c \in Calls, RecordSerial(c) PROVE ReadyRecorded'
  <2>1. At("ready")' \subseteq {c}
    BY <1>0, <1>1 DEF RecordSerial, Reached, Quiet, At
  <2>2. CASE pc' = "tools"
    <3>1. durable' = Len(events') /\ events' = Append(events, CallRecord(events, c))
      BY <1>1, <2>2 DEF RecordSerial, Flushed
    <3>2. Len(events) + 1 \in 1..durable' /\ events'[Len(events) + 1] = CallRecord(events, c)
      BY <1>0, <3>1, CallRecordType
    <3>3. Dispatched(c)'
      BY <3>2 DEF Dispatched, Dispatches, CallRecord
    <3> QED BY <2>1, <2>2, <3>3 DEF ReadyRecorded
  <2>3. CASE pc' = "broken"
    BY <2>3 DEF ReadyRecorded
  <2> QED BY <1>1, <2>2, <2>3 DEF RecordSerial, Flushed
<1>2. ASSUME NEW c \in Calls, RecordParallel(c) PROVE ReadyRecorded'
  <2>1. pc' = "batch" /\ events' = Append(events, CallRecord(events, c))
    BY <1>2 DEF RecordParallel, Buffered
  <2>2. /\ Len(events') = Len(events) + 1
        /\ events'[Len(events) + 1] = CallRecord(events, c)
        /\ \A i \in 1..Len(events) : events'[i] = events[i]
    BY <1>0, <2>1, CallRecordType
  <2>3. At("ready")' \subseteq At("ready") \cup {c}
    BY <1>0, <1>2 DEF RecordParallel, Reached, At
  <2>4. ASSUME NEW d \in At("ready")
        PROVE  \E i \in 1..Len(events') : Dispatches(events'[i], d)
    <3>1. pc = "batch"
      BY <1>2, <2>4 DEF RecordParallel, Quiet
    <3>2. PICK i \in 1..Len(events) : Dispatches(events[i], d)
      BY <2>4, <3>1 DEF IInv, ReadyRecorded
    <3>3. i \in 1..Len(events') /\ events'[i] = events[i]
      BY <1>0, <2>2
    <3> QED BY <3>2, <3>3
  <2>5. \E i \in 1..Len(events') : Dispatches(events'[i], c)
    <3>1. Len(events) + 1 \in 1..Len(events')
      BY <1>0, <2>2
    <3> QED BY <2>2, <3>1 DEF Dispatches, CallRecord
  <2> QED BY <2>1, <2>3, <2>4, <2>5 DEF ReadyRecorded
<1>3. CASE FlushCalls
  <2>1. At("ready")' \subseteq At("ready") /\ events' = events
    BY <1>0, <1>3 DEF FlushCalls, At, Flushed
  <2>2. CASE pc' = "tools"
    <3>1. durable' = Len(events')
      BY <1>3, <2>1, <2>2 DEF FlushCalls, Flushed
    <3> QED BY <1>3, <2>1, <2>2, <3>1 DEF FlushCalls, IInv, ReadyRecorded, Dispatched
  <2>3. CASE pc' = "broken"
    BY <2>3 DEF ReadyRecorded
  <2> QED BY <1>3, <2>2, <2>3 DEF FlushCalls, Flushed
<1>4. ASSUME NEW c \in Calls,
             Reject(c) \/ Commit(c) \/ Invoke(c) \/ Skip(c) \/ Return(c)
      PROVE  ReadyRecorded'
  <2>1. At("ready")' \subseteq At("ready")
    BY <1>0, <1>4 DEF Reject, Commit, Answer, Invoke, Skip, Return, Reached, At
  <2>2. pc = "tools" /\ pc' \in {"tools", "broken"}
    BY <1>4 DEF Reject, Commit, Answer, Invoke, Skip, Return, Flushed
  <2> QED BY <2>1, <2>2, ReadyKept
<1>5. ASSUME NEW S \in SUBSET Calls, Respond(S) PROVE ReadyRecorded'
  <2>1. At("ready")' = {}
    BY <1>5 DEF Respond, At
  <2> QED BY <2>1 DEF ReadyRecorded
<1>6. CASE Done \/ StopInStep \/ Abort \/ Crash
  <2>1. stage' = NoStages
    BY <1>6 DEF Done, StopInStep, Abort, EndTurn, Crash, Gone
  <2> QED BY <2>1, NoneReady DEF ReadyRecorded
<1>7. CASE UNCHANGED vars \/ RequestCancel
  <2>1. UNCHANGED <<stage, pc, events>>
    BY <1>7 DEF vars, RequestCancel
  <2> QED BY <2>1, ReadyKept DEF At
<1>8. CASE AddUserMessage \/ StartTurn \/ EnterLoop \/ BeginStep \/ CommitSurface
           \/ SendRequest \/ EndStep \/ Resume
           \/ \E i \in DOMAIN live : Heal(i) \/ Compact(i)
  <2>1. pc' \notin {"tools", "batch"}
    BY <1>8 DEF AddUserMessage, StartTurn, EnterLoop, BeginStep, CommitSurface, SendRequest,
         EndStep, Resume, Heal, Compact, Flushed
  <2> QED BY <2>1 DEF ReadyRecorded
<1> QED BY <1>1, <1>2, <1>3, <1>4, <1>5, <1>6, <1>7, <1>8
        DEF Next, LoopStep, ToolStep

\* The invariant that carries WriteAhead.
THEOREM RecordedBeforeEntered == Spec => []IInv
<1>1. Init => IInv
  BY TypeInit DEF Init, IInv, WriteAhead, ReadyRecorded, At, NoStages
<1>2. IInv /\ [Next]_vars => IInv'
  <2> SUFFICES ASSUME IInv, [Next]_vars PROVE IInv'
    OBVIOUS
  <2>1. TypeOK' /\ LogKept
    BY TypeStep DEF IInv
  <2>2. WriteAhead'
    <3> SUFFICES ASSUME NEW c \in invoked' PROVE Dispatched(c)'
      BY DEF WriteAhead
    <3>1. CASE c \in invoked
      BY <2>1, <3>1, DispatchedKept DEF IInv, WriteAhead, TypeOK
    <3>2. CASE c \notin invoked
      <4>1. PICK d \in Calls : Invoke(d) /\ invoked' = invoked \cup {d}
        BY <3>2, InvokedBy
      <4>2. c = d /\ c \in At("ready") /\ pc = "tools"
        BY <3>2, <4>1 DEF Invoke, At
      <4>3. Dispatched(c)
        BY <4>2 DEF IInv, ReadyRecorded
      <4> QED BY <2>1, <4>1, <4>2, <4>3, DispatchedKept DEF IInv
    <3> QED BY <3>1, <3>2
  <2>3. ReadyRecorded'
    BY <2>1, ReadyStep
  <2> QED BY <2>1, <2>2, <2>3 DEF IInv
<1> QED BY <1>1, <1>2, PTL DEF Spec

\* A tool is entered only when the record of its call is on the disk, and no
\* crash takes that record away: record_call and flush_calls come before the
\* scheduler, and the log is append-only.
THEOREM WriteAheadHolds == Spec => []WriteAhead
<1>1. IInv => WriteAhead
  BY DEF IInv
<1> QED BY <1>1, RecordedBeforeEntered, PTL

-----------------------------------------------------------------------------
(* Between turns.                                                          *)

\* Where the live list is what the log carries, written or not.
Synced == {"idle", "prompted", "opened", "request", "model", "answer", "tools", "batch"}

\* What makes IdleIsDurable inductive: the log is well built, a turn always
\* has messages, the user's first, and except between StartTurn and BeginStep,
\* where the list is being mended, the log carries that same list.
IdleInv ==
  /\ TypeOK
  /\ WellBuilt(events)
  /\ UserFirst(live)
  /\ InTurn \/ pc = "prompted" => live # <<>>
  /\ pc \in Synced => Surface(events) = live
  /\ pc \in {"idle", "prompted"} => ~OpenTurn(events) /\ durable = Len(events)

LEMMA CleanedNotEmpty ==
  ASSUME NEW msgs \in Seq(Message), msgs # <<>>, UserFirst(msgs)
  PROVE  Cleaned(msgs) # <<>> /\ UserFirst(Cleaned(msgs))
<1>1. CASE \E i \in DOMAIN msgs : IsIncomplete(msgs, i)
  <2> DEFINE k == CHOOSE i \in DOMAIN msgs : IsIncomplete(msgs, i)
  <2>1. k \in DOMAIN msgs /\ IsIncomplete(msgs, k)
    BY <1>1
  <2>2. k \in 1..Len(msgs) /\ msgs[k].role = "assistant"
    BY <2>1, LenProperties DEF IsIncomplete, IsLastAssistant
  <2> HIDE DEF k
  <2>3. k # 1
    BY <2>2 DEF UserFirst
  <2>4. k - 1 \in 0..Len(msgs) /\ 1 \in 1..(k - 1) /\ k - 1 # 0
    BY <2>2, <2>3
  <2>5. /\ SubSeq(msgs, 1, k - 1) \in Seq(Message) /\ Len(SubSeq(msgs, 1, k - 1)) # 0
        /\ SubSeq(msgs, 1, k - 1)[1] = msgs[1]
    BY <2>4, PrefixType
  <2>6. Cleaned(msgs) = SubSeq(msgs, 1, k - 1)
    BY <1>1 DEF Cleaned, k
  <2> QED BY <2>5, <2>6, EmptySeq DEF UserFirst
<1>2. CASE ~\E i \in DOMAIN msgs : IsIncomplete(msgs, i)
  BY <1>2 DEF Cleaned
<1> QED BY <1>1, <1>2

LEMMA AppendedFirst ==
  ASSUME NEW msgs \in Seq(Message), UserFirst(msgs), NEW m \in Message,
         msgs # <<>> \/ m.role = "user"
  PROVE  /\ Append(msgs, m) \in Seq(Message) /\ Append(msgs, m) # <<>>
         /\ UserFirst(Append(msgs, m))
<1>1. Append(msgs, m) \in Seq(Message) /\ Append(msgs, m) # <<>>
  OBVIOUS
<1>2. CASE msgs = <<>>
  BY <1>2 DEF UserFirst
<1>3. CASE msgs # <<>>
  <2>1. 1 \in 1..Len(msgs)
    BY <1>3
  <2>2. Append(msgs, m)[1] = msgs[1]
    BY <2>1
  <2> QED BY <1>3, <2>2 DEF UserFirst
<1> QED BY <1>1, <1>2, <1>3

\* The list that is written at the end of a step or turn.
LEMMA MarkedBuilt ==
  ASSUME NEW log \in Seq(Record), WellBuilt(log), NEW msgs \in Seq(Message),
         msgs # <<>>, UserFirst(msgs), NEW type \in MarkTypes
  PROVE  LET next == Mark(AppendUnlogged(log, msgs), type)
         IN  WellBuilt(next) /\ Surface(next) = msgs /\ next \in Seq(Record)
<1> DEFINE written == AppendUnlogged(log, msgs)
<1>1. written \in Seq(Record) /\ WellBuilt(written) /\ Surface(written) = msgs
  BY AppendUnloggedContinues, BuiltUnlogged, SurfaceOfUnlogged DEF Continues
<1> HIDE DEF written
<1>2. WellBuilt(Mark(written, type)) /\ Surface(Mark(written, type)) = msgs
      /\ Mark(written, type) \in Seq(Record)
  BY <1>1, BuiltMark, SurfaceOfMark
<1> QED BY <1>2 DEF written

LEMMA ClosedBuilt ==
  ASSUME IdleInv, NEW msgs \in Seq(Message), msgs # <<>>, UserFirst(msgs)
  PROVE  /\ WellBuilt(Closed(msgs)) /\ Surface(Closed(msgs)) = msgs
         /\ ~OpenTurn(Closed(msgs))
<1> DEFINE written == AppendUnlogged(events, msgs)
           step == IF InStep THEN Mark(written, "step/end") ELSE written
<1>1. written \in Seq(Record) /\ WellBuilt(written) /\ Surface(written) = msgs
  BY AppendUnloggedContinues, BuiltUnlogged, SurfaceOfUnlogged
     DEF Continues, IdleInv, TypeOK
<1> HIDE DEF written
<1>2. step \in Seq(Record) /\ WellBuilt(step) /\ Surface(step) = msgs
  BY <1>1, BuiltMark, SurfaceOfMark DEF MarkTypes
<1> HIDE DEF step
<1>3. /\ WellBuilt(Mark(step, "turn/end")) /\ Surface(Mark(step, "turn/end")) = msgs
      /\ ~OpenTurn(Mark(step, "turn/end"))
  BY <1>2, BuiltMark, SurfaceOfMark, TurnClosed DEF MarkTypes
<1>4. Closed(msgs) = Mark(step, "turn/end")
  BY DEF Closed, step, written
<1> QED BY <1>3, <1>4

LEMMA IdleEndTurn ==
  ASSUME IdleInv, TypeOK', NEW msgs \in Seq(Message), msgs # <<>>, UserFirst(msgs),
         EndTurn(msgs)
  PROVE  IdleInv'
<1>1. live' = msgs /\ events' = Closed(msgs)
  BY DEF EndTurn, Flushed
<1>2. pc' = "broken" \/ (pc' = "idle" /\ durable' = Len(events'))
  BY DEF EndTurn, Flushed
<1> QED BY <1>1, <1>2, ClosedBuilt DEF IdleInv, InTurn, InStep

LEMMA IdleAnswer ==
  ASSUME IdleInv, TypeOK', NEW c \in Calls, Answer(c), InTurn
  PROVE  IdleInv'
<1>1. live' = Append(live, ToolMsg(c, "answered")) /\ ToolMsg(c, "answered") \in Message
  BY DEF Answer, ToolMsg, Message, Results
<1>2. live' \in Seq(Message) /\ live' # <<>> /\ UserFirst(live')
  BY <1>1, AppendedFirst DEF IdleInv, TypeOK
<1>3. events' = AppendUnlogged(events, live') /\ pc' \in {pc, "broken"}
        /\ pc \notin {"idle", "prompted"}
  BY DEF Answer, Flushed, Buffered, InTurn, InStep
<1>4. WellBuilt(events') /\ Surface(events') = live'
  BY <1>2, <1>3, BuiltUnlogged, SurfaceOfUnlogged DEF IdleInv, TypeOK
<1> QED BY <1>2, <1>3, <1>4 DEF IdleInv

LEMMA IdleLoopStep ==
  ASSUME IdleInv, TypeOK', AddUserMessage \/ StartTurn \/ LoopStep \/ RequestCancel \/ Abort
  PROVE  IdleInv'
<1>0. /\ events \in Seq(Record) /\ live \in Seq(Message) /\ events' \in Seq(Record)
      /\ live' \in Seq(Message) /\ WellBuilt(events) /\ UserFirst(live)
      /\ InTurn => live # <<>>
  BY DEF IdleInv, TypeOK
<1>1. CASE AddUserMessage
  <2> DEFINE m == UserMsg(turns + 1)
  <2>1. /\ m \in Message /\ m.role = "user"
        /\ Flushed(AppendUnlogged(events, Append(live, m)), "prompted")
        /\ live' = IF pc' = "broken" THEN live ELSE Append(live, m)
        /\ Surface(events) = live /\ ~OpenTurn(events)
    BY <1>1 DEF AddUserMessage, UserMsg, Message, IdleInv, TypeOK, Synced
  <2> HIDE DEF m
  <2>2. /\ Append(live, m) \in Seq(Message) /\ Append(live, m) # <<>>
        /\ UserFirst(Append(live, m))
    BY <1>0, <2>1, AppendedFirst
  <2>3. PICK r \in Record : /\ AppendUnlogged(events, Append(live, m)) = Append(events, r)
                            /\ r.type = RecordType(m)
    BY <1>0, <2>1, UnloggedOne
  <2>4. events' = AppendUnlogged(events, Append(live, m))
    BY <2>1 DEF Flushed
  <2>5. ~OpenTurn(events')
    BY <1>0, <2>1, <2>3, <2>4, OpenAppend DEF RecordType
  <2>6. WellBuilt(events') /\ Surface(events') = Append(live, m)
    BY <1>0, <2>2, <2>4, BuiltUnlogged, SurfaceOfUnlogged
  <2>7. CASE pc' = "prompted"
    <3>1. live' = Append(live, m) /\ durable' = Len(events')
      BY <2>1, <2>7 DEF Flushed
    <3> QED BY <2>2, <2>5, <2>6, <2>7, <3>1 DEF IdleInv
  <2>8. CASE pc' = "broken"
    BY <1>0, <2>1, <2>6, <2>8 DEF IdleInv, InTurn, InStep, Synced
  <2> QED BY <2>1, <2>7, <2>8 DEF Flushed
<1>14. CASE StartTurn
  <2>1. /\ events' = AppendUnlogged(Mark(events, "turn/start"), live) /\ pc' = "entry"
        /\ live' = live /\ live # <<>>
    BY <1>14 DEF StartTurn, Buffered, IdleInv
  <2>2. WellBuilt(Mark(events, "turn/start")) /\ Mark(events, "turn/start") \in Seq(Record)
    BY <1>0, BuiltMark DEF MarkTypes
  <2>3. WellBuilt(events')
    BY <1>0, <2>1, <2>2, BuiltUnlogged
  <2> QED BY <1>0, <2>1, <2>3 DEF IdleInv, Synced
<1>2. ASSUME NEW i \in DOMAIN live, Heal(i) PROVE IdleInv'
  <2>1. PICK e \in 1..Len(live), order \in Seq(Calls) :
          /\ Len(live') = Len(live) + Len(order)
          /\ \A k \in 1..e : live'[k] = live[k]
    BY <1>2, HealParts DEF IdleInv
  <2>2. live'[1] = live[1] /\ Len(live') # 0
    <3>1. 1 \in 1..e /\ Len(order) \in Nat /\ Len(live) \in Nat
      BY <1>0
    <3> QED BY <2>1, <3>1
  <2>3. live' # <<>> /\ UserFirst(live')
    BY <1>0, <2>1, <2>2, EmptySeq DEF UserFirst
  <2>4. pc = "entry" /\ pc' = "entry" /\ events' = events
    BY <1>2 DEF Heal
  <2> QED BY <1>0, <2>3, <2>4 DEF IdleInv, Synced
<1>3. CASE EnterLoop
  <2>1. pc = "entry" /\ pc' = "boundary" /\ UNCHANGED <<events, live>>
    BY <1>3 DEF EnterLoop
  <2> QED BY <1>0, <2>1 DEF IdleInv, Synced, InTurn
<1>4. CASE BeginStep
  <2>1. /\ events' = Mark(AppendUnlogged(events, live), "step/start")
        /\ pc' = "opened" /\ live' = live /\ live # <<>>
    BY <1>0, <1>4 DEF BeginStep, Buffered, InTurn, InStep
  <2> QED BY <1>0, <2>1, MarkedBuilt DEF IdleInv, MarkTypes
<1>5. CASE CommitSurface
  <2>1. /\ events' = AppendUnlogged(events, live)
        /\ pc' \in {"request", "broken"} /\ live' = live /\ live # <<>>
    BY <1>0, <1>5 DEF CommitSurface, Flushed, InTurn, InStep
  <2> QED BY <1>0, <2>1, BuiltUnlogged, SurfaceOfUnlogged DEF IdleInv
<1>6. ASSUME NEW k \in DOMAIN live, Compact(k) PROVE IdleInv'
  <2> DEFINE kept == <<SummaryMsg>> \o SubSeq(live, k, Len(live))
  <2>1. kept \in Seq(Message) /\ kept # <<>> /\ UserFirst(kept)
    <3>1. SubSeq(live, k, Len(live)) \in Seq(Message)
      BY <1>0, LenProperties, PartType
    <3>2. <<SummaryMsg>> \in Seq(Message) /\ SummaryMsg.role = "user"
      BY DEF SummaryMsg, UserMsg, Message
    <3>3. Len(kept) = 1 + Len(SubSeq(live, k, Len(live))) /\ kept[1] = SummaryMsg
          /\ kept \in Seq(Message)
      BY <3>1, <3>2
    <3> HIDE DEF kept
    <3> QED BY <3>1, <3>2, <3>3, EmptySeq DEF UserFirst
  <2> HIDE DEF kept
  <2>2. events' = ReplaceSurface(events, kept) /\ pc' \in {"request", "broken"}
        /\ live' = Surface(events')
    BY <1>6 DEF Compact, Flushed, kept
  <2>3. WellBuilt(events') /\ Surface(events') = kept
    BY <1>0, <2>1, <2>2, BuiltReplace
  <2> QED BY <2>1, <2>2, <2>3 DEF IdleInv
<1>7. CASE SendRequest
  <2>1. /\ events' = Mark(AppendUnlogged(events, live), "request/context")
        /\ pc' \in {"model", "broken"} /\ live' = live /\ live # <<>>
    BY <1>0, <1>7 DEF SendRequest, Flushed, InTurn, InStep
  <2> QED BY <1>0, <2>1, MarkedBuilt DEF IdleInv, MarkTypes
<1>8. ASSUME NEW S \in SUBSET Calls, Respond(S) PROVE IdleInv'
  <2>1. live' = Append(live, AssistantMsg(S)) /\ AssistantMsg(S) \in Message /\ live # <<>>
    BY <1>0, <1>8 DEF Respond, AssistantMsg, Message, InTurn, InStep
  <2>2. live' # <<>> /\ UserFirst(live')
    BY <1>0, <2>1, AppendedFirst
  <2>3. events' = AppendUnlogged(events, live') /\ pc' \in {"answer", "tools", "broken"}
    BY <1>8 DEF Respond, Flushed
  <2> QED BY <1>0, <2>2, <2>3, BuiltUnlogged, SurfaceOfUnlogged DEF IdleInv
<1>9. CASE EndStep
  <2>1. /\ events' = Mark(AppendUnlogged(events, live), "step/end")
        /\ pc' \in {"boundary", "broken"} /\ live' = live /\ live # <<>>
    BY <1>0, <1>9 DEF EndStep, Flushed, InTurn, InStep
  <2> QED BY <1>0, <2>1, MarkedBuilt DEF IdleInv, MarkTypes
<1>10. CASE Done
  BY <1>0, <1>10, IdleEndTurn DEF Done, InTurn
<1>11. CASE StopInStep
  <2>1. live # <<>>
    BY <1>0, <1>11 DEF StopInStep, InTurn, InStep
  <2>2. Cleaned(live) \in Seq(Message) /\ Cleaned(live) # <<>> /\ UserFirst(Cleaned(live))
    BY <1>0, <2>1, CleanedType, CleanedNotEmpty
  <2> QED BY <1>0, <1>11, <2>1, <2>2, IdleEndTurn DEF StopInStep
<1>12. CASE RequestCancel
  BY <1>12 DEF RequestCancel, IdleInv, InTurn, InStep
<1>13. CASE Abort
  BY <1>0, <1>13, IdleEndTurn DEF Abort
<1> QED BY <1>1, <1>2, <1>3, <1>4, <1>5, <1>6, <1>7, <1>8, <1>9, <1>10, <1>11,
           <1>12, <1>13, <1>14 DEF LoopStep

LEMMA IdleToolStep ==
  ASSUME IdleInv, TypeOK', ToolStep
  PROVE  IdleInv'
<1>0. /\ events \in Seq(Record) /\ live \in Seq(Message) /\ events' \in Seq(Record)
      /\ WellBuilt(events) /\ UserFirst(live)
  BY DEF IdleInv, TypeOK
<1>1. CASE FlushCalls
  <2>1. events' = events /\ live' = live /\ pc = "batch" /\ pc' \in {"tools", "broken"}
    BY <1>1 DEF FlushCalls, Flushed
  <2> QED BY <1>0, <2>1 DEF IdleInv, Synced, InTurn, InStep
<1>2. ASSUME NEW c \in Calls, RecordSerial(c) \/ RecordParallel(c) PROVE IdleInv'
  <2>1. /\ events' = Append(events, CallRecord(events, c)) /\ live' = live
        /\ pc \in {"tools", "batch"} /\ pc' \in {"tools", "batch", "broken"}
    BY <1>2 DEF RecordSerial, RecordParallel, Flushed, Buffered
  <2>2. WellBuilt(events') /\ Surface(events') = Surface(events)
    BY <1>0, <2>1, SilentCall, BuiltSilent, SurfaceOfSilent
  <2> QED BY <1>0, <2>1, <2>2 DEF IdleInv, Synced, InTurn, InStep
<1>3. ASSUME NEW c \in Calls, Reject(c) \/ Commit(c) PROVE IdleInv'
  BY <1>3, IdleAnswer DEF Reject, Commit, InTurn, InStep
<1>4. ASSUME NEW c \in Calls, Invoke(c) \/ Skip(c) \/ Return(c) PROVE IdleInv'
  <2>1. UNCHANGED <<events, durable, live, pc>>
    BY <1>4 DEF Invoke, Skip, Return
  <2> QED BY <2>1 DEF IdleInv, InTurn, InStep
<1> QED BY <1>1, <1>2, <1>3, <1>4 DEF ToolStep

LEMMA IdleCrashStep ==
  ASSUME IdleInv, TypeOK', Crash \/ Resume
  PROVE  IdleInv'
<1>0. events \in Seq(Record) /\ WellBuilt(events) /\ events' \in Seq(Record)
      /\ Len(events) \in Nat /\ durable \in Nat
  BY DEF IdleInv, TypeOK
<1>1. CASE Crash
  <2>1. PICK n \in durable..Len(events) : Gone(n)
    BY <1>1 DEF Crash
  <2>2. n \in 0..Len(events) /\ events' = SubSeq(events, 1, n) /\ live' = <<>> /\ pc' = "down"
    BY <1>0, <2>1 DEF Gone
  <2>3. WellBuilt(events')
    BY <1>0, <2>2, BuiltPrefix
  <2> QED BY <2>2, <2>3 DEF IdleInv, UserFirst, InTurn, InStep, Synced
<1>2. CASE Resume
  <2>1. PICK order \in SetToSeqs(PendingCalls(events)) :
          Flushed(PreparedResume(events, order), "idle")
    BY <1>2 DEF Resume
  <2>2. /\ events' = PreparedResume(events, order) /\ live' = Surface(events')
        /\ pc' = "broken" \/ (pc' = "idle" /\ durable' = Len(events'))
    BY <1>2, <2>1 DEF Resume, Flushed
  <2>3. WellBuilt(events') /\ ~OpenTurn(events')
    BY <1>0, <2>2, BuiltResume
  <2>4. UserFirst(live')
    BY <1>0, <2>2, <2>3, RootedSurface DEF WellBuilt
  <2> QED BY <2>2, <2>3, <2>4 DEF IdleInv, InTurn, InStep
<1> QED BY <1>1, <1>2

LEMMA TurnsAreBuiltInit ==
  ASSUME Init PROVE IdleInv
<1>1. TypeOK /\ events = <<>> /\ live = <<>> /\ pc = "idle" /\ durable = 0
  BY TypeInit DEF Init
<1>2. Len(events) = 0 /\ 1..0 = {} /\ DOMAIN events = {}
  BY <1>1
<1> QED BY <1>1, <1>2 DEF IdleInv, WellBuilt, Carried, Rooted, NeverEmptied, UserFirst,
        InTurn, InStep, Surface, OpenTurn

\* The invariant that carries IdleIsDurable, for every kind of crash.
THEOREM TurnsAreBuilt == Spec => []IdleInv
<1>1. Init => IdleInv
  BY TurnsAreBuiltInit
<1>2. IdleInv /\ [Next]_vars => IdleInv'
  <2> SUFFICES ASSUME IdleInv, [Next]_vars PROVE IdleInv'
    OBVIOUS
  <2>1. TypeOK'
    BY TypeStep DEF IdleInv
  <2>2. CASE UNCHANGED vars
    BY <2>2 DEF vars, IdleInv, InTurn, InStep, TypeOK
  <2>3. CASE Next
    BY <2>1, <2>3, IdleLoopStep, IdleToolStep, IdleCrashStep DEF Next
  <2> QED BY <2>2, <2>3
<1> QED BY <1>1, <1>2, PTL DEF Spec

\* Between turns everything is on the disk, no turn is open, and a process that
\* reopens the log goes on from the messages this one has in memory: turn/end
\* is flushed with all that the turn has left (agent.py, finalizer included).
THEOREM IdleIsDurableAlways == Spec => []IdleIsDurable
<1>1. IdleInv => IdleIsDurable
  BY DEF IdleInv, IdleIsDurable, Synced
<1> QED BY <1>1, TurnsAreBuilt, PTL

\* The Surface that the records of the model carry is at all times the one that
\* replay() computes from them, whatever was appended, replaced or cut off.
SurfaceIsReplay == Surface(events) = ReplayedSurface(events)

THEOREM SurfaceIsReplayAlways == Spec => []SurfaceIsReplay
<1>1. IdleInv => SurfaceIsReplay
  BY ReplayedIsCarried DEF IdleInv, TypeOK, WellBuilt, SurfaceIsReplay
<1> QED BY <1>1, TurnsAreBuilt, PTL

-----------------------------------------------------------------------------
(* The calls of a turn.                                                    *)

\* The calls of the current response that have no result yet.
Outstanding == { c \in Calls : stage[c] # "none" }

\* Stages exist only in a tool step; a call has a stage or a record only after
\* the provider has asked for it; every call of the live list is outstanding or
\* answered further down, outstanding ones are at its end, and the log has no
\* others pending.
CallInv ==
  /\ IdleInv
  /\ pc \notin {"tools", "batch", "broken"} => stage = NoStages
  /\ \A c \in Calls : c \in Outstanding \/ EverDispatched(events, c) => c \in asked
  /\ InStep \/ pc = "boundary" => Settled(live, Outstanding)
  /\ pc \in {"tools", "batch"} => \A c \in Outstanding : Awaits(live, c)
  /\ InTurn => PendingCalls(events) \subseteq Outstanding

LEMMA NoneOutstanding ==
  /\ stage = NoStages => Outstanding = {}
  /\ stage' = NoStages => Outstanding' = {}
BY DEF NoStages, Outstanding

LEMMA ClosedDispatches ==
  ASSUME TypeOK, NEW msgs \in Seq(Message), NEW c, EverDispatched(Closed(msgs), c)
  PROVE  EverDispatched(events, c)
<1> DEFINE written == AppendUnlogged(events, msgs)
           step == IF InStep THEN Mark(written, "step/end") ELSE written
<1>1. written \in Seq(Record) /\ (EverDispatched(written, c) => EverDispatched(events, c))
  BY AppendUnloggedContinues, PendingUnlogged DEF Continues, TypeOK
<1> HIDE DEF written
<1>2. step \in Seq(Record) /\ (EverDispatched(step, c) => EverDispatched(events, c))
  BY <1>1, MarkContinues, PendingMark DEF Continues, MarkTypes
<1> HIDE DEF step
<1>3. Closed(msgs) = Mark(step, "turn/end")
  BY DEF Closed, step, written
<1> QED BY <1>2, <1>3, PendingMark DEF MarkTypes

LEMMA CallEndTurn ==
  ASSUME CallInv, IdleInv', NEW msgs \in Seq(Message), EndTurn(msgs)
  PROVE  CallInv'
<1>1. /\ stage' = NoStages /\ events' = Closed(msgs) /\ asked' = asked
      /\ pc' \in {"idle", "broken"}
  BY DEF EndTurn, Flushed
<1>2. \A c : EverDispatched(events', c) => EverDispatched(events, c)
  BY <1>1, ClosedDispatches DEF CallInv, IdleInv
<1> QED BY <1>1, <1>2, NoneOutstanding DEF CallInv, InTurn, InStep

LEMMA CallLoopStep ==
  ASSUME CallInv, IdleInv', AddUserMessage \/ StartTurn \/ LoopStep \/ RequestCancel \/ Abort
  PROVE  CallInv'
<1>0. /\ events \in Seq(Record) /\ live \in Seq(Message) /\ live' \in Seq(Message)
      /\ IdleInv /\ TypeOK
  BY DEF CallInv, IdleInv, TypeOK
<1>1. CASE AddUserMessage
  <2> DEFINE m == UserMsg(turns + 1)
  <2>1. /\ m \in Message /\ m.role = "user" /\ pc \in {"idle", "prompted"}
        /\ events' = AppendUnlogged(events, Append(live, m))
        /\ pc' \in {"prompted", "broken"} /\ UNCHANGED <<stage, asked>>
    BY <1>0, <1>1 DEF AddUserMessage, Flushed, UserMsg, Message, TypeOK
  <2> HIDE DEF m
  <2>2. Append(live, m) \in Seq(Message)
    BY <1>0, <2>1
  <2>3. \A c : EverDispatched(events', c) => EverDispatched(events, c)
    BY <1>0, <2>1, <2>2, PendingUnlogged
  <2> QED BY <2>1, <2>3 DEF CallInv, InStep, InTurn, Outstanding
<1>15. CASE StartTurn
  <2> DEFINE opened == Mark(events, "turn/start")
  <2>1. /\ events' = AppendUnlogged(opened, live) /\ pc' = "entry" /\ pc = "prompted"
        /\ UNCHANGED <<stage, asked>>
    BY <1>15 DEF StartTurn, Buffered
  <2>4. Surface(events) = live
    BY <1>0, <2>1 DEF IdleInv, Synced
  <2>5. "turn/start" \in MarkTypes /\ "turn/start" \in Ends
    BY DEF MarkTypes, Ends
  <2>6. opened \in Seq(Record) /\ Surface(opened) = Surface(events)
    BY <1>0, <2>5, MarkContinues, SurfaceOfMark DEF Continues
  <2>2. /\ PendingCalls(opened) = {}
        /\ \A c : EverDispatched(opened, c) => EverDispatched(events, c)
    BY <1>0, <2>5, PendingEnded, PendingMark
  <2> HIDE DEF opened
  <2>3. events' = opened
    BY <2>1, <2>4, <2>6, UnloggedNothing
  <2> QED BY <2>1, <2>2, <2>3 DEF CallInv, InStep, Outstanding
<1>2. ASSUME NEW i \in DOMAIN live, Heal(i) PROVE CallInv'
  <2>1. UNCHANGED <<events, stage, asked, pc>> /\ pc = "entry"
    BY <1>2 DEF Heal
  <2> QED BY <2>1 DEF CallInv, InStep, InTurn, Outstanding
<1>3. CASE EnterLoop
  <2>1. UNCHANGED <<events, stage, asked, live>> /\ pc = "entry" /\ pc' = "boundary"
    BY <1>3 DEF EnterLoop
  <2>2. Outstanding = {} /\ Outstanding' = {}
    BY <2>1, NoneOutstanding DEF CallInv
  <2>3. Settled(live', {})
    BY <1>0, <1>3, <2>1, SettledHealed DEF EnterLoop
  <2> QED BY <2>1, <2>2, <2>3 DEF CallInv, InTurn, InStep
<1>4. ASSUME stage = NoStages, stage' = stage, asked' = asked,
             Settled(live', {}), PendingCalls(events') = {},
             \A c : EverDispatched(events', c) => EverDispatched(events, c)
      PROVE  CallInv'
  BY <1>0, <1>4, NoneOutstanding DEF CallInv
<1>5. CASE BeginStep
  <2>1. /\ events' = Mark(AppendUnlogged(events, live), "step/start")
        /\ pc \in {"boundary", "answer"} /\ UNCHANGED <<live, stage, asked>>
    BY <1>5 DEF BeginStep, Buffered
  <2>2. stage = NoStages /\ Settled(live, {}) /\ PendingCalls(events) = {}
    BY <2>1, NoneOutstanding DEF CallInv, InTurn, InStep
  <2>3. AppendUnlogged(events, live) \in Seq(Record)
    BY <1>0, AppendUnloggedContinues DEF Continues
  <2>4. PendingCalls(events') = {}
    BY <1>0, <2>1, <2>2, <2>3, PendingUnlogged, PendingMark DEF MarkTypes
  <2>5. \A c : EverDispatched(events', c) => EverDispatched(events, c)
    BY <1>0, <2>1, <2>3, PendingUnlogged, PendingMark DEF MarkTypes
  <2> QED BY <1>4, <2>1, <2>2, <2>4, <2>5
<1>6. CASE CommitSurface
  <2>1. events' = AppendUnlogged(events, live) /\ pc = "opened" /\ UNCHANGED <<live, stage, asked>>
    BY <1>6 DEF CommitSurface, Flushed
  <2>2. /\ stage = NoStages /\ Settled(live, {}) /\ PendingCalls(events) = {}
        /\ Surface(events) = live
    BY <2>1, NoneOutstanding DEF CallInv, InTurn, InStep, IdleInv, Synced
  <2>3. events' = events
    BY <1>0, <2>1, <2>2, UnloggedNothing
  <2> QED BY <1>4, <2>1, <2>2, <2>3
<1>7. ASSUME NEW k \in DOMAIN live, Compact(k) PROVE CallInv'
  <2> DEFINE kept == <<SummaryMsg>> \o SubSeq(live, k, Len(live))
  <2>0. k \in 1..Len(live)
    BY <1>0, LenProperties
  <2>1. kept \in Seq(Message)
    BY <1>0, <2>0, CompactedParts
  <2>2. /\ events' = ReplaceSurface(events, kept) /\ live' = Surface(events')
        /\ pc = "request" /\ UNCHANGED <<stage, asked>>
    BY <1>7 DEF Compact, Flushed
  <2>3. stage = NoStages /\ Settled(live, {}) /\ PendingCalls(events) = {}
    BY <2>2, NoneOutstanding DEF CallInv, InTurn, InStep
  <2>4. Settled(kept, {})
    BY <1>0, <2>0, <2>3, SettledCompacted
  <2>7. kept # <<>> /\ UserFirst(kept)
    <3>1. Len(kept) = Len(live) - k + 2 /\ kept[1] = SummaryMsg /\ SummaryMsg.role = "user"
      BY <1>0, <2>0, CompactedParts DEF SummaryMsg, UserMsg
    <3>2. Len(kept) # 0
      BY <2>0, <3>1
    <3> HIDE DEF kept
    <3> QED BY <2>1, <3>1, <3>2, EmptySeq DEF UserFirst
  <2> HIDE DEF kept
  <2>5. PendingCalls(events') = {} /\ \A c : EverDispatched(events', c) => EverDispatched(events, c)
    BY <1>0, <2>1, <2>2, <2>3, <2>4, PendingReplace
  <2>6. live' = kept
    BY <1>0, <2>1, <2>2, <2>7, BuiltReplace DEF IdleInv
  <2> QED BY <1>4, <2>2, <2>3, <2>4, <2>5, <2>6
<1>8. CASE SendRequest
  <2>1. /\ events' = Mark(AppendUnlogged(events, live), "request/context")
        /\ pc = "request" /\ UNCHANGED <<live, stage, asked>>
    BY <1>8 DEF SendRequest, Flushed
  <2>2. /\ stage = NoStages /\ Settled(live, {}) /\ PendingCalls(events) = {}
        /\ Surface(events) = live
    BY <2>1, NoneOutstanding DEF CallInv, InTurn, InStep, IdleInv, Synced
  <2>3. events' = Mark(events, "request/context")
    BY <1>0, <2>1, <2>2, UnloggedNothing
  <2> QED BY <1>0, <1>4, <2>1, <2>2, <2>3, PendingMark DEF MarkTypes
<1>9. ASSUME NEW S \in SUBSET Calls, Respond(S) PROVE CallInv'
  <2> DEFINE m == AssistantMsg(S)
  <2>1. /\ m \in Message /\ live' = Append(live, m) /\ events' = AppendUnlogged(events, live')
        /\ asked' = asked \cup S /\ pc = "model" /\ S \cap asked = {}
        /\ stage' = [c \in Calls |-> IF c \in S THEN "todo" ELSE "none"]
        /\ pc' \in {IF S = {} THEN "answer" ELSE "tools", "broken"}
    BY <1>9 DEF Respond, Flushed, AssistantMsg, Message
  <2>2. /\ stage = NoStages /\ Settled(live, {}) /\ PendingCalls(events) = {}
        /\ Surface(events) = live
    BY <2>1, NoneOutstanding DEF CallInv, InTurn, InStep, IdleInv, Synced
  <2>3. Outstanding' = S
    BY <2>1 DEF Outstanding
  <2>4. m.calls = S /\ m.role = "assistant" /\ RecordType(m) = "assistant/message"
    BY DEF AssistantMsg, RecordType
  <2>5. \A c \in S : Awaits(live', c)
    BY <1>0, <2>1, AwaitsAsked
  <2> HIDE DEF m
  <2>6. PICK r \in Record : events' = Append(events, r) /\ r.type = RecordType(m) /\ r.msg = m
    BY <1>0, <2>1, <2>2, UnloggedOne
  <2>7. PendingCalls(events') \subseteq S
    BY <1>0, <2>2, <2>4, <2>6, PendingAppend DEF Declares
  <2>8. \A c : EverDispatched(events', c) => EverDispatched(events, c)
    BY <1>0, <2>4, <2>6, StartedAppend DEF Dispatches
  <2>9. Settled(live', S)
    BY <1>0, <2>1, <2>2, <2>4, SettledAppend DEF Asks
  <2>10. S = {} => stage' = NoStages
    BY <2>1 DEF NoStages
  <2> QED BY <2>1, <2>3, <2>5, <2>7, <2>8, <2>9, <2>10 DEF CallInv
<1>10. CASE EndStep
  <2>1. /\ events' = Mark(AppendUnlogged(events, live), "step/end") /\ UNCHANGED <<live, stage, asked>>
        /\ pc \in {"answer", "model", "tools"} /\ (pc = "tools" => stage = NoStages)
    BY <1>10 DEF EndStep, Flushed
  <2>2. stage = NoStages /\ Settled(live, {})
    BY <2>1, NoneOutstanding DEF CallInv, InStep
  <2>3. AppendUnlogged(events, live) \in Seq(Record)
    BY <1>0, AppendUnloggedContinues DEF Continues
  <2>4. PendingCalls(events') = {}
    BY <2>1, <2>3, PendingEnded DEF Ends
  <2>5. \A c : EverDispatched(events', c) => EverDispatched(events, c)
    BY <1>0, <2>1, <2>3, PendingUnlogged, PendingMark DEF MarkTypes
  <2> QED BY <1>4, <2>1, <2>2, <2>4, <2>5
<1>11. CASE Done
  BY <1>0, <1>11, CallEndTurn DEF Done
<1>12. CASE StopInStep
  BY <1>0, <1>12, CleanedType, CallEndTurn DEF StopInStep
<1>13. CASE RequestCancel
  <2>1. UNCHANGED <<events, stage, asked, pc, live>>
    BY <1>13 DEF RequestCancel
  <2> QED BY <2>1 DEF CallInv, InStep, InTurn, Outstanding
<1>14. CASE Abort
  BY <1>0, <1>14, CallEndTurn DEF Abort
<1> QED BY <1>1, <1>2, <1>3, <1>5, <1>6, <1>7, <1>8, <1>9, <1>10, <1>11,
           <1>12, <1>13, <1>14, <1>15 DEF LoopStep

LEMMA CallAnswer ==
  ASSUME CallInv, IdleInv', NEW c \in Calls, Answer(c), pc = "tools", c \in Outstanding
  PROVE  CallInv'
<1> DEFINE m == ToolMsg(c, "answered")
<1>0. events \in Seq(Record) /\ live \in Seq(Message) /\ stage \in [Calls -> Stages]
  BY DEF CallInv, IdleInv, TypeOK
<1>1. /\ m \in Message /\ live' = Append(live, m) /\ events' = AppendUnlogged(events, live')
      /\ stage' = [stage EXCEPT ![c] = "none"] /\ asked' = asked /\ pc' \in {"tools", "broken"}
  BY DEF Answer, Flushed, Buffered, ToolMsg, Message, Results, Reached
<1>2. Surface(events) = live /\ Settled(live, Outstanding)
      /\ PendingCalls(events) \subseteq Outstanding
  BY DEF CallInv, IdleInv, Synced, InStep, InTurn
<1>3. Outstanding' = Outstanding \ {c}
  BY <1>0, <1>1 DEF Outstanding
<1>4. \A d \in Outstanding' : Awaits(live', d)
  <2> SUFFICES ASSUME NEW d \in Outstanding' PROVE Awaits(live', d)
    OBVIOUS
  <2>1. Awaits(live, d) /\ d # c
    BY <1>3 DEF CallInv
  <2> QED BY <1>0, <1>1, <2>1, AwaitsReply DEF Results
<1>5. m.role = "tool" /\ m.call = c /\ RecordType(m) = "tool/result"
  BY DEF ToolMsg, RecordType
<1> HIDE DEF m
<1>6. PICK r \in Record : events' = Append(events, r) /\ r.type = RecordType(m) /\ r.msg = m
  BY <1>0, <1>1, <1>2, UnloggedOne
<1>7. PendingCalls(events') \subseteq Outstanding'
  BY <1>0, <1>2, <1>3, <1>5, <1>6, PendingAppend DEF Declares, Answers
<1>8. \A d : EverDispatched(events', d) => EverDispatched(events, d)
  BY <1>0, <1>5, <1>6, StartedAppend DEF Dispatches
<1>9. Settled(live', Outstanding')
  BY <1>0, <1>1, <1>2, <1>3, <1>5, SettledAppend DEF Asks, Replies
<1> QED BY <1>1, <1>3, <1>4, <1>7, <1>8, <1>9 DEF CallInv

LEMMA CallToolStep ==
  ASSUME CallInv, IdleInv', ToolStep
  PROVE  CallInv'
<1>0. /\ events \in Seq(Record) /\ live \in Seq(Message) /\ stage \in [Calls -> Stages]
      /\ IdleInv /\ TypeOK
  BY DEF CallInv, IdleInv, TypeOK
<1>1. ASSUME UNCHANGED <<events, live, asked>>, Outstanding' = Outstanding,
             pc \in {"tools", "batch"}, pc' \in {"tools", "batch", "broken"}
      PROVE  CallInv'
  BY <1>1 DEF CallInv, InStep, InTurn
<1>2. CASE FlushCalls
  <2>1. /\ UNCHANGED <<events, live, asked>> /\ pc = "batch" /\ pc' \in {"tools", "broken"}
        /\ stage' = [c \in Calls |-> IF stage[c] = "todo" THEN "leftover" ELSE stage[c]]
    BY <1>2 DEF FlushCalls, Flushed
  <2>2. Outstanding' = Outstanding
    BY <1>0, <2>1 DEF Outstanding
  <2> QED BY <1>1, <2>1, <2>2
<1>3. ASSUME NEW c \in Calls, RecordSerial(c) \/ RecordParallel(c) PROVE CallInv'
  <2> DEFINE r == CallRecord(events, c)
  <2>1. /\ events' = Append(events, r) /\ UNCHANGED <<live, asked>>
        /\ pc \in {"tools", "batch"} /\ pc' \in {"tools", "batch", "broken"}
        /\ stage' = [stage EXCEPT ![c] = "ready"] /\ stage[c] = "todo"
    BY <1>3 DEF RecordSerial, RecordParallel, Flushed, Buffered, Reached
  <2>2. Outstanding' = Outstanding /\ c \in Outstanding
    BY <1>0, <2>1 DEF Outstanding
  <2>3. Silent(events, r) /\ r \in Record /\ r.call = c
    BY <1>0, SilentCall, CallRecordType DEF CallRecord
  <2> HIDE DEF r
  <2>4. PendingCalls(events') \subseteq PendingCalls(events)
    BY <1>0, <2>1, <2>3, PendingSilent
  <2>5. \A d : EverDispatched(events', d) => EverDispatched(events, d) \/ d = c
    BY <1>0, <2>1, <2>3, StartedAppend DEF Dispatches
  <2> QED BY <2>1, <2>2, <2>4, <2>5 DEF CallInv, InStep, InTurn
<1>4. ASSUME NEW c \in Calls, Reject(c) \/ Commit(c) PROVE CallInv'
  <2>1. Answer(c) /\ pc = "tools" /\ c \in Outstanding
    BY <1>4 DEF Reject, Commit, Outstanding
  <2> QED BY <2>1, CallAnswer
<1>5. ASSUME NEW c \in Calls, Invoke(c) \/ Skip(c) \/ Return(c) PROVE CallInv'
  <2>1. /\ UNCHANGED <<events, live, asked, pc>> /\ pc = "tools" /\ stage[c] # "none"
        /\ \E s \in {"running", "done"} : stage' = [stage EXCEPT ![c] = s]
    BY <1>5 DEF Invoke, Skip, Return, Reached
  <2>2. Outstanding' = Outstanding
    BY <1>0, <2>1 DEF Outstanding
  <2> QED BY <1>1, <2>1, <2>2
<1> QED BY <1>2, <1>3, <1>4, <1>5 DEF ToolStep

LEMMA CallCrashStep ==
  ASSUME CallInv, IdleInv', Crash \/ Resume
  PROVE  CallInv'
<1>0. events \in Seq(Record) /\ Len(events) \in Nat /\ durable \in Nat /\ IdleInv
  <2>1. IdleInv /\ TypeOK
    BY DEF CallInv, IdleInv
  <2>2. events \in Seq(Record) /\ durable \in 0..Len(events)
    BY <2>1 DEF TypeOK
  <2> QED BY <2>1, <2>2, LenProperties
<1>1. CASE Crash
  <2>1. PICK n \in durable..Len(events) : Gone(n)
    BY <1>1 DEF Crash
  <2>2. /\ n \in 0..Len(events) /\ events' = SubSeq(events, 1, n) /\ pc' = "down"
        /\ stage' = NoStages /\ asked' = asked
    BY <1>0, <2>1 DEF Gone
  <2>3. \A c : EverDispatched(events', c) => EverDispatched(events, c)
    BY <1>0, <2>2, DispatchedPrefix
  <2> QED BY <2>2, <2>3, NoneOutstanding DEF CallInv, InTurn, InStep
<1>2. CASE Resume
  <2>1. PICK order \in SetToSeqs(PendingCalls(events)) :
          Flushed(PreparedResume(events, order), "idle")
    BY <1>2 DEF Resume
  <2>2. /\ events' = PreparedResume(events, order) /\ pc' \in {"idle", "broken"}
        /\ UNCHANGED <<stage, asked>> /\ pc = "down"
    BY <1>2, <2>1 DEF Resume, Flushed
  <2>3. order \in Seq(Calls)
    BY <1>0, BuiltResume DEF IdleInv
  <2>4. \A c : EverDispatched(events', c) => EverDispatched(events, c)
    BY <1>0, <2>2, <2>3, PendingResume
  <2> QED BY <2>2, <2>4 DEF CallInv, InTurn, InStep, Outstanding
<1> QED BY <1>1, <1>2

\* What the log has pending is always what the turn has outstanding, and no
\* call loses its answer: for every kind of crash.
THEOREM CallsAreTracked == Spec => []CallInv
<1>1. Init => CallInv
  <2> SUFFICES ASSUME Init, IdleInv PROVE CallInv
    BY TurnsAreBuiltInit
  <2>1. events = <<>> /\ pc = "idle" /\ stage = NoStages
    BY DEF Init
  <2>2. Len(events) = 0 /\ 1..0 = {}
    BY <2>1
  <2> QED BY <2>1, <2>2, NoneOutstanding DEF CallInv, InTurn, InStep, EverDispatched
<1>2. CallInv /\ IdleInv' /\ [Next]_vars => CallInv'
  <2> SUFFICES ASSUME CallInv, IdleInv', [Next]_vars PROVE CallInv'
    OBVIOUS
  <2>1. CASE UNCHANGED vars
    BY <2>1 DEF vars, CallInv, InTurn, InStep, Outstanding
  <2>2. CASE Next
    BY <2>2, CallLoopStep, CallToolStep, CallCrashStep DEF Next
  <2> QED BY <2>1, <2>2
<1> QED BY <1>1, <1>2, TurnsAreBuilt, PTL DEF Spec

-----------------------------------------------------------------------------
(* What a crash between two writes of a handler leaves to the repair.      *)

\* A call that was asked for and never got as far as a record of its dispatch.
HonestCall(c) ==
  /\ c \in asked /\ c \notin invoked
  /\ stage[c] = "none" /\ ~EverDispatched(events, c)

\* Messages that ask only for calls whose ids are used up, and that say "not
\* started" only of calls that were not.
Good ==
  { m \in Message :
      /\ m.role = "assistant" => m.calls \subseteq asked
      /\ m.role = "tool" => (m.result = "not_started" => HonestCall(m.call)) }

\* The live list and every Surface of the log are orderly and made of good
\* messages, and the log may end where it ends now.
SoundInv ==
  /\ live \in SoundLists(Good)
  /\ ShowsOnly(events, SoundLists(Good))
  /\ CutsWell(events)

\* What makes HonestNotStarted and RequestWellFormed inductive, when a crash
\* does not tear what one handler has written: the log may also end where it
\* was last flushed.
CutInv ==
  /\ TornWrites = FALSE
  /\ CallInv /\ IInv /\ SoundInv
  /\ CutsWell(DurableLog)
  /\ pc = "model" => durable = Len(events)

\* A record of a dispatch is new only for a call that was still to be done.
LEMMA NewDispatch ==
  ASSUME CallInv, [Next]_vars, NEW c, EverDispatched(events', c)
  PROVE  EverDispatched(events, c) \/ (c \in Calls /\ stage[c] = "todo")
<1>0. /\ events \in Seq(Record) /\ live \in Seq(Message) /\ live' \in Seq(Message)
      /\ TypeOK /\ Len(events) \in Nat /\ durable \in Nat
  <2>1. TypeOK /\ TypeOK'
    BY TypeStep DEF CallInv, IdleInv
  <2>2. events \in Seq(Record) /\ live \in Seq(Message) /\ durable \in 0..Len(events)
    BY <2>1 DEF TypeOK
  <2>3. live' \in Seq(Message)
    BY <2>1 DEF TypeOK
  <2> QED BY <2>1, <2>2, <2>3, LenProperties
<1>1. ASSUME NEW msgs \in Seq(Message), EndTurn(msgs) PROVE EverDispatched(events, c)
  BY <1>0, <1>1, ClosedDispatches DEF EndTurn, Flushed
<1>2. ASSUME events' = events PROVE EverDispatched(events, c)
  BY <1>2
<1>3. ASSUME NEW log \in Seq(Record), NEW type \in MarkTypes, NEW msgs \in Seq(Message),
             \/ log = events
             \/ \E t \in MarkTypes : log = Mark(events, t),
             \/ events' = Mark(AppendUnlogged(log, msgs), type)
             \/ events' = AppendUnlogged(log, msgs)
             \/ events' = ReplaceSurface(log, msgs)
      PROVE  EverDispatched(events, c)
  <2>1. AppendUnlogged(log, msgs) \in Seq(Record)
    BY <1>3, AppendUnloggedContinues DEF Continues
  <2>2. EverDispatched(log, c)
    BY <1>3, <2>1, PendingMark, PendingUnlogged, PendingReplace
  <2> QED BY <1>0, <1>3, <2>2, PendingMark
<1>4. CASE AddUserMessage \/ StartTurn
  <2>1. Append(live, UserMsg(turns + 1)) \in Seq(Message)
    BY <1>0, <1>4, LiveAppend DEF AddUserMessage, StartTurn, UserMsg, Message, TypeOK
  <2>2. Mark(events, "turn/start") \in Seq(Record)
    BY <1>0, MarkContinues DEF Continues, MarkTypes
  <2>3. \/ events' = AppendUnlogged(events, Append(live, UserMsg(turns + 1)))
        \/ events' = AppendUnlogged(Mark(events, "turn/start"), live)
    BY <1>4 DEF AddUserMessage, StartTurn, Flushed, Buffered
  <2> QED BY <1>0, <1>3, <2>1, <2>2, <2>3 DEF MarkTypes
<1>5. CASE BeginStep \/ SendRequest \/ EndStep
  <2>1. \E type \in MarkTypes : events' = Mark(AppendUnlogged(events, live), type)
    BY <1>5 DEF BeginStep, SendRequest, EndStep, Buffered, Flushed, MarkTypes
  <2> QED BY <1>0, <1>3, <2>1
<1>6. CASE CommitSurface \/ \E S \in SUBSET Calls : Respond(S)
  <2>1. events' = AppendUnlogged(events, live')
    BY <1>6 DEF CommitSurface, Respond, Flushed
  <2>2. "turn/end" \in MarkTypes
    BY DEF MarkTypes
  <2> QED BY <1>0, <1>3, <2>1, <2>2
<1>7. ASSUME NEW k \in DOMAIN live, Compact(k) PROVE EverDispatched(events, c)
  <2>1. <<SummaryMsg>> \o SubSeq(live, k, Len(live)) \in Seq(Message)
    <3>1. k \in 1..Len(live)
      BY <1>0, LenProperties
    <3> QED BY <1>0, <3>1, CompactedParts
  <2>2. "turn/end" \in MarkTypes
    BY DEF MarkTypes
  <2>3. events' = ReplaceSurface(events, <<SummaryMsg>> \o SubSeq(live, k, Len(live)))
    BY <1>7 DEF Compact, Flushed
  <2> QED BY <1>0, <1>3, <2>1, <2>2, <2>3
<1>8. ASSUME NEW d \in Calls, Reject(d) \/ Commit(d) PROVE EverDispatched(events, c)
  <2>1. events' = AppendUnlogged(events, live')
    BY <1>8 DEF Reject, Commit, Answer, Flushed, Buffered
  <2>2. "turn/end" \in MarkTypes
    BY DEF MarkTypes
  <2> QED BY <1>0, <1>3, <2>1, <2>2
<1>9. ASSUME NEW d \in Calls, RecordSerial(d) \/ RecordParallel(d)
      PROVE  EverDispatched(events, c) \/ (c \in Calls /\ stage[c] = "todo")
  <2>1. events' = Append(events, CallRecord(events, d)) /\ stage[d] = "todo"
    BY <1>9 DEF RecordSerial, RecordParallel, Flushed, Buffered
  <2>2. CallRecord(events, d) \in Record
    BY <1>0, CallRecordType
  <2>3. EverDispatched(events, c) \/ Dispatches(CallRecord(events, d), c)
    BY <1>0, <2>1, <2>2, StartedAppend
  <2> QED BY <2>1, <2>3 DEF Dispatches, CallRecord
<1>10. CASE Done \/ StopInStep \/ Abort
  <2>1. Cleaned(live) \in Seq(Message)
    BY <1>0, CleanedType
  <2> QED BY <1>0, <1>1, <1>10, <2>1 DEF Done, StopInStep, Abort
<1>11. CASE Crash
  <2>1. PICK n \in durable..Len(events) : Gone(n)
    BY <1>11 DEF Crash
  <2>2. n \in 0..Len(events) /\ events' = SubSeq(events, 1, n)
    BY <1>0, <2>1 DEF Gone
  <2> QED BY <1>0, <2>2, DispatchedPrefix
<1>12. CASE Resume
  <2>1. PICK order \in SetToSeqs(PendingCalls(events)) :
          Flushed(PreparedResume(events, order), "idle")
    BY <1>12 DEF Resume
  <2>2. events' = PreparedResume(events, order) /\ order \in Seq(Calls)
    BY <1>0, <2>1, BuiltResume DEF Flushed, CallInv, IdleInv
  <2> QED BY <1>0, <2>2, PendingResume
<1>13. CASE UNCHANGED vars \/ RequestCancel \/ EnterLoop \/ FlushCalls
            \/ (\E i \in DOMAIN live : Heal(i))
            \/ \E d \in Calls : Invoke(d) \/ Skip(d) \/ Return(d)
  BY <1>2, <1>13 DEF vars, RequestCancel, EnterLoop, FlushCalls, Flushed, Heal, Invoke,
     Skip, Return
<1> QED BY <1>4, <1>5, <1>6, <1>7, <1>8, <1>9, <1>10, <1>11, <1>12, <1>13
        DEF Next, LoopStep, ToolStep

\* A call once known not to be started is never started.
LEMMA HonestKept ==
  ASSUME CallInv, [Next]_vars, NEW c \in Calls, HonestCall(c)
  PROVE  HonestCall(c)'
<1>0. stage \in [Calls -> Stages] /\ stage[c] = "none" /\ c \in asked
  BY DEF CallInv, IdleInv, TypeOK, HonestCall
<1>1. ~EverDispatched(events', c)
  BY <1>0, NewDispatch DEF HonestCall
<1>2. c \notin invoked'
  <2> SUFFICES ASSUME c \in invoked' PROVE FALSE
    OBVIOUS
  <2>1. PICK d \in Calls : Invoke(d) /\ invoked' = invoked \cup {d}
    BY InvokedBy DEF HonestCall
  <2>2. c = d
    BY <2>1 DEF HonestCall
  <2> QED BY <1>0, <2>1, <2>2 DEF Invoke
<1>3. c \in asked' /\ stage'[c] = "none"
  <2>1. CASE UNCHANGED <<asked, stage>>
    BY <1>0, <2>1
  <2>2. CASE asked' = asked /\ stage' = NoStages
    BY <1>0, <2>2 DEF NoStages
  <2>3. ASSUME NEW S \in SUBSET Calls, Respond(S) PROVE c \in asked' /\ stage'[c] = "none"
    BY <1>0, <2>3 DEF Respond
  <2>4. ASSUME NEW d \in Calls, asked' = asked, stage[d] # "none",
               \E s \in Stages : stage' = [stage EXCEPT ![d] = s]
        PROVE  c \in asked' /\ stage'[c] = "none"
    BY <1>0, <2>4
  <2>5. CASE FlushCalls
    BY <1>0, <2>5 DEF FlushCalls
  <2>6. ASSUME NEW d \in Calls,
               \/ RecordSerial(d) \/ RecordParallel(d) \/ Reject(d)
               \/ Invoke(d) \/ Skip(d) \/ Return(d) \/ Commit(d)
        PROVE  c \in asked' /\ stage'[c] = "none"
    <3>1. asked' = asked /\ stage[d] # "none"
      BY <2>6 DEF RecordSerial, RecordParallel, Reject, Invoke, Skip, Return, Commit, Answer
    <3>2. \E s \in Stages : stage' = [stage EXCEPT ![d] = s]
      BY <2>6 DEF RecordSerial, RecordParallel, Reject, Invoke, Skip, Return, Commit,
         Answer, Reached, Stages
    <3> QED BY <2>4, <3>1, <3>2
  <2>7. CASE Done \/ StopInStep \/ Abort \/ Crash
    <3>1. asked' = asked /\ stage' = NoStages
      BY <2>7 DEF Done, StopInStep, Abort, EndTurn, Crash, Gone
    <3> QED BY <2>2, <3>1
  <2>8. CASE \/ UNCHANGED vars \/ AddUserMessage \/ StartTurn \/ EnterLoop \/ BeginStep \/ CommitSurface
             \/ SendRequest \/ EndStep \/ RequestCancel \/ Resume
             \/ \E i \in DOMAIN live : Heal(i) \/ Compact(i)
    <3>1. UNCHANGED <<asked, stage>>
      BY <2>8 DEF vars, AddUserMessage, StartTurn, EnterLoop, BeginStep, CommitSurface,
         SendRequest, EndStep,
         RequestCancel, Resume, Heal, Compact
    <3> QED BY <2>1, <3>1
  <2> QED BY <2>3, <2>5, <2>6, <2>7, <2>8 DEF Next, LoopStep, ToolStep
<1> QED BY <1>1, <1>2, <1>3 DEF HonestCall

LEMMA GoodGrows ==
  ASSUME CallInv, [Next]_vars
  PROVE  Good \subseteq Good'
<1>1. asked \subseteq asked'
  <2>1. CASE \E S \in SUBSET Calls : Respond(S)
    BY <2>1 DEF Respond
  <2>2. CASE ~\E S \in SUBSET Calls : Respond(S)
    BY <2>2 DEF Next, vars, LoopStep, ToolStep, AddUserMessage, StartTurn, EnterLoop, BeginStep,
       CommitSurface, SendRequest, EndStep, Done, StopInStep, EndTurn, Heal, Compact,
       FlushCalls, RecordSerial, RecordParallel, Reject, Invoke, Skip, Return, Commit,
       Answer, RequestCancel, Abort, Crash, Gone, Resume
  <2> QED BY <2>1, <2>2
<1>2. SUFFICES ASSUME NEW m \in Good PROVE m \in Good'
  OBVIOUS
<1>3. m \in Message /\ (m.role = "assistant" => m.calls \subseteq asked')
  BY <1>1 DEF Good
<1>4. ASSUME m.role = "tool", m.result = "not_started" PROVE HonestCall(m.call)'
  <2>1. m.call \in Calls /\ HonestCall(m.call)
    BY <1>3, <1>4, MessageTypeOf DEF Good
  <2> QED BY <2>1, HonestKept
<1> QED BY <1>3, <1>4 DEF Good

LEMMA SoundKept ==
  ASSUME CallInv, SoundInv, [Next]_vars
  PROVE  /\ live \in SoundLists(Good')
         /\ ShowsOnly(events, SoundLists(Good'))
<1>1. SoundLists(Good) \subseteq SoundLists(Good')
  BY GoodGrows, SoundMonotone
<1>2. ShowsOnly(events, SoundLists(Good'))
  BY <1>1, ShowsMonotone DEF SoundInv
<1> QED BY <1>1, <1>2 DEF SoundInv

LEMMA CutsEnded ==
  ASSUME NEW log \in Seq(Record), NEW type \in Ends
  PROVE  CutsWell(Mark(log, type))
BY PendingEnded DEF CutsWell

\* A list that is written, with or without a mark behind it.
LEMMA ShowsMarked ==
  ASSUME NEW log \in Seq(Record), NEW G, ShowsOnly(log, SoundLists(G)),
         NEW msgs \in SoundLists(G), NEW type \in MarkTypes
  PROVE  /\ AppendUnlogged(log, msgs) \in Seq(Record)
         /\ ShowsOnly(Mark(AppendUnlogged(log, msgs), type), SoundLists(G))
<1>1. AppendUnlogged(log, msgs) \in Seq(Record)
  BY AppendUnloggedContinues DEF Continues, SoundLists
<1>2. ShowsOnly(AppendUnlogged(log, msgs), SoundLists(G))
  BY ShowsUnlogged
<1> QED BY <1>1, <1>2, ShowsMark, SoundEmpty

LEMMA SoundEndTurn ==
  ASSUME CallInv, SoundInv, [Next]_vars, NEW msgs \in SoundLists(Good'), EndTurn(msgs)
  PROVE  SoundInv'
<1> DEFINE written == AppendUnlogged(events, msgs)
           step == IF InStep THEN Mark(written, "step/end") ELSE written
<1>0. events \in Seq(Record)
  BY DEF CallInv, IdleInv, TypeOK
<1>1. /\ written \in Seq(Record) /\ ShowsOnly(written, SoundLists(Good'))
      /\ ShowsOnly(Mark(written, "step/end"), SoundLists(Good'))
  BY <1>0, SoundKept, ShowsMarked, ShowsUnlogged DEF MarkTypes
<1> HIDE DEF written
<1>2. step \in Seq(Record) /\ ShowsOnly(step, SoundLists(Good'))
  BY <1>1, MarkContinues DEF Continues, MarkTypes
<1> HIDE DEF step
<1>3. /\ ShowsOnly(Mark(step, "turn/end"), SoundLists(Good'))
      /\ CutsWell(Mark(step, "turn/end"))
  BY <1>2, ShowsMark, SoundEmpty, CutsEnded DEF MarkTypes, Ends
<1>4. live' = msgs /\ events' = Mark(step, "turn/end")
  BY DEF EndTurn, Flushed, Closed, step, written
<1> QED BY <1>3, <1>4 DEF SoundInv

\* A step that leaves a list which is already on the Surface.
LEMMA SoundSame ==
  ASSUME CallInv, SoundInv, [Next]_vars, events' = events, live' \in SoundLists(Good')
  PROVE  SoundInv'
BY SoundKept DEF SoundInv

LEMMA CutsNothing ==
  ASSUME CallInv', stage' = NoStages, InTurn'
  PROVE  CutsWell(events')
<1>1. PendingCalls(events') = {}
  BY NoneOutstanding DEF CallInv
<1> QED BY <1>1 DEF CutsWell

LEMMA AppendedNotEmpty ==
  ASSUME NEW msgs \in Seq(Message), NEW m \in Message
  PROVE  Append(msgs, m) # <<>>
<1>1. Len(Append(msgs, m)) = Len(msgs) + 1 /\ Len(msgs) \in Nat
  BY AppendParts
<1>2. Len(Append(msgs, m)) # 0
  BY <1>1
<1> QED BY <1>2, EmptySeq

LEMMA SoundLoopStep ==
  ASSUME CallInv, SoundInv, CallInv', [Next]_vars,
         AddUserMessage \/ StartTurn \/ LoopStep \/ RequestCancel \/ Abort
  PROVE  SoundInv'
<1>0. /\ events \in Seq(Record) /\ live \in Seq(Message) /\ live' \in Seq(Message)
      /\ IdleInv /\ TypeOK /\ Len(live) \in Nat
      /\ pc' \notin {"tools", "batch", "broken"} => stage' = NoStages
  <2>1. TypeOK /\ TypeOK' /\ IdleInv
    BY DEF CallInv, IdleInv
  <2>2. events \in Seq(Record) /\ live \in Seq(Message)
    BY <2>1 DEF TypeOK
  <2>3. live' \in Seq(Message)
    BY <2>1 DEF TypeOK
  <2>4. pc' \notin {"tools", "batch", "broken"} => stage' = NoStages
    BY DEF CallInv
  <2> QED BY <2>1, <2>2, <2>3, <2>4, LenProperties
<1>1. /\ live \in SoundLists(Good') /\ ShowsOnly(events, SoundLists(Good'))
      /\ Orderly(live) /\ CutsWell(events)
  BY SoundKept DEF SoundInv, SoundLists
<1>2. CASE AddUserMessage
  <2> DEFINE m == UserMsg(turns + 1)
  <2>1. /\ m \in Message /\ m.role = "user" /\ live' \in {live, Append(live, m)}
        /\ events' = AppendUnlogged(events, Append(live, m))
        /\ Surface(events) = live /\ ~OpenTurn(events)
    BY <1>0, <1>2 DEF AddUserMessage, Flushed, UserMsg, Message, TypeOK, IdleInv, Synced
  <2> HIDE DEF m
  <2>2. m \in Good'
    BY <2>1 DEF Good
  <2>3. Append(live, m) \in SoundLists(Good')
    BY <1>0, <1>1, <2>1, <2>2, OrderlyAppend, SoundAppend
  <2>4. ShowsOnly(events', SoundLists(Good'))
    BY <1>0, <1>1, <2>1, <2>3, ShowsUnlogged
  <2>5. PICK r \in Record : events' = Append(events, r) /\ r.type = RecordType(m)
    BY <1>0, <2>1, UnloggedOne
  <2>6. CutsWell(events')
    BY <1>0, <2>1, <2>5, OpenAppend DEF RecordType, CutsWell
  <2> QED BY <1>1, <2>1, <2>3, <2>4, <2>6 DEF SoundInv
<1>13. CASE StartTurn
  <2> DEFINE opened == Mark(events, "turn/start")
  <2>1. events' = AppendUnlogged(opened, live) /\ pc' = "entry" /\ live' = live
    BY <1>13 DEF StartTurn, Buffered
  <2>2. opened \in Seq(Record) /\ ShowsOnly(opened, SoundLists(Good'))
    BY <1>0, <1>1, MarkContinues, ShowsMark, SoundEmpty DEF Continues, MarkTypes
  <2> HIDE DEF opened
  <2>3. ShowsOnly(events', SoundLists(Good'))
    BY <1>1, <2>1, <2>2, ShowsUnlogged
  <2>4. CutsWell(events')
    BY <1>0, <2>1, CutsNothing DEF InTurn
  <2> QED BY <1>1, <2>1, <2>3, <2>4 DEF SoundInv
<1>3. ASSUME NEW i \in DOMAIN live, Heal(i) PROVE SoundInv'
  <2>1. PICK e \in 1..Len(live), order \in Seq(Calls) :
          /\ Dangling(live, i, e)
          /\ order \in SetToSeqs(live[i].calls \ AnsweredIn(live, i, e))
          /\ live' \in Seq(Message) /\ Len(live') = Len(live) + Len(order)
          /\ \A k \in 1..e : live'[k] = live[k]
          /\ \A k \in 1..Len(order) : live'[e + k] = ToolMsg(order[k], "interrupted")
          /\ \A k \in e + 1..Len(live) : live'[k + Len(order)] = live[k]
    BY <1>0, <1>3, HealParts
  <2> DEFINE S == live[i].calls \ AnsweredIn(live, i, e)
  <2>2. /\ i \in 1..e /\ ~IsTool(live, e + 1) /\ e \in 0..Len(live)
        /\ live[i].role = "assistant" /\ live[i].calls \in SUBSET Calls
        /\ \A j \in i + 1..e : live[j].role = "tool"
    <3>1. i \in 1..Len(live) /\ i <= e /\ live[i] \in Message
      BY <1>0, <2>1, LenProperties, ElementOfSeq DEF Dangling, IsGroupEnd
    <3>2. \A j \in i + 1..e : live[j].role = "tool"
      BY <2>1 DEF Dangling, IsGroupEnd, IsTool
    <3>3. ~IsTool(live, e + 1) /\ live[i].role = "assistant"
      BY <2>1 DEF Dangling, IsGroupEnd, IsAsking
    <3> QED BY <1>0, <3>1, <3>2, <3>3, MessageTypeOf
  <2>3. /\ order \in Seq(S) /\ Len(order) \in Nat
        /\ \A j, k \in 1..Len(order) : order[j] = order[k] => j = k
    <3>1. S \in SUBSET Calls
      BY <2>2
    <3> HIDE DEF S
    <3>2. IsFiniteSet(S) /\ order \in SetToSeqs(S)
      BY <2>1, <3>1, SubsetIsFinite DEF S
    <3>3. order \in Seq(S) /\ Cardinality(S) \in Nat
      BY <3>2, OrderType, FS_CardinalityType
    <3>4. Len(order) = Cardinality(S)
      BY <3>2, <3>3 DEF SetToSeqs
    <3> QED BY <3>2, <3>3, <3>4 DEF SetToSeqs
  <2>4. \A k \in 1..Len(order) : \E a \in 1..e :
          /\ Asks(live[a], order[k])
          /\ \A j \in a + 1..e : live[j].role = "tool" /\ live[j].call # order[k]
    <3> TAKE k \in 1..Len(order)
    <3>1. order[k] \in S
      BY <2>3, ElementOfSeq
    <3>2. Asks(live[i], order[k]) /\ \A j \in i + 1..e : live[j].call # order[k]
      BY <2>2, <3>1 DEF Asks, AnsweredIn
    <3> QED BY <2>2, <3>2
  <2>5. \A k \in 1..Len(order) : /\ order[k] \in Calls /\ live'[e + k] \in Good'
                                 /\ live'[e + k].role = "tool" /\ live'[e + k].call = order[k]
    <3> TAKE k \in 1..Len(order)
    <3>1. order[k] \in Calls /\ live'[e + k] = ToolMsg(order[k], "interrupted")
      BY <2>1, ElementOfSeq
    <3>2. ToolMsg(order[k], "interrupted") \in Good'
      BY <3>1 DEF Good, ToolMsg, Message, Results
    <3> QED BY <3>1, <3>2 DEF ToolMsg
  <2> HIDE DEF S
  <2>6. Orderly(live')
    <3>1. \A k \in 1..Len(order) : live'[e + k].role = "tool" /\ live'[e + k].call = order[k]
      BY <2>5
    <3>2. /\ live' \in Seq(Message) /\ Len(live') = Len(live) + Len(order)
          /\ \A k \in 1..e : live'[k] = live[k]
          /\ \A k \in e + 1..Len(live) : live'[k + Len(order)] = live[k]
      BY <2>1
    <3>3. /\ live \in Seq(Message) /\ Orderly(live) /\ e \in 0..Len(live)
          /\ ~IsTool(live, e + 1) /\ order \in Seq(Calls)
      BY <1>0, <1>1, <2>2
    <3> QED BY <2>3, <2>4, <3>1, <3>2, <3>3, OrderlyInsert
  <2>7. \A p \in 1..Len(live') : live'[p] \in Good'
    <3> TAKE p \in 1..Len(live')
    <3>0. \A q \in 1..Len(live) : live[q] \in Good'
      BY <1>1 DEF SoundLists
    <3>1. CASE p <= e
      <4>1. p \in 1..e /\ p \in 1..Len(live)
        BY <1>0, <3>1
      <4> QED BY <2>1, <3>0, <4>1
    <3>2. CASE p > e /\ p <= e + Len(order)
      <4>1. p - e \in 1..Len(order) /\ e + (p - e) = p
        BY <2>3, <3>2
      <4> QED BY <2>5, <4>1
    <3>3. CASE p > e + Len(order)
      <4>1. PICK q \in e + 1..Len(live) : q = p - Len(order)
        <5>1. p - Len(order) \in e + 1..Len(live)
          BY <1>0, <2>1, <2>3, <3>3
        <5> QED BY <5>1
      <4>2. q + Len(order) = p /\ q \in 1..Len(live)
        BY <2>3, <4>1
      <4>3. live'[q + Len(order)] = live[q]
        BY <2>1
      <4> QED BY <3>0, <4>2, <4>3
    <3> QED BY <2>3, <3>1, <3>2, <3>3
  <2>8. live' \in SoundLists(Good') /\ events' = events
    BY <1>0, <1>3, <2>6, <2>7 DEF SoundLists, Heal
  <2> QED BY <2>8, SoundSame
<1>4. CASE EnterLoop \/ RequestCancel
  <2>1. UNCHANGED <<events, live>>
    BY <1>4 DEF EnterLoop, RequestCancel
  <2> QED BY <1>1, <2>1, SoundSame
<1>5. CASE BeginStep
  <2>1. /\ events' = Mark(AppendUnlogged(events, live), "step/start")
        /\ pc' = "opened" /\ live' = live
    BY <1>5 DEF BeginStep, Buffered
  <2>2. ShowsOnly(events', SoundLists(Good'))
    BY <1>0, <1>1, <2>1, ShowsMarked DEF MarkTypes
  <2>3. CutsWell(events')
    BY <1>0, <2>1, CutsNothing DEF InTurn, InStep
  <2> QED BY <1>1, <2>1, <2>2, <2>3 DEF SoundInv
<1>6. CASE CommitSurface
  <2>1. events' = AppendUnlogged(events, live) /\ Surface(events) = live /\ live' = live
    BY <1>0, <1>6 DEF CommitSurface, Flushed, IdleInv, Synced
  <2>2. events' = events
    BY <1>0, <2>1, UnloggedNothing
  <2> QED BY <1>1, <2>1, <2>2, SoundSame
<1>7. ASSUME NEW k \in DOMAIN live, Compact(k) PROVE SoundInv'
  <2> DEFINE kept == <<SummaryMsg>> \o SubSeq(live, k, Len(live))
  <2>0. k \in 1..Len(live)
    BY <1>0, LenProperties
  <2>1. /\ kept \in Seq(Message) /\ Len(kept) = Len(live) - k + 2
        /\ kept[1] = SummaryMsg /\ \A i \in 2..Len(kept) : kept[i] = live[i + k - 2]
    BY <1>0, <2>0, CompactedParts
  <2>2. /\ events' = ReplaceSurface(events, kept) /\ live' = Surface(events')
        /\ pc = "request" /\ ~IsTool(live, k)
    BY <1>7 DEF Compact, Flushed
  <2>3. Orderly(kept)
    BY <1>0, <1>1, <2>0, <2>2, OrderlyCompacted
  <2>4. Settled(kept, {}) /\ PendingCalls(events) = {}
    <3>1. Settled(live, {}) /\ PendingCalls(events) = {}
      BY <2>2, NoneOutstanding DEF CallInv, InTurn, InStep
    <3> QED BY <1>0, <2>0, <3>1, SettledCompacted
  <2>5. SummaryMsg \in Good' /\ SummaryMsg.role = "user"
    BY DEF Good, SummaryMsg, UserMsg, Message
  <2> HIDE DEF kept
  <2>6. kept \in SoundLists(Good')
    <3>1. \A i \in 1..Len(kept) : kept[i] \in Good'
      <4> TAKE i \in 1..Len(kept)
      <4>1. CASE i = 1
        BY <2>1, <2>5, <4>1
      <4>2. CASE i # 1
        <5>1. i \in 2..Len(kept) /\ i + k - 2 \in 1..Len(live)
          BY <1>0, <2>0, <2>1, <4>2
        <5> QED BY <1>1, <2>1, <5>1 DEF SoundLists
      <4> QED BY <4>1, <4>2
    <3> QED BY <2>1, <2>3, <3>1 DEF SoundLists
  <2>7. kept # <<>> /\ UserFirst(kept)
    <3>1. Len(kept) # 0
      BY <2>0, <2>1
    <3> QED BY <2>1, <2>5, <3>1, EmptySeq DEF UserFirst
  <2>8. ShowsOnly(events', SoundLists(Good'))
    BY <1>0, <1>1, <2>2, <2>6, ShowsUnlogged
  <2>9. live' = kept
    BY <1>0, <2>1, <2>2, <2>7, BuiltReplace DEF IdleInv
  <2>10. PendingCalls(events') = {}
    BY <1>0, <2>1, <2>2, <2>4, PendingReplace
  <2> QED BY <2>6, <2>8, <2>9, <2>10 DEF SoundInv, CutsWell
<1>8. CASE SendRequest
  <2>1. /\ events' = Mark(AppendUnlogged(events, live), "request/context")
        /\ Surface(events) = live /\ live' = live
    BY <1>0, <1>8 DEF SendRequest, Flushed, IdleInv, Synced
  <2>2. events' = Mark(events, "request/context")
    BY <1>0, <2>1, UnloggedNothing
  <2> QED BY <1>0, <1>1, <2>1, <2>2, ShowsMark, SoundEmpty, CutsMark DEF MarkTypes, SoundInv
<1>9. ASSUME NEW S \in SUBSET Calls, Respond(S) PROVE SoundInv'
  <2> DEFINE m == AssistantMsg(S)
  <2>1. /\ m \in Message /\ m.role = "assistant" /\ m.calls = S
        /\ RecordType(m) = "assistant/message"
        /\ live' = Append(live, m) /\ events' = AppendUnlogged(events, live')
        /\ asked' = asked \cup S /\ S \cap asked = {} /\ pc = "model"
    BY <1>9 DEF Respond, Flushed, AssistantMsg, Message, RecordType
  <2>2. Surface(events) = live /\ PendingCalls(events) = {}
    BY <2>1, NoneOutstanding DEF CallInv, IdleInv, Synced, InTurn, InStep
  <2>3. \A c \in S : Awaits(live', c)
    BY <1>0, <2>1, AwaitsAsked
  <2> HIDE DEF m
  <2>4. m \in Good'
    BY <2>1 DEF Good
  <2>5. \A i \in 1..Len(live), c \in Calls : ~(Asks(live[i], c) /\ Asks(m, c))
    <3> TAKE i \in 1..Len(live), c \in Calls
    <3>1. Asks(live[i], c) => c \in asked
      BY DEF SoundInv, SoundLists, Good, Asks
    <3> QED BY <2>1, <3>1 DEF Asks
  <2>6. live' \in SoundLists(Good')
    BY <1>0, <1>1, <2>1, <2>4, <2>5, OrderlyAppend, SoundAppend
  <2>7. ShowsOnly(events', SoundLists(Good'))
    BY <1>0, <1>1, <2>1, <2>6, ShowsUnlogged
  <2>8. PICK r \in Record : /\ events' = Append(events, r) /\ r.type = RecordType(m)
                            /\ r.msg = m /\ r.surface = live'
    BY <1>0, <2>1, <2>2, UnloggedOne
  <2>9. Surface(events') = live'
    <3>1. live' # <<>>
      BY <1>0, <2>1, AppendedNotEmpty
    <3> QED BY <1>0, <2>1, <3>1, SurfaceOfUnlogged
  <2>10. CutsWell(events')
    <3> SUFFICES ASSUME NEW c \in PendingCalls(events')
                 PROVE  Awaits(live', c) /\ ~EverDispatched(events', c)
      BY <2>9 DEF CutsWell
    <3>1. c \in S
      BY <1>0, <2>1, <2>2, <2>8, PendingAppend DEF Declares
    <3>2. ~EverDispatched(events, c)
      BY <2>1, <3>1 DEF CallInv
    <3>3. ~EverDispatched(events', c)
      BY <1>0, <2>1, <2>8, <3>2, StartedAppend DEF Dispatches
    <3> QED BY <2>3, <3>1, <3>3
  <2> QED BY <2>6, <2>7, <2>10 DEF SoundInv
<1>10. CASE EndStep
  <2>1. events' = Mark(AppendUnlogged(events, live), "step/end") /\ live' = live
    BY <1>10 DEF EndStep, Flushed
  <2>2. ShowsOnly(events', SoundLists(Good')) /\ AppendUnlogged(events, live) \in Seq(Record)
    BY <1>0, <1>1, <2>1, ShowsMarked DEF MarkTypes
  <2>3. CutsWell(events')
    BY <2>1, <2>2, CutsEnded DEF Ends
  <2> QED BY <1>1, <2>1, <2>2, <2>3 DEF SoundInv
<1>11. CASE Done \/ Abort
  BY <1>1, <1>11, SoundEndTurn DEF Done, Abort
<1>12. CASE StopInStep
  <2>1. Cleaned(live) \in SoundLists(Good')
    <3>1. CASE \E i \in DOMAIN live : IsIncomplete(live, i)
      <4> DEFINE k == CHOOSE i \in DOMAIN live : IsIncomplete(live, i)
      <4>1. k \in DOMAIN live
        BY <3>1
      <4> HIDE DEF k
      <4>2. k - 1 \in 0..Len(live)
        BY <1>0, <4>1
      <4>3. Cleaned(live) = SubSeq(live, 1, k - 1)
        BY <3>1 DEF Cleaned, k
      <4> QED BY <1>1, <4>2, <4>3, SoundPrefix
    <3>2. CASE ~\E i \in DOMAIN live : IsIncomplete(live, i)
      BY <1>1, <3>2 DEF Cleaned
    <3> QED BY <3>1, <3>2
  <2> QED BY <1>1, <1>12, <2>1, SoundEndTurn DEF StopInStep
<1> QED BY <1>2, <1>3, <1>4, <1>5, <1>6, <1>7, <1>8, <1>9, <1>10, <1>11, <1>12, <1>13
        DEF LoopStep

LEMMA SoundAnswer ==
  ASSUME CallInv, SoundInv, CallInv', [Next]_vars, NEW c \in Calls, Answer(c),
         pc = "tools", c \in Outstanding
  PROVE  SoundInv'
<1> DEFINE m == ToolMsg(c, "answered")
<1>0. events \in Seq(Record) /\ live \in Seq(Message) /\ live' \in Seq(Message)
  <2>1. TypeOK /\ TypeOK'
    BY DEF CallInv, IdleInv
  <2> QED BY <2>1 DEF TypeOK
<1>1. /\ m \in Message /\ m.role = "tool" /\ m.call = c /\ m.result = "answered"
      /\ RecordType(m) = "tool/result"
      /\ live' = Append(live, m) /\ events' = AppendUnlogged(events, live')
  BY DEF Answer, Flushed, Buffered, ToolMsg, Message, Results, RecordType
<1> HIDE DEF m
<1>2. /\ live \in SoundLists(Good') /\ ShowsOnly(events, SoundLists(Good'))
      /\ Orderly(live) /\ CutsWell(events)
  BY SoundKept DEF SoundInv, SoundLists
<1>3. Surface(events) = live /\ Awaits(live, c)
  BY DEF CallInv, IdleInv, Synced
<1>4. m \in Good'
  BY <1>1 DEF Good
<1>5. live' \in SoundLists(Good')
  BY <1>0, <1>1, <1>2, <1>3, <1>4, OrderlyAppend, SoundAppend
<1>6. ShowsOnly(events', SoundLists(Good'))
  BY <1>0, <1>1, <1>2, <1>5, ShowsUnlogged
<1>7. PICK r \in Record : events' = Append(events, r) /\ r.type = RecordType(m) /\ r.msg = m
  BY <1>0, <1>1, <1>3, UnloggedOne
<1>8. Surface(events') = live'
  <2>1. live' # <<>>
    BY <1>0, <1>1, AppendedNotEmpty
  <2> QED BY <1>0, <1>1, <2>1, SurfaceOfUnlogged
<1>9. CutsWell(events')
  <2> SUFFICES ASSUME OpenTurn(events'), NEW d \in PendingCalls(events')
               PROVE  /\ Awaits(live', d)
                      /\ EverDispatched(events', d) => Started(events', d)
    BY <1>8 DEF CutsWell
  <2>1. ~Declares(r, d) /\ ~Dispatches(r, d) /\ Answers(r, c)
    BY <1>1, <1>7 DEF Declares, Dispatches, Answers
  <2>2. d \in PendingCalls(events) /\ d # c
    BY <1>0, <1>7, <2>1, PendingAppend
  <2>5. OpenTurn(events)
    BY <1>0, <1>1, <1>7, OpenAppend
  <2>3. Awaits(live, d) /\ (EverDispatched(events, d) => Started(events, d))
    BY <1>2, <1>3, <2>2, <2>5 DEF CutsWell
  <2>4. Awaits(live', d)
    <3>1. "answered" \in Results /\ live' = Append(live, ToolMsg(c, "answered"))
      BY <1>1 DEF Results, m
    <3> QED BY <1>0, <2>2, <2>3, <3>1, AwaitsReply
  <2> QED BY <1>0, <1>7, <2>1, <2>3, <2>4, StartedAppend
<1> QED BY <1>5, <1>6, <1>9 DEF SoundInv

LEMMA SoundToolStep ==
  ASSUME CallInv, SoundInv, CallInv', [Next]_vars, ToolStep
  PROVE  SoundInv'
<1>0. events \in Seq(Record)
  BY DEF CallInv, IdleInv, TypeOK
<1>1. live \in SoundLists(Good') /\ ShowsOnly(events, SoundLists(Good')) /\ CutsWell(events)
  BY SoundKept DEF SoundInv
<1>2. ASSUME NEW c \in Calls, RecordSerial(c) \/ RecordParallel(c) PROVE SoundInv'
  <2>1. events' = Append(events, CallRecord(events, c)) /\ live' = live
    BY <1>2 DEF RecordSerial, RecordParallel, Flushed, Buffered
  <2>2. Silent(events, CallRecord(events, c))
    BY <1>0, SilentCall
  <2> QED BY <1>0, <1>1, <2>1, <2>2, ShowsSilent, SoundEmpty, CutsSilent DEF SoundInv
<1>3. ASSUME NEW c \in Calls, Reject(c) \/ Commit(c) PROVE SoundInv'
  <2>1. Answer(c) /\ pc = "tools" /\ c \in Outstanding
    BY <1>3 DEF Reject, Commit, Outstanding
  <2> QED BY <2>1, SoundAnswer
<1>4. CASE FlushCalls \/ \E c \in Calls : Invoke(c) \/ Skip(c) \/ Return(c)
  <2>1. UNCHANGED <<events, live>>
    BY <1>4 DEF FlushCalls, Flushed, Invoke, Skip, Return
  <2> QED BY <1>1, <2>1, SoundSame
<1> QED BY <1>2, <1>3, <1>4 DEF ToolStep

\* What the repair says of a pending call is true of it.
LEMMA CloserIsGood ==
  ASSUME CutInv, pc = "down", OpenTurn(events), NEW c \in PendingCalls(events)
  PROVE  Closer(events, c) \in Good
<1>0. /\ events \in Seq(Record) /\ c \in Calls /\ stage = NoStages
      /\ durable \in 0..Len(events) /\ Len(events) \in Nat
  <2>1. TypeOK /\ c \in Calls /\ stage = NoStages
    BY DEF CutInv, CallInv, IdleInv, PendingCalls
  <2> QED BY <2>1, LenProperties DEF TypeOK
<1>1. Closer(events, c) \in Message /\ Closer(events, c).role = "tool" /\ Closer(events, c).call = c
  BY <1>0 DEF Closer, ToolMsg, Message, Results
<1>2. ASSUME Closer(events, c).result = "not_started" PROVE HonestCall(c)
  <2>1. ~Started(events, c)
    BY <1>2 DEF Closer, ToolMsg
  <2>2. Awaits(Surface(events), c) /\ ~EverDispatched(events, c)
    BY <2>1 DEF CutInv, SoundInv, CutsWell
  <2>3. c \in asked
    <3>1. Surface(events) \in SoundLists(Good)
      BY <1>0, SoundEmpty, ShownSurface DEF CutInv, SoundInv
    <3>2. PICK a \in 1..Len(Surface(events)) : Asks(Surface(events)[a], c)
      BY <2>2 DEF Awaits
    <3> QED BY <3>1, <3>2 DEF SoundLists, Good, Asks
  <2>4. c \notin invoked
    <3> SUFFICES ASSUME c \in invoked PROVE FALSE
      OBVIOUS
    <3>1. PICK i \in 1..durable : Dispatches(events[i], c)
      BY DEF CutInv, IInv, WriteAhead, Dispatched
    <3>2. i \in 1..Len(events)
      BY <1>0
    <3> QED BY <2>2, <3>1, <3>2 DEF EverDispatched
  <2>5. stage[c] = "none"
    BY <1>0 DEF NoStages
  <2> QED BY <2>2, <2>3, <2>4, <2>5 DEF HonestCall
<1> QED BY <1>1, <1>2 DEF Good

LEMMA SoundCrashStep ==
  ASSUME CutInv, [Next]_vars, Crash \/ Resume
  PROVE  SoundInv'
<1>0. /\ events \in Seq(Record) /\ Len(events) \in Nat /\ durable \in 0..Len(events)
      /\ CallInv /\ SoundInv
  <2>1. TypeOK /\ CallInv /\ SoundInv
    BY DEF CutInv, CallInv, IdleInv
  <2> QED BY <2>1, LenProperties DEF TypeOK
<1>1. live \in SoundLists(Good') /\ ShowsOnly(events, SoundLists(Good')) /\ CutsWell(events)
  BY <1>0, SoundKept DEF SoundInv
<1>2. CASE Crash
  <2>1. PICK n \in durable..Len(events) : n \in {durable, Len(events)} /\ Gone(n)
    BY <1>2 DEF Crash, CutInv
  <2>2. events' = SubSeq(events, 1, n) /\ live' = <<>> /\ n \in 0..Len(events)
    BY <1>0, <2>1 DEF Gone
  <2>3. CutsWell(events')
    <3>1. CASE n = durable
      BY <2>2, <3>1 DEF CutInv, DurableLog
    <3>2. CASE n = Len(events)
      BY <1>0, <1>1, <2>2, <3>2, SubSeqFull
    <3> QED BY <2>1, <3>1, <3>2
  <2> QED BY <1>0, <1>1, <2>2, <2>3, ShowsPrefix, SoundEmpty DEF SoundInv
<1>3. CASE Resume
  <2>1. PICK order \in SetToSeqs(PendingCalls(events)) :
          Flushed(PreparedResume(events, order), "idle")
    BY <1>3 DEF Resume
  <2>2. /\ events' = PreparedResume(events, order) /\ live' = Surface(events')
        /\ pc = "down" /\ order \in Seq(Calls) /\ events' \in Seq(Record)
    BY <1>0, <1>3, <2>1, BuiltResume DEF Resume, Flushed, CallInv, IdleInv
  <2>3. OpenTurn(events) => \A c \in PendingCalls(events) : Closer(events, c) \in Good'
    BY <1>0, <2>2, CloserIsGood, GoodGrows
  <2>4. ShowsOnly(events', SoundLists(Good'))
    BY <1>0, <1>1, <2>1, <2>2, <2>3, ShowsResume
  <2>5. CutsWell(events')
    BY <1>0, <1>1, <2>2, CutsResume
  <2>6. live' \in SoundLists(Good')
    BY <2>2, <2>4, ShownSurface, SoundEmpty
  <2> QED BY <2>4, <2>5, <2>6 DEF SoundInv
<1> QED BY <1>2, <1>3

\* A step flushes all of the log or nothing of it.
LEMMA DurableChoice ==
  ASSUME TypeOK, [Next]_vars
  PROVE  durable' = durable \/ durable' = Len(events')
<1>1. CASE Crash
  <2>1. PICK n \in durable..Len(events) : Gone(n)
    BY <1>1 DEF Crash
  <2>2. n \in 0..Len(events) /\ events \in Seq(Record)
    BY LenProperties DEF TypeOK
  <2>3. durable' = n /\ Len(events') = n
    BY <2>1, <2>2, PrefixType DEF Gone
  <2> QED BY <2>3
<1>2. CASE \/ AddUserMessage \/ StartTurn \/ EnterLoop \/ BeginStep \/ CommitSurface
           \/ SendRequest \/ EndStep \/ Done \/ StopInStep \/ Abort \/ RequestCancel \/ Resume
           \/ (\E i \in DOMAIN live : Heal(i) \/ Compact(i))
           \/ (\E S \in SUBSET Calls : Respond(S))
           \/ UNCHANGED vars
  BY <1>2 DEF AddUserMessage, StartTurn, EnterLoop, BeginStep, CommitSurface, SendRequest, EndStep, Done,
     StopInStep, Abort, EndTurn, RequestCancel, Resume, Heal, Compact, Respond, vars,
     Flushed, Buffered
<1>3. CASE ToolStep
  BY <1>3 DEF ToolStep, FlushCalls, RecordSerial, RecordParallel, Reject, Invoke, Skip,
     Return, Commit, Answer, Flushed, Buffered
<1> QED BY <1>1, <1>2, <1>3 DEF Next, LoopStep

LEMMA CutStep ==
  ASSUME CutInv, CallInv', IInv', [Next]_vars
  PROVE  CutInv'
<1>0. CallInv /\ SoundInv /\ TypeOK /\ LogKept
  BY TypeStep DEF CutInv, CallInv, IdleInv
<1>1. SoundInv'
  <2>1. CASE UNCHANGED vars
    BY <1>0, <2>1, SoundKept DEF SoundInv, vars
  <2>2. CASE Next
    BY <1>0, <2>2, SoundLoopStep, SoundToolStep, SoundCrashStep DEF Next
  <2> QED BY <2>1, <2>2
<1>2. CutsWell(DurableLog')
  <2>1. CASE durable' = Len(events')
    <3>1. DurableLog' = events'
      BY <1>0, <2>1, SubSeqFull DEF LogKept, DurableLog
    <3> QED BY <1>1, <3>1 DEF SoundInv
  <2>2. CASE durable' = durable
    <3> DEFINE old == SubSeq(events, 1, durable)
               new == SubSeq(events', 1, durable)
    <3>1. /\ old \in Seq(Record) /\ Len(old) = durable
          /\ \A i \in 1..durable : old[i] = events[i]
      BY <1>0, PrefixType DEF TypeOK
    <3>2. /\ new \in Seq(Record) /\ Len(new) = durable
          /\ \A i \in 1..durable : new[i] = events'[i]
      BY <1>0, <2>2, PrefixType DEF LogKept
    <3> HIDE DEF old, new
    <3>3. \A i \in 1..durable : old[i] = new[i]
      BY <1>0, <3>1, <3>2 DEF LogKept
    <3>4. old = new
      BY <3>1, <3>2, <3>3, SeqEqual
    <3>5. DurableLog' = DurableLog
      BY <2>2, <3>4 DEF DurableLog, old, new
    <3> QED BY <3>5 DEF CutInv
  <2> QED BY <1>0, <2>1, <2>2, DurableChoice
<1>3. pc' = "model" => durable' = Len(events')
  <2> SUFFICES ASSUME pc' = "model" PROVE durable' = Len(events')
    OBVIOUS
  <2>1. SendRequest \/ UNCHANGED <<pc, events, durable>>
    BY DEF Next, LoopStep, ToolStep, AddUserMessage, StartTurn, EnterLoop, BeginStep, CommitSurface,
       SendRequest, EndStep, Done, StopInStep, Abort, EndTurn, RequestCancel, Resume, Heal,
       Compact, Respond, FlushCalls, RecordSerial, RecordParallel, Reject, Invoke, Skip,
       Return, Commit, Answer, Flushed, Buffered, Crash, Gone, vars
  <2>2. CASE SendRequest
    BY <2>2 DEF SendRequest, Flushed
  <2>3. CASE UNCHANGED <<pc, events, durable>>
    BY <2>3 DEF CutInv
  <2> QED BY <2>1, <2>2, <2>3
<1> QED BY <1>1, <1>2, <1>3 DEF CutInv

\* Wherever a crash may cut the log, its repair finds every pending call awaited
\* on the Surface and its record, if it has one, where it looks for it.
THEOREM LogMayEndHere == TornWrites = FALSE /\ Spec => []CutInv
<1>1. TornWrites = FALSE /\ Init /\ CallInv /\ IInv => CutInv
  <2> SUFFICES ASSUME TornWrites = FALSE, Init, CallInv, IInv PROVE CutInv
    OBVIOUS
  <2>1. events = <<>> /\ live = <<>> /\ durable = 0 /\ pc = "idle"
    BY DEF Init
  <2>2. PendingCalls(<<>>) = {} /\ Len(<<>>) = 0 /\ SubSeq(<<>>, 1, 0) = <<>>
    BY DEF PendingCalls
  <2>3. ShowsOnly(<<>>, SoundLists(Good)) /\ CutsWell(<<>>)
    BY <2>2 DEF ShowsOnly, CutsWell
  <2>4. DurableLog = <<>>
    BY <2>1, <2>2 DEF DurableLog
  <2> QED BY <2>1, <2>3, <2>4, SoundEmpty DEF CutInv, SoundInv
<1>2. CutInv /\ CallInv' /\ IInv' /\ [Next]_vars => CutInv'
  BY CutStep
<1> QED BY <1>1, <1>2, CallsAreTracked, RecordedBeforeEntered, PTL DEF Spec

\* A call that the log declares not started, hence free to be asked for again,
\* was never entered and has no dispatch record: record_call and flush_calls
\* come before the tool, and repair_interrupted_turn reads every record.
THEOREM NotStartedIsTrue == TornWrites = FALSE /\ Spec => []HonestNotStarted
<1>1. CutInv => HonestNotStarted
  <2> SUFFICES ASSUME CutInv, NEW c \in Calls, Says(c, "not_started")
               PROVE  c \notin invoked /\ ~Dispatched(c)
    BY DEF HonestNotStarted
  <2>0. events \in Seq(Record) /\ durable \in 0..Len(events) /\ Len(events) \in Nat
    <3>1. TypeOK
      BY DEF CutInv, CallInv, IdleInv
    <3> QED BY <3>1, LenProperties DEF TypeOK
  <2>1. PICK i \in 1..Len(events) :
          Answers(events[i], c) /\ events[i].msg.result = "not_started"
    BY <2>0 DEF Says
  <2> DEFINE r == events[i]
  <2>2. Shows(r, SoundLists(Good)) /\ r.type = "tool/result" /\ r.msg.call = c
    BY <2>1 DEF CutInv, SoundInv, ShowsOnly, Answers
  <2>3. r.type = RecordType(r.msg) /\ \E k \in 1..Len(r.surface) : r.surface[k] = r.msg
    BY <2>2 DEF Shows, MessageTypes
  <2>4. r.msg \in Good
    BY <2>2, <2>3 DEF Shows, SoundLists
  <2>5. r.msg.role = "tool"
    BY <2>2, <2>3, <2>4, MessageTypeOf DEF Good
  <2>6. HonestCall(c)
    BY <2>1, <2>2, <2>4, <2>5 DEF Good
  <2>7. ~Dispatched(c)
    <3>1. \A j \in 1..durable : j \in 1..Len(events)
      BY <2>0
    <3> QED BY <2>6, <3>1 DEF HonestCall, EverDispatched, Dispatched
  <2> QED BY <2>6, <2>7 DEF HonestCall
<1> QED BY <1>1, LogMayEndHere, PTL

\* What the provider is sent obeys its protocol, is all on the disk and is what
\* a restart would send: _sanitize_dangling_tool_calls, commit_compaction and
\* the repair leave no group incomplete and no result without its call.
THEOREM RequestsAreWellFormed == TornWrites = FALSE /\ Spec => []RequestWellFormed
<1>1. CutInv => RequestWellFormed
  <2> SUFFICES ASSUME CutInv, pc = "model"
               PROVE  Paired(live) /\ live = ReplayedSurface(events) /\ durable = Len(events)
    BY DEF RequestWellFormed
  <2>1. events \in Seq(Record) /\ live \in Seq(Message) /\ WellBuilt(events)
    BY DEF CutInv, CallInv, IdleInv, TypeOK
  <2>2. Settled(live, {}) /\ Surface(events) = live
    BY NoneOutstanding DEF CutInv, CallInv, IdleInv, InStep, Synced
  <2>3. Orderly(live)
    BY DEF CutInv, SoundInv, SoundLists
  <2>4. Paired(live)
    BY <2>1, <2>2, <2>3, PairedWhenSettled
  <2>5. live = ReplayedSurface(events)
    BY <2>1, <2>2, ReplayedIsCarried DEF WellBuilt
  <2>6. durable = Len(events)
    BY DEF CutInv
  <2> QED BY <2>4, <2>5, <2>6
<1> QED BY <1>1, LogMayEndHere, PTL

-----------------------------------------------------------------------------
(* The contract.                                                           *)

Recorded == { c \in Calls : Dispatched(c) }
Denied ==
  { c \in Calls : \E i \in 1..durable :
      Answers(events[i], c) /\ events[i].msg.result = "not_started" }

LEMMA InvokedOrNot ==
  ASSUME [Next]_vars
  PROVE  invoked' = invoked \/ \E c \in Calls : Invoke(c)
<1>1. CASE UNCHANGED vars \/ AddUserMessage \/ StartTurn \/ LoopStep \/ RequestCancel \/ Abort
  BY <1>1 DEF vars, AddUserMessage, StartTurn, LoopStep, RequestCancel, Abort, EnterLoop, BeginStep,
       CommitSurface, SendRequest, EndStep, Done, StopInStep, EndTurn, Heal,
       Compact, Respond
<1>2. CASE Crash \/ Resume \/ ToolStep
  BY <1>2 DEF Crash, Gone, Resume, ToolStep, FlushCalls, RecordSerial, RecordParallel,
       Reject, Skip, Return, Commit, Answer
<1> QED BY <1>1, <1>2 DEF Next

\* Records are only added to the disk, and never one that denies a call that
\* has a record.
LEMMA PublishStep ==
  ASSUME CutInv, HonestNotStarted', TypeOK', LogKept
  PROVE  /\ Recorded \subseteq Recorded' /\ Denied \subseteq Denied'
         /\ Recorded' \cap Denied' = {}
<1>0. /\ TypeOK /\ durable \in Nat /\ durable' \in Nat /\ Len(events') \in Nat
      /\ durable <= durable' /\ durable' <= Len(events') /\ DOMAIN events' = 1..Len(events')
  <2>1. TypeOK
    BY DEF CutInv, CallInv, IdleInv
  <2>2. durable \in 0..Len(events) /\ Len(events) \in Nat
    BY <2>1, LenProperties DEF TypeOK
  <2>3. events' \in Seq(Record) /\ durable' \in 0..Len(events') /\ durable <= durable'
    BY DEF LogKept
  <2> QED BY <2>1, <2>2, <2>3, LenProperties
<1>1. Recorded \subseteq Recorded'
  BY <1>0, DispatchedKept DEF Recorded
<1>2. ASSUME NEW c \in Denied PROVE c \in Denied'
  <2>1. PICK i \in 1..durable : Answers(events[i], c) /\ events[i].msg.result = "not_started"
    BY DEF Denied
  <2>2. i \in 1..durable' /\ events'[i] = events[i]
    BY <1>0 DEF LogKept
  <2> QED BY <2>1, <2>2 DEF Denied
<1>3. ASSUME NEW c \in Denied' PROVE c \notin Recorded'
  <2>1. PICK i \in 1..durable' :
          Answers(events'[i], c) /\ events'[i].msg.result = "not_started"
    BY <1>3 DEF Denied
  <2>2. i \in DOMAIN events' /\ c \in Calls
    BY <1>0, <1>3 DEF Denied
  <2>3. Says(c, "not_started")'
    BY <2>1, <2>2 DEF Says
  <2>4. ~Dispatched(c)'
    BY <2>2, <2>3 DEF HonestNotStarted
  <2> QED BY <2>4 DEF Recorded
<1> QED BY <1>1, <1>2, <1>3

LEMMA ContractStep ==
  ASSUME CutInv, HonestNotStarted', TypeOK', LogKept, [Next]_vars
  PROVE  [Contract!Next]_(Contract!vars)
<1>1. ASSUME NEW c \in Calls, Invoke(c) PROVE Contract!Next
  <2>1. /\ UNCHANGED <<events, durable>> /\ invoked' = invoked \cup {c}
        /\ pc = "tools" /\ stage[c] = "ready"
    BY <1>1 DEF Invoke
  <2>2. Dispatched(c)
    BY <2>1 DEF CutInv, IInv, ReadyRecorded, At
  <2>3. Contract!Invoke(c)
    BY <2>1, <2>2 DEF Contract!Invoke, Dispatched
  <2> QED BY <2>3 DEF Contract!Next
<1>2. CASE invoked' = invoked
  <2>1. Contract!Publish
    BY <1>2, PublishStep DEF Contract!Publish, Recorded, Denied
  <2> QED BY <2>1 DEF Contract!Next
<1> QED BY <1>1, <1>2, InvokedOrNot

\* The log keeps the contract that retries and reopened sessions rely on: a
\* tool is entered only for a call on record, and what is denied on record is
\* never recorded as dispatched.
THEOREM ContractIsKept == TornWrites = FALSE /\ Spec => ImplementsContract
<1>1. Init => Contract!Init
  <2> SUFFICES ASSUME Init PROVE Contract!Init
    OBVIOUS
  <2>1. durable = 0 /\ invoked = {} /\ 1..0 = {}
    BY DEF Init
  <2> QED BY <2>1 DEF Contract!Init, Dispatched
<1>2. CutInv /\ HonestNotStarted' /\ TypeOK' /\ [Next]_vars => [Contract!Next]_(Contract!vars)
  <2> SUFFICES ASSUME CutInv, HonestNotStarted', TypeOK', [Next]_vars
               PROVE  [Contract!Next]_(Contract!vars)
    OBVIOUS
  <2>1. LogKept
    BY TypeStep DEF CutInv, CallInv, IdleInv
  <2> QED BY <2>1, ContractStep
<1> QED BY <1>1, <1>2, LogMayEndHere, NotStartedIsTrue, TypeCorrect, PTL
        DEF Spec, ImplementsContract, Contract!Spec
=============================================================================
