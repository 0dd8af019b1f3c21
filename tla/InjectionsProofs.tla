-------------------------- MODULE InjectionsProofs --------------------------
(***************************************************************************)
(* What Injections promises for any ids and contents, any number of        *)
(* submissions, runs, edits, restarts and failed commits: messages reach   *)
(* the conversation once and in order, a confirmed cancellation is final,  *)
(* and a receipt says where its message is.                                *)
(*                                                                         *)
(* An item is in one place: queued, being prepared, or in the log.  The    *)
(* invariant orders the three places by the numbers of the submissions,    *)
(* keeps their ids apart, and ties receipts and withdrawals to them.       *)
(*                                                                         *)
(* cancel() empties and refills the queue item by item, so that what it    *)
(* keeps (Kept) is a recursive function; the first part proves what Kept   *)
(* returns, by induction over a set of natural numbers.                    *)
(***************************************************************************)
EXTENDS Injections, WellFoundedInduction, TLAPS

-----------------------------------------------------------------------------
(* Induction, and functions that are defined from one position to the next. *)

LEMMA SetInduction ==
  ASSUME NEW T, 0 \in T, \A n \in Nat : n \in T => n + 1 \in T
  PROVE  \A n \in Nat : n \in T
<1> SUFFICES ASSUME NEW bad \in Nat, bad \notin T PROVE FALSE
  OBVIOUS
<1> DEFINE B == Nat \ T
<1>1. B \subseteq Nat /\ B # {}
  OBVIOUS
<1>2. \E x \in B : \A y \in B : <<y, x>> \notin OpToRel(<, Nat)
  <2> HIDE DEF B
  <2> QED BY <1>1, WFMin, NatLessThanWellFounded
<1>3. PICK x \in B : \A y \in B : <<y, x>> \notin OpToRel(<, Nat)
  BY <1>2
<1>4. \A y \in B : ~(y < x)
  BY <1>3 DEF OpToRel
<1> QED BY <1>4

\* f begins with a and follows the steps up to n.
Follows(f, a, step, n) == f[0] = a /\ \A k \in 1..n : f[k] = step[k][f[k - 1]]

\* The steps can be followed to any length.
LEMMA RecursionExists ==
  ASSUME NEW R, NEW a \in R, NEW N \in Nat, NEW step \in [1..N -> [R -> R]]
  PROVE  \E f \in [0..N -> R] : Follows(f, a, step, N)
<1> DEFINE T == { n \in Nat : n <= N => \E f \in [0..n -> R] : Follows(f, a, step, n) }
<1>1. 0 \in T
  <2> DEFINE f == [k \in 0..0 |-> a]
  <2>1. f \in [0..0 -> R] /\ Follows(f, a, step, 0)
    BY DEF Follows
  <2> QED BY <2>1
<1>2. ASSUME NEW n \in Nat, n \in T PROVE n + 1 \in T
  <2> SUFFICES ASSUME n + 1 <= N PROVE \E f \in [0..(n + 1) -> R] : Follows(f, a, step, n + 1)
    OBVIOUS
  <2>1. PICK f \in [0..n -> R] : Follows(f, a, step, n)
    BY <1>2
  <2>2. f[n] \in R /\ n + 1 \in 1..N
    OBVIOUS
  <2>3. step[n + 1][f[n]] \in R
    <3>1. step[n + 1] \in [R -> R]
      BY <2>2
    <3> QED BY <2>2, <3>1
  <2> DEFINE last == step[n + 1][f[n]]
             g == [k \in 0..(n + 1) |-> IF k = n + 1 THEN last ELSE f[k]]
  <2>4. last \in R
    BY <2>3
  <2>5. g \in [0..(n + 1) -> R]
    <3> HIDE DEF last
    <3> QED BY <2>4
  <2>6. Follows(g, a, step, n + 1)
    <3>1. g[0] = a
      BY <2>1 DEF Follows
    <3>2. ASSUME NEW k \in 1..(n + 1) PROVE g[k] = step[k][g[k - 1]]
      <4>1. CASE k = n + 1
        <5>1. g[k] = last /\ g[k - 1] = f[n]
          <6> HIDE DEF last
          <6> QED BY <4>1
        <5> QED BY <4>1, <5>1
      <4>2. CASE k # n + 1
        <5>1. g[k] = f[k] /\ g[k - 1] = f[k - 1] /\ k \in 1..n
          <6> HIDE DEF last
          <6> QED BY <4>2
        <5> QED BY <2>1, <5>1 DEF Follows
      <4> QED BY <4>1, <4>2
    <3> HIDE DEF g
    <3> QED BY <3>1, <3>2 DEF Follows
  <2> HIDE DEF g
  <2> QED BY <2>5, <2>6
<1>3. \A n \in Nat : n \in T
  <2> HIDE DEF T
  <2> QED BY <1>1, <1>2, SetInduction
<1>4. N \in T
  BY <1>3
<1> QED BY <1>4

\* Kept is what its recursive definition says.
LEMMA KeptIs ==
  ASSUME NEW s \in Seq(Item), NEW id
  PROVE  \E f \in [0..Len(s) -> Seq(Item)] :
           /\ f[0] = <<>>
           /\ \A k \in 1..Len(s) : f[k] = IF s[k].id = id THEN f[k - 1] ELSE Append(f[k - 1], s[k])
           /\ Kept(s, id) = f[Len(s)]
<1> DEFINE N == Len(s)
           next(k, x) == IF s[k].id = id THEN x ELSE Append(x, s[k])
           step == [k \in 1..N |-> [x \in Seq(Item) |-> next(k, x)]]
<1>0. N \in Nat /\ <<>> \in Seq(Item)
  OBVIOUS
<1>1. step \in [1..N -> [Seq(Item) -> Seq(Item)]]
  <2>1. \A k \in 1..N, x \in Seq(Item) : next(k, x) \in Seq(Item)
    OBVIOUS
  <2> HIDE DEF next, N
  <2> QED BY <2>1
<1>2. PICK f \in [0..N -> Seq(Item)] : Follows(f, <<>>, step, N)
  <2> HIDE DEF step, N
  <2> QED BY <1>0, <1>1, RecursionExists
<1>3. f[0] = <<>> /\ \A k \in 1..N : f[k] = next(k, f[k - 1])
  <2>1. \A k \in 1..N : k \in 1..N /\ f[k - 1] \in Seq(Item)
    BY <1>0
  <2> HIDE DEF next, N
  <2> QED BY <1>2, <2>1 DEF Follows
<1> DEFINE body(g) == [k \in 0..N |-> IF k = 0 THEN <<>> ELSE next(k, g[k - 1])]
           upTo[k \in 0..N] == IF k = 0 THEN <<>> ELSE next(k, upTo[k - 1])
<1>4. f = body(f)
  <2> HIDE DEF next, N
  <2>1. \A k \in 0..N : f[k] = body(f)[k]
    BY <1>0, <1>3
  <2> QED BY <2>1
<1>5. upTo = body(upTo)
  <2>2. \E g : g = body(g)
    BY <1>4
  <2> HIDE DEF body
  <2>1. upTo = CHOOSE g : g = body(g)
    BY DEF body
  <2> QED BY <2>1, <2>2
<1>6. Kept(s, id) = upTo[N]
  BY DEF Kept
<1>7. upTo[N] = f[N]
  <2> DEFINE T == { n \in Nat : n <= N => upTo[n] = f[n] }
  <2> HIDE DEF next, N, upTo
  <2>1. 0 \in T
    BY <1>5, <1>3, <1>0
  <2>2. ASSUME NEW n \in Nat, n \in T PROVE n + 1 \in T
    <3>1. n + 1 <= N => upTo[n + 1] = next(n + 1, upTo[n])
      BY <1>0, <1>5
    <3>2. n + 1 <= N => f[n + 1] = next(n + 1, f[n])
      BY <1>0, <1>3
    <3> QED BY <1>0, <2>2, <3>1, <3>2
  <2>3. N \in T
    <3> HIDE DEF T
    <3> QED BY <1>0, <2>1, <2>2, SetInduction
  <2> QED BY <2>3
<1> QED BY <1>2, <1>3, <1>6, <1>7

-----------------------------------------------------------------------------
(* Sequences of items.                                                     *)

Sorted(s) == \A j, k \in DOMAIN s : j < k => s[j].number < s[k].number

\* Every item of s was accepted before every item of t.
Before(s, t) == \A j \in DOMAIN s, k \in DOMAIN t : s[j].number < t[k].number

\* No id is in both.
Apart(s, t) == \A j \in DOMAIN s, k \in DOMAIN t : s[j].id # t[k].id

Distinct(s) == \A j, k \in DOMAIN s : s[j].id = s[k].id => j = k

LEMMA AppendItem ==
  ASSUME NEW s \in Seq(Item), NEW e \in Item
  PROVE  /\ Append(s, e) \in Seq(Item) /\ Len(Append(s, e)) = Len(s) + 1
         /\ DOMAIN Append(s, e) = DOMAIN s \cup {Len(s) + 1}
         /\ \A k \in DOMAIN s : Append(s, e)[k] = s[k] /\ k < Len(s) + 1
         /\ Append(s, e)[Len(s) + 1] = e
  OBVIOUS

\* Kept drops the items of an id, and moves no other.
LEMMA KeptInOrder ==
  ASSUME NEW s \in Seq(Item), NEW id, Sorted(s)
  PROVE  /\ Kept(s, id) \in Seq(Item)
         /\ Sorted(Kept(s, id))
         /\ \A j \in DOMAIN Kept(s, id) : \E i \in DOMAIN s : Kept(s, id)[j] = s[i] /\ s[i].id # id
         /\ \A i \in DOMAIN s : s[i].id # id => \E j \in DOMAIN Kept(s, id) : Kept(s, id)[j] = s[i]
<1> DEFINE N == Len(s)
<1>0. N \in Nat /\ DOMAIN s = 1..N /\ \A k \in 1..N : s[k] \in Item
  OBVIOUS
<1>1. PICK f \in [0..N -> Seq(Item)] :
         /\ f[0] = <<>>
         /\ \A k \in 1..N : f[k] = IF s[k].id = id THEN f[k - 1] ELSE Append(f[k - 1], s[k])
         /\ Kept(s, id) = f[N]
  BY KeptIs
<1> HIDE DEF N
<1> DEFINE From(x, k) == \A j \in DOMAIN x : \E i \in 1..k : x[j] = s[i] /\ s[i].id # id
           Whole(x, k) == \A i \in 1..k : s[i].id # id => \E j \in DOMAIN x : x[j] = s[i]
           T == { n \in Nat : n <= N => Sorted(f[n]) /\ From(f[n], n) /\ Whole(f[n], n) }
<1>2. 0 \in T
  BY <1>0, <1>1 DEF Sorted
<1>3. ASSUME NEW n \in Nat, n \in T PROVE n + 1 \in T
  <2> SUFFICES ASSUME n + 1 <= N
               PROVE  Sorted(f[n + 1]) /\ From(f[n + 1], n + 1) /\ Whole(f[n + 1], n + 1)
    OBVIOUS
  <2> DEFINE x == f[n]
             e == s[n + 1]
  <2>1. /\ x \in Seq(Item) /\ e \in Item /\ n + 1 \in 1..N /\ (n + 1) - 1 = n
        /\ Sorted(x) /\ From(x, n) /\ Whole(x, n)
    BY <1>0, <1>3
  <2>2. f[n + 1] = IF e.id = id THEN x ELSE Append(x, e)
    BY <1>1, <2>1
  <2>3. \A i \in 1..n : s[i].number < e.number /\ i \in 1..(n + 1)
    <3>1. \A i \in 1..n : i \in DOMAIN s /\ n + 1 \in DOMAIN s /\ i < n + 1 /\ i \in 1..(n + 1)
      BY <1>0
    <3> QED BY <3>1 DEF Sorted
  <2>4. \A i \in 1..(n + 1) : i \in 1..n \/ i = n + 1
    OBVIOUS
  <2>5. CASE e.id = id
    BY <2>1, <2>2, <2>3, <2>4, <2>5
  <2>6. CASE e.id # id
    <3> DEFINE y == Append(x, e)
    <3> HIDE DEF x, e
    <3>1. /\ DOMAIN y = DOMAIN x \cup {Len(x) + 1} /\ y[Len(x) + 1] = e /\ Len(x) \in Nat
          /\ \A k \in DOMAIN x : y[k] = x[k] /\ k < Len(x) + 1
      BY <2>1, AppendItem
    <3> HIDE DEF y
    <3>2. \A j \in DOMAIN x : x[j].number < e.number
      BY <2>1, <2>3
    <3>3. Sorted(y)
      <4> SUFFICES ASSUME NEW j \in DOMAIN y, NEW k \in DOMAIN y, j < k
                   PROVE  y[j].number < y[k].number
        BY DEF Sorted
      <4>1. j \in DOMAIN x
        BY <2>1, <3>1
      <4> QED BY <2>1, <3>1, <3>2, <4>1 DEF Sorted
    <3>4. From(y, n + 1)
      BY <2>1, <2>3, <2>6, <3>1 DEF e
    <3>5. Whole(y, n + 1)
      BY <2>1, <2>4, <3>1 DEF e
    <3> QED BY <2>2, <2>6, <3>3, <3>4, <3>5 DEF y
  <2> QED BY <2>5, <2>6
<1>4. N \in T
  <2> HIDE DEF T
  <2> QED BY <1>0, <1>2, <1>3, SetInduction
<1>5. Kept(s, id) \in Seq(Item)
  BY <1>0, <1>1
<1>6. Sorted(Kept(s, id)) /\ From(Kept(s, id), N) /\ Whole(Kept(s, id), N)
  BY <1>0, <1>1, <1>4
<1> QED BY <1>0, <1>5, <1>6

-----------------------------------------------------------------------------
(* The invariant.                                                          *)

Types ==
  /\ queue \in Seq(Item) /\ taken \in Seq(Item) /\ live \in Seq(Item) /\ log \in Seq(Item)
  /\ statuses \in [Ids -> Statuses]
  /\ inputs \in [Ids -> Contents \cup {NoInput}]
  /\ submissions \in Nat /\ saved \in 0..Len(log)
  /\ Len(taken) = (IF phase = "prepare" THEN 1 ELSE 0)
  /\ finished => phase = "idle"

\* The places follow each other: the log, the item in preparation, the queue.
Placed ==
  /\ Sorted(log) /\ Sorted(queue)
  /\ Before(log, taken) /\ Before(log, queue) /\ Before(taken, queue)
  /\ \A k \in DOMAIN log : log[k].number <= submissions
  /\ \A k \in DOMAIN taken : taken[k].number <= submissions
  /\ \A k \in DOMAIN queue : queue[k].number <= submissions

IdsApart ==
  /\ Distinct(log) /\ Distinct(queue)
  /\ Apart(log, taken) /\ Apart(log, queue) /\ Apart(taken, queue)

ReceiptsMatch ==
  /\ \A id \in Ids :
       /\ statuses[id] = "injected" => Holds(live, id)
       /\ statuses[id] \in {"cancelled", "discarded"} => ~Holds(live, id)
       /\ statuses[id] = "pending" <=> Holds(queue, id)
       /\ statuses[id] = "taken" => Holds(taken, id)
  /\ \A k \in DOMAIN taken : statuses[taken[k].id] \in {"taken", "cancelled"}
  /\ \A k \in DOMAIN live : Holds(log, live[k].id)
  /\ \A k \in DOMAIN queue : inputs[queue[k].id] = queue[k].content
  /\ unfinished = Len(queue) + Len(taken)

Withdrawals ==
  /\ \A k \in DOMAIN log : log[k].number \notin withdrawn
  /\ \A k \in DOMAIN queue : queue[k].number \notin withdrawn
  /\ \A k \in DOMAIN taken : taken[k].number \in withdrawn => statuses[taken[k].id] = "cancelled"
  /\ \A n \in withdrawn : n \in Int /\ n <= submissions

Inv == Types /\ Placed /\ IdsApart /\ ReceiptsMatch /\ Withdrawals

LEMMA ItemFields ==
  ASSUME NEW e \in Item
  PROVE  e.id \in Ids /\ e.content \in Contents /\ e.number \in Int
  BY DEF Item

LEMMA InitHolds == Init => Inv
  BY DEF Init, Inv, Types, Placed, IdsApart, ReceiptsMatch, Withdrawals, Sorted, Before, Apart,
         Distinct, Holds, NoStatus, Statuses

\* A step that changes neither a place nor a receipt.
LEMMA QuietStep ==
  ASSUME Inv, UNCHANGED <<queue, taken, live, log, saved, statuses, inputs, unfinished, submissions, withdrawn>>,
         Len(taken) = (IF phase' = "prepare" THEN 1 ELSE 0),
         finished' => phase' = "idle"
  PROVE  Inv'
<1> USE DEF Inv
<1>1. Types'
  BY DEF Types
<1>2. Placed' /\ IdsApart'
  BY DEF Placed, IdsApart, Sorted, Before, Apart, Distinct
<1>3. ReceiptsMatch'
  BY DEF ReceiptsMatch, Holds
<1>4. Withdrawals'
  BY DEF Withdrawals
<1> QED BY <1>1, <1>2, <1>3, <1>4

\* A new scope forgets every receipt that is not pending.
LEMMA ScopeKeeps ==
  ASSUME Types
  PROVE  /\ NewScope(statuses) \in [Ids -> Statuses]
         /\ \A id \in Ids : NewScope(statuses)[id] = IF statuses[id] = "pending" THEN "pending" ELSE "none"
  BY DEF Types, NewScope, Statuses

LEMMA BeginRunKeeps == ASSUME Inv, BeginRun PROVE Inv'
<1> USE DEF BeginRun, Inv
<1>0. /\ UNCHANGED <<queue, taken, live, store, unfinished, submissions, withdrawn>>
      /\ phase = "idle" /\ phase' = "step" /\ taken = <<>> /\ finished' = FALSE
      /\ statuses' = NewScope(statuses)
  BY DEF Types
<1>1. Types'
  BY <1>0, ScopeKeeps DEF Types, store
<1>2. Placed' /\ IdsApart'
  BY <1>0 DEF Placed, IdsApart, Sorted, Before, Apart, Distinct, store
<1>3. ReceiptsMatch'
  <2>1. \A id \in Ids : statuses'[id] \in {"none", "pending"} /\ (statuses'[id] = "pending" <=> statuses[id] = "pending")
    BY <1>0, ScopeKeeps
  <2>2. \A k \in DOMAIN queue : inputs'[queue[k].id] = inputs[queue[k].id]
    BY ItemFields DEF Types, ReceiptsMatch, Holds
  <2> QED BY <1>0, <2>1, <2>2 DEF ReceiptsMatch, Holds, store
<1>4. Withdrawals'
  BY <1>0 DEF Withdrawals, store
<1> QED BY <1>1, <1>2, <1>3, <1>4

\* A new item goes behind all others, with an id that is in no place.
LEMMA AcceptKeeps ==
  ASSUME Inv, NEW id \in Ids, NEW content \in Contents, Accept(id, content)
  PROVE  Inv'
<1> USE DEF Inv
<1> DEFINE e == [id |-> id, content |-> content, number |-> submissions + 1]
<1>0. /\ e \in Item /\ e.id = id /\ e.content = content /\ e.number = submissions + 1
      /\ submissions \in Nat /\ queue' = Append(queue, e) /\ submissions' = submissions + 1
      /\ UNCHANGED <<phase, taken, live, log, saved, withdrawn>> /\ finished' = FALSE
      /\ statuses[id] = "none" /\ ~Holds(log, id) /\ unfinished' = unfinished + 1
  BY InjectionBounds DEF Accept, Item, Types, Logged, store
<1>1. /\ queue' \in Seq(Item) /\ Len(queue') = Len(queue) + 1 /\ Len(queue) \in Nat
      /\ DOMAIN queue' = DOMAIN queue \cup {Len(queue) + 1}
      /\ \A k \in DOMAIN queue : queue'[k] = queue[k] /\ k < Len(queue) + 1 /\ k \in Nat
      /\ queue'[Len(queue) + 1] = e
  BY <1>0, AppendItem DEF Types
<1> HIDE DEF e
<1>2. /\ statuses' \in [Ids -> Statuses] /\ statuses'[id] = "pending"
      /\ \A i \in Ids : statuses'[i] \in {statuses[i], "none"} \/ i = id
      /\ \A i \in Ids : i # id => (statuses'[i] = "pending" <=> statuses[i] = "pending")
      /\ phase = "prepare" => \A i \in Ids : i # id => statuses'[i] = statuses[i]
  BY ScopeKeeps DEF Accept, CurrentStatuses, Types, Statuses
<1>3. /\ inputs' \in [Ids -> Contents \cup {NoInput}] /\ inputs'[id] = content
      /\ \A i \in Ids : i # id /\ statuses[i] = "pending" => inputs'[i] = inputs[i]
  BY ScopeKeeps DEF Accept, CurrentStatuses, Types
<1>4. Types'
  BY <1>0, <1>1, <1>2, <1>3 DEF Types
<1>5. \A k \in DOMAIN queue : queue[k].id \in Ids /\ statuses[queue[k].id] = "pending" /\ queue[k].id # id
  BY <1>0, ItemFields DEF Types, ReceiptsMatch, Holds
<1>6. \A k \in DOMAIN taken : taken[k].id \in Ids /\ statuses[taken[k].id] # "none" /\ taken[k].id # id
  BY <1>0, ItemFields DEF Types, ReceiptsMatch, Holds
<1>7. Placed'
  <2>1. \A k \in DOMAIN queue : queue[k].number < e.number
    BY <1>0, ItemFields DEF Types, Placed
  <2>2. \A k \in DOMAIN log : log[k].number < e.number
    BY <1>0, ItemFields DEF Types, Placed
  <2>3. \A k \in DOMAIN taken : taken[k].number < e.number
    BY <1>0, ItemFields DEF Types, Placed
  <2>4. Sorted(queue')
    BY <1>1, <2>1 DEF Placed, Sorted
  <2>5. Before(log', queue') /\ Before(taken', queue') /\ Before(log', taken') /\ Sorted(log')
    BY <1>0, <1>1, <2>2, <2>3 DEF Placed, Before
  <2> QED BY <1>0, <1>1, <2>1, <2>2, <2>3, <2>4, <2>5, ItemFields DEF Placed, Types
<1>8. IdsApart'
  BY <1>0, <1>1, <1>5, <1>6 DEF IdsApart, Distinct, Apart, Holds
<1>9. ReceiptsMatch'
  <2>1. \A i \in Ids : Holds(queue', i) <=> Holds(queue, i) \/ i = id
    BY <1>0, <1>1 DEF Holds
  <2>2. \A k \in DOMAIN queue' : inputs'[queue'[k].id] = queue'[k].content
    BY <1>0, <1>1, <1>3, <1>5 DEF ReceiptsMatch
  <2>3. \A k \in DOMAIN taken : statuses'[taken[k].id] \in {"taken", "cancelled"}
    BY <1>2, <1>6 DEF ReceiptsMatch, Types
  <2>4. ~Holds(live, id)
    BY <1>0 DEF ReceiptsMatch, Holds
  <2>5. ASSUME NEW i \in Ids
        PROVE  /\ statuses'[i] = "injected" => Holds(live', i)
               /\ statuses'[i] \in {"cancelled", "discarded"} => ~Holds(live', i)
               /\ statuses'[i] = "pending" <=> Holds(queue', i)
               /\ statuses'[i] = "taken" => Holds(taken', i)
    <3>1. CASE i = id
      BY <1>0, <1>2, <2>1, <2>4, <3>1
    <3>2. CASE i # id
      BY <1>0, <1>2, <2>1, <3>2 DEF ReceiptsMatch, Holds
    <3> QED BY <3>1, <3>2
  <2>6. unfinished' = Len(queue') + Len(taken')
    <3>1. Len(taken) \in Nat /\ Len(taken') = Len(taken)
      BY <1>0 DEF Types
    <3>2. unfinished = Len(queue) + Len(taken)
      BY DEF ReceiptsMatch
    <3> QED BY <1>0, <1>1, <3>1, <3>2
  <2> QED BY <1>0, <2>2, <2>3, <2>5, <2>6 DEF ReceiptsMatch, Holds
<1>10. Withdrawals'
  BY <1>0, <1>1, <1>2, <1>6, ItemFields DEF Withdrawals, Types
<1> QED BY <1>4, <1>7, <1>8, <1>9, <1>10

\* A queued item is withdrawn: the places of all others stay.
LEMMA CancelPendingKeeps ==
  ASSUME Inv, NEW id \in Ids, CancelPending(id)
  PROVE  Inv'
<1> USE DEF Inv
<1>0. /\ queue' = Kept(queue, id) /\ statuses' = [statuses EXCEPT ![id] = "cancelled"]
      /\ unfinished' = unfinished - (Len(queue) - Len(queue')) /\ statuses[id] = "pending"
      /\ UNCHANGED <<inputs, finished, phase, taken, live, log, saved, submissions>>
  BY DEF CancelPending, store, counts
<1>1. /\ queue' \in Seq(Item) /\ Sorted(queue')
      /\ \A j \in DOMAIN queue' : \E i \in DOMAIN queue : queue'[j] = queue[i] /\ queue[i].id # id
      /\ \A i \in DOMAIN queue : queue[i].id # id => \E j \in DOMAIN queue' : queue'[j] = queue[i]
  BY <1>0, KeptInOrder DEF Types, Placed
<1>2. \A n \in withdrawn' : n \in withdrawn \/ \E i \in DOMAIN queue : queue[i].id = id /\ n = queue[i].number
  BY DEF CancelPending
<1>3. /\ statuses' \in [Ids -> Statuses] /\ statuses'[id] = "cancelled"
      /\ \A i \in Ids : i # id => statuses'[i] = statuses[i]
  BY <1>0 DEF Types, Statuses
<1>4. Types'
  BY <1>0, <1>1, <1>3 DEF Types
<1>5. Placed'
  <2>1. Before(log', queue') /\ Before(taken', queue')
    BY <1>0, <1>1 DEF Placed, Before
  <2>2. \A k \in DOMAIN queue' : queue'[k].number <= submissions'
    BY <1>0, <1>1 DEF Placed
  <2> QED BY <1>0, <1>1, <2>1, <2>2 DEF Placed
<1>6. IdsApart'
  <2>1. Distinct(queue')
    <3> SUFFICES ASSUME NEW j \in DOMAIN queue', NEW k \in DOMAIN queue', queue'[j].id = queue'[k].id
                 PROVE  j = k
      BY DEF Distinct
    <3>1. PICK i \in DOMAIN queue : queue'[j] = queue[i]
      BY <1>1
    <3>2. PICK l \in DOMAIN queue : queue'[k] = queue[l]
      BY <1>1
    <3>3. queue'[j] = queue'[k] /\ queue'[j].number \in Int
      BY <3>1, <3>2, ItemFields DEF IdsApart, Distinct, Types
    <3>4. j \in Nat /\ k \in Nat
      BY <1>1
    <3> QED BY <1>1, <3>3, <3>4 DEF Sorted
  <2>2. Apart(log', queue') /\ Apart(taken', queue')
    BY <1>0, <1>1 DEF IdsApart, Apart
  <2> QED BY <1>0, <2>1, <2>2 DEF IdsApart
<1>7. Holds(queue, id) /\ ~Holds(live, id) /\ (\A k \in DOMAIN taken : taken[k].id # id)
  <2>1. PICK i \in DOMAIN queue : queue[i].id = id
    BY <1>0 DEF ReceiptsMatch, Holds
  <2> QED BY <2>1 DEF ReceiptsMatch, IdsApart, Apart, Holds
<1>8. ReceiptsMatch'
  <2>1. \A i \in Ids : Holds(queue', i) <=> Holds(queue, i) /\ i # id
    BY <1>1 DEF Holds
  <2>2. ASSUME NEW i \in Ids
        PROVE  /\ statuses'[i] = "injected" => Holds(live', i)
               /\ statuses'[i] \in {"cancelled", "discarded"} => ~Holds(live', i)
               /\ statuses'[i] = "pending" <=> Holds(queue', i)
               /\ statuses'[i] = "taken" => Holds(taken', i)
    <3>1. CASE i = id
      BY <1>0, <1>3, <1>7, <2>1, <3>1
    <3>2. CASE i # id
      BY <1>0, <1>3, <2>1, <3>2 DEF ReceiptsMatch, Holds
    <3> QED BY <3>1, <3>2
  <2>3. \A k \in DOMAIN taken' : statuses'[taken'[k].id] \in {"taken", "cancelled"}
    BY <1>0, <1>3, <1>7, ItemFields DEF ReceiptsMatch, Types
  <2>4. \A k \in DOMAIN queue' : inputs'[queue'[k].id] = queue'[k].content
    BY <1>0, <1>1 DEF ReceiptsMatch
  <2>5. unfinished' = Len(queue') + Len(taken')
    <3>1. Len(queue) \in Nat /\ Len(queue') \in Nat /\ Len(taken) \in Nat
      BY <1>1 DEF Types
    <3>2. unfinished = Len(queue) + Len(taken)
      BY DEF ReceiptsMatch
    <3> QED BY <1>0, <3>1, <3>2
  <2> QED BY <1>0, <2>2, <2>3, <2>4, <2>5 DEF ReceiptsMatch, Holds
<1>9. Withdrawals'
  <2>1. PICK i \in DOMAIN queue : queue[i].id = id
    BY <1>7 DEF Holds
  <2>2. \A n \in withdrawn' : n \in withdrawn \/ n = queue[i].number
    BY <1>2, <2>1 DEF IdsApart, Distinct
  <2>3. queue[i].number \in Int /\ queue[i].number <= submissions
    BY <2>1, ItemFields DEF Types, Placed
  <2>4. \A k \in DOMAIN log : log[k].number # queue[i].number
    BY <2>1, <2>3, ItemFields DEF Placed, Before, Types
  <2>5. \A k \in DOMAIN taken : taken[k].number # queue[i].number
    BY <2>1, <2>3, ItemFields DEF Placed, Before, Types
  <2>6. \A k \in DOMAIN queue' : queue'[k].number # queue[i].number /\ queue'[k].number \notin withdrawn
    <3> SUFFICES ASSUME NEW k \in DOMAIN queue'
                 PROVE  queue'[k].number # queue[i].number /\ queue'[k].number \notin withdrawn
      OBVIOUS
    <3>1. PICK l \in DOMAIN queue : queue'[k] = queue[l] /\ queue[l].id # id
      BY <1>1
    <3>2. l # i /\ l \in Nat /\ i \in Nat /\ queue[l].number \in Int
      BY <2>1, <3>1, ItemFields DEF Types
    <3> QED BY <2>3, <3>1, <3>2 DEF Placed, Sorted, Withdrawals
  <2> QED BY <1>0, <1>3, <1>7, <2>2, <2>3, <2>4, <2>5, <2>6, ItemFields DEF Withdrawals, Types
<1> QED BY <1>4, <1>5, <1>6, <1>8, <1>9

LEMMA CancelTakenKeeps ==
  ASSUME Inv, NEW id \in Ids, CancelTaken(id)
  PROVE  Inv'
<1> USE DEF Inv
<1>0. /\ statuses' = [statuses EXCEPT ![id] = "cancelled"] /\ statuses[id] = "taken"
      /\ UNCHANGED <<queue, inputs, unfinished, finished, phase, taken, live, log, saved, submissions>>
  BY DEF CancelTaken, store, counts
<1>1. \A n \in withdrawn' : n \in withdrawn \/ \E k \in DOMAIN taken : taken[k].id = id /\ n = taken[k].number
  BY DEF CancelTaken
<1>2. /\ statuses' \in [Ids -> Statuses] /\ statuses'[id] = "cancelled"
      /\ \A i \in Ids : i # id => statuses'[i] = statuses[i]
  BY <1>0 DEF Types, Statuses
<1>3. PICK t \in DOMAIN taken : taken[t].id = id
  BY <1>0 DEF ReceiptsMatch, Holds
<1>4. \A k \in DOMAIN taken : k = t
  BY DEF Types
<1>5. Types'
  BY <1>0, <1>2 DEF Types
<1>6. Placed' /\ IdsApart'
  BY <1>0 DEF Placed, IdsApart, Sorted, Before, Apart, Distinct
<1>7. ~Holds(live, id) /\ ~Holds(queue, id)
  BY <1>3 DEF ReceiptsMatch, IdsApart, Apart, Holds
<1>8. ReceiptsMatch'
  <2>1. ASSUME NEW i \in Ids
        PROVE  /\ statuses'[i] = "injected" => Holds(live', i)
               /\ statuses'[i] \in {"cancelled", "discarded"} => ~Holds(live', i)
               /\ statuses'[i] = "pending" <=> Holds(queue', i)
               /\ statuses'[i] = "taken" => Holds(taken', i)
    <3>1. CASE i = id
      BY <1>0, <1>2, <1>7, <3>1
    <3>2. CASE i # id
      BY <1>0, <1>2, <3>2 DEF ReceiptsMatch, Holds
    <3> QED BY <3>1, <3>2
  <2> QED BY <1>0, <1>2, <1>3, <1>4, <2>1 DEF ReceiptsMatch, Holds
<1>9. Withdrawals'
  <2>1. \A n \in withdrawn' : n \in withdrawn \/ n = taken[t].number
    BY <1>1, <1>4
  <2>2. taken[t].number \in Int /\ taken[t].number <= submissions
    BY ItemFields DEF Types, Placed
  <2>3. \A k \in DOMAIN log : log[k].number # taken[t].number
    BY <2>2, ItemFields DEF Placed, Before, Types
  <2>4. \A k \in DOMAIN queue : queue[k].number # taken[t].number
    BY <2>2, ItemFields DEF Placed, Before, Types
  <2>5. \A k \in DOMAIN taken' : statuses'[taken'[k].id] = "cancelled"
    BY <1>0, <1>2, <1>3, <1>4
  <2> QED BY <1>0, <2>1, <2>2, <2>3, <2>4, <2>5 DEF Withdrawals
<1> QED BY <1>5, <1>6, <1>8, <1>9

\* aapply_next takes the first item of the queue.
LEMMA TakeKeeps == ASSUME Inv, Take PROVE Inv'
<1> USE DEF Inv
<1> DEFINE e == Head(queue)
<1>0. /\ phase = "drain" /\ phase' = "prepare" /\ taken' = <<e>> /\ queue' = Tail(queue)
      /\ statuses' = [statuses EXCEPT ![e.id] = "taken"] /\ queue # <<>>
      /\ UNCHANGED <<inputs, unfinished, finished, live, log, saved, submissions, withdrawn>>
  BY DEF Take, store, counts
<1>1. /\ e = queue[1] /\ 1 \in DOMAIN queue /\ e \in Item /\ queue' \in Seq(Item)
      /\ Len(queue') = Len(queue) - 1 /\ Len(queue) \in Nat
      /\ \A k \in DOMAIN queue' : k + 1 \in DOMAIN queue /\ queue'[k] = queue[k + 1] /\ k \in Nat /\ k >= 1
      /\ \A k \in DOMAIN queue : k = 1 \/ (k - 1 \in DOMAIN queue' /\ queue'[k - 1] = queue[k])
  BY <1>0 DEF Types
<1>2. taken = <<>> /\ ~finished
  BY <1>0 DEF Types
<1> HIDE DEF e
<1>3. DOMAIN taken' = {1} /\ taken'[1] = e /\ Len(taken') = 1 /\ taken' \in Seq(Item)
  BY <1>0, <1>1
<1>4. e.id \in Ids /\ e.number \in Int
  BY <1>1, ItemFields
<1>5. /\ statuses' \in [Ids -> Statuses] /\ statuses'[e.id] = "taken"
      /\ \A i \in Ids : i # e.id => statuses'[i] = statuses[i]
  BY <1>0, <1>4 DEF Types, Statuses
<1>6. Types'
  BY <1>0, <1>1, <1>2, <1>3, <1>5 DEF Types
<1>7. Placed'
  <2>1. Sorted(queue')
    <3> SUFFICES ASSUME NEW j \in DOMAIN queue', NEW k \in DOMAIN queue', j < k
                 PROVE  queue'[j].number < queue'[k].number
      BY DEF Sorted
    <3>1. j + 1 < k + 1 /\ j + 1 \in DOMAIN queue /\ k + 1 \in DOMAIN queue
      BY <1>1
    <3> QED BY <1>1, <3>1 DEF Placed, Sorted
  <2>2. Before(taken', queue')
    <3> SUFFICES ASSUME NEW k \in DOMAIN queue' PROVE e.number < queue'[k].number
      BY <1>3 DEF Before
    <3>1. k + 1 \in DOMAIN queue /\ 1 < k + 1
      BY <1>1
    <3> QED BY <1>1, <3>1 DEF Placed, Sorted
  <2>3. Before(log', queue') /\ Before(log', taken')
    BY <1>0, <1>1, <1>3 DEF Placed, Before
  <2> QED BY <1>0, <1>1, <1>3, <2>1, <2>2, <2>3 DEF Placed
<1>8. IdsApart'
  <2>1. \A j, k \in DOMAIN queue' : j + 1 = k + 1 => j = k
    BY <1>1
  <2>2. Distinct(queue')
    BY <1>1, <2>1 DEF IdsApart, Distinct
  <2>3. Apart(taken', queue')
    <3> SUFFICES ASSUME NEW k \in DOMAIN queue' PROVE e.id # queue'[k].id
      BY <1>3 DEF Apart
    <3>1. k + 1 \in DOMAIN queue /\ 1 # k + 1
      BY <1>1
    <3> QED BY <1>1, <3>1 DEF IdsApart, Distinct
  <2>4. Apart(log', queue') /\ Apart(log', taken')
    BY <1>0, <1>1, <1>3 DEF IdsApart, Apart
  <2> QED BY <1>0, <2>2, <2>3, <2>4 DEF IdsApart
<1>9. ReceiptsMatch'
  <2>1. \A i \in Ids : Holds(queue', i) <=> Holds(queue, i) /\ i # e.id
    <3>1. \A k \in DOMAIN queue' : queue'[k].id # e.id
      BY <1>3, <1>8 DEF IdsApart, Apart
    <3> QED BY <1>1, <3>1 DEF Holds
  <2>2. ASSUME NEW i \in Ids
        PROVE  /\ statuses'[i] = "injected" => Holds(live', i)
               /\ statuses'[i] \in {"cancelled", "discarded"} => ~Holds(live', i)
               /\ statuses'[i] = "pending" <=> Holds(queue', i)
               /\ statuses'[i] = "taken" => Holds(taken', i)
    <3>1. CASE i = e.id
      BY <1>3, <1>5, <2>1, <3>1 DEF Holds
    <3>2. CASE i # e.id
      <4>1. statuses[i] # "taken"
        BY <1>2 DEF ReceiptsMatch, Holds
      <4> QED BY <1>0, <1>5, <2>1, <3>2, <4>1 DEF ReceiptsMatch, Holds
    <3> QED BY <3>1, <3>2
  <2>3. \A k \in DOMAIN queue' : inputs'[queue'[k].id] = queue'[k].content
    BY <1>0, <1>1 DEF ReceiptsMatch
  <2>4. unfinished' = Len(queue') + Len(taken')
    <3>1. unfinished = Len(queue) + 0
      BY <1>2 DEF ReceiptsMatch
    <3> QED BY <1>0, <1>1, <1>3, <3>1
  <2> QED BY <1>0, <1>3, <1>5, <2>2, <2>3, <2>4 DEF ReceiptsMatch, Holds
<1>10. Withdrawals'
  BY <1>0, <1>1, <1>3 DEF Withdrawals
<1> QED BY <1>6, <1>7, <1>8, <1>9, <1>10

\* The end of aapply_next: the item in preparation is committed, or only
\* written to the log, or dropped.
LEMMA SettleKeeps ==
  ASSUME Inv, phase = "prepare", NEW status \in Statuses, NEW next, next # "prepare",
         Settle(status, next),
         \/ /\ status \in {"cancelled", "discarded"}
            /\ UNCHANGED <<live, log, saved>>
         \/ /\ statuses[taken[1].id] # "cancelled"
            /\ log' = Append(log, taken[1])
            /\ \/ status = "injected" /\ live' = Append(live, taken[1]) /\ saved' = Len(log')
               \/ status = "discarded" /\ UNCHANGED <<live, saved>>
  PROVE  Inv'
<1> USE DEF Inv
<1> DEFINE t == taken[1]
<1>0. /\ taken' = <<>> /\ unfinished' = unfinished - 1 /\ phase' = next
      /\ statuses' = [statuses EXCEPT ![t.id] = status]
      /\ UNCHANGED <<queue, inputs, finished, withdrawn, submissions>>
  BY DEF Settle
<1>1. t \in Item /\ DOMAIN taken = {1} /\ Len(taken) = 1 /\ ~finished
  <2>1. taken \in Seq(Item) /\ Len(taken) = 1 /\ ~finished
    BY DEF Types
  <2>2. DOMAIN taken = {1}
    BY <2>1
  <2> QED BY <2>1, <2>2
<1> HIDE DEF t
<1>2. t.id \in Ids /\ t.number \in Int
  BY <1>1, ItemFields
<1>3. /\ statuses' \in [Ids -> Statuses] /\ statuses'[t.id] = status
      /\ \A i \in Ids : i # t.id => statuses'[i] = statuses[i]
  BY <1>0, <1>2 DEF Types
<1>4. /\ \A k \in DOMAIN log : log[k].number < t.number /\ log[k].id # t.id
      /\ \A k \in DOMAIN queue : t.number < queue[k].number /\ t.id # queue[k].id
      /\ t.number <= submissions
  BY <1>1 DEF Placed, Before, IdsApart, Apart, t
<1>5. statuses[t.id] \in {"taken", "cancelled"} /\ (t.number \in withdrawn => statuses[t.id] = "cancelled")
  BY <1>1 DEF ReceiptsMatch, Withdrawals, t
<1>6. ~Holds(live, t.id) /\ ~Holds(queue, t.id)
  BY <1>4 DEF ReceiptsMatch, Holds
<1>7. \/ UNCHANGED log
      \/ /\ log' = Append(log, t) /\ statuses[t.id] = "taken" /\ t.number \notin withdrawn
         /\ status \in {"injected", "discarded"}
  BY <1>5 DEF t
<1>8. /\ log' \in Seq(Item) /\ Len(log) \in Nat /\ Len(log) <= Len(log') /\ Len(log') \in Nat
      /\ \A k \in DOMAIN log : k \in DOMAIN log' /\ log'[k] = log[k] /\ k \in Nat /\ k < Len(log) + 1
      /\ \A k \in DOMAIN log' : k \in DOMAIN log \/ (log' # log /\ k = Len(log) + 1 /\ log'[k] = t)
  <2>1. CASE UNCHANGED log
    BY <2>1 DEF Types
  <2>2. CASE log' = Append(log, t)
    <3>1. /\ log' \in Seq(Item) /\ Len(log') = Len(log) + 1 /\ Len(log) \in Nat
          /\ DOMAIN log' = DOMAIN log \cup {Len(log) + 1}
          /\ \A k \in DOMAIN log : log'[k] = log[k] /\ k < Len(log) + 1
          /\ log'[Len(log) + 1] = t
      BY <1>1, <2>2, AppendItem DEF Types
    <3>2. log' # log
      BY <3>1
    <3>3. \A k \in DOMAIN log : k \in Nat
      BY DEF Types
    <3> QED BY <3>1, <3>2, <3>3
  <2> QED BY <1>7, <2>1, <2>2
<1>9. /\ live' \in Seq(Item)
      /\ \A k \in DOMAIN live' : live'[k] = t \/ \E j \in DOMAIN live : live[j] = live'[k]
      /\ \A j \in DOMAIN live : j \in DOMAIN live' /\ live'[j] = live[j]
      /\ status = "injected" => log' # log /\ Holds(log', t.id) /\ Holds(live', t.id)
      /\ status # "injected" => UNCHANGED live
      /\ saved' \in 0..Len(log')
  <2>1. CASE UNCHANGED <<live, saved>> /\ status # "injected"
    BY <1>8, <2>1 DEF Types
  <2>2. CASE status = "injected" /\ log' = Append(log, t) /\ live' = Append(live, t) /\ saved' = Len(log')
    <3>1. /\ live' \in Seq(Item) /\ Len(live) + 1 \in DOMAIN live' /\ live'[Len(live) + 1] = t
          /\ DOMAIN live' = DOMAIN live \cup {Len(live) + 1} /\ \A k \in DOMAIN live : live'[k] = live[k]
      BY <1>1, <2>2, AppendItem DEF Types
    <3>2. Len(log) + 1 \in DOMAIN log' /\ log'[Len(log) + 1] = t /\ Len(log') = Len(log) + 1
      BY <1>1, <2>2, AppendItem DEF Types
    <3> QED BY <1>8, <2>2, <3>1, <3>2 DEF Holds
  <2> QED BY <2>1, <2>2 DEF t
<1>10. Types'
  BY <1>0, <1>1, <1>3, <1>8, <1>9 DEF Types
<1>11. Placed'
  <2>1. Sorted(log')
    <3> SUFFICES ASSUME NEW j \in DOMAIN log', NEW k \in DOMAIN log', j < k
                 PROVE  log'[j].number < log'[k].number
      BY DEF Sorted
    <3>1. j \in DOMAIN log
      BY <1>8
    <3> QED BY <1>4, <1>8, <3>1 DEF Placed, Sorted
  <2>2. Before(log', queue')
    BY <1>0, <1>4, <1>8 DEF Placed, Before
  <2>3. \A k \in DOMAIN log' : log'[k].number <= submissions
    BY <1>4, <1>8 DEF Placed
  <2> QED BY <1>0, <2>1, <2>2, <2>3 DEF Placed, Before
<1>12. IdsApart'
  <2>1. Distinct(log')
    BY <1>4, <1>8 DEF IdsApart, Distinct
  <2>2. Apart(log', queue')
    BY <1>0, <1>4, <1>8 DEF IdsApart, Apart
  <2> QED BY <1>0, <2>1, <2>2 DEF IdsApart, Apart
<1>13. ReceiptsMatch'
  <2>1. \A i \in Ids : i # t.id => (Holds(live', i) <=> Holds(live, i))
    BY <1>9 DEF Holds
  <2>2. ASSUME NEW i \in Ids
        PROVE  /\ statuses'[i] = "injected" => Holds(live', i)
               /\ statuses'[i] \in {"cancelled", "discarded"} => ~Holds(live', i)
               /\ statuses'[i] = "pending" <=> Holds(queue', i)
               /\ statuses'[i] = "taken" => Holds(taken', i)
    <3>1. CASE i = t.id
      BY <1>0, <1>3, <1>6, <1>7, <1>9, <3>1
    <3>2. CASE i # t.id
      <4>1. statuses[i] # "taken"
        BY <1>1, <3>2 DEF ReceiptsMatch, Holds, t
      <4> QED BY <1>0, <1>3, <2>1, <3>2, <4>1 DEF ReceiptsMatch
    <3> QED BY <3>1, <3>2
  <2>3. \A k \in DOMAIN live' : Holds(log', live'[k].id)
    <3>1. \A k \in DOMAIN live : Holds(log', live[k].id)
      BY <1>8 DEF ReceiptsMatch, Holds
    <3> QED BY <1>9, <3>1
  <2>4. unfinished' = Len(queue') + Len(taken')
    <3>1. unfinished = Len(queue) + 1 /\ Len(queue) \in Nat /\ Len(taken') = 0
      BY <1>0, <1>1 DEF ReceiptsMatch, Types
    <3> QED BY <1>0, <3>1
  <2> QED BY <1>0, <2>2, <2>3, <2>4 DEF ReceiptsMatch
<1>14. Withdrawals'
  <2>1. \A k \in DOMAIN log' : log'[k].number \notin withdrawn
    BY <1>7, <1>8 DEF Withdrawals
  <2> QED BY <1>0, <2>1 DEF Withdrawals
<1> QED BY <1>10, <1>11, <1>12, <1>13, <1>14

\* A step that goes back to a prefix of the log, or leaves it, and empties the
\* queue while nothing is being prepared.
LEMMA EmptiesKeeps ==
  ASSUME Inv, phase' # "prepare",
         queue' = <<>>, taken' = <<>>, unfinished' = 0,
         UNCHANGED <<submissions, withdrawn>>,
         finished' => phase' = "idle",
         inputs' \in [Ids -> Contents \cup {NoInput}],
         \/ /\ UNCHANGED <<live, log, saved>> /\ taken = <<>>
            /\ statuses' = Discarded(statuses)
         \/ /\ \E n \in 0..Len(log) : log' = SubSeq(log, 1, n) /\ saved' = n
            /\ live' = log' /\ statuses' = NoStatus
  PROVE  Inv'
<1> USE DEF Inv
<1>1. /\ log' \in Seq(Item)
      /\ \A k \in DOMAIN log' : k \in DOMAIN log /\ log'[k] = log[k]
      /\ live' \in Seq(Item)
      /\ saved' \in 0..Len(log')
  <2>1. CASE UNCHANGED <<live, log, saved>>
    BY <2>1 DEF Types
  <2>2. CASE (\E n \in 0..Len(log) : log' = SubSeq(log, 1, n) /\ saved' = n) /\ live' = log'
    <3>1. PICK n \in 0..Len(log) : log' = SubSeq(log, 1, n) /\ saved' = n
      BY <2>2
    <3>2. log \in Seq(Item) /\ Len(log) \in Nat
      BY DEF Types
    <3>3. log' \in Seq(Item) /\ Len(log') = n /\ \A k \in 1..n : log'[k] = log[k]
      BY <3>1, <3>2
    <3>4. DOMAIN log' = 1..n /\ 1..n \subseteq DOMAIN log
      BY <3>2, <3>3
    <3> QED BY <2>2, <3>1, <3>3, <3>4
  <2> QED BY <2>1, <2>2
<1>2. \A k \in DOMAIN live' : Holds(log', live'[k].id)
  BY DEF ReceiptsMatch, Holds
<1>3. /\ statuses' \in [Ids -> Statuses]
      /\ \A i \in Ids :
           \/ statuses'[i] = "none"
           \/ /\ UNCHANGED live
              /\ \/ Holds(queue, i) /\ statuses'[i] = "discarded"
                 \/ ~Holds(queue, i) /\ statuses'[i] = statuses[i] /\ statuses[i] \notin {"pending", "taken"}
  <2>1. CASE statuses' = NoStatus
    BY <2>1 DEF NoStatus, Statuses
  <2>2. CASE statuses' = Discarded(statuses) /\ UNCHANGED live /\ taken = <<>>
    BY <2>2 DEF Discarded, Types, Statuses, ReceiptsMatch, Holds
  <2> QED BY <2>1, <2>2
<1>4. Types'
  BY <1>1, <1>3 DEF Types
<1>5. Placed'
  BY <1>1 DEF Placed, Sorted, Before
<1>6. IdsApart'
  BY <1>1 DEF IdsApart, Distinct, Apart
<1>7. \A i \in Ids : Holds(queue, i) => ~Holds(live, i)
  BY DEF ReceiptsMatch, IdsApart, Apart, Holds
<1>8. ReceiptsMatch'
  <2>1. ASSUME NEW i \in Ids
        PROVE  /\ statuses'[i] = "injected" => Holds(live', i)
               /\ statuses'[i] \in {"cancelled", "discarded"} => ~Holds(live', i)
               /\ statuses'[i] = "pending" <=> Holds(queue', i)
               /\ statuses'[i] = "taken" => Holds(taken', i)
    <3>1. ~Holds(queue', i)
      BY DEF Holds
    <3>2. CASE statuses'[i] = "none"
      BY <3>1, <3>2
    <3>3. CASE UNCHANGED live /\ Holds(queue, i) /\ statuses'[i] = "discarded"
      BY <1>7, <3>1, <3>3
    <3>4. CASE UNCHANGED live /\ statuses'[i] = statuses[i] /\ statuses[i] \notin {"pending", "taken"}
      BY <3>1, <3>4 DEF ReceiptsMatch
    <3> QED BY <1>3, <3>2, <3>3, <3>4
  <2> QED BY <1>2, <2>1 DEF ReceiptsMatch
<1>9. Withdrawals'
  BY <1>1 DEF Withdrawals
<1> QED BY <1>4, <1>5, <1>6, <1>8, <1>9

LEMMA NextKeeps == Inv /\ [Next]_vars => Inv'
<1> SUFFICES ASSUME Inv, [Next]_vars PROVE Inv'
  OBVIOUS
<1>0. Len(taken) = (IF phase = "prepare" THEN 1 ELSE 0) /\ (finished => phase = "idle")
  BY DEF Inv, Types
<1>1. CASE Boundary \/ Drained \/ RequestCancel \/ UNCHANGED vars
  BY <1>0, <1>1, QuietStep DEF Boundary, Drained, RequestCancel, vars, manager, store, counts
<1>2. CASE Take
  BY <1>2, TakeKeeps
<1>3. CASE Adopt
  <2>1. CASE Settle("cancelled", "drain") /\ UNCHANGED <<live, store>>
    BY <1>3, <2>1, SettleKeeps DEF Adopt, Statuses, store
  <2>2. CASE /\ ~Withdrawn
             /\ live' = Append(live, taken[1]) /\ log' = Append(log, taken[1]) /\ saved' = Len(log')
             /\ Settle("injected", "drain")
    BY <1>3, <2>2, SettleKeeps DEF Adopt, Statuses, Withdrawn
  <2> QED BY <1>3, <2>1, <2>2 DEF Adopt
<1>4. CASE CommitFails
  BY <1>4, SettleKeeps DEF CommitFails, Statuses, Withdrawn
<1>5. CASE PrepareFails
  BY <1>5, SettleKeeps DEF PrepareFails, Statuses, store
<1>6. CASE EndRun
  <2>1. taken = <<>> /\ unfinished = Len(queue) /\ Len(queue) \in Nat
    BY <1>6 DEF EndRun, Inv, Types, ReceiptsMatch
  <2>2. inputs' \in [Ids -> Contents \cup {NoInput}]
    BY <1>6 DEF EndRun, Inv, Types
  <2> QED BY <1>6, <2>1, <2>2, EmptiesKeeps DEF EndRun, store, counts
<1>7. ASSUME NEW keep \in 0..Len(log), Revise(keep) PROVE Inv'
  <2>1. taken = <<>> /\ unfinished = Len(queue) /\ Len(queue) \in Nat
    BY <1>7 DEF Revise, Inv, Types, ReceiptsMatch
  <2>2. inputs' \in [Ids -> Contents \cup {NoInput}]
    BY <1>7 DEF Revise
  <2> QED BY <1>7, <2>1, <2>2, EmptiesKeeps DEF Revise
<1>8. CASE Restart
  <2>1. \E n \in 0..Len(log) : log' = SubSeq(log, 1, n) /\ saved' = n
    <3>1. saved \in 0..Len(log) /\ Len(log) \in Nat
      BY DEF Inv, Types
    <3> QED BY <1>8, <3>1 DEF Restart
  <2>2. inputs' \in [Ids -> Contents \cup {NoInput}] /\ live' = log'
    BY <1>8 DEF Restart
  <2> QED BY <1>8, <2>1, <2>2, EmptiesKeeps DEF Restart
<1> QED BY <1>1, <1>2, <1>3, <1>4, <1>5, <1>6, <1>7, <1>8,
           AcceptKeeps, CancelPendingKeeps, CancelTakenKeeps, BeginRunKeeps
        DEF Next, RunStep, Host

-----------------------------------------------------------------------------
(* The three promises.                                                     *)

LEMMA PlacesInOrder == Inv => OnceInOrder
<1> SUFFICES ASSUME Inv PROVE OnceInOrder
  OBVIOUS
<1> DEFINE front == log \o taken
           all == front \o queue
<1>1. /\ log \in Seq(Item) /\ taken \in Seq(Item) /\ queue \in Seq(Item)
      /\ Len(log) \in Nat /\ Len(taken) \in Nat /\ Len(queue) \in Nat
  BY DEF Inv, Types
<1>2. Sorted(taken)
  BY DEF Inv, Types, Sorted
<1>3. ASSUME NEW s \in Seq(Item), NEW t \in Seq(Item), Sorted(s), Sorted(t), Before(s, t)
      PROVE  /\ s \o t \in Seq(Item) /\ Sorted(s \o t)
             /\ \A k \in DOMAIN (s \o t) : (\E j \in DOMAIN s : (s \o t)[k] = s[j])
                                          \/ \E j \in DOMAIN t : (s \o t)[k] = t[j]
  <2> DEFINE u == s \o t
  <2>1. /\ u \in Seq(Item) /\ Len(u) = Len(s) + Len(t) /\ Len(s) \in Nat /\ Len(t) \in Nat
        /\ DOMAIN u = 1..Len(u) /\ DOMAIN s = 1..Len(s) /\ DOMAIN t = 1..Len(t)
        /\ \A k \in 1..Len(s) : u[k] = s[k]
        /\ \A k \in 1..Len(t) : u[Len(s) + k] = t[k]
    OBVIOUS
  <2> HIDE DEF u
  <2>2. \A k \in DOMAIN u : \/ k \in DOMAIN s /\ u[k] = s[k]
                            \/ k - Len(s) \in DOMAIN t /\ k > Len(s) /\ u[k] = t[k - Len(s)]
    <3> SUFFICES ASSUME NEW k \in DOMAIN u, ~(k <= Len(s))
                 PROVE  k - Len(s) \in DOMAIN t /\ k > Len(s) /\ u[k] = t[k - Len(s)]
      BY <2>1
    <3>1. k - Len(s) \in 1..Len(t) /\ k = Len(s) + (k - Len(s))
      BY <2>1
    <3> QED BY <2>1, <3>1
  <2>3. ASSUME NEW j \in DOMAIN u, NEW k \in DOMAIN u, j < k PROVE u[j].number < u[k].number
    <3>0. j \in Nat /\ k \in Nat /\ j >= 1 /\ k >= 1
      BY <2>1
    <3>1. CASE k <= Len(s)
      <4>1. j \in DOMAIN s /\ k \in DOMAIN s /\ u[j] = s[j] /\ u[k] = s[k]
        BY <2>1, <2>3, <3>0, <3>1
      <4> QED BY <1>3, <2>3, <4>1 DEF Sorted
    <3>2. CASE j <= Len(s) /\ ~(k <= Len(s))
      <4>1. j \in DOMAIN s /\ u[j] = s[j]
        BY <2>1, <3>0, <3>2
      <4>2. k - Len(s) \in DOMAIN t /\ u[k] = t[k - Len(s)]
        BY <2>1, <2>2, <3>0, <3>2
      <4> QED BY <1>3, <4>1, <4>2 DEF Before
    <3>3. CASE ~(j <= Len(s))
      <4>1. j - Len(s) \in DOMAIN t /\ u[j] = t[j - Len(s)]
        BY <2>1, <2>2, <3>0, <3>3
      <4>2. ~(k <= Len(s)) /\ j - Len(s) < k - Len(s)
        BY <2>1, <2>3, <3>0, <3>3
      <4>3. k - Len(s) \in DOMAIN t /\ u[k] = t[k - Len(s)]
        BY <2>1, <2>2, <3>0, <4>2
      <4> QED BY <1>3, <4>1, <4>2, <4>3 DEF Sorted
    <3> QED BY <3>1, <3>2, <3>3
  <2>4. Sorted(u)
    BY <2>3 DEF Sorted
  <2> QED BY <2>1, <2>2, <2>4 DEF u
<1>4. /\ front \in Seq(Item) /\ Sorted(front)
      /\ \A k \in DOMAIN front : (\E j \in DOMAIN log : front[k] = log[j])
                                 \/ \E j \in DOMAIN taken : front[k] = taken[j]
  BY <1>1, <1>2, <1>3 DEF Inv, Placed
<1> HIDE DEF front
<1>5. Before(front, queue)
  BY <1>4 DEF Inv, Placed, Before
<1>6. Sorted(all)
  BY <1>1, <1>3, <1>4, <1>5 DEF Inv, Placed
<1>7. Distinct(log)
  BY DEF Inv, IdsApart
<1> QED BY <1>6, <1>7 DEF OnceInOrder, Sorted, Distinct, front

LEMMA ReceiptsFollow == Inv => ReceiptsTruthful
<1> SUFFICES ASSUME Inv PROVE ReceiptsTruthful
  OBVIOUS
<1> USE DEF Inv
<1>1. \A id \in Ids : statuses[id] \in {"pending", "taken"} => ~Holds(live, id)
  BY DEF ReceiptsMatch, IdsApart, Apart, Holds
<1> QED BY <1>1 DEF ReceiptsMatch, ReceiptsTruthful

\* Over all retries, edits, failed commits and restarts an id is at most once in
\* the conversation, and messages reach it in the order of their acceptance.
THEOREM AlwaysOnceInOrder == Spec => []OnceInOrder
  BY InitHolds, NextKeeps, PlacesInOrder, PTL DEF Spec

\* What cancel() has confirmed never reaches the conversation.
THEOREM AlwaysCancelHonoured == Spec => []CancelHonoured
<1>1. Inv => CancelHonoured
  BY DEF Inv, Withdrawals, CancelHonoured
<1> QED BY <1>1, InitHolds, NextKeeps, PTL DEF Spec

\* The receipt of an id says where its message is, the fingerprint that is kept
\* is the queued message's, and join() waits for what is queued or prepared.
THEOREM AlwaysReceiptsTruthful == Spec => []ReceiptsTruthful
  BY InitHolds, NextKeeps, ReceiptsFollow, PTL DEF Spec
=============================================================================
