-------------------------- MODULE PluginHostProofs --------------------------
(***************************************************************************)
(* What PluginHost promises for any plugins, any sessions and any number   *)
(* of failed factories, failed disposers and interruptions: no instance is *)
(* built twice, none is disposed under a run that was built on it, and a   *)
(* session that reports it is closed has left nothing behind.              *)
(*                                                                         *)
(* The invariant says who answers for each record: a run record is owned   *)
(* by the run, by the rollback left to the session, or by the activation   *)
(* in flight; a session record is in the cache until its session is gone;  *)
(* and a session on which runs may be built has all of its providers       *)
(* cached and outside the activation that may be rolled back.              *)
(*                                                                         *)
(* The host filters its list of live records over and over: Only is a      *)
(* recursive function, and the first part proves what it returns, by       *)
(* induction over a set of natural numbers.                                *)
(***************************************************************************)
EXTENDS PluginHost, WellFoundedInduction, TLAPS

-----------------------------------------------------------------------------
(* Induction, and functions that are defined from one position to the next. *)

\* A set that has 0 and every successor has every natural number.
LEMMA SetInduction ==
  ASSUME NEW T, 0 \in T, \A n \in Nat : n \in T => n + 1 \in T
  PROVE  \A n \in Nat : n \in T
<1> SUFFICES ASSUME NEW bad \in Nat, bad \notin T PROVE FALSE
  OBVIOUS
<1> DEFINE B == Nat \ T
<1>1. B \subseteq Nat /\ B # {}
  OBVIOUS
<1>2. \E x \in B : \A y \in B : <<y, x>> \notin OpToRel(<, Nat)
  <2> HIDE DEF B
  <2> QED BY <1>1, WFMin, NatLessThanWellFounded
<1>3. PICK x \in B : \A y \in B : <<y, x>> \notin OpToRel(<, Nat)
  BY <1>2
<1>4. \A y \in B : ~(y < x)
  BY <1>3 DEF OpToRel
<1> QED BY <1>4

\* f begins with a and follows the steps up to n.
Follows(f, a, step, n) == f[0] = a /\ \A k \in 1..n : f[k] = step[k][f[k - 1]]

\* The steps can be followed to any length.
LEMMA RecursionExists ==
  ASSUME NEW R, NEW a \in R, NEW N \in Nat, NEW step \in [1..N -> [R -> R]]
  PROVE  \E f \in [0..N -> R] : Follows(f, a, step, N)
<1> DEFINE T == { n \in Nat : n <= N => \E f \in [0..n -> R] : Follows(f, a, step, n) }
<1>1. 0 \in T
  <2> DEFINE f == [k \in 0..0 |-> a]
  <2>1. f \in [0..0 -> R] /\ Follows(f, a, step, 0)
    BY DEF Follows
  <2> QED BY <2>1
<1>2. ASSUME NEW n \in Nat, n \in T PROVE n + 1 \in T
  <2> SUFFICES ASSUME n + 1 <= N PROVE \E f \in [0..(n + 1) -> R] : Follows(f, a, step, n + 1)
    OBVIOUS
  <2>1. PICK f \in [0..n -> R] : Follows(f, a, step, n)
    BY <1>2
  <2>2. f[n] \in R /\ n + 1 \in 1..N
    OBVIOUS
  <2>3. step[n + 1][f[n]] \in R
    <3>1. step[n + 1] \in [R -> R]
      BY <2>2
    <3> QED BY <2>2, <3>1
  <2> DEFINE last == step[n + 1][f[n]]
             g == [k \in 0..(n + 1) |-> IF k = n + 1 THEN last ELSE f[k]]
  <2>4. last \in R
    BY <2>3
  <2>5. g \in [0..(n + 1) -> R]
    <3> HIDE DEF last
    <3> QED BY <2>4
  <2>6. Follows(g, a, step, n + 1)
    <3>1. g[0] = a
      BY <2>1 DEF Follows
    <3>2. ASSUME NEW k \in 1..(n + 1) PROVE g[k] = step[k][g[k - 1]]
      <4>1. CASE k = n + 1
        <5>1. g[k] = last /\ g[k - 1] = f[n]
          <6> HIDE DEF last
          <6> QED BY <4>1
        <5> QED BY <4>1, <5>1
      <4>2. CASE k # n + 1
        <5>1. g[k] = f[k] /\ g[k - 1] = f[k - 1] /\ k \in 1..n
          <6> HIDE DEF last
          <6> QED BY <4>2
        <5> QED BY <2>1, <5>1 DEF Follows
      <4> QED BY <4>1, <4>2
    <3> HIDE DEF g
    <3> QED BY <3>1, <3>2 DEF Follows
  <2> HIDE DEF g
  <2> QED BY <2>5, <2>6
<1>3. \A n \in Nat : n \in T
  <2> HIDE DEF T
  <2> QED BY <1>1, <1>2, SetInduction
<1>4. N \in T
  BY <1>3
<1> QED BY <1>4

\* f filters s up to each of its positions.
Filters(f, s, S) ==
  /\ f[0] = <<>>
  /\ \A k \in 1..Len(s) : f[k] = IF s[k] \in S THEN Append(f[k - 1], s[k]) ELSE f[k - 1]
  /\ Only(s, S) = f[Len(s)]

\* Only is what its recursive definition says.
LEMMA OnlyIs ==
  ASSUME NEW R, NEW s \in Seq(R), NEW S
  PROVE  \E f \in [0..Len(s) -> Seq(R)] : Filters(f, s, S)
<1> DEFINE N == Len(s)
           next(k, x) == IF s[k] \in S THEN Append(x, s[k]) ELSE x
           step == [k \in 1..N |-> [x \in Seq(R) |-> next(k, x)]]
<1>0. N \in Nat /\ <<>> \in Seq(R)
  OBVIOUS
<1>1. step \in [1..N -> [Seq(R) -> Seq(R)]]
  <2>1. \A k \in 1..N, x \in Seq(R) : next(k, x) \in Seq(R)
    OBVIOUS
  <2> HIDE DEF next, N
  <2> QED BY <2>1
<1>2. PICK f \in [0..N -> Seq(R)] : Follows(f, <<>>, step, N)
  <2> HIDE DEF step, N
  <2> QED BY <1>0, <1>1, RecursionExists
<1>3. f[0] = <<>> /\ \A k \in 1..N : f[k] = next(k, f[k - 1])
  <2>1. \A k \in 1..N : k \in 1..N /\ f[k - 1] \in Seq(R)
    BY <1>0
  <2> HIDE DEF next, N
  <2> QED BY <1>2, <2>1 DEF Follows
<1> DEFINE body(g) == [k \in 0..N |-> IF k = 0 THEN <<>> ELSE next(k, g[k - 1])]
           upTo[k \in 0..N] == IF k = 0 THEN <<>> ELSE next(k, upTo[k - 1])
<1>4. f = body(f)
  <2> HIDE DEF next, N
  <2>1. \A k \in 0..N : f[k] = body(f)[k]
    BY <1>0, <1>3
  <2> QED BY <2>1
<1>5. upTo = body(upTo)
  <2>2. \E g : g = body(g)
    BY <1>4
  <2> HIDE DEF body
  <2>1. upTo = CHOOSE g : g = body(g)
    BY DEF body
  <2> QED BY <2>1, <2>2
<1>6. Only(s, S) = upTo[N]
  BY DEF Only
<1>7. upTo[N] = f[N]
  <2> DEFINE T == { n \in Nat : n <= N => upTo[n] = f[n] }
  <2> HIDE DEF next, N, upTo
  <2>1. 0 \in T
    BY <1>5, <1>3, <1>0
  <2>2. ASSUME NEW n \in Nat, n \in T PROVE n + 1 \in T
    <3>1. n + 1 <= N => upTo[n + 1] = next(n + 1, upTo[n])
      BY <1>0, <1>5
    <3>2. n + 1 <= N => f[n + 1] = next(n + 1, f[n])
      BY <1>0, <1>3
    <3> QED BY <1>0, <2>2, <3>1, <3>2
  <2>3. N \in T
    <3> HIDE DEF T
    <3> QED BY <1>0, <2>1, <2>2, SetInduction
  <2> QED BY <2>3
<1> QED BY <1>2, <1>3, <1>6, <1>7 DEF Filters

-----------------------------------------------------------------------------
(* Sequences, and the sets of what is in them.                             *)

\* Nothing is in the empty sequence.
LEMMA EmptyOf == ToSet(<<>>) = {} /\ IsInjective(<<>>) /\ \A R : <<>> \in Seq(R)
  BY DEF ToSet, IsInjective

\* A sequence holds elements of its type, some unless it is empty.
LEMMA InSeq ==
  ASSUME NEW R, NEW s \in Seq(R)
  PROVE  ToSet(s) \subseteq R /\ (s # <<>> <=> ToSet(s) # {})
<1>1. Len(s) \in Nat /\ DOMAIN s = 1..Len(s) /\ (\A k \in 1..Len(s) : s[k] \in R) /\ (s # <<>> => 1 \in 1..Len(s))
  OBVIOUS
<1>2. s # <<>> => s[1] \in ToSet(s)
  BY <1>1 DEF ToSet
<1>3. s = <<>> => ToSet(s) = {}
  BY DEF ToSet
<1>4. ToSet(s) \subseteq R
  BY <1>1 DEF ToSet
<1> QED BY <1>2, <1>3, <1>4

\* An appended element joins the others.
LEMMA AppendOf ==
  ASSUME NEW R, NEW s \in Seq(R), NEW e \in R
  PROVE  /\ Append(s, e) \in Seq(R)
         /\ ToSet(Append(s, e)) = ToSet(s) \cup {e}
         /\ IsInjective(s) /\ e \notin ToSet(s) => IsInjective(Append(s, e))
<1> DEFINE t == Append(s, e)
           n == Len(s) + 1
<1>1. /\ t \in Seq(R) /\ DOMAIN t = DOMAIN s \cup {n} /\ n \notin DOMAIN s
      /\ t[n] = e /\ \A k \in DOMAIN s : t[k] = s[k]
  OBVIOUS
<1> HIDE DEF t, n
<1>2. ToSet(t) = ToSet(s) \cup {e}
  <2>1. \A x \in ToSet(t) : x \in ToSet(s) \cup {e}
    BY <1>1 DEF ToSet
  <2>2. \A x \in ToSet(s) : x \in ToSet(t)
    BY <1>1 DEF ToSet
  <2>3. e \in ToSet(t)
    BY <1>1 DEF ToSet
  <2> QED BY <2>1, <2>2, <2>3
<1>3. ASSUME IsInjective(s), e \notin ToSet(s) PROVE IsInjective(t)
  <2>1. \A k \in DOMAIN s : s[k] # e
    BY <1>3 DEF ToSet
  <2> QED BY <1>1, <1>3, <2>1 DEF IsInjective
<1> QED BY <1>1, <1>2, <1>3 DEF t

\* The head leaves the others, which do not repeat it.
LEMMA TailOf ==
  ASSUME NEW R, NEW s \in Seq(R), s # <<>>
  PROVE  /\ Head(s) \in R /\ Tail(s) \in Seq(R)
         /\ ToSet(s) = ToSet(Tail(s)) \cup {Head(s)}
         /\ IsInjective(s) => IsInjective(Tail(s)) /\ Head(s) \notin ToSet(Tail(s))
<1> DEFINE t == Tail(s)
<1>1. /\ Len(s) \in Nat /\ DOMAIN s = 1..Len(s) /\ 1 \in 1..Len(s) /\ Head(s) = s[1]
      /\ t \in Seq(R) /\ Len(t) \in Nat /\ DOMAIN t = 1..Len(t) /\ Len(t) = Len(s) - 1
      /\ Head(s) \in R
  OBVIOUS
<1>2. \A k \in 1..Len(t) : t[k] = s[k + 1]
  OBVIOUS
<1> HIDE DEF t
<1>3. \A k \in 1..Len(t) : k + 1 \in 1..Len(s) /\ k + 1 # 1
  BY <1>1
<1>4. \A j \in 1..Len(s) : j = 1 \/ (j - 1 \in 1..Len(t) /\ (j - 1) + 1 = j)
  BY <1>1
<1>5. \A x \in ToSet(s) : x \in ToSet(t) \cup {Head(s)}
  <2> SUFFICES ASSUME NEW j \in 1..Len(s), s[j] # Head(s) PROVE s[j] \in ToSet(t)
    BY <1>1 DEF ToSet
  <2>1. j - 1 \in 1..Len(t) /\ t[j - 1] = s[j]
    BY <1>1, <1>2, <1>4
  <2> QED BY <1>1, <2>1 DEF ToSet
<1>6. Head(s) \in ToSet(s)
  BY <1>1 DEF ToSet
<1>7. \A x \in ToSet(t) : x \in ToSet(s)
  BY <1>1, <1>2, <1>3 DEF ToSet
<1>8. ASSUME IsInjective(s) PROVE IsInjective(t) /\ Head(s) \notin ToSet(t)
  <2>1. \A j, k \in 1..Len(t) : t[j] = t[k] => j = k
    <3> TAKE j \in 1..Len(t), k \in 1..Len(t)
    <3> HAVE t[j] = t[k]
    <3>1. j + 1 = k + 1
      BY <1>1, <1>2, <1>3, <1>8 DEF IsInjective
    <3> QED BY <1>1, <3>1
  <2>2. \A k \in 1..Len(t) : t[k] # s[1]
    BY <1>1, <1>2, <1>3, <1>8 DEF IsInjective
  <2> QED BY <1>1, <2>1, <2>2 DEF IsInjective, ToSet
<1> QED BY <1>1, <1>5, <1>6, <1>7, <1>8 DEF t

\* The order changes, and nothing else.
LEMMA ReverseOf ==
  ASSUME NEW R, NEW s \in Seq(R)
  PROVE  Reverse(s) \in Seq(R) /\ ToSet(Reverse(s)) = ToSet(s)
<1> DEFINE t == Reverse(s)
           N == Len(s)
<1>1. N \in Nat /\ DOMAIN s = 1..N /\ \A k \in 1..N : s[k] \in R
  OBVIOUS
<1>2. t = [k \in 1..N |-> s[(N - k) + 1]]
  BY DEF Reverse
<1> HIDE DEF t, N
<1>3. \A k \in 1..N : (N - k) + 1 \in 1..N /\ (N - ((N - k) + 1)) + 1 = k
  BY <1>1
<1>4. t \in [1..N -> R]
  BY <1>1, <1>2, <1>3
<1>5. t \in Seq(R) /\ DOMAIN t = 1..N
  BY <1>1, <1>4
<1>6. \A x \in ToSet(t) : x \in ToSet(s)
  BY <1>1, <1>2, <1>3, <1>5 DEF ToSet
<1>7. \A k \in 1..N : t[(N - k) + 1] = s[k]
  BY <1>2, <1>3
<1>8. \A x \in ToSet(s) : x \in ToSet(t)
  BY <1>1, <1>3, <1>5, <1>7 DEF ToSet
<1> QED BY <1>5, <1>6, <1>8 DEF t

\* Only drops what is outside of the set, and repeats nothing.
LEMMA OnlyOf ==
  ASSUME NEW R, NEW s \in Seq(R), NEW S
  PROVE  /\ Only(s, S) \in Seq(R)
         /\ ToSet(Only(s, S)) = ToSet(s) \cap S
         /\ IsInjective(s) => IsInjective(Only(s, S))
<1> DEFINE N == Len(s)
<1>0. N \in Nat /\ DOMAIN s = 1..N /\ \A k \in 1..N : s[k] \in R
  OBVIOUS
<1>01. PICK f \in [0..N -> Seq(R)] : Filters(f, s, S)
  BY OnlyIs
<1>1. /\ f[0] = <<>>
      /\ \A k \in 1..N : f[k] = IF s[k] \in S THEN Append(f[k - 1], s[k]) ELSE f[k - 1]
      /\ Only(s, S) = f[N]
  BY <1>01 DEF Filters
<1> HIDE DEF N
<1> DEFINE Holds(x, n) == \A y : y \in ToSet(x) <=> y \in S /\ \E k \in 1..n : y = s[k]
           T == { n \in Nat : n <= N => Holds(f[n], n) /\ (IsInjective(s) => IsInjective(f[n])) }
<1>2. 0 \in T
  BY <1>0, <1>1, EmptyOf
<1>3. ASSUME NEW n \in Nat, n \in T PROVE n + 1 \in T
  <2> SUFFICES ASSUME n + 1 <= N
               PROVE  Holds(f[n + 1], n + 1) /\ (IsInjective(s) => IsInjective(f[n + 1]))
    OBVIOUS
  <2> DEFINE x == f[n]
             e == s[n + 1]
  <2>1. /\ x \in Seq(R) /\ e \in R /\ n + 1 \in 1..N /\ (n + 1) - 1 = n
        /\ Holds(x, n) /\ (IsInjective(s) => IsInjective(x))
    <3>1. n \in 0..N /\ n <= N /\ n + 1 \in 1..N /\ (n + 1) - 1 = n
      BY <1>0
    <3>2. x \in Seq(R) /\ e \in R
      <4> HIDE DEF N
      <4> QED BY <1>0, <3>1
    <3> QED BY <1>3, <3>1, <3>2
  <2>2. f[n + 1] = IF e \in S THEN Append(x, e) ELSE x
    BY <1>1, <2>1
  <2>3. \A y : (\E k \in 1..(n + 1) : y = s[k]) <=> y = e \/ \E k \in 1..n : y = s[k]
    <3>1. \A k \in 1..(n + 1) : k \in 1..n \/ k = n + 1
      OBVIOUS
    <3>2. n + 1 \in 1..(n + 1) /\ \A k \in 1..n : k \in 1..(n + 1)
      OBVIOUS
    <3> QED BY <3>1, <3>2
  <2>4. CASE e \notin S
    <3> HIDE DEF x, e
    <3> QED BY <2>1, <2>2, <2>3, <2>4
  <2>5. CASE e \in S
    <3> HIDE DEF x, e
    <3> DEFINE y == Append(x, e)
    <3>1. ToSet(y) = ToSet(x) \cup {e} /\ (IsInjective(x) /\ e \notin ToSet(x) => IsInjective(y))
      BY <2>1, AppendOf
    <3>2. IsInjective(s) => e \notin ToSet(x)
      <4>1. IsInjective(s) => \A k \in 1..n : s[k] # e
        <5>1. \A k \in 1..n : k \in 1..N /\ k # n + 1
          BY <1>0, <2>1
        <5> QED BY <1>0, <2>1, <5>1 DEF IsInjective, e
      <4> QED BY <2>1, <4>1
    <3> HIDE DEF y
    <3>3. Holds(y, n + 1)
      BY <2>1, <2>3, <2>5, <3>1
    <3> QED BY <2>1, <2>2, <2>5, <3>1, <3>2, <3>3 DEF y
  <2> QED BY <2>4, <2>5
<1>4. N \in T
  <2> HIDE DEF T
  <2> QED BY <1>0, <1>2, <1>3, SetInduction
<1>5. Only(s, S) \in Seq(R)
  BY <1>0, <1>1
<1>6. Holds(Only(s, S), N) /\ (IsInjective(s) => IsInjective(Only(s, S)))
  BY <1>0, <1>1, <1>4
<1>7. \A y : y \in ToSet(s) <=> \E k \in 1..N : y = s[k]
  BY <1>0 DEF ToSet
<1>8. ToSet(Only(s, S)) = ToSet(s) \cap S
  BY <1>6, <1>7
<1> QED BY <1>5, <1>6, <1>8

-----------------------------------------------------------------------------
(* The invariant.                                                          *)

Creation == {"open", "openrun"}
Rollback == {"invalid", "undo"}
Ends     == {"run", "pending", "owned"}

Operation ==
  [at : {"idle", "close"} \cup Creation \cup Rollback \cup Ends,
   key : Sessions \cup {"none"}, plan : Seq(Plugins), made : SUBSET Records,
   odd : SUBSET Records, todo : Seq(Records), bad : BOOLEAN, cut : BOOLEAN]

Present == ToSet(live)
Left    == ToSet(op.todo)

Types == TypeOK /\ op \in Operation /\ Left \subseteq Present

\* Only process and session records are cached, and only while they are live.
Caches == \A r \in cached : r \in Present /\ ScopeOf(r) # "run"

\* What a run and a rollback own are run records of their session; what is
\* left to the session blocks its next run, until the session closes.
Books ==
  \A k \in Sessions :
    /\ \A r \in run[k].records \cup pending[k] : ScopeOf(r) = "run" /\ r[2] = k
    /\ ~run[k].held => run[k].records = {}
    /\ k \in active => session[k] = "open"
    /\ session[k] \notin {"closing", "closed"} /\ pending[k] # {} => k \in blocked

\* What may be live at each stage of a session.
Members ==
  \A r \in Present :
    /\ session[r[2]] # "new"
    /\ ScopeOf(r) = "run" => session[r[2]] \in {"open", "closing"}
    /\ ScopeOf(r) = "session" /\ session[r[2]] \in {"preparing", "open", "closing"} => r \in cached
    /\ ScopeOf(r) = "session" => session[r[2]] # "closed"

\* A run record is owned by its run, by its session or by the activation.
Owned ==
  \A r \in Present : ScopeOf(r) = "run" =>
    \/ r \in run[r[2]].records \cup pending[r[2]]
    \/ op.at \in {"openrun"} \cup Rollback /\ r \in op.made
    \/ op.at = "invalid" /\ r \in op.odd

Gives(q, p, k) == q[1] = p /\ (Scope[p] = "process" \/ q[2] = k)

\* Every provider of session k is cached, not disposed, and not of the
\* activation in flight.
Served(k) ==
  \A p \in Plugins : Scope[p] # "run" =>
    \E q \in cached : q \notin op.made /\ q \notin disposed /\ Gives(q, p, k)

Providers ==
  \A k \in Sessions :
    /\ session[k] \in {"preparing", "open"} => Served(k)
    /\ \A r \in Present \ disposed : ScopeOf(r) = "run" /\ r[2] = k => Served(k)

Quiet == op.at \in {"idle"} \cup Creation => op.todo = <<>> /\ disposed = {}

\* An activation has made what it has done of its plan, and nothing of what
\* is left of it.
Activating ==
  op.at \in Creation =>
    /\ IsInjective(op.plan)
    /\ \A r \in op.made : r[1] \notin ToSet(op.plan) /\ (ScopeOf(r) # "run" => r \in cached)
    /\ \A r \in Present : r[2] = op.key /\ (op.at = "open" \/ ScopeOf(r) = "run") => r \in op.made
    /\ op.at = "openrun" => run[op.key].records = {}
    /\ op.at = "open" =>
         /\ \A p \in ToSet(op.plan) : Scope[p] # "run"
         /\ \A p \in Plugins : Scope[p] # "run" =>
              p \in ToSet(op.plan) \/ \E q \in cached : Gives(q, p, op.key)

\* A session that opens makes no run records; one that is open makes no others.
Making ==
  /\ op.at \notin Creation \cup Rollback => op.made = {}
  /\ op.at \in Creation \cup Rollback =>
       /\ op.key \in Sessions
       /\ \A r \in op.made : r[2] = op.key
       /\ \/ /\ op.at # "openrun" /\ session[op.key] = "opening"
             /\ \A r \in op.made : ScopeOf(r) # "run"
          \/ /\ op.at # "open" /\ session[op.key] = "open" /\ op.key \in active
             /\ \A r \in op.made : ScopeOf(r) = "run"
  /\ op.at = "undo" => op.made \cap cached = {} /\ disposed \cup Left \subseteq op.made
  /\ op.at = "invalid" =>
       /\ disposed \cup Left \subseteq op.odd
       /\ \A r \in op.odd : /\ r \notin cached \cup op.made /\ r[2] = op.key
                            /\ (ScopeOf(r) = "run") <=> (session[op.key] = "open")

\* Only S is disposed, and all of it unless a disposer is interrupted.
Targets(S) == disposed \cup Left \subseteq S /\ (~op.cut => S \cap Present \subseteq disposed \cup Left)

Disposals ==
  /\ op.at \in Ends => op.key \in Sessions
  /\ op.at = "run" =>
       /\ Targets(run[op.key].records)
       /\ session[op.key] = "closing" \/ (session[op.key] = "open" /\ op.key \in active)
  /\ op.at = "pending" => Targets(pending[op.key])
  /\ op.at = "owned" => Targets(OwnedBy(op.key)) /\ pending[op.key] \cap Present = {}
  /\ op.at \in {"pending", "owned"} => session[op.key] = "closing" /\ run[op.key].records = {}
  /\ op.at = "close" => \A k \in Sessions : session[k] \in {"new", "failed", "closed"}

Inv ==
  /\ Types /\ OneInstance /\ Caches /\ Books /\ Members /\ Owned
  /\ Providers /\ Quiet /\ Activating /\ Making /\ Disposals

-----------------------------------------------------------------------------
(* What the types say, and what the helpers of the host do.                *)

\* A record is a plugin and a session.
LEMMA Kinds ==
  /\ \A r \in Records : r[1] \in Plugins /\ r[2] \in Sessions /\ r = <<r[1], r[2]>>
  /\ \A p \in Plugins, k \in Sessions : <<p, k>> \in Records /\ ScopeOf(<<p, k>>) = Scope[p]
  /\ \A p \in Plugins : Scope[p] \in {"process", "session", "run"}
<1>1. Scope \in [Plugins -> {"process", "session", "run"}]
  BY HostAssumption DEF HostAssumption
<1> HIDE DEF Plugins
<1> QED BY <1>1 DEF Records, ScopeOf

\* The types, one by one.
LEMMA TypeFacts ==
  ASSUME Types
  PROVE  /\ live \in Seq(Records) /\ Present \subseteq Records
         /\ disposed \subseteq Present /\ cached \subseteq Records /\ Left \subseteq Present
         /\ \A k \in Sessions : pending[k] \subseteq Records /\ run[k].records \subseteq Records
         /\ op \in Operation
         /\ op.plan \in Seq(Plugins) /\ op.made \subseteq Records /\ op.odd \subseteq Records
         /\ op.todo \in Seq(Records) /\ op.key \in Sessions \cup {"none"}
         /\ op.bad \in BOOLEAN /\ op.cut \in BOOLEAN
<1>1. live \in Seq(Records) /\ Present \subseteq Records
  BY InSeq DEF Types, TypeOK, Present
<1>2. op \in Operation
  BY DEF Types
<1>3. /\ op.plan \in Seq(Plugins) /\ op.made \subseteq Records /\ op.odd \subseteq Records
      /\ op.todo \in Seq(Records) /\ op.key \in Sessions \cup {"none"}
      /\ op.bad \in BOOLEAN /\ op.cut \in BOOLEAN
  BY <1>2 DEF Operation
<1>4. \A k \in Sessions : pending[k] \subseteq Records /\ run[k].records \subseteq Records
  BY DEF Types, TypeOK
<1> QED BY <1>1, <1>2, <1>3, <1>4 DEF Types, TypeOK, Present

\* _remove_live_records: what was disposed is no longer live.
LEMMA Purged ==
  ASSUME Types, Purge
  PROVE  /\ live' \in Seq(Records) /\ Present' = Present \ disposed /\ disposed' = {}
         /\ OneInstance => OneInstance'
<1>1. live' = Only(live, Present \ disposed) /\ disposed' = {}
  BY DEF Purge, Present
<1>2. live \in Seq(Records)
  BY TypeFacts
<1> DEFINE S == Present \ disposed
<1>3. /\ Only(live, S) \in Seq(Records) /\ ToSet(Only(live, S)) = ToSet(live) \cap S
      /\ IsInjective(live) => IsInjective(Only(live, S))
  <2> HIDE DEF S
  <2> QED BY <1>2, OnlyOf
<1> QED BY <1>1, <1>3 DEF Present, OneInstance

\* What is to be disposed: the live records of S, and no other.
LEMMA LatestOf ==
  ASSUME Types, NEW S
  PROVE  Latest(S) \in Seq(Records) /\ ToSet(Latest(S)) = Present \cap S
<1>1. live \in Seq(Records)
  BY TypeFacts
<1>2. Only(live, S) \in Seq(Records) /\ ToSet(Only(live, S)) = Present \cap S
  BY <1>1, OnlyOf DEF Present
<1> QED BY <1>2, ReverseOf DEF Latest

\* What an activation does of its plan is new, and of the scope that its
\* session is in need of.
LEMMA New ==
  ASSUME Inv, MustCreate, NEW r, r = <<Head(op.plan), op.key>>
  PROVE  /\ r \in Records /\ r[2] = op.key /\ r[1] = Head(op.plan) /\ op.key \in Sessions
         /\ r \notin Present \cup op.made \cup cached
         /\ op.at = "open" <=> session[op.key] = "opening"
         /\ op.at = "openrun" <=> session[op.key] = "open"
         /\ op.at = "openrun" <=> ScopeOf(r) = "run"
         /\ op.at \in Creation
         /\ Tail(op.plan) \in Seq(Plugins) /\ IsInjective(Tail(op.plan))
         /\ r[1] \notin ToSet(Tail(op.plan))
         /\ ToSet(op.plan) = ToSet(Tail(op.plan)) \cup {r[1]}
<1>0. Types /\ Caches /\ Providers /\ Activating /\ Making
  BY DEF Inv
<1>1. op.at \in Creation /\ op.plan # <<>> /\ InCache(Head(op.plan), op.key) = {}
  BY DEF MustCreate, Creating, Creation
<1>2. op.plan \in Seq(Plugins)
  BY <1>0, TypeFacts
<1>3. /\ Head(op.plan) \in Plugins /\ Tail(op.plan) \in Seq(Plugins)
      /\ ToSet(op.plan) = ToSet(Tail(op.plan)) \cup {Head(op.plan)}
      /\ IsInjective(op.plan) => IsInjective(Tail(op.plan)) /\ Head(op.plan) \notin ToSet(Tail(op.plan))
  <2> HIDE DEF Plugins
  <2> QED BY <1>1, <1>2, TailOf
<1>4. IsInjective(op.plan)
  BY <1>0, <1>1 DEF Activating
<1>5. op.key \in Sessions
  BY <1>0, <1>1 DEF Making
<1>6. r \in Records /\ ScopeOf(r) = Scope[r[1]] /\ r[1] = Head(op.plan) /\ r[2] = op.key
  BY <1>3, <1>5, Kinds DEF ScopeOf
<1>7. (op.at = "open" <=> session[op.key] = "opening") /\ (op.at = "openrun" <=> session[op.key] = "open")
  BY <1>0, <1>1 DEF Making, Creation
<1>8. r \notin op.made
  BY <1>0, <1>1, <1>3, <1>6 DEF Activating
<1>9. op.at = "open" => ScopeOf(r) # "run"
  BY <1>0, <1>1, <1>3, <1>6 DEF Activating
<1>10. op.at = "openrun" => ScopeOf(r) = "run"
  <2> SUFFICES ASSUME op.at = "openrun", Scope[r[1]] # "run" PROVE FALSE
    BY <1>6
  <2>1. Served(op.key)
    BY <1>0, <1>5, <1>7 DEF Providers
  <2>2. PICK q \in cached : Gives(q, r[1], op.key)
    BY <1>3, <1>6, <2>1 DEF Served
  <2>3. q \in InCache(Head(op.plan), op.key)
    BY <1>6, <2>2 DEF Gives, InCache
  <2> QED BY <1>1, <2>3
<1>11. op.at = "open" \/ op.at = "openrun"
  BY <1>1 DEF Creation
<1>12. r \notin Present
  BY <1>0, <1>1, <1>6, <1>8, <1>10, <1>11 DEF Activating
<1>13. r \notin cached
  BY <1>0, <1>12 DEF Caches
<1> QED BY <1>1, <1>3, <1>4, <1>5, <1>6, <1>7, <1>8, <1>9, <1>10, <1>11, <1>12, <1>13

-----------------------------------------------------------------------------
(* The steps of an activation.                                             *)

\* What is cached is not created again, and serves as well.
LEMMA ReuseKeeps ==
  ASSUME Inv, Reuse
  PROVE  Inv'
<1>0. /\ Types /\ OneInstance /\ Caches /\ Books /\ Members /\ Owned
      /\ Providers /\ Quiet /\ Activating /\ Making /\ Disposals
  BY DEF Inv
<1>1. op.at \in Creation /\ op.plan # <<>> /\ InCache(Head(op.plan), op.key) # {}
  BY DEF Reuse, Creating, Creation
<1>2. /\ op.plan \in Seq(Plugins) /\ op \in Operation
      /\ live \in Seq(Records) /\ Present \subseteq Records
  BY <1>0, TypeFacts
<1>3. /\ Tail(op.plan) \in Seq(Plugins) /\ ToSet(op.plan) = ToSet(Tail(op.plan)) \cup {Head(op.plan)}
      /\ IsInjective(op.plan) => IsInjective(Tail(op.plan))
  <2> HIDE DEF Plugins
  <2> QED BY <1>1, <1>2, TailOf
<1>4. /\ op' \in Operation
      /\ op'.plan = Tail(op.plan) /\ op'.at = op.at /\ op'.key = op.key /\ op'.made = op.made
      /\ op'.odd = op.odd /\ op'.todo = op.todo /\ op'.cut = op.cut
  <2> HIDE DEF Plugins
  <2> QED BY <1>2, <1>3 DEF Reuse, Operation
<1>5. /\ live' = live /\ disposed' = disposed /\ cached' = cached /\ pending' = pending
      /\ blocked' = blocked /\ session' = session /\ run' = run /\ active' = active
      /\ Present' = Present /\ Left' = Left
  BY <1>4 DEF Reuse, Present, Left
<1>6. Types'
  BY <1>0, <1>4, <1>5 DEF Types, TypeOK, Reuse
<1>7. OneInstance' /\ Caches' /\ Books' /\ Members'
  BY <1>0, <1>5 DEF OneInstance, Caches, Books, Members
<1>8. Owned'
  BY <1>0, <1>4, <1>5 DEF Owned
<1>9. Providers'
  BY <1>0, <1>4, <1>5 DEF Providers, Served
<1>10. Quiet' /\ Disposals'
  <2>1. Quiet'
    BY <1>0, <1>4, <1>5 DEF Quiet
  <2>2. Disposals'
    BY <1>1, <1>4 DEF Disposals, Ends, Creation
  <2> QED BY <2>1, <2>2
<1>11. Activating'
  <2>1. \E q \in cached : Gives(q, Head(op.plan), op.key)
    BY <1>1 DEF InCache, Gives
  <2>2. /\ IsInjective(op'.plan)
        /\ \A r \in op.made : r[1] \notin ToSet(op'.plan) /\ (ScopeOf(r) # "run" => r \in cached)
    BY <1>0, <1>1, <1>3, <1>4 DEF Activating
  <2>3. op.at = "open" =>
         /\ \A p \in ToSet(op'.plan) : Scope[p] # "run"
         /\ \A p \in Plugins : Scope[p] # "run" =>
              p \in ToSet(op'.plan) \/ \E q \in cached : Gives(q, p, op.key)
    <3> HIDE DEF Plugins
    <3> QED BY <1>0, <1>1, <1>3, <1>4, <2>1 DEF Activating
  <2> QED BY <1>0, <1>1, <1>4, <1>5, <2>2, <2>3 DEF Activating
<1>12. Making'
  BY <1>0, <1>4, <1>5 DEF Making
<1> QED BY <1>6, <1>7, <1>8, <1>9, <1>10, <1>11, <1>12 DEF Inv

\* What is created is cached, or belongs to the run that opens.
LEMMA CreateKeeps ==
  ASSUME Inv, Create
  PROVE  Inv'
<1>0. /\ Types /\ OneInstance /\ Caches /\ Books /\ Members /\ Owned
      /\ Providers /\ Quiet /\ Activating /\ Making /\ Disposals
  BY DEF Inv
<1> DEFINE r == <<Head(op.plan), op.key>>
<1>1. /\ r \in Records /\ r[2] = op.key /\ r[1] = Head(op.plan) /\ op.key \in Sessions
      /\ r \notin Present \cup op.made \cup cached
      /\ op.at = "open" <=> session[op.key] = "opening"
      /\ op.at = "openrun" <=> session[op.key] = "open"
      /\ op.at = "openrun" <=> ScopeOf(r) = "run"
      /\ op.at \in Creation
      /\ Tail(op.plan) \in Seq(Plugins) /\ IsInjective(Tail(op.plan))
      /\ r[1] \notin ToSet(Tail(op.plan))
      /\ ToSet(op.plan) = ToSet(Tail(op.plan)) \cup {r[1]}
  BY New DEF Create
<1>2. /\ live \in Seq(Records) /\ Present \subseteq Records /\ op \in Operation
      /\ op.made \subseteq Records /\ cached \subseteq Records
  BY <1>0, TypeFacts
<1>3. /\ live' = Append(live, r) /\ op' = [op EXCEPT !.plan = Tail(@), !.made = @ \cup {r}]
      /\ cached' = IF ScopeOf(r) = "run" THEN cached ELSE cached \cup {r}
      /\ disposed' = disposed /\ pending' = pending
      /\ blocked' = blocked /\ session' = session /\ run' = run /\ active' = active
  BY DEF Create
<1> HIDE DEF r
<1>4. /\ op' \in Operation
      /\ op'.plan = Tail(op.plan) /\ op'.at = op.at /\ op'.key = op.key /\ op'.made = op.made \cup {r}
      /\ op'.odd = op.odd /\ op'.todo = op.todo /\ op'.cut = op.cut
  <2> HIDE DEF Plugins
  <2> QED BY <1>1, <1>2, <1>3 DEF Operation
<1>5. live' \in Seq(Records) /\ Present' = Present \cup {r} /\ OneInstance' /\ Left' = Left
  BY <1>0, <1>1, <1>2, <1>3, <1>4, AppendOf DEF Present, OneInstance, Left
<1>6. Types'
  BY <1>0, <1>1, <1>2, <1>3, <1>4, <1>5 DEF Types, TypeOK, Create, Present
<1>7. Caches'
  BY <1>0, <1>3, <1>5 DEF Caches
<1>8. Books'
  BY <1>0, <1>1, <1>2, <1>3, <1>5 DEF Books
<1>9. Members'
  <2>1. \A x \in Present : x[2] \in Sessions
    BY <1>2, Kinds
  <2>2. ScopeOf(r) \in {"process", "session", "run"}
    BY <1>1, Kinds
  <2>3. op.at = "open" \/ op.at = "openrun"
    BY <1>1 DEF Creation
  <2> QED BY <1>0, <1>1, <1>3, <1>5, <2>1, <2>2, <2>3 DEF Members
<1>10. Owned'
  BY <1>0, <1>1, <1>3, <1>4, <1>5 DEF Owned
<1>11. Providers'
  <2>1. \A k \in Sessions : Served(k) => Served(k)'
    BY <1>1, <1>3, <1>4 DEF Served
  <2>2. ScopeOf(r) = "run" => Served(op.key)
    BY <1>0, <1>1 DEF Providers
  <2> QED BY <1>0, <1>1, <1>3, <1>5, <2>1, <2>2 DEF Providers
<1>12. Quiet' /\ Disposals'
  <2>1. Quiet'
    BY <1>0, <1>3, <1>4 DEF Quiet
  <2>2. Disposals'
    BY <1>1, <1>4 DEF Disposals, Ends, Creation
  <2> QED BY <2>1, <2>2
<1>13. Activating'
  <2>1. \A x \in op'.made : x[1] \notin ToSet(op'.plan) /\ (ScopeOf(x) # "run" => x \in cached')
    BY <1>0, <1>1, <1>3, <1>4 DEF Activating
  <2>2. \A x \in Present' : x[2] = op'.key /\ (op'.at = "open" \/ ScopeOf(x) = "run") => x \in op'.made
    BY <1>0, <1>1, <1>4, <1>5 DEF Activating
  <2>3. op.at = "open" =>
         /\ \A p \in ToSet(op'.plan) : Scope[p] # "run"
         /\ \A p \in Plugins : Scope[p] # "run" =>
              p \in ToSet(op'.plan) \/ \E q \in cached' : Gives(q, p, op.key)
    <3>1. op.at = "open" => Gives(r, r[1], op.key) /\ r \in cached'
      BY <1>1, <1>3 DEF Gives
    <3> HIDE DEF Plugins
    <3> QED BY <1>0, <1>1, <1>3, <1>4, <3>1 DEF Activating
  <2>4. op.at = "openrun" => run'[op.key].records = {}
    BY <1>0, <1>1, <1>3 DEF Activating
  <2> QED BY <1>1, <1>4, <2>1, <2>2, <2>3, <2>4 DEF Activating
<1>14. Making'
  <2>1. \A x \in op'.made : x[2] = op'.key
    BY <1>0, <1>1, <1>4 DEF Making
  <2>2. \/ /\ op'.at # "openrun" /\ session'[op'.key] = "opening"
           /\ \A x \in op'.made : ScopeOf(x) # "run"
        \/ /\ op'.at # "open" /\ session'[op'.key] = "open" /\ op'.key \in active'
           /\ \A x \in op'.made : ScopeOf(x) = "run"
    BY <1>0, <1>1, <1>3, <1>4 DEF Making, Creation
  <2>3. op'.at \in Creation /\ op'.at \notin Rollback
    BY <1>1, <1>4 DEF Creation, Rollback
  <2> QED BY <1>1, <1>4, <2>1, <2>2, <2>3 DEF Making, Rollback
<1> QED BY <1>5, <1>6, <1>7, <1>8, <1>9, <1>10, <1>11, <1>12, <1>13, <1>14 DEF Inv

\* What a failed activation has made leaves the caches before it is disposed.
LEMMA FactoryFailsKeeps ==
  ASSUME Inv, FactoryFails
  PROVE  Inv'
<1>0. /\ Types /\ OneInstance /\ Caches /\ Books /\ Members /\ Owned
      /\ Providers /\ Quiet /\ Activating /\ Making /\ Disposals
  BY DEF Inv
<1>1. op.at \in Creation /\ disposed = {} /\ op.key \in Sessions
  BY <1>0 DEF FactoryFails, MustCreate, Creating, Creation, Quiet, Making
<1>2. /\ live \in Seq(Records) /\ Present \subseteq Records /\ op \in Operation
      /\ op.made \subseteq Records /\ cached \subseteq Records
  BY <1>0, TypeFacts
<1>3. Latest(op.made) \in Seq(Records) /\ ToSet(Latest(op.made)) = Present \cap op.made
  BY <1>0, LatestOf
<1>4. /\ live' = live /\ cached' = cached \ op.made
      /\ op' = [op EXCEPT !.at = "undo", !.plan = <<>>, !.todo = Latest(op.made)]
      /\ disposed' = disposed /\ pending' = pending
      /\ blocked' = blocked /\ session' = session /\ run' = run /\ active' = active
      /\ Present' = Present
  BY DEF FactoryFails, Undo, Present
<1>5. /\ op' \in Operation
      /\ op'.at = "undo" /\ op'.key = op.key /\ op'.made = op.made
      /\ op'.todo = Latest(op.made)
  <2>1. "undo" \in {"idle", "close"} \cup Creation \cup Rollback \cup Ends /\ <<>> \in Seq(Plugins)
    BY DEF Rollback
  <2> DEFINE late == Latest(op.made)
             ats == {"idle", "close"} \cup Creation \cup Rollback \cup Ends
             plans == Seq(Plugins)
             todos == Seq(Records)
  <2> HIDE DEF Plugins, late, ats, plans, todos
  <2> QED BY <1>2, <1>3, <1>4, <2>1 DEF Operation, late, ats, plans, todos
<1>6. Left' = Present \cap op.made
  BY <1>3, <1>5 DEF Left
<1>7. Types'
  BY <1>0, <1>2, <1>4, <1>5, <1>6 DEF Types, TypeOK, FactoryFails, Present
<1>8. OneInstance' /\ Books'
  BY <1>0, <1>4 DEF OneInstance, Books
<1>9. Caches'
  BY <1>0, <1>4 DEF Caches
<1>10. Members'
  <2>1. \A r \in Present : ScopeOf(r) = "session" /\ session[r[2]] \in {"preparing", "open", "closing"}
           => r \notin op.made
    BY <1>0, <1>1 DEF Making
  <2> QED BY <1>0, <1>4, <2>1 DEF Members
<1>11. Owned'
  BY <1>0, <1>1, <1>4, <1>5 DEF Owned, Rollback, Creation
<1>12. Providers'
  BY <1>0, <1>4, <1>5 DEF Providers, Served
<1>13. Quiet' /\ Activating' /\ Disposals'
  BY <1>5 DEF Quiet, Activating, Disposals, Creation, Ends
<1>14. Making'
  BY <1>0, <1>1, <1>4, <1>5, <1>6 DEF Making, Creation, Rollback
<1> QED BY <1>7, <1>8, <1>9, <1>10, <1>11, <1>12, <1>13, <1>14 DEF Inv

\* An instance that does not have its port is live until it is disposed, and
\* in no cache.
LEMMA InvalidKeeps ==
  ASSUME Inv, Invalid
  PROVE  Inv'
<1>0. /\ Types /\ OneInstance /\ Caches /\ Books /\ Members /\ Owned
      /\ Providers /\ Quiet /\ Activating /\ Making /\ Disposals
  BY DEF Inv
<1> DEFINE r == <<Head(op.plan), op.key>>
<1>1. /\ r \in Records /\ r[2] = op.key /\ op.key \in Sessions
      /\ r \notin Present \cup op.made \cup cached
      /\ op.at = "open" <=> session[op.key] = "opening"
      /\ op.at = "openrun" <=> session[op.key] = "open"
      /\ op.at = "openrun" <=> ScopeOf(r) = "run"
      /\ op.at \in Creation
  BY New DEF Invalid
<1>2. /\ live \in Seq(Records) /\ Present \subseteq Records /\ op \in Operation
      /\ op.made \subseteq Records /\ cached \subseteq Records
  BY <1>0, TypeFacts
<1>3. /\ live' = Append(live, r) /\ op' = [op EXCEPT !.at = "invalid", !.odd = {r}, !.todo = <<r>>]
      /\ cached' = cached /\ disposed' = disposed /\ pending' = pending
      /\ blocked' = blocked /\ session' = session /\ run' = run /\ active' = active
  BY DEF Invalid
<1> HIDE DEF r
<1>4. /\ op' \in Operation
      /\ op'.at = "invalid" /\ op'.key = op.key /\ op'.made = op.made
      /\ op'.odd = {r} /\ op'.todo = <<r>>
  <2>1. "invalid" \in {"idle", "close"} \cup Creation \cup Rollback \cup Ends
    BY DEF Rollback
  <2>2. <<r>> \in Seq(Records) /\ {r} \in SUBSET Records
    BY <1>1
  <2> HIDE DEF Plugins
  <2> QED BY <1>2, <1>3, <2>1, <2>2 DEF Operation
<1>5. Left' = {r}
  BY <1>4 DEF Left, ToSet
<1>6. live' \in Seq(Records) /\ Present' = Present \cup {r} /\ OneInstance'
  BY <1>0, <1>1, <1>2, <1>3, AppendOf DEF Present, OneInstance
<1>7. Types'
  BY <1>0, <1>1, <1>2, <1>3, <1>4, <1>5, <1>6 DEF Types, TypeOK, Invalid, Present
<1>8. Caches'
  BY <1>0, <1>3, <1>6 DEF Caches
<1>9. Books'
  BY <1>0, <1>1, <1>2, <1>3, <1>6 DEF Books
<1>10. op.at = "open" \/ op.at = "openrun"
  BY <1>1 DEF Creation
<1>11. Members'
  <2>1. \A x \in Present : x[2] \in Sessions
    BY <1>2, Kinds
  <2>2. ScopeOf(r) \in {"process", "session", "run"}
    BY <1>1, Kinds
  <2> QED BY <1>0, <1>1, <1>3, <1>6, <1>10, <2>1, <2>2 DEF Members
<1>12. Owned'
  BY <1>0, <1>3, <1>4, <1>6, <1>10 DEF Owned, Rollback
<1>13. Providers'
  <2>1. \A k \in Sessions : Served(k) => Served(k)'
    BY <1>3, <1>4 DEF Served
  <2>2. ScopeOf(r) = "run" => Served(op.key)
    BY <1>0, <1>1 DEF Providers
  <2> QED BY <1>0, <1>1, <1>3, <1>6, <2>1, <2>2 DEF Providers
<1>14. Quiet' /\ Activating' /\ Disposals'
  BY <1>4 DEF Quiet, Activating, Disposals, Creation, Ends
<1>15. Making'
  <2>1. disposed' = {}
    BY <1>0, <1>1, <1>3 DEF Quiet
  <2>2. /\ \A x \in op.made : x[2] = op.key
        /\ \/ /\ session[op.key] = "opening"
              /\ \A x \in op.made : ScopeOf(x) # "run"
           \/ /\ session[op.key] = "open" /\ op.key \in active
              /\ \A x \in op.made : ScopeOf(x) = "run"
    BY <1>0, <1>1 DEF Making
  <2> QED BY <1>1, <1>3, <1>4, <1>5, <1>10, <2>1, <2>2 DEF Making, Creation, Rollback
<1> QED BY <1>6, <1>7, <1>8, <1>9, <1>11, <1>12, <1>13, <1>14, <1>15 DEF Inv

\* A session has every provider when its activation ends.
LEMMA SessionActivatedKeeps ==
  ASSUME Inv, SessionActivated
  PROVE  Inv'
<1>0. /\ Types /\ OneInstance /\ Caches /\ Books /\ Members /\ Owned
      /\ Providers /\ Quiet /\ Activating /\ Making /\ Disposals
  BY DEF Inv
<1>1. /\ op.at = "open" /\ op.plan = <<>> /\ op' = Idle
      /\ live' = live /\ disposed' = disposed /\ cached' = cached /\ pending' = pending
      /\ blocked' = blocked /\ run' = run /\ active' = active /\ Present' = Present
      /\ session' = [session EXCEPT ![op.key] = "preparing"]
  BY DEF SessionActivated, Activated, Present
<1>2. /\ Present \subseteq Records /\ \A r \in Present : r[2] \in Sessions
  BY <1>0, TypeFacts, Kinds
<1>3. /\ op.key \in Sessions /\ session[op.key] = "opening" /\ disposed = {}
      /\ ToSet(op.plan) = {}
      /\ \A r \in op.made : r[2] = op.key /\ ScopeOf(r) # "run"
  BY <1>0, <1>1, EmptyOf DEF Making, Creation, Quiet
<1>4. /\ session'[op.key] = "preparing"
      /\ \A k \in Sessions : k # op.key => session'[k] = session[k]
      /\ session' \in [Sessions -> {"new", "opening", "preparing", "open", "closing", "closed", "failed"}]
  BY <1>0, <1>1, <1>3 DEF Types, TypeOK
<1>5. op' \in Operation /\ op'.at = "idle" /\ op'.made = {} /\ op'.todo = <<>> /\ Left' = {}
  <2> HIDE DEF Plugins
  <2> QED BY <1>1, EmptyOf DEF Operation, Idle, Left
<1>6. Types'
  BY <1>0, <1>1, <1>4, <1>5 DEF Types, TypeOK, SessionActivated, Present
<1>7. OneInstance' /\ Caches'
  BY <1>0, <1>1 DEF OneInstance, Caches
<1>8. Books'
  BY <1>0, <1>1, <1>3, <1>4 DEF Books
<1>9. Members'
  <2>1. \A r \in Present : r[2] = op.key /\ ScopeOf(r) = "session" => r \in cached
    BY <1>0, <1>1 DEF Activating, Creation
  <2>2. \A r \in Present : r[2] = op.key => ScopeOf(r) # "run"
    BY <1>0, <1>3 DEF Members
  <2> QED BY <1>0, <1>1, <1>2, <1>3, <1>4, <2>1, <2>2 DEF Members
<1>10. Owned'
  BY <1>0, <1>1 DEF Owned, Rollback
<1>11. Providers'
  <2>1. ASSUME NEW k \in Sessions, k = op.key PROVE Served(k)'
    BY <1>0, <1>1, <1>3, <1>5, <2>1 DEF Activating, Creation, Served
  <2>2. \A k \in Sessions : Served(k) => Served(k)'
    BY <1>1, <1>5 DEF Served
  <2> QED BY <1>0, <1>1, <1>4, <2>1, <2>2 DEF Providers
<1>12. Quiet' /\ Activating' /\ Making' /\ Disposals'
  BY <1>1, <1>3, <1>5 DEF Quiet, Activating, Making, Disposals, Creation, Rollback, Ends
<1> QED BY <1>6, <1>7, <1>8, <1>9, <1>10, <1>11, <1>12 DEF Inv

\* The run records of an activation become those of its run.
LEMMA RunActivatedKeeps ==
  ASSUME Inv, RunActivated
  PROVE  Inv'
<1>0. /\ Types /\ OneInstance /\ Caches /\ Books /\ Members /\ Owned
      /\ Providers /\ Quiet /\ Activating /\ Making /\ Disposals
  BY DEF Inv
<1>1. /\ op.at = "openrun" /\ op' = Idle
      /\ live' = live /\ disposed' = disposed /\ cached' = cached /\ pending' = pending
      /\ blocked' = blocked /\ session' = session /\ active' = active /\ Present' = Present
      /\ run' = [run EXCEPT ![op.key] = [held |-> TRUE, records |-> Runs(op.made)]]
  BY DEF RunActivated, Activated, Present
<1>2. Present \subseteq Records /\ op.made \subseteq Records /\ \A r \in Present : r[2] \in Sessions
  BY <1>0, TypeFacts, Kinds
<1>3. /\ op.key \in Sessions /\ disposed = {} /\ run[op.key].records = {}
      /\ \A r \in op.made : r[2] = op.key /\ ScopeOf(r) = "run"
  BY <1>0, <1>1 DEF Making, Creation, Quiet, Activating
<1>4. Runs(op.made) = op.made
  BY <1>3 DEF Runs
<1>5. /\ run'[op.key].records = op.made /\ run'[op.key].held
      /\ \A k \in Sessions : k # op.key => run'[k] = run[k]
      /\ run' \in [Sessions -> [held : BOOLEAN, records : SUBSET Records]]
  BY <1>0, <1>1, <1>2, <1>3, <1>4 DEF Types, TypeOK
<1>6. op' \in Operation /\ op'.at = "idle" /\ op'.made = {} /\ op'.todo = <<>> /\ Left' = {}
  <2> HIDE DEF Plugins
  <2> QED BY <1>1, EmptyOf DEF Operation, Idle, Left
<1>7. Types'
  BY <1>0, <1>1, <1>5, <1>6 DEF Types, TypeOK, RunActivated, Present
<1>8. OneInstance' /\ Caches' /\ Members'
  BY <1>0, <1>1 DEF OneInstance, Caches, Members
<1>9. Books'
  BY <1>0, <1>1, <1>3, <1>5 DEF Books
<1>10. Owned'
  BY <1>0, <1>1, <1>2, <1>3, <1>5 DEF Owned, Rollback
<1>11. Providers'
  BY <1>0, <1>1, <1>6 DEF Providers, Served
<1>12. Quiet' /\ Activating' /\ Making' /\ Disposals'
  BY <1>1, <1>3, <1>6 DEF Quiet, Activating, Making, Disposals, Creation, Rollback, Ends
<1> QED BY <1>7, <1>8, <1>9, <1>10, <1>11, <1>12 DEF Inv

-----------------------------------------------------------------------------
(* Disposals, and what follows them.                                       *)

\* No provider is disposed of a session that may have run records.
LEMMA DisposeKeeps ==
  ASSUME Inv, Dispose
  PROVE  Inv'
<1>0. /\ Types /\ OneInstance /\ Caches /\ Books /\ Members /\ Owned
      /\ Providers /\ Quiet /\ Activating /\ Making /\ Disposals
  BY DEF Inv
<1> DEFINE h == Head(op.todo)
<1>1. /\ live' = live /\ cached' = cached /\ pending' = pending /\ Present' = Present
      /\ blocked' = blocked /\ session' = session /\ run' = run /\ active' = active
      /\ op.todo # <<>>
  BY DEF Dispose, Present
<1>2. /\ live \in Seq(Records) /\ Present \subseteq Records /\ op \in Operation /\ op.todo \in Seq(Records)
      /\ cached \subseteq Records /\ disposed \subseteq Present /\ op.bad \in BOOLEAN /\ op.cut \in BOOLEAN
  BY <1>0, TypeFacts
<1>3. h \in Records /\ Tail(op.todo) \in Seq(Records) /\ Left = ToSet(Tail(op.todo)) \cup {h}
  BY <1>1, <1>2, TailOf DEF Left
<1>4. /\ op' \in Operation
      /\ op'.at = op.at /\ op'.key = op.key /\ op'.plan = op.plan /\ op'.made = op.made /\ op'.odd = op.odd
      /\ op'.todo = Tail(op.todo)
      /\ \/ disposed' = disposed \cup {h} /\ op'.cut = op.cut /\ cuts' = cuts
         \/ disposed' = disposed /\ op'.cut = TRUE /\ cuts < MaxCuts /\ cuts' = cuts + 1
  <2>1. CASE \E raises \in BOOLEAN : op' = [op EXCEPT !.todo = Tail(@), !.bad = @ \/ raises]
                                     /\ disposed' = disposed \cup {h} /\ cuts' = cuts
    <3>1. PICK raises \in BOOLEAN : /\ op' = [op EXCEPT !.todo = Tail(@), !.bad = @ \/ raises]
                                    /\ disposed' = disposed \cup {h} /\ cuts' = cuts
      BY <2>1
    <3> DEFINE b == op.bad \/ raises
    <3>2. b \in BOOLEAN
      BY <1>2, <3>1
    <3>3. op' = [op EXCEPT !.todo = Tail(op.todo), !.bad = b]
      BY <3>1
    <3> HIDE DEF b, h, Plugins
    <3>4. op' \in Operation
      BY <1>2, <1>3, <3>2, <3>3 DEF Operation
    <3>5. /\ op'.at = op.at /\ op'.key = op.key /\ op'.plan = op.plan /\ op'.made = op.made
          /\ op'.odd = op.odd /\ op'.cut = op.cut /\ op'.todo = Tail(op.todo)
      BY <1>2, <3>3 DEF Operation
    <3> QED BY <3>1, <3>4, <3>5
  <2>2. CASE op' = [op EXCEPT !.todo = Tail(@), !.cut = TRUE] /\ disposed' = disposed
             /\ cuts < MaxCuts /\ cuts' = cuts + 1
    <3> HIDE DEF h, Plugins
    <3>1. op' \in Operation
      BY <1>2, <1>3, <2>2 DEF Operation
    <3>2. /\ op'.at = op.at /\ op'.key = op.key /\ op'.plan = op.plan /\ op'.made = op.made
          /\ op'.odd = op.odd /\ op'.cut = TRUE /\ op'.todo = Tail(op.todo)
      BY <1>2, <2>2 DEF Operation
    <3> QED BY <2>2, <3>1, <3>2
  <2>3. \/ /\ disposed' = disposed \cup {h} /\ cuts' = cuts
           /\ \E raises \in BOOLEAN : op' = [op EXCEPT !.todo = Tail(@), !.bad = @ \/ raises]
        \/ /\ op' = [op EXCEPT !.todo = Tail(@), !.cut = TRUE] /\ disposed' = disposed
           /\ cuts < MaxCuts /\ cuts' = cuts + 1
    BY DEF Dispose
  <2> QED BY <2>1, <2>2, <2>3
<1>5. /\ Left' = ToSet(Tail(op.todo)) /\ Left' \subseteq Left /\ h \in Left
      /\ disposed \subseteq disposed' /\ disposed' \subseteq disposed \cup {h}
      /\ ~op'.cut => ~op.cut /\ disposed' \cup Left' = disposed \cup Left
  BY <1>2, <1>3, <1>4 DEF Left
<1> HIDE DEF h
<1>6. cuts' \in 0..MaxCuts
  BY <1>0, <1>4, HostAssumption DEF Types, TypeOK, HostAssumption
<1>7. Types'
  BY <1>0, <1>1, <1>2, <1>4, <1>5, <1>6 DEF Types, TypeOK, Dispose, Present
<1>8. OneInstance' /\ Caches' /\ Books' /\ Members'
  BY <1>0, <1>1 DEF OneInstance, Caches, Books, Members
<1>9. Owned'
  BY <1>0, <1>1, <1>4 DEF Owned
<1>10. op.at \in {"close"} \cup Rollback \cup Ends
  BY <1>0, <1>1, <1>2 DEF Quiet, Operation
<1>11. Providers'
  <2>1. ASSUME NEW k \in Sessions, NEW p \in Plugins, Scope[p] # "run", NEW q \in cached,
               q \notin op.made, Gives(q, p, k),
               session[k] \in {"preparing", "open"} \/ \E r \in Present \ disposed : ScopeOf(r) = "run" /\ r[2] = k
        PROVE  q # h
    <3> SUFFICES ASSUME h \in cached, q = h PROVE FALSE
      OBVIOUS
    <3>1. ScopeOf(h) # "run"
      BY <1>0 DEF Caches
    <3>2. CASE op.at = "run" \/ op.at = "pending"
      <4>1. op.key \in Sessions /\ Left \subseteq run[op.key].records \cup pending[op.key]
        BY <1>0, <3>2 DEF Disposals, Ends, Targets
      <4> QED BY <1>0, <1>5, <3>1, <4>1 DEF Books
    <3>3. CASE op.at = "owned"
      <4>1. /\ op.key \in Sessions /\ h \in OwnedBy(op.key) /\ session[op.key] = "closing"
            /\ run[op.key].records = {} /\ pending[op.key] \cap Present = {}
        BY <1>0, <1>5, <3>3 DEF Disposals, Ends, Targets
      <4>2. k = op.key
        BY <2>1, <3>3, <4>1 DEF OwnedBy, Gives, ScopeOf
      <4>3. PICK r \in Present : ScopeOf(r) = "run" /\ r[2] = op.key
        BY <2>1, <4>1, <4>2
      <4> QED BY <1>0, <3>3, <4>1, <4>3 DEF Owned, Rollback
    <3>4. CASE op.at = "undo"
      BY <1>0, <1>5, <3>4 DEF Making
    <3>5. CASE op.at = "invalid"
      BY <1>0, <1>5, <3>5 DEF Making
    <3>6. CASE op.at = "close"
      <4>1. \A j \in Sessions : session[j] \in {"new", "failed", "closed"}
        BY <1>0, <3>6 DEF Disposals
      <4>2. PICK r \in Present : ScopeOf(r) = "run" /\ r[2] = k
        BY <2>1, <4>1
      <4> QED BY <1>0, <4>1, <4>2 DEF Members
    <3> QED BY <1>10, <3>2, <3>3, <3>4, <3>5, <3>6 DEF Rollback, Ends
  <2>2. ASSUME NEW k \in Sessions, Served(k),
               session[k] \in {"preparing", "open"} \/ \E r \in Present \ disposed : ScopeOf(r) = "run" /\ r[2] = k
        PROVE  Served(k)'
    <3> SUFFICES ASSUME NEW p \in Plugins, Scope[p] # "run"
                 PROVE  \E q \in cached' : q \notin op'.made /\ q \notin disposed' /\ Gives(q, p, k)
      BY DEF Served
    <3>1. PICK q \in cached : q \notin op.made /\ q \notin disposed /\ Gives(q, p, k)
      BY <2>2 DEF Served
    <3>2. q # h
      BY <2>1, <2>2, <3>1
    <3> QED BY <1>1, <1>4, <1>5, <3>1, <3>2
  <2>3. ASSUME NEW k \in Sessions, session'[k] \in {"preparing", "open"} PROVE Served(k)'
    BY <1>0, <1>1, <2>2, <2>3 DEF Providers
  <2>4. ASSUME NEW k \in Sessions, NEW r \in Present' \ disposed', ScopeOf(r) = "run", r[2] = k
        PROVE  Served(k)'
    <3>1. r \in Present \ disposed
      BY <1>1, <1>5
    <3>2. Served(k)
      BY <1>0, <2>4, <3>1 DEF Providers
    <3> QED BY <2>2, <2>4, <3>1, <3>2
  <2> QED BY <2>3, <2>4 DEF Providers
<1>12. Quiet' /\ Activating'
  BY <1>4, <1>10 DEF Quiet, Activating, Creation, Rollback, Ends
<1>13. Making'
  <2>1. disposed' \cup Left' \subseteq disposed \cup Left
    BY <1>5
  <2> QED BY <1>0, <1>1, <1>4, <2>1 DEF Making
<1>14. Disposals'
  <2>1. ASSUME NEW S, disposed \cup Left \subseteq S /\ (~op.cut => S \cap Present \subseteq disposed \cup Left)
        PROVE  disposed' \cup Left' \subseteq S /\ (~op'.cut => S \cap Present' \subseteq disposed' \cup Left')
    BY <1>1, <1>5, <2>1
  <2>2. op.at = "run" => Targets(run[op.key].records)'
    BY <1>0, <1>1, <1>4, <2>1 DEF Disposals, Targets
  <2>3. op.at = "pending" => Targets(pending[op.key])'
    BY <1>0, <1>1, <1>4, <2>1 DEF Disposals, Targets
  <2>4. op.at = "owned" => Targets(OwnedBy(op.key))'
    <3>1. OwnedBy(op.key)' = OwnedBy(op.key)
      BY <1>1, <1>4 DEF OwnedBy
    <3> QED BY <1>0, <1>1, <2>1, <3>1 DEF Disposals, Targets
  <2> QED BY <1>0, <1>1, <1>4, <2>2, <2>3, <2>4 DEF Disposals
<1> QED BY <1>7, <1>8, <1>9, <1>11, <1>12, <1>13, <1>14 DEF Inv

\* What an instance without its port leaves, when its disposer was
\* interrupted, belongs to the session; the rest is rolled back.
LEMMA InvalidEndKeeps ==
  ASSUME Inv, InvalidEnd
  PROVE  Inv'
<1>0. /\ Types /\ OneInstance /\ Caches /\ Books /\ Members /\ Owned
      /\ Providers /\ Quiet /\ Activating /\ Making /\ Disposals
  BY DEF Inv
<1> DEFINE kept == Runs(op.odd) \ disposed
           late == Latest(op.made)
<1>1. /\ op.at = "invalid" /\ Purge /\ cached' = cached \ op.made
      /\ op' = [op EXCEPT !.at = "undo", !.plan = <<>>, !.todo = late]
      /\ pending' = [pending EXCEPT ![op.key] = @ \cup kept]
      /\ blocked' = IF kept = {} THEN blocked ELSE blocked \cup {op.key}
      /\ session' = session /\ run' = run /\ active' = active
  BY DEF InvalidEnd, Disposed, Undo, Retain
<1>2. /\ Present \subseteq Records /\ op \in Operation /\ op.odd \subseteq Records
      /\ op.made \subseteq Records /\ cached \subseteq Records /\ \A r \in Present : r[2] \in Sessions
  BY <1>0, TypeFacts, Kinds
<1>3. late \in Seq(Records) /\ ToSet(late) = Present \cap op.made
  BY <1>0, LatestOf
<1>4. /\ op.key \in Sessions /\ disposed \subseteq op.odd
      /\ \A r \in op.odd : r \notin cached \cup op.made /\ r[2] = op.key
      /\ \A r \in op.made : r[2] = op.key
  BY <1>0, <1>1 DEF Making, Rollback
<1>5. live' \in Seq(Records) /\ Present' = Present \ disposed /\ disposed' = {} /\ OneInstance'
  BY <1>0, <1>1, Purged
<1>6. kept \subseteq op.odd /\ \A r \in kept : ScopeOf(r) = "run"
  BY DEF Runs
<1>7. /\ op' \in Operation
      /\ op'.at = "undo" /\ op'.key = op.key /\ op'.made = op.made /\ op'.todo = late
  <2>1. "undo" \in {"idle", "close"} \cup Creation \cup Rollback \cup Ends /\ <<>> \in Seq(Plugins)
    BY DEF Rollback
  <2> DEFINE ats == {"idle", "close"} \cup Creation \cup Rollback \cup Ends
             plans == Seq(Plugins)
             todos == Seq(Records)
  <2> HIDE DEF Plugins, late, ats, plans, todos
  <2> QED BY <1>1, <1>2, <1>3, <2>1 DEF Operation, late, ats, plans, todos
<1>8. Left' = Present \cap op.made /\ Left' \subseteq Present'
  BY <1>3, <1>4, <1>5, <1>7 DEF Left
<1> DEFINE was == pending[op.key]
<1>9. /\ pending' \in [Sessions -> SUBSET Records] /\ pending'[op.key] = was \cup kept
      /\ \A k \in Sessions : k # op.key => pending'[k] = pending[k]
  <2> HIDE DEF kept
  <2> QED BY <1>0, <1>1, <1>2, <1>4, <1>6 DEF Types, TypeOK
<1>10. \A r \in op.odd : ScopeOf(r) = "run" => r \in kept \/ r \in disposed
  BY <1>2 DEF Runs
<1> HIDE DEF kept, late
<1>11. Types'
  BY <1>0, <1>1, <1>2, <1>4, <1>5, <1>7, <1>8, <1>9 DEF Types, TypeOK, InvalidEnd, Present
<1>12. Caches'
  BY <1>0, <1>1, <1>4, <1>5 DEF Caches
<1>13. Books'
  <2>1. blocked \subseteq blocked' /\ (kept # {} => op.key \in blocked')
    BY <1>1
  <2> QED BY <1>0, <1>1, <1>4, <1>6, <1>9, <2>1 DEF Books
<1>14. Members'
  <2>1. \A r \in Present : ScopeOf(r) = "session" /\ session[r[2]] \in {"preparing", "open", "closing"}
           => r \notin op.made
    BY <1>0, <1>1, <1>4 DEF Making, Rollback
  <2> QED BY <1>0, <1>1, <1>5, <2>1 DEF Members
<1>15. Owned'
  <2> SUFFICES ASSUME NEW r \in Present, r \notin disposed, ScopeOf(r) = "run"
               PROVE  r \in run[r[2]].records \cup pending'[r[2]] \/ r \in op.made
    BY <1>1, <1>5, <1>7 DEF Owned, Rollback
  <2>1. r \in run[r[2]].records \cup pending[r[2]] \/ r \in op.made \/ r \in op.odd
    BY <1>0, <1>1 DEF Owned
  <2>2. r[2] \in Sessions /\ pending[r[2]] \subseteq pending'[r[2]]
    BY <1>2, <1>9
  <2>3. r \in op.odd => r \in pending'[r[2]]
    BY <1>4, <1>9, <1>10
  <2> QED BY <2>1, <2>2, <2>3
<1>16. Providers'
  <2>1. \A k \in Sessions : Served(k) => Served(k)'
    BY <1>1, <1>5, <1>7 DEF Served
  <2> QED BY <1>0, <1>1, <1>5, <2>1 DEF Providers
<1>17. Quiet' /\ Activating' /\ Disposals'
  BY <1>7 DEF Quiet, Activating, Disposals, Creation, Ends
<1>18. Making'
  BY <1>0, <1>1, <1>4, <1>5, <1>7, <1>8 DEF Making, Creation, Rollback
<1> QED BY <1>5, <1>11, <1>12, <1>13, <1>14, <1>15, <1>16, <1>17, <1>18 DEF Inv

\* What is left of a run that did not open belongs to the session.
LEMMA UndoEndKeeps ==
  ASSUME Inv, UndoEnd
  PROVE  Inv'
<1>0. /\ Types /\ OneInstance /\ Caches /\ Books /\ Members /\ Owned
      /\ Providers /\ Quiet /\ Activating /\ Making /\ Disposals
  BY DEF Inv
<1> DEFINE kept == Runs(op.made) \ disposed
<1>1. /\ op.at = "undo" /\ Purge /\ op' = Idle
      /\ pending' = [pending EXCEPT ![op.key] = @ \cup kept]
      /\ blocked' = IF kept = {} THEN blocked ELSE blocked \cup {op.key}
      /\ session' = IF session[op.key] = "opening" THEN [session EXCEPT ![op.key] = "failed"] ELSE session
      /\ active' = active \ {op.key}
      /\ cached' = cached /\ run' = run
  BY DEF UndoEnd, Disposed, Retain
<1>2. /\ Present \subseteq Records /\ op.made \subseteq Records /\ \A r \in Present : r[2] \in Sessions
  BY <1>0, TypeFacts, Kinds
<1>3. /\ op.key \in Sessions /\ disposed \subseteq op.made /\ op.made \cap cached = {}
      /\ \A r \in op.made : r[2] = op.key
      /\ session[op.key] = "opening" \/ session[op.key] = "open"
  BY <1>0, <1>1 DEF Making, Rollback
<1>4. live' \in Seq(Records) /\ Present' = Present \ disposed /\ disposed' = {} /\ OneInstance'
  BY <1>0, <1>1, Purged
<1>5. kept \subseteq op.made /\ \A r \in kept : ScopeOf(r) = "run"
  BY DEF Runs
<1>6. \A r \in op.made : ScopeOf(r) = "run" => r \in kept \/ r \in disposed
  BY <1>2 DEF Runs
<1> HIDE DEF kept
<1>7. /\ pending' \in [Sessions -> SUBSET Records] /\ pending'[op.key] = pending[op.key] \cup kept
      /\ \A k \in Sessions : k # op.key => pending'[k] = pending[k]
  BY <1>0, <1>1, <1>2, <1>3, <1>5 DEF Types, TypeOK
<1>8. /\ session' \in [Sessions -> {"new", "opening", "preparing", "open", "closing", "closed", "failed"}]
      /\ \A k \in Sessions : session'[k] = session[k] \/ (k = op.key /\ session[k] = "opening" /\ session'[k] = "failed")
  BY <1>0, <1>1, <1>3 DEF Types, TypeOK
<1>9. op' \in Operation /\ op'.at = "idle" /\ op'.made = {} /\ op'.todo = <<>> /\ Left' = {}
  <2> HIDE DEF Plugins
  <2> QED BY <1>1, EmptyOf DEF Operation, Idle, Left
<1>10. Types'
  BY <1>0, <1>1, <1>3, <1>4, <1>7, <1>8, <1>9 DEF Types, TypeOK, UndoEnd, Present
<1>11. Caches'
  BY <1>0, <1>1, <1>3, <1>4 DEF Caches
<1>12. Books'
  <2>1. blocked \subseteq blocked' /\ (kept # {} => op.key \in blocked')
    BY <1>1
  <2>2. \A k \in active' : k \in active /\ k # op.key
    BY <1>1
  <2> QED BY <1>0, <1>1, <1>3, <1>5, <1>7, <1>8, <2>1, <2>2 DEF Books
<1>13. Members'
  BY <1>0, <1>1, <1>2, <1>4, <1>8 DEF Members
<1>14. Owned'
  <2> SUFFICES ASSUME NEW r \in Present, r \notin disposed, ScopeOf(r) = "run"
               PROVE  r \in run[r[2]].records \cup pending'[r[2]]
    BY <1>1, <1>4 DEF Owned
  <2>1. r \in run[r[2]].records \cup pending[r[2]] \/ r \in op.made
    BY <1>0, <1>1 DEF Owned
  <2>2. r[2] \in Sessions /\ pending[r[2]] \subseteq pending'[r[2]]
    BY <1>2, <1>7
  <2>3. r \in op.made => r \in pending'[r[2]]
    BY <1>3, <1>6, <1>7
  <2> QED BY <2>1, <2>2, <2>3
<1>15. Providers'
  <2>1. \A k \in Sessions : Served(k) => Served(k)'
    BY <1>1, <1>4, <1>9 DEF Served
  <2> QED BY <1>0, <1>4, <1>8, <2>1 DEF Providers
<1>16. Quiet' /\ Activating' /\ Making' /\ Disposals'
  BY <1>4, <1>9 DEF Quiet, Activating, Making, Disposals, Creation, Rollback, Ends
<1> QED BY <1>4, <1>10, <1>11, <1>12, <1>13, <1>14, <1>15, <1>16 DEF Inv

\* The records of a run are disposed, or the run keeps what is left.
LEMMA RunEndedKeeps ==
  ASSUME Inv, RunEnded
  PROVE  Inv'
<1>0. /\ Types /\ OneInstance /\ Caches /\ Books /\ Members /\ Owned
      /\ Providers /\ Quiet /\ Activating /\ Making /\ Disposals
  BY DEF Inv
<1> DEFINE left == run[op.key].records \ disposed
<1>1. /\ op.at = "run" /\ op.todo = <<>> /\ Purge /\ op' = Idle
      /\ run' = [run EXCEPT ![op.key] = IF Raises THEN [held |-> TRUE, records |-> left] ELSE NoRun]
      /\ active' = active \ {op.key}
      /\ cached' = cached /\ pending' = pending /\ blocked' = blocked /\ session' = session
  BY DEF RunEnded, Disposed
<1>2. /\ Present \subseteq Records /\ \A r \in Present : r[2] \in Sessions
      /\ op.cut \in BOOLEAN /\ op.bad \in BOOLEAN
  BY <1>0, TypeFacts, Kinds
<1>3. op.key \in Sessions /\ Targets(run[op.key].records)
  BY <1>0, <1>1 DEF Disposals, Ends
<1>4. live' \in Seq(Records) /\ Present' = Present \ disposed /\ disposed' = {} /\ OneInstance'
  BY <1>0, <1>1, Purged
<1>5. /\ run' \in [Sessions -> [held : BOOLEAN, records : SUBSET Records]]
      /\ \A k \in Sessions : k # op.key => run'[k] = run[k]
      /\ run'[op.key] = IF Raises THEN [held |-> TRUE, records |-> left] ELSE NoRun
  BY <1>0, <1>1, <1>3 DEF Types, TypeOK, NoRun
<1>6. run'[op.key].records = (IF Raises THEN left ELSE {}) /\ (~run'[op.key].held => run'[op.key].records = {})
  BY <1>5 DEF NoRun
<1>7. run[op.key].records \cap Present' \subseteq run'[op.key].records
  <2>1. CASE Raises
    BY <1>4, <1>6, <2>1
  <2>2. CASE ~Raises
    <3>1. Left = {} /\ ~op.cut
      BY <1>1, <2>2, EmptyOf DEF Raises, Left
    <3> QED BY <1>3, <1>4, <3>1 DEF Targets
  <2> QED BY <2>1, <2>2
<1>8. op' \in Operation /\ op'.at = "idle" /\ op'.made = {} /\ op'.todo = <<>> /\ Left' = {}
  <2> HIDE DEF Plugins
  <2> QED BY <1>1, EmptyOf DEF Operation, Idle, Left
<1>9. Types'
  BY <1>0, <1>1, <1>4, <1>5, <1>8 DEF Types, TypeOK, RunEnded, Present
<1>10. disposed \cap cached = {}
  BY <1>0, <1>3 DEF Targets, Books, Caches
<1>11. Caches'
  BY <1>0, <1>1, <1>4, <1>10 DEF Caches
<1>12. Books'
  <2>1. \A k \in Sessions : run'[k].records \subseteq run[k].records /\ (~run'[k].held => run'[k].records = {})
    BY <1>0, <1>5, <1>6 DEF Books
  <2> QED BY <1>0, <1>1, <2>1 DEF Books
<1>13. Members'
  BY <1>0, <1>1, <1>4 DEF Members
<1>14. Owned'
  <2> SUFFICES ASSUME NEW r \in Present', ScopeOf(r) = "run"
               PROVE  r \in run'[r[2]].records \cup pending[r[2]]
    BY <1>1 DEF Owned
  <2>1. r \in run[r[2]].records \cup pending[r[2]] /\ r[2] \in Sessions
    BY <1>0, <1>1, <1>2, <1>4 DEF Owned, Rollback
  <2> QED BY <1>5, <1>7, <2>1
<1>15. Providers'
  <2>1. \A k \in Sessions : Served(k) => Served(k)'
    BY <1>1, <1>4, <1>8 DEF Served
  <2> QED BY <1>0, <1>1, <1>4, <2>1 DEF Providers
<1>16. Quiet' /\ Activating' /\ Making' /\ Disposals'
  BY <1>4, <1>8 DEF Quiet, Activating, Making, Disposals, Creation, Rollback, Ends
<1> QED BY <1>4, <1>9, <1>11, <1>12, <1>13, <1>14, <1>15, <1>16 DEF Inv

\* After an interruption the session stays as it is; otherwise nothing is
\* left of its failed runs, and its own records follow.
LEMMA PendingDisposedKeeps ==
  ASSUME Inv, PendingDisposed
  PROVE  Inv'
<1>0. /\ Types /\ OneInstance /\ Caches /\ Books /\ Members /\ Owned
      /\ Providers /\ Quiet /\ Activating /\ Making /\ Disposals
  BY DEF Inv
<1> DEFINE owned == OwnedBy(op.key)
           late  == Latest(owned)
<1>1. /\ op.at = "pending" /\ op.todo = <<>> /\ Purge
      /\ pending' = [pending EXCEPT ![op.key] = @ \ disposed]
      /\ \/ op.cut /\ op' = Idle /\ blocked' = blocked
         \/ /\ ~op.cut /\ op' = [op EXCEPT !.at = "owned", !.todo = late]
            /\ blocked' = IF owned = {} THEN blocked ELSE blocked \cup {op.key}
      /\ cached' = cached /\ session' = session /\ run' = run /\ active' = active
  BY DEF PendingDisposed, Disposed
<1>2. /\ Present \subseteq Records /\ op \in Operation /\ \A r \in Present : r[2] \in Sessions
  BY <1>0, TypeFacts, Kinds
<1>3. /\ op.key \in Sessions /\ Targets(pending[op.key]) /\ session[op.key] = "closing"
      /\ run[op.key].records = {}
  BY <1>0, <1>1 DEF Disposals, Ends
<1>4. live' \in Seq(Records) /\ Present' = Present \ disposed /\ disposed' = {} /\ OneInstance'
  BY <1>0, <1>1, Purged
<1>5. disposed \cap cached = {}
  BY <1>0, <1>3 DEF Targets, Books, Caches
<1>6. late \in Seq(Records) /\ ToSet(late) = Present \cap owned /\ owned \subseteq cached
  BY <1>0, LatestOf DEF OwnedBy
<1>7. /\ pending' \in [Sessions -> SUBSET Records] /\ pending'[op.key] = pending[op.key] \ disposed
      /\ \A k \in Sessions : k # op.key => pending'[k] = pending[k]
  BY <1>0, <1>1, <1>3 DEF Types, TypeOK
<1>8. /\ op' \in Operation /\ op'.made = {} /\ Left' \subseteq Present'
      /\ \/ op'.at = "idle" /\ op'.todo = <<>>
         \/ op'.at = "owned" /\ op'.key = op.key /\ ~op.cut /\ Left' = Present \cap owned
  <2>1. CASE op' = Idle
    <3>1. op' \in Operation /\ op'.at = "idle" /\ op'.made = {} /\ op'.todo = <<>> /\ Left' = {}
      <4> HIDE DEF Plugins
      <4> QED BY <2>1, EmptyOf DEF Operation, Idle, Left
    <3> QED BY <3>1
  <2>2. CASE ~op.cut /\ op' = [op EXCEPT !.at = "owned", !.todo = late]
    <3>1. "owned" \in {"idle", "close"} \cup Creation \cup Rollback \cup Ends
      BY DEF Ends
    <3> HIDE DEF Plugins, late
    <3>2. /\ op' \in Operation
          /\ op'.at = "owned" /\ op'.key = op.key /\ op'.made = op.made /\ op'.todo = late
      BY <1>2, <1>6, <2>2, <3>1 DEF Operation
    <3>3. op.made = {}
      BY <1>0, <1>1 DEF Making, Creation, Rollback
    <3>4. Left' = Present \cap owned
      BY <1>6, <3>2 DEF Left
    <3> QED BY <1>4, <1>5, <1>6, <2>2, <3>2, <3>3, <3>4
  <2> QED BY <1>1, <2>1, <2>2
<1> HIDE DEF late
<1>9. Types'
  <2>1. blocked' \subseteq Sessions
    BY <1>0, <1>1, <1>3 DEF Types, TypeOK
  <2> QED BY <1>0, <1>1, <1>4, <1>7, <1>8, <2>1 DEF Types, TypeOK, PendingDisposed, Present
<1>10. Caches'
  BY <1>0, <1>1, <1>4, <1>5 DEF Caches
<1>11. Books'
  <2>1. blocked \subseteq blocked'
    BY <1>1
  <2>2. \A k \in Sessions : pending'[k] \subseteq pending[k]
    BY <1>7
  <2> QED BY <1>0, <1>1, <2>1, <2>2 DEF Books
<1>12. Members'
  BY <1>0, <1>1, <1>4 DEF Members
<1>13. Owned'
  <2> SUFFICES ASSUME NEW r \in Present', ScopeOf(r) = "run"
               PROVE  r \in run[r[2]].records \cup pending'[r[2]]
    BY <1>1 DEF Owned
  <2>1. r \in run[r[2]].records \cup pending[r[2]] /\ r[2] \in Sessions /\ r \notin disposed
    BY <1>0, <1>1, <1>2, <1>4 DEF Owned, Rollback
  <2> QED BY <1>7, <2>1
<1>14. Providers'
  <2>1. \A k \in Sessions : Served(k) => Served(k)'
    BY <1>1, <1>4, <1>8 DEF Served
  <2> QED BY <1>0, <1>1, <1>4, <2>1 DEF Providers
<1>15. Quiet' /\ Activating' /\ Making'
  BY <1>4, <1>8 DEF Quiet, Activating, Making, Creation, Rollback
<1>16. Disposals'
  <2> SUFFICES ASSUME op'.at = "owned"
               PROVE  /\ Targets(OwnedBy(op.key))' /\ pending'[op.key] \cap Present' = {}
                      /\ op'.key = op.key
    BY <1>1, <1>3, <1>8 DEF Disposals, Ends
  <2>1. OwnedBy(op.key)' = owned /\ op'.key = op.key /\ ~op.cut /\ Left' = Present \cap owned
    BY <1>1, <1>8 DEF OwnedBy
  <2>2. Left = {}
    BY <1>1, EmptyOf DEF Left
  <2>3. pending'[op.key] \cap Present' = {}
    BY <1>3, <1>4, <1>7, <2>1, <2>2 DEF Targets
  <2>4. Targets(OwnedBy(op.key))'
    BY <1>4, <2>1 DEF Targets
  <2> QED BY <2>1, <2>3, <2>4
<1> QED BY <1>4, <1>9, <1>10, <1>11, <1>12, <1>13, <1>14, <1>15, <1>16 DEF Inv

\* A session is closed only when none of its disposers raised or was
\* interrupted.
LEMMA OwnedDisposedKeeps ==
  ASSUME Inv, OwnedDisposed
  PROVE  Inv'
<1>0. /\ Types /\ OneInstance /\ Caches /\ Books /\ Members /\ Owned
      /\ Providers /\ Quiet /\ Activating /\ Making /\ Disposals
  BY DEF Inv
<1>1. /\ op.at = "owned" /\ op.todo = <<>> /\ Purge /\ op' = Idle
      /\ cached' = cached \ disposed
      /\ blocked' = IF OwnedBy(op.key) \subseteq disposed THEN blocked \ {op.key} ELSE blocked
      /\ session' = IF Raises THEN session ELSE [session EXCEPT ![op.key] = "closed"]
      /\ pending' = pending /\ run' = run /\ active' = active
  BY DEF OwnedDisposed, Disposed
<1>2. Present \subseteq Records /\ cached \subseteq Records /\ \A r \in Present : r[2] \in Sessions /\ r \in Records
  BY <1>0, TypeFacts, Kinds
<1>3. /\ op.key \in Sessions /\ Targets(OwnedBy(op.key)) /\ session[op.key] = "closing"
      /\ run[op.key].records = {} /\ pending[op.key] \cap Present = {}
  BY <1>0, <1>1 DEF Disposals, Ends
<1>4. live' \in Seq(Records) /\ Present' = Present \ disposed /\ disposed' = {} /\ OneInstance'
  BY <1>0, <1>1, Purged
<1>5. /\ session' \in [Sessions -> {"new", "opening", "preparing", "open", "closing", "closed", "failed"}]
      /\ \A k \in Sessions : k # op.key => session'[k] = session[k]
      /\ session'[op.key] = IF Raises THEN "closing" ELSE "closed"
  BY <1>0, <1>1, <1>3 DEF Types, TypeOK
<1>6. ~Raises => OwnedBy(op.key) \cap Present \subseteq disposed
  <2>1. Left = {}
    BY <1>1, EmptyOf DEF Left
  <2> QED BY <1>3, <2>1 DEF Targets, Raises
<1>7. op' \in Operation /\ op'.at = "idle" /\ op'.made = {} /\ op'.todo = <<>> /\ Left' = {}
  <2> HIDE DEF Plugins
  <2> QED BY <1>1, EmptyOf DEF Operation, Idle, Left
<1>8. Types'
  BY <1>0, <1>1, <1>4, <1>5, <1>7 DEF Types, TypeOK, OwnedDisposed, Present
<1>9. Caches'
  BY <1>0, <1>1, <1>4 DEF Caches
<1>10. Books'
  <2>1. \A k \in blocked : k # op.key => k \in blocked'
    BY <1>1
  <2>2. op.key \notin active /\ session'[op.key] \in {"closing", "closed"}
    BY <1>0, <1>3, <1>5 DEF Books
  <2> QED BY <1>0, <1>1, <1>5, <2>1, <2>2 DEF Books
<1>11. \A r \in Present : r[2] = op.key => ScopeOf(r) # "run"
  BY <1>0, <1>1, <1>3 DEF Owned, Rollback
<1>12. Members'
  <2> SUFFICES ASSUME NEW r \in Present, r \notin disposed
               PROVE  /\ session'[r[2]] # "new"
                      /\ ScopeOf(r) = "run" => session'[r[2]] \in {"open", "closing"}
                      /\ ScopeOf(r) = "session" /\ session'[r[2]] \in {"preparing", "open", "closing"} => r \in cached'
                      /\ ScopeOf(r) = "session" => session'[r[2]] # "closed"
    BY <1>4 DEF Members
  <2>1. CASE r[2] # op.key
    BY <1>0, <1>1, <1>2, <1>5, <2>1 DEF Members
  <2>2. CASE r[2] = op.key
    <3>1. ScopeOf(r) = "session" => r \in cached /\ r \in OwnedBy(op.key)
      BY <1>0, <1>3, <2>2 DEF Members, OwnedBy
    <3> QED BY <1>1, <1>5, <1>6, <1>11, <2>2, <3>1
  <2> QED BY <2>1, <2>2
<1>13. Owned'
  BY <1>0, <1>1, <1>4 DEF Owned, Rollback
<1>14. Providers'
  <2>1. \A k \in Sessions : Served(k) => Served(k)'
    BY <1>1, <1>4, <1>7 DEF Served
  <2> QED BY <1>0, <1>1, <1>4, <1>5, <2>1 DEF Providers
<1>15. Quiet' /\ Activating' /\ Making' /\ Disposals'
  BY <1>4, <1>7 DEF Quiet, Activating, Making, Disposals, Creation, Rollback, Ends
<1> QED BY <1>4, <1>8, <1>9, <1>10, <1>12, <1>13, <1>14, <1>15 DEF Inv

\* No run and no session is left when the host closes.
LEMMA HostClosedKeeps ==
  ASSUME Inv, HostClosed
  PROVE  Inv'
<1>0. /\ Types /\ OneInstance /\ Caches /\ Books /\ Members /\ Owned
      /\ Providers /\ Quiet /\ Activating /\ Making /\ Disposals
  BY DEF Inv
<1>1. /\ op.at = "close" /\ Purge /\ op' = Idle
      /\ cached' = cached \ disposed
      /\ pending' = [k \in Sessions |-> pending[k] \ disposed]
      /\ blocked' = blocked /\ session' = session /\ run' = run /\ active' = active
  BY DEF HostClosed, Disposed
<1>2. Present \subseteq Records /\ \A r \in Present : r[2] \in Sessions
  BY <1>0, TypeFacts, Kinds
<1>3. \A k \in Sessions : session[k] \in {"new", "failed", "closed"}
  BY <1>0, <1>1 DEF Disposals
<1>4. live' \in Seq(Records) /\ Present' = Present \ disposed /\ disposed' = {} /\ OneInstance'
  BY <1>0, <1>1, Purged
<1>5. \A k \in Sessions : pending'[k] = pending[k] \ disposed
  BY <1>1
<1>6. pending' \in [Sessions -> SUBSET Records]
  BY <1>0, <1>1 DEF Types, TypeOK
<1>7. \A r \in Present : ScopeOf(r) # "run"
  BY <1>0, <1>2, <1>3 DEF Members
<1>8. op' \in Operation /\ op'.at = "idle" /\ op'.made = {} /\ op'.todo = <<>> /\ Left' = {}
  <2> HIDE DEF Plugins
  <2> QED BY <1>1, EmptyOf DEF Operation, Idle, Left
<1>9. Types'
  BY <1>0, <1>1, <1>4, <1>6, <1>8 DEF Types, TypeOK, HostClosed, Present
<1>10. Caches'
  BY <1>0, <1>1, <1>4 DEF Caches
<1>11. Books'
  BY <1>0, <1>1, <1>5 DEF Books
<1>12. Members'
  BY <1>0, <1>1, <1>2, <1>3, <1>4 DEF Members
<1>13. Owned' /\ Providers'
  BY <1>1, <1>3, <1>4, <1>7 DEF Owned, Providers
<1>14. Quiet' /\ Activating' /\ Making' /\ Disposals'
  BY <1>4, <1>8 DEF Quiet, Activating, Making, Disposals, Creation, Rollback, Ends
<1> QED BY <1>4, <1>9, <1>10, <1>11, <1>12, <1>13, <1>14 DEF Inv

-----------------------------------------------------------------------------
(* The steps that begin an operation, and those of a session.              *)

\* The last moment at which no record of the session exists.
LEMMA OpenSessionKeeps ==
  ASSUME Inv, NEW k \in Sessions, OpenSession(k)
  PROVE  Inv'
<1>0. /\ Types /\ OneInstance /\ Caches /\ Books /\ Members /\ Owned
      /\ Providers /\ Quiet /\ Activating /\ Making /\ Disposals
  BY DEF Inv
<1> DEFINE scoped == { p \in Plugins : Scope[p] \in {"process", "session"} }
           plan   == Only(Plan, scoped)
<1>1. /\ op = Idle /\ session[k] = "new"
      /\ op' = [Idle EXCEPT !.at = "open", !.key = k, !.plan = plan]
      /\ session' = [session EXCEPT ![k] = "opening"]
      /\ live' = live /\ disposed' = disposed /\ cached' = cached /\ pending' = pending
      /\ blocked' = blocked /\ run' = run /\ active' = active /\ Present' = Present
  BY DEF OpenSession, Activate, Present
<1>2. Present \subseteq Records /\ \A r \in Present : r[2] \in Sessions
  BY <1>0, TypeFacts, Kinds
<1>3. plan \in Seq(Plugins) /\ ToSet(plan) = scoped /\ IsInjective(plan)
  <2>1. Plan \in Seq(Plugins) /\ IsInjective(Plan) /\ ToSet(Plan) = Plugins
    BY HostAssumption DEF HostAssumption, Plugins
  <2> HIDE DEF Plugins, scoped
  <2>2. ToSet(plan) = Plugins \cap scoped
    BY <2>1, OnlyOf
  <2>3. plan \in Seq(Plugins) /\ IsInjective(plan)
    BY <2>1, OnlyOf
  <2>4. scoped \subseteq Plugins
    BY DEF scoped
  <2> QED BY <2>2, <2>3, <2>4
<1>4. /\ op' \in Operation
      /\ op'.at = "open" /\ op'.key = k /\ op'.plan = plan /\ op'.made = {} /\ op'.todo = <<>>
  <2>1. "open" \in {"idle", "close"} \cup Creation \cup Rollback \cup Ends /\ <<>> \in Seq(Records)
    BY DEF Creation
  <2> HIDE DEF Plugins, plan
  <2> QED BY <1>1, <1>3, <2>1 DEF Operation, Idle
<1>5. op.at = "idle" /\ op.made = {} /\ disposed = {} /\ Left' = {}
  BY <1>0, <1>1, <1>4, EmptyOf DEF Idle, Quiet, Left
<1>6. /\ session' \in [Sessions -> {"new", "opening", "preparing", "open", "closing", "closed", "failed"}]
      /\ session'[k] = "opening" /\ \A j \in Sessions : j # k => session'[j] = session[j]
  BY <1>0, <1>1 DEF Types, TypeOK
<1>7. Types'
  BY <1>0, <1>1, <1>4, <1>5, <1>6 DEF Types, TypeOK, OpenSession, Present
<1>8. OneInstance' /\ Caches'
  BY <1>0, <1>1 DEF OneInstance, Caches
<1>9. Books'
  BY <1>0, <1>1, <1>6 DEF Books
<1>10. Members'
  BY <1>0, <1>1, <1>2, <1>6 DEF Members
<1>11. Owned'
  BY <1>0, <1>1, <1>5 DEF Owned, Rollback
<1>12. Providers'
  <2>1. \A j \in Sessions : Served(j) => Served(j)'
    BY <1>1, <1>4 DEF Served
  <2> QED BY <1>0, <1>1, <1>6, <2>1 DEF Providers
<1>13. Quiet' /\ Disposals'
  BY <1>1, <1>4, <1>5 DEF Quiet, Disposals, Creation, Ends
<1>14. Activating'
  <2>1. \A r \in Present : r[2] # k
    BY <1>0, <1>1 DEF Members
  <2>2. /\ \A p \in ToSet(plan) : Scope[p] # "run"
        /\ \A p \in Plugins : Scope[p] # "run" => p \in ToSet(plan)
    <3> HIDE DEF Plugins, plan
    <3> QED BY <1>3, Kinds
  <2> HIDE DEF Plugins, plan
  <2> QED BY <1>1, <1>3, <1>4, <2>1, <2>2 DEF Activating
<1>15. Making'
  BY <1>4, <1>6 DEF Making, Creation, Rollback
<1> QED BY <1>7, <1>8, <1>9, <1>10, <1>11, <1>12, <1>13, <1>14, <1>15 DEF Inv

\* A run opens only when nothing is left of the runs before it.
LEMMA OpenRunKeeps ==
  ASSUME Inv, NEW k \in Sessions, OpenRun(k)
  PROVE  Inv'
<1>0. /\ Types /\ OneInstance /\ Caches /\ Books /\ Members /\ Owned
      /\ Providers /\ Quiet /\ Activating /\ Making /\ Disposals
  BY DEF Inv
<1> DEFINE scoped == { p \in Plugins : Scope[p] \in {"process", "session", "run"} }
           plan   == Only(Plan, scoped)
<1>1. /\ op = Idle /\ session[k] = "open" /\ ~run[k].held /\ k \notin blocked
      /\ op' = [Idle EXCEPT !.at = "openrun", !.key = k, !.plan = plan]
      /\ active' = active \cup {k}
      /\ live' = live /\ disposed' = disposed /\ cached' = cached /\ pending' = pending
      /\ blocked' = blocked /\ run' = run /\ session' = session /\ Present' = Present
  BY DEF OpenRun, Activate, Present, Refused
<1>2. plan \in Seq(Plugins) /\ IsInjective(plan)
  <2>1. Plan \in Seq(Plugins) /\ IsInjective(Plan)
    BY HostAssumption DEF HostAssumption
  <2> HIDE DEF Plugins, scoped
  <2> QED BY <2>1, OnlyOf
<1>3. /\ op' \in Operation
      /\ op'.at = "openrun" /\ op'.key = k /\ op'.plan = plan /\ op'.made = {} /\ op'.todo = <<>>
  <2>1. "openrun" \in {"idle", "close"} \cup Creation \cup Rollback \cup Ends /\ <<>> \in Seq(Records)
    BY DEF Creation
  <2> HIDE DEF Plugins, plan
  <2> QED BY <1>1, <1>2, <2>1 DEF Operation, Idle
<1> HIDE DEF plan
<1>4. op.at = "idle" /\ op.made = {} /\ disposed = {} /\ Left' = {}
  BY <1>0, <1>1, <1>3, EmptyOf DEF Idle, Quiet, Left
<1>5. Types'
  BY <1>0, <1>1, <1>3, <1>4 DEF Types, TypeOK, OpenRun, Present
<1>6. OneInstance' /\ Caches' /\ Members'
  BY <1>0, <1>1 DEF OneInstance, Caches, Members
<1>7. Books'
  BY <1>0, <1>1 DEF Books
<1>8. Owned'
  BY <1>0, <1>1, <1>4 DEF Owned, Rollback
<1>9. Providers'
  <2>1. \A j \in Sessions : Served(j) => Served(j)'
    BY <1>1, <1>3 DEF Served
  <2> QED BY <1>0, <1>1, <2>1 DEF Providers
<1>10. Quiet' /\ Disposals'
  BY <1>1, <1>3, <1>4 DEF Quiet, Disposals, Creation, Ends
<1>11. Activating'
  <2>1. run[k].records = {} /\ pending[k] = {}
    BY <1>0, <1>1 DEF Books
  <2>2. \A r \in Present : r[2] = k => ScopeOf(r) # "run"
    BY <1>0, <1>4, <2>1 DEF Owned, Rollback
  <2> QED BY <1>1, <1>2, <1>3, <2>1, <2>2 DEF Activating
<1>12. Making'
  BY <1>1, <1>3 DEF Making, Creation, Rollback
<1> QED BY <1>5, <1>6, <1>7, <1>8, <1>9, <1>10, <1>11, <1>12 DEF Inv

\* A disposal that begins: of the records of a run, of what a failed run
\* left, or of everything.
LEMMA DisposalBegins ==
  ASSUME Inv, op = Idle, NEW at \in {"run", "pending", "close"},
         NEW STATE todo, todo \in Seq(Records), ToSet(todo) \subseteq Present,
         op' \in Operation, op'.at = at, op'.made = {}, op'.todo = todo,
         UNCHANGED <<live, disposed, cached, pending, blocked, session, run, active, stopping, cuts>>,
         shut' \in BOOLEAN,
         Disposals'
  PROVE  Inv'
<1>0. /\ Types /\ OneInstance /\ Caches /\ Books /\ Members /\ Owned
      /\ Providers /\ Quiet /\ Activating /\ Making
  BY DEF Inv
<1>1. /\ live' = live /\ disposed' = disposed /\ cached' = cached /\ pending' = pending
      /\ blocked' = blocked /\ run' = run /\ session' = session /\ active' = active
      /\ Present' = Present
  BY DEF Present
<1>2. op' \in Operation /\ op'.at = at /\ op'.made = {} /\ op'.todo = todo
  OBVIOUS
<1>3. op.at = "idle" /\ op.made = {} /\ Left' = ToSet(todo)
  BY <1>2 DEF Idle, Left
<1>4. Types'
  BY <1>0, <1>1, <1>2, <1>3 DEF Types, TypeOK, Present
<1>5. OneInstance' /\ Caches' /\ Books' /\ Members'
  BY <1>0, <1>1 DEF OneInstance, Caches, Books, Members
<1>6. Owned'
  BY <1>0, <1>1, <1>3 DEF Owned, Rollback
<1>7. Providers'
  BY <1>0, <1>1, <1>2, <1>3 DEF Providers, Served
<1>8. Quiet' /\ Activating' /\ Making'
  BY <1>2 DEF Quiet, Activating, Making, Creation, Rollback
<1> QED BY <1>4, <1>5, <1>6, <1>7, <1>8 DEF Inv

\* A run is disposed while it is under way, or by the close of its session.
LEMMA EndRunKeeps ==
  ASSUME Inv, NEW k \in Sessions, EndRun(k)
  PROVE  Inv'
<1>0. Types /\ Books /\ Quiet /\ op.at = "idle" /\ disposed = {}
  BY DEF Inv, Quiet, EndRun, Idle
<1>1. Latest(run[k].records) \in Seq(Records) /\ ToSet(Latest(run[k].records)) = Present \cap run[k].records
  BY <1>0, LatestOf
<1>2. /\ op = Idle /\ op' = [Idle EXCEPT !.at = "run", !.key = k, !.todo = Latest(run[k].records)]
      /\ k \in active \/ session[k] = "closing"
      /\ UNCHANGED <<live, disposed, cached, pending, blocked, session, run, active, stopping, cuts>>
      /\ Present' = Present /\ shut' = shut
  BY DEF EndRun, Disposing, Present
<1> DEFINE todo == Latest(run[k].records)
<1>3. /\ op' \in Operation
      /\ op'.at = "run" /\ op'.key = k /\ op'.made = {} /\ op'.todo = todo
  <2>1. "run" \in {"idle", "close"} \cup Creation \cup Rollback \cup Ends /\ <<>> \in Seq(Plugins)
    BY DEF Ends
  <2> HIDE DEF Plugins, todo
  <2> QED BY <1>1, <1>2, <2>1 DEF Operation, Idle, todo
<1>6. Left' = Present \cap run[k].records
  BY <1>1, <1>3 DEF Left
<1>4. Disposals'
  <2>1. Targets(run[k].records)'
    BY <1>0, <1>2, <1>6 DEF Targets
  <2> QED BY <1>0, <1>2, <1>3, <2>1 DEF Disposals, Books, Ends
<1>5. shut' \in BOOLEAN
  BY <1>0, <1>2 DEF Types, TypeOK
<1> QED BY <1>1, <1>2, <1>3, <1>4, <1>5, DisposalBegins

\* What a failed run left is disposed when no run is held any more.
LEMMA DisposeSessionKeeps ==
  ASSUME Inv, NEW k \in Sessions, DisposeSession(k)
  PROVE  Inv'
<1>0. Types /\ Books /\ Quiet /\ op.at = "idle" /\ disposed = {}
  BY DEF Inv, Quiet, DisposeSession, Idle
<1>1. Latest(pending[k]) \in Seq(Records) /\ ToSet(Latest(pending[k])) = Present \cap pending[k]
  BY <1>0, LatestOf
<1>2. /\ op = Idle /\ op' = [Idle EXCEPT !.at = "pending", !.key = k, !.todo = Latest(pending[k])]
      /\ session[k] = "closing" /\ ~run[k].held
      /\ UNCHANGED <<live, disposed, cached, pending, blocked, session, run, active, stopping, cuts>>
      /\ Present' = Present /\ shut' = shut
  BY DEF DisposeSession, Disposing, Present
<1> DEFINE todo == Latest(pending[k])
<1>3. /\ op' \in Operation
      /\ op'.at = "pending" /\ op'.key = k /\ op'.made = {} /\ op'.todo = todo
  <2>1. "pending" \in {"idle", "close"} \cup Creation \cup Rollback \cup Ends /\ <<>> \in Seq(Plugins)
    BY DEF Ends
  <2> HIDE DEF Plugins, todo
  <2> QED BY <1>1, <1>2, <2>1 DEF Operation, Idle, todo
<1>6. Left' = Present \cap pending[k]
  BY <1>1, <1>3 DEF Left
<1>4. Disposals'
  <2>1. Targets(pending[k])'
    BY <1>0, <1>2, <1>6 DEF Targets
  <2> QED BY <1>0, <1>2, <1>3, <2>1 DEF Disposals, Books, Ends
<1>5. shut' \in BOOLEAN
  BY <1>0, <1>2 DEF Types, TypeOK
<1> QED BY <1>1, <1>2, <1>3, <1>4, <1>5, DisposalBegins

\* The host disposes what is left after the sessions.
LEMMA HostCloseKeeps ==
  ASSUME Inv, HostClose
  PROVE  Inv'
<1>0. Types /\ live \in Seq(Records)
  BY TypeFacts DEF Inv
<1>1. Reverse(live) \in Seq(Records) /\ ToSet(Reverse(live)) = Present
  BY <1>0, ReverseOf DEF Present
<1>2. /\ op = Idle /\ op' = [Idle EXCEPT !.at = "close", !.todo = Reverse(live)]
      /\ \A k \in Sessions : session[k] \in {"new", "failed", "closed"}
      /\ UNCHANGED <<live, disposed, cached, pending, blocked, session, run, active, stopping, cuts>>
      /\ shut' = TRUE
  BY DEF HostClose
<1>3. /\ op' \in Operation
      /\ op'.at = "close" /\ op'.made = {} /\ op'.todo = Reverse(live)
  <2> DEFINE todo == Reverse(live)
  <2>1. "close" \in {"idle", "close"} \cup Creation \cup Rollback \cup Ends /\ <<>> \in Seq(Plugins)
    OBVIOUS
  <2> HIDE DEF Plugins, todo
  <2> QED BY <1>1, <1>2, <2>1 DEF Operation, Idle, todo
<1>4. Disposals'
  BY <1>2, <1>3 DEF Disposals, Ends
<1> QED BY <1>1, <1>2, <1>3, <1>4, DisposalBegins

\* A session that has been prepared, or that begins to close, is not the one
\* of an activation or of a disposal in flight.
LEMMA StageKeeps ==
  ASSUME Inv, NEW k \in Sessions, Prepared(k) \/ CloseSession(k)
  PROVE  Inv'
<1>0. /\ Types /\ OneInstance /\ Caches /\ Books /\ Members /\ Owned
      /\ Providers /\ Quiet /\ Activating /\ Making /\ Disposals
  BY DEF Inv
<1>1. /\ op' = op /\ live' = live /\ disposed' = disposed /\ cached' = cached /\ pending' = pending
      /\ blocked' = blocked /\ run' = run /\ active' = active /\ Present' = Present /\ Left' = Left
      /\ \A S : Targets(S)' = Targets(S)
  BY DEF Prepared, CloseSession, Present, Left, Targets
<1>2. /\ session' \in [Sessions -> {"new", "opening", "preparing", "open", "closing", "closed", "failed"}]
      /\ \A j \in Sessions : j # k => session'[j] = session[j]
      /\ \/ session[k] = "preparing" /\ session'[k] = "open"
         \/ session[k] \in {"preparing", "open"} /\ k \notin active /\ session'[k] = "closing"
  BY <1>0 DEF Types, TypeOK, Prepared, CloseSession
<1>3. Present \subseteq Records /\ \A r \in Present : r[2] \in Sessions
  BY <1>0, TypeFacts, Kinds
<1>4. Types'
  BY <1>0, <1>1, <1>2 DEF Types, TypeOK, Prepared, CloseSession, Present
<1>5. OneInstance' /\ Caches' /\ Owned' /\ Quiet' /\ Activating'
  BY <1>0, <1>1 DEF OneInstance, Caches, Owned, Quiet, Activating
<1>6. Books'
  BY <1>0, <1>1, <1>2 DEF Books
<1>7. Members'
  BY <1>0, <1>1, <1>2, <1>3 DEF Members
<1>8. Providers'
  <2>1. \A j \in Sessions : Served(j) => Served(j)'
    BY <1>1 DEF Served
  <2> QED BY <1>0, <1>1, <1>2, <2>1 DEF Providers
<1>9. op.at \in Creation \cup Rollback => k # op.key /\ op.key \in Sessions
  BY <1>0, <1>2 DEF Making
<1>10. Making'
  <2>1. op.at \in Creation \cup Rollback => session'[op.key] = session[op.key]
    BY <1>2, <1>9
  <2> QED BY <1>0, <1>1, <2>1 DEF Making, Rollback
<1>11. Disposals'
  <2>1. op.at \in Ends => session'[op.key] = session[op.key]
    BY <1>0, <1>2 DEF Disposals, Ends
  <2>2. op.at # "close"
    BY <1>0, <1>2 DEF Disposals
  <2>3. OwnedBy(op.key)' = OwnedBy(op.key)
    BY <1>1 DEF OwnedBy
  <2>4. /\ Targets(run[op.key].records)' = Targets(run[op.key].records)
        /\ Targets(pending[op.key])' = Targets(pending[op.key])
        /\ Targets(OwnedBy(op.key))' = Targets(OwnedBy(op.key))
    BY <1>1, <2>3 DEF Targets
  <2> QED BY <1>0, <1>1, <2>1, <2>2, <2>4 DEF Disposals, Ends
<1> QED BY <1>4, <1>5, <1>6, <1>7, <1>8, <1>10, <1>11 DEF Inv

\* A runtime that stops changes nothing of the host.
LEMMA StopRuntimeKeeps ==
  ASSUME Inv, StopRuntime \/ UNCHANGED vars
  PROVE  Inv'
<1>1. /\ op' = op /\ live' = live /\ disposed' = disposed /\ cached' = cached /\ pending' = pending
      /\ blocked' = blocked /\ shut' = shut /\ run' = run /\ active' = active /\ session' = session
      /\ cuts' = cuts /\ (stopping' = TRUE \/ stopping' = stopping)
  BY DEF StopRuntime, vars
<1>2. Present' = Present /\ Left' = Left /\ \A S : Targets(S)' = Targets(S)
  BY <1>1 DEF Present, Left, Targets
<1>3. Types'
  BY <1>1, <1>2 DEF Inv, Types, TypeOK, Present
<1>4. OneInstance' /\ Caches' /\ Books' /\ Members' /\ Owned' /\ Quiet' /\ Activating' /\ Making'
  BY <1>1, <1>2 DEF Inv, OneInstance, Caches, Books, Members, Owned, Quiet, Activating, Making
<1>5. Providers'
  BY <1>1, <1>2 DEF Inv, Providers, Served
<1>6. Disposals'
  BY <1>1, <1>2 DEF Inv, Disposals, Targets, OwnedBy
<1> QED BY <1>3, <1>4, <1>5, <1>6 DEF Inv

-----------------------------------------------------------------------------
(* The invariant holds, and what it says of the host.                      *)

\* A new runtime has no session and no record.
LEMMA InvInit == Init => Inv
<1> SUFFICES ASSUME Init PROVE Inv
  OBVIOUS
<1>1. live = <<>> /\ Present = {} /\ disposed = {} /\ cached = {} /\ op = Idle /\ Left = {}
  BY EmptyOf DEF Init, Present, Left, Idle
<1>2. op \in Operation /\ op.at = "idle" /\ op.made = {} /\ op.todo = <<>>
  <2> HIDE DEF Plugins
  <2> QED BY <1>1, EmptyOf DEF Operation, Idle
<1>3. \A k \in Sessions : session[k] = "new" /\ pending[k] = {} /\ run[k].records = {}
  BY DEF Init, NoRun
<1>4. TypeOK
  <2>1. live \in Seq(Records) /\ disposed \subseteq ToSet(live) /\ cached \subseteq Records
    BY <1>1
  <2>2. pending \in [Sessions -> SUBSET Records] /\ blocked \subseteq Sessions /\ active \subseteq Sessions
    BY DEF Init
  <2>3. session \in [Sessions -> {"new", "opening", "preparing", "open", "closing", "closed", "failed"}]
    BY DEF Init
  <2>4. run \in [Sessions -> [held : BOOLEAN, records : SUBSET Records]]
    BY DEF Init, NoRun
  <2>5. shut \in BOOLEAN /\ stopping \in BOOLEAN
    BY Zenon DEF Init
  <2>6. cuts \in 0..MaxCuts
    BY HostAssumption DEF Init, HostAssumption
  <2> QED BY <2>1, <2>2, <2>3, <2>4, <2>5, <2>6 DEF TypeOK
<1>5. Types
  BY <1>1, <1>2, <1>4 DEF Types
<1>6. OneInstance /\ Caches /\ Books /\ Members /\ Owned
  BY <1>1, <1>3, EmptyOf DEF Init, OneInstance, Caches, Books, Members, Owned
<1>7. Providers /\ Quiet
  BY <1>1, <1>2, <1>3 DEF Providers, Quiet
<1>8. Activating /\ Making /\ Disposals
  BY <1>2 DEF Activating, Making, Disposals, Creation, Rollback, Ends
<1> QED BY <1>5, <1>6, <1>7, <1>8 DEF Inv

\* Every step of the host, of a session and of the runtime keeps it.
LEMMA InvStep == Inv /\ [Next]_vars => Inv'
<1> SUFFICES ASSUME Inv, [Next]_vars PROVE Inv'
  OBVIOUS
<1>1. CASE StopRuntime \/ UNCHANGED vars
  BY <1>1, StopRuntimeKeeps
<1>2. CASE HostStep
  <2>1. CASE Reuse
    BY <2>1, ReuseKeeps
  <2>2. CASE Create
    BY <2>2, CreateKeeps
  <2>3. CASE FactoryFails
    BY <2>3, FactoryFailsKeeps
  <2>4. CASE Invalid
    BY <2>4, InvalidKeeps
  <2>5. CASE SessionActivated
    BY <2>5, SessionActivatedKeeps
  <2>6. CASE RunActivated
    BY <2>6, RunActivatedKeeps
  <2>7. CASE Dispose
    BY <2>7, DisposeKeeps
  <2>8. CASE InvalidEnd
    BY <2>8, InvalidEndKeeps
  <2>9. CASE UndoEnd
    BY <2>9, UndoEndKeeps
  <2>10. CASE RunEnded
    BY <2>10, RunEndedKeeps
  <2>11. CASE PendingDisposed
    BY <2>11, PendingDisposedKeeps
  <2>12. CASE OwnedDisposed
    BY <2>12, OwnedDisposedKeeps
  <2>13. CASE HostClosed
    BY <2>13, HostClosedKeeps
  <2> QED BY <1>2, <2>1, <2>2, <2>3, <2>4, <2>5, <2>6, <2>7, <2>8, <2>9, <2>10, <2>11, <2>12, <2>13
          DEF HostStep
<1>3. CASE HostClose
  BY <1>3, HostCloseKeeps
<1>4. ASSUME NEW k \in Sessions,
             \/ OpenSession(k) \/ Prepared(k) \/ CloseSession(k) \/ DisposeSession(k)
             \/ OpenRun(k) \/ EndRun(k)
      PROVE  Inv'
  BY <1>4, OpenSessionKeeps, StageKeeps, DisposeSessionKeeps, OpenRunKeeps, EndRunKeeps
<1> QED BY <1>1, <1>2, <1>3, <1>4 DEF Next

\* Whatever the factories, the disposers and the cancellations do, every record
\* has its owner and every session its providers.
THEOREM EveryRecordIsOwned == Spec => []Inv
  BY InvInit, InvStep, PTL DEF Spec

\* Every state of the host has the types that the model gives it, and only
\* live records are disposed (plugins/host.py).
THEOREM TypesHold == Spec => []TypeOK
<1>1. Inv => TypeOK
  BY DEF Inv, Types
<1> QED BY <1>1, EveryRecordIsOwned, PTL

\* activate() does not build a plugin twice on one cache.
THEOREM InstancesAreOne == Spec => []OneInstance
<1>1. Inv => OneInstance
  BY DEF Inv
<1> QED BY <1>1, EveryRecordIsOwned, PTL

\* The run records of a session are disposed before the instances they were
\* built on, whatever raised or was interrupted before.
THEOREM RunsAreFirst == Spec => []RunsFirst
<1>1. ASSUME Inv PROVE RunsFirst
  <2>0. Types /\ Caches /\ Providers
    BY <1>1 DEF Inv
  <2> SUFFICES ASSUME NEW r \in Records, ScopeOf(r) = "run", There(r), NEW p \in Plugins, Scope[p] # "run"
               PROVE  \E q \in cached : There(q) /\ q[1] = p /\ (Scope[p] = "process" \/ q[2] = r[2])
    BY DEF RunsFirst, Runs
  <2>1. r[2] \in Sessions /\ r \in Present \ disposed
    BY Kinds DEF There, Present
  <2>2. Served(r[2])
    BY <2>0, <2>1 DEF Providers
  <2>3. PICK q \in cached : q \notin disposed /\ Gives(q, p, r[2])
    BY <2>2 DEF Served
  <2> QED BY <2>0, <2>3 DEF Caches, Gives, There, Present
<1> QED BY <1>1, EveryRecordIsOwned, PTL

\* dispose_session() returns only when no run or session record of its
\* session is left: nothing of a closed session is ever there.
THEOREM ClosedLeavesNothing == Spec => []ClosedIsEmpty
<1>1. ASSUME Inv PROVE ClosedIsEmpty
  <2> SUFFICES ASSUME NEW r \in Records, session[r[2]] = "closed", There(r)
               PROVE  Scope[r[1]] = "process"
    BY DEF ClosedIsEmpty
  <2>1. r \in Present
    BY DEF There, Present
  <2>2. ScopeOf(r) # "run" /\ ScopeOf(r) # "session"
    BY <1>1, <2>1 DEF Inv, Members
  <2> QED BY <2>2, Kinds DEF ScopeOf
<1> QED BY <1>1, EveryRecordIsOwned, PTL
=============================================================================
