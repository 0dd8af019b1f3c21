------------------------- MODULE BrowserPoolProofs --------------------------
(***************************************************************************)
(* The limit of the browser pool holds for any callers, any sessions and   *)
(* any MaxClients, whatever is cancelled and whichever transport is lost.  *)
(*                                                                         *)
(* Two locks carry it.  The condition: who opens or closes a client holds  *)
(* it until the client is registered, gone or has left the registry, so    *)
(* that the count that was read when the condition was taken still stands. *)
(* The session lock: no two tasks are at work for one key, so that the key *)
(* for which a client is opened has none.                                  *)
(***************************************************************************)
EXTENDS BrowserPool, FiniteSetTheorems, TLAPS

-----------------------------------------------------------------------------
(* The invariant.                                                          *)

\* The types, in_use being any number.
Kept == [alive : BOOLEAN, calls : BOOLEAN, inUse : Int, closing : BOOLEAN, mode : Modes]

PoolTypes ==
  /\ Registered \subseteq Keys /\ clients \in [Registered -> Kept]
  /\ contexts \in [Keys -> Int]
  /\ opening \in [key : Keys \cup {NoKey}, mode : Modes]
  /\ modes \in [Keys -> Modes]
  /\ session \in [Keys -> Tasks \cup {NoTask}]
  /\ pc \in [Tasks -> Stages] /\ job \in [Tasks -> Jobs \cup {NoJob}]

\* A task that is at work holds the lock of its session.
SessionHeld == \A t \in Tasks : pc[t] # "idle" => Key(t) \in Keys /\ session[Key(t)] = t

\* Where a task holds the condition, and where it closes a client.
Tearing == {"evicting", "restarting", "shutting", "discarding", "cancelled"}
Holding == Tearing \cup {"room", "opening"}

ConditionHeld ==
  /\ \A t \in Tasks : (holder = t <=> pc[t] \in Holding)
  /\ holder \in Tasks \cup {"reaper", "closer", NoTask}

\* One client is closed at a time, by whoever holds the condition.
OneCloses ==
  /\ \A k, l \in Closing : k = l
  /\ holder = NoTask => Closing = {}
  /\ \A t \in Tasks : pc[t] \in {"room", "opening"} => Closing = {}

\* A task in _create finds no client of its own session.
NoneOfItsOwn ==
  \A t \in Tasks :
    /\ pc[t] \in {"room", "waiting", "woken", "opening"} => Key(t) \notin Registered
    /\ pc[t] = "evicting" /\ Key(t) \in Registered => Key(t) \in Closing

\* What is being opened is not registered yet.
OneOpens ==
  /\ \A t \in Tasks : pc[t] = "opening" => opening.key = Key(t)
  /\ opening.key # NoKey => \E t \in Tasks : pc[t] = "opening" /\ Key(t) = opening.key
  /\ opening.key # NoKey => opening.key \notin Registered

\* Each context belongs to a registered client, or to the one being opened.
Owned ==
  \A k \in Keys :
    contexts[k] = IF k \in Registered THEN (IF clients[k].alive THEN 1 ELSE 0)
                                      ELSE (IF opening.key = k THEN 1 ELSE 0)

\* There is room for the registered clients and the one being opened.
Room ==
  /\ Cardinality(Registered) <= MaxClients
  /\ opening.key # NoKey => Cardinality(Registered) < MaxClients

PoolInv ==
  /\ PoolTypes /\ SessionHeld /\ ConditionHeld /\ OneCloses /\ NoneOfItsOwn
  /\ OneOpens /\ Owned /\ Room

-----------------------------------------------------------------------------
(* What a step of one task does to the others.                             *)

\* t goes on at stage; the others stay where they are, or are woken.
Moves(t, stage) ==
  /\ pc' \in [Tasks -> Stages] /\ pc'[t] = stage
  /\ \A u \in Tasks \ {t} : pc'[u] = pc[u] \/ (pc[u] = "waiting" /\ pc'[u] = "woken")

\* t keeps its session lock, or leaves it when it is done.
Keeps(t, stage) ==
  \/ stage # "idle" /\ UNCHANGED <<session, job>>
  \/ /\ stage = "idle"
     /\ session' = [session EXCEPT ![Key(t)] = NoTask]
     /\ job' = [job EXCEPT ![t] = NoJob]

\* A task that is at work keeps the others out of its session.
LEMMA OthersStand ==
  ASSUME PoolTypes, SessionHeld, NEW t \in Tasks, pc[t] # "idle", NEW stage \in Stages,
         Moves(t, stage), Keeps(t, stage)
  PROVE  /\ SessionHeld'
         /\ job' \in [Tasks -> Jobs \cup {NoJob}] /\ session' \in [Keys -> Tasks \cup {NoTask}]
         /\ Key(t) \in Keys
         /\ \A u \in Tasks \ {t} : Key(u)' = Key(u) /\ (pc[u] # "idle" => Key(u) # Key(t))
         /\ stage # "idle" => Key(t)' = Key(t)
<1> USE PoolAssumption DEF PoolTypes, SessionHeld, Moves, Keeps, Key
<1>1. Key(t) \in Keys /\ session[Key(t)] = t
  OBVIOUS
<1>2. \A u \in Tasks \ {t} : pc[u] # "idle" => Key(u) # Key(t)
  OBVIOUS
<1>3. CASE stage # "idle"
  BY <1>1, <1>2, <1>3
<1>4. CASE stage = "idle"
  <2>1. job' \in [Tasks -> Jobs \cup {NoJob}] /\ session' \in [Keys -> Tasks \cup {NoTask}]
    BY <1>4, <1>1
  <2>2. \A u \in Tasks \ {t} : job'[u] = job[u]
    BY <1>4
  <2>3. \A k \in Keys \ {Key(t)} : session'[k] = session[k]
    BY <1>4
  <2>4. SessionHeld'
    BY <1>1, <1>2, <2>2, <2>3, <1>4
  <2> QED BY <1>1, <1>2, <2>1, <2>2, <2>4, <1>4
<1> QED BY <1>3, <1>4

\* The clients are the same but for their use and their calls.
SameClients ==
  /\ Registered' = Registered /\ clients' \in [Registered -> Kept]
  /\ \A k \in Registered : clients'[k].alive = clients[k].alive /\ clients'[k].closing = clients[k].closing

LEMMA BusyKeeps ==
  ASSUME PoolTypes, NEW k, NEW n \in Int, clients' = Busy(k, n)
  PROVE  SameClients
  BY DEF PoolTypes, Busy, SameClients, Registered, Kept

LEMMA TakenKeeps ==
  ASSUME PoolTypes, NEW k \in Registered,
         clients' = [clients EXCEPT ![k].inUse = @ + 1, ![k].calls = TRUE]
  PROVE  SameClients
<1> USE DEF PoolTypes, Kept
<1> DEFINE c == [clients[k] EXCEPT !.inUse = @ + 1, !.calls = TRUE]
<1>1. c \in Kept /\ c.alive = clients[k].alive /\ c.closing = clients[k].closing
  <2> DEFINE d == [clients[k] EXCEPT !.inUse = clients[k].inUse + 1]
  <2>1. clients[k] \in Kept
    OBVIOUS
  <2>2. d \in Kept
    BY <2>1
  <2>3. [d EXCEPT !.calls = TRUE] \in Kept
    BY <2>2
  <2>4. c = [d EXCEPT !.calls = TRUE]
    BY <2>1
  <2>5. c.alive = clients[k].alive /\ c.closing = clients[k].closing
    BY <2>1
  <2> QED BY <2>3, <2>4, <2>5
<1>2. Registered' = Registered /\ \A l \in Registered : clients'[l] = IF l = k THEN c ELSE clients[l]
  <2>1. clients' = [clients EXCEPT ![k] = c]
    OBVIOUS
  <2> QED BY <2>1 DEF Registered
<1>3. clients' \in [Registered -> Kept]
  <2>1. clients' = [l \in Registered |-> clients'[l]]
    OBVIOUS
  <2>2. \A l \in Registered : clients'[l] \in Kept
    BY <1>1, <1>2
  <2> QED BY <2>1, <2>2
<1> QED BY <1>1, <1>2, <1>3 DEF SameClients

\* A step of t that opens and closes nothing, whatever it does to the condition.
LEMMA QuietStep ==
  ASSUME PoolInv, NEW t \in Tasks, NEW stage \in Stages,
         pc[t] \notin {"idle", "opening"}, stage \notin {"evicting", "opening"},
         Moves(t, stage), Keeps(t, stage),
         SameClients, UNCHANGED <<contexts, opening>>, modes' \in [Keys -> Modes],
         holder' = IF stage \in Holding THEN t ELSE IF holder = t THEN NoTask ELSE holder,
         stage \in Holding => holder \in {t, NoTask},
         holder' = NoTask \/ stage = "room" => Closing = {},
         stage \in {"room", "waiting", "woken"} => Key(t) \notin Registered
  PROVE  PoolInv'
<1> USE PoolAssumption DEF PoolInv
<1>1. /\ SessionHeld' /\ Key(t) \in Keys
      /\ job' \in [Tasks -> Jobs \cup {NoJob}] /\ session' \in [Keys -> Tasks \cup {NoTask}]
      /\ \A u \in Tasks \ {t} : Key(u)' = Key(u) /\ (pc[u] # "idle" => Key(u) # Key(t))
      /\ stage # "idle" => Key(t)' = Key(t)
  BY OthersStand
<1>2. Closing' = Closing
  BY DEF SameClients, Closing
<1>3. PoolTypes'
  BY <1>1 DEF PoolTypes, SameClients, Moves
<1>4. ConditionHeld'
  BY DEF ConditionHeld, Moves, Holding, Tearing
<1>5. OneCloses'
  BY <1>2 DEF OneCloses, Moves
<1>6. NoneOfItsOwn'
  BY <1>1, <1>2 DEF NoneOfItsOwn, Moves, SameClients
<1>7. OneOpens'
  BY <1>1 DEF OneOpens, Moves, SameClients
<1>8. Owned' /\ Room'
  BY DEF Owned, Room, SameClients
<1> QED BY <1>1, <1>3, <1>4, <1>5, <1>6, <1>7, <1>8

\* A task begins to close a client: it takes the condition, or has it.
LEMMA ClosesStep ==
  ASSUME PoolInv, NEW t \in Tasks, NEW stage \in Tearing, NEW k \in Registered,
         pc[t] \notin {"idle", "opening"}, holder \in {NoTask, t}, Closing = {},
         Moves(t, stage), UNCHANGED <<session, job, contexts, opening, modes>>,
         CloseBegin(t, k),
         stage = "evicting" /\ Key(t) \in Registered => k = Key(t)
  PROVE  PoolInv'
<1> USE PoolAssumption DEF PoolInv
<1>1. /\ SessionHeld' /\ Key(t) \in Keys
      /\ \A u \in Tasks : Key(u)' = Key(u)
  <2>1. stage \in Stages /\ Keeps(t, stage)
    BY DEF Tearing, Stages, Keeps
  <2> QED BY <2>1, OthersStand DEF Key
<1>2. /\ Registered' = Registered /\ clients' \in [Registered -> Kept]
      /\ \A l \in Registered : clients'[l].alive = clients[l].alive
      /\ Closing' = {k}
  <2>1. clients' = [clients EXCEPT ![k].closing = TRUE] /\ clients \in [Registered -> Kept]
    BY DEF CloseBegin, PoolTypes
  <2>2. Registered' = Registered
    BY <2>1 DEF Registered
  <2>3. clients' \in [Registered -> Kept]
    BY <2>1 DEF Kept
  <2>4. \A l \in Registered : clients'[l].alive = clients[l].alive
    BY <2>1 DEF Kept
  <2>5. \A l \in Registered : clients'[l].closing <=> l = k
    BY <2>1 DEF Closing, Kept
  <2> QED BY <2>2, <2>3, <2>4, <2>5 DEF Closing
<1>3. PoolTypes'
  BY <1>1, <1>2 DEF PoolTypes, Moves
<1>4. ConditionHeld' /\ holder' = t
  BY DEF ConditionHeld, Moves, Holding, Tearing, CloseBegin
<1>5. OneCloses'
  BY <1>2, <1>4 DEF OneCloses, ConditionHeld, Moves, Tearing, Holding
<1>6. NoneOfItsOwn'
  BY <1>1, <1>2 DEF NoneOfItsOwn, Moves, Tearing
<1>7. OneOpens'
  <2>1. \A u \in Tasks : pc'[u] = "opening" <=> pc[u] = "opening"
    BY DEF Moves, Tearing
  <2> QED BY <1>1, <1>2, <2>1 DEF OneOpens
<1>8. Owned' /\ Room'
  BY <1>2 DEF Owned, Room
<1> QED BY <1>1, <1>3, <1>4, <1>5, <1>6, <1>7, <1>8

\* The end of a close takes the client and its context away, and nothing else.
LEMMA Settles ==
  ASSUME PoolInv, NEW k \in Closing, Settle(k), opening' = opening
  PROVE  /\ Registered' = Registered \ {k} /\ clients' \in [Registered' -> Kept]
         /\ Closing' = {} /\ opening.key = NoKey /\ contexts' \in [Keys -> Int]
         /\ Owned' /\ Room'
<1> USE PoolAssumption DEF PoolInv
<1>1. k \in Registered /\ k \in Keys /\ \A l \in Registered \ {k} : ~clients[l].closing
  BY DEF OneCloses, Closing, PoolTypes, Kept
<1>2. /\ clients' = [l \in Registered \ {k} |-> clients[l]]
      /\ Registered' = Registered \ {k}
      /\ \A l \in Registered \ {k} : clients'[l] = clients[l]
  BY DEF Settle, Restrict, Registered
<1>3. clients' \in [Registered' -> Kept] /\ Closing' = {}
  BY <1>1, <1>2 DEF PoolTypes, Closing
<1>4. opening.key = NoKey
  BY <1>1 DEF OneOpens, OneCloses
<1>5. /\ contexts' \in [Keys -> Int]
      /\ \A l \in Keys \ {k} : contexts'[l] = contexts[l]
      /\ contexts'[k] = 0
  <2>1. clients[k].alive \in BOOLEAN /\ contexts[k] = IF clients[k].alive THEN 1 ELSE 0
    BY <1>1 DEF PoolTypes, Kept, Owned
  <2>2. contexts' = [contexts EXCEPT ![k] = IF clients[k].alive THEN contexts[k] - 1 ELSE contexts[k]]
    BY DEF Settle
  <2> QED BY <1>1, <2>1, <2>2 DEF PoolTypes
<1>6. Owned'
  BY <1>1, <1>2, <1>4, <1>5 DEF Owned
<1>7. Room'
  <2>1. IsFiniteSet(Registered)
    BY FS_Subset DEF PoolTypes
  <2>2. Cardinality(Registered \ {k}) = Cardinality(Registered) - 1 /\ Cardinality(Registered) \in Nat
    BY <1>1, <2>1, FS_RemoveElement, FS_CardinalityType
  <2> QED BY <1>2, <1>4, <2>2 DEF Room
<1> QED BY <1>2, <1>3, <1>4, <1>5, <1>6, <1>7

LEMMA CloseEndStep ==
  ASSUME PoolInv, NEW t \in Tasks, CloseEnd(t)
  PROVE  PoolInv'
<1> DEFINE stage == AfterClose(t)
<1> USE PoolAssumption DEF PoolInv
<1>1. PICK k \in Closing : Settle(k)
  BY DEF CloseEnd
<1>2. pc[t] \in Tearing /\ holder = t /\ pc[t] # "idle"
  BY DEF CloseEnd, ConditionHeld, OneCloses, Holding, Tearing
<1>3. stage \in {"room", "lookup", "notifyFailed", "idle"} /\ (stage = "room" <=> pc[t] = "evicting")
  BY <1>2 DEF AfterClose, Tearing
<1>4. Moves(t, stage) /\ Keeps(t, stage)
  BY <1>3 DEF CloseEnd, Wake, Woken, Release, Moves, Keeps, PoolTypes, Stages
<1>5. /\ SessionHeld' /\ Key(t) \in Keys
      /\ job' \in [Tasks -> Jobs \cup {NoJob}] /\ session' \in [Keys -> Tasks \cup {NoTask}]
      /\ \A u \in Tasks \ {t} : Key(u)' = Key(u) /\ (pc[u] # "idle" => Key(u) # Key(t))
      /\ stage # "idle" => Key(t)' = Key(t)
  BY <1>2, <1>3, <1>4, OthersStand DEF Stages
<1>6. /\ Registered' = Registered \ {k} /\ clients' \in [Registered' -> Kept]
      /\ Closing' = {} /\ opening.key = NoKey /\ contexts' \in [Keys -> Int]
      /\ Owned' /\ Room' /\ opening' = opening
  BY <1>1, Settles DEF CloseEnd
<1>7. modes' \in [Keys -> Modes]
  BY <1>5 DEF CloseEnd, PoolTypes, Jobs, NoJob
<1>8. PoolTypes'
  BY <1>4, <1>5, <1>6, <1>7 DEF PoolTypes, Moves
<1>9. holder' = IF stage = "room" THEN t ELSE NoTask
  BY <1>2, <1>3 DEF CloseEnd
<1>10. ConditionHeld'
  BY <1>2, <1>3, <1>4, <1>9 DEF ConditionHeld, Moves, Holding, Tearing
<1>11. OneCloses'
  BY <1>6 DEF OneCloses
<1>12. NoneOfItsOwn'
  <2>1. ASSUME NEW u \in Tasks \ {t}
        PROVE  /\ pc'[u] \in {"room", "waiting", "woken", "opening"} => Key(u)' \notin Registered'
               /\ pc'[u] = "evicting" /\ Key(u)' \in Registered' => Key(u)' \in Closing'
    BY <1>2, <1>4, <1>5, <1>6 DEF NoneOfItsOwn, Moves, ConditionHeld, Holding, Tearing
  <2>2. stage = "room" => Key(t)' \notin Registered'
    BY <1>3, <1>5, <1>6 DEF NoneOfItsOwn, OneCloses
  <2> QED BY <1>3, <1>4, <2>1, <2>2 DEF NoneOfItsOwn, Moves
<1>13. OneOpens'
  BY <1>2, <1>3, <1>4, <1>6 DEF OneOpens, Moves, ConditionHeld, Holding
<1> QED BY <1>5, <1>6, <1>8, <1>10, <1>11, <1>12, <1>13

\* The ways in which a task goes on.
LEMMA Going ==
  ASSUME PoolTypes, NEW t \in Tasks, NEW stage \in Stages, Goto(t, stage)
  PROVE  /\ Moves(t, stage)
         /\ Release(t, stage) => Keeps(t, stage)
         /\ stage # "idle" /\ UNCHANGED <<session, job>> => Keeps(t, stage)
  BY DEF PoolTypes, Goto, Moves, Release, Keeps

LEMMA Failing ==
  ASSUME PoolTypes, NEW t \in Tasks, Fail(t)
  PROVE  FailStage(t) \in {"idle", "shut"} /\ Moves(t, FailStage(t)) /\ Keeps(t, FailStage(t))
<1>1. FailStage(t) \in {"idle", "shut"}
  BY DEF FailStage
<1>2. Goto(t, FailStage(t)) /\ Release(t, FailStage(t))
  BY DEF Fail
<1> QED BY <1>1, <1>2, Going DEF Stages

\* Nobody opens a client but the holder of the condition.
LEMMA NobodyOpens ==
  ASSUME PoolInv, NEW t \in Tasks, holder \in {t, NoTask}, pc[t] # "opening"
  PROVE  opening.key = NoKey
  BY PoolAssumption DEF PoolInv, OneOpens, ConditionHeld, Holding

\* The count of clients was read under the condition, and it is for one's own key.
LEMMA OpenStep ==
  ASSUME PoolInv, NEW t \in Tasks, Open(t)
  PROVE  PoolInv'
<1> USE PoolAssumption DEF PoolInv
<1>1. Goto(t, "opening") /\ UNCHANGED <<clients, modes, session, job>>
  BY DEF Open
<1>2. Moves(t, "opening") /\ Keeps(t, "opening") /\ pc[t] \in {"room", "woken"} /\ holder \in {t, NoTask}
  BY <1>1, Going DEF Open, InRoom, Stages
<1>3. /\ SessionHeld' /\ Key(t) \in Keys
      /\ \A u \in Tasks : Key(u)' = Key(u)
  BY <1>1, <1>2, OthersStand DEF Stages, Key
<1>4. Closing = {} /\ Closing' = {} /\ Registered' = Registered
  BY <1>1, <1>2 DEF Open, InRoom, OneCloses, Closing, Registered
<1>5. Key(t) \notin Registered /\ opening.key = NoKey
  BY <1>2, NobodyOpens DEF NoneOfItsOwn
<1>6. opening' = [key |-> Key(t), mode |-> modes[Key(t)]] /\ contexts' = [contexts EXCEPT ![Key(t)] = @ + 1]
  BY DEF Open
<1>7. PoolTypes'
  BY <1>1, <1>2, <1>3, <1>4, <1>6 DEF PoolTypes, Moves
<1>8. ConditionHeld'
  BY <1>2 DEF Open, ConditionHeld, Moves, Holding, Tearing
<1>9. OneCloses'
  BY <1>4 DEF OneCloses
<1>10. NoneOfItsOwn'
  BY <1>2, <1>3, <1>4, <1>5 DEF NoneOfItsOwn, Moves
<1>11. OneOpens'
  BY <1>2, <1>3, <1>4, <1>5, <1>6 DEF OneOpens, Moves, ConditionHeld, Holding
<1>12. Owned'
  BY <1>1, <1>3, <1>4, <1>5, <1>6 DEF Owned, PoolTypes
<1>13. Room'
  <2>1. Active = Registered
    BY <1>4 DEF Active, Closing
  <2>2. IsFiniteSet(Registered) /\ Cardinality(Registered) \in Nat
    BY FS_Subset, FS_CardinalityType DEF PoolTypes
  <2> QED BY <1>4, <2>1, <2>2 DEF Open, Full, Room
<1> QED BY <1>3, <1>7, <1>8, <1>9, <1>10, <1>11, <1>12, <1>13

LEMMA OpenedStep ==
  ASSUME PoolInv, NEW t \in Tasks, Opened(t)
  PROVE  PoolInv'
<1> DEFINE cs == [k \in Registered \cup {Key(t)} |-> IF k = Key(t) THEN NewClient ELSE clients[k]]
<1> USE PoolAssumption DEF PoolInv
<1>1. pc[t] = "opening" /\ opening.key = Key(t) /\ holder = t /\ Key(t) \in Keys /\ Key(t) \notin Registered
  BY DEF Opened, OneOpens, ConditionHeld, Holding, SessionHeld, NoneOfItsOwn
<1>2. Take(t, cs) /\ UNCHANGED <<contexts, modes, session, job>> /\ holder' = NoTask /\ opening' = NotOpening
  BY DEF Opened
<1>3. Closing = {}
  BY <1>1 DEF OneCloses
<1>4. PICK stage \in {"first", "using", "warming"} : Goto(t, stage)
  BY <1>2 DEF Take
<1>5. Moves(t, stage) /\ Keeps(t, stage)
  BY <1>2, <1>4, Going DEF Stages
<1>6. SessionHeld' /\ \A u \in Tasks : Key(u)' = Key(u)
  BY <1>1, <1>2, <1>4, <1>5, OthersStand DEF Stages, Key
<1>7. \A u \in Tasks \ {t} : pc[u] # "idle" => Key(u) # Key(t)
  BY <1>1 DEF SessionHeld
<1>8. /\ Registered' = Registered \cup {Key(t)} /\ clients' \in [Registered' -> Kept]
      /\ Closing' = {}
      /\ \A k \in Registered : clients'[k].alive = clients[k].alive
      /\ clients'[Key(t)].alive
  <2>1. cs \in [Registered \cup {Key(t)} -> Kept]
    BY <1>1 DEF NewClient, Kept, PoolTypes
  <2>2. \A k \in Registered : cs[k] = clients[k]
    BY <1>1
  <2>3. cs[Key(t)].alive /\ ~cs[Key(t)].closing
    BY DEF NewClient
  <2>4. \A k \in Registered : ~clients[k].closing
    BY <1>3 DEF Closing
  <2>5. clients' = cs \/ clients' = [cs EXCEPT ![Key(t)].inUse = @ + 1, ![Key(t)].calls = TRUE]
    BY <1>2 DEF Take
  <2> HIDE DEF cs
  <2>6. /\ clients' \in [Registered \cup {Key(t)} -> Kept]
        /\ \A k \in Registered \cup {Key(t)} : clients'[k].alive = cs[k].alive /\ clients'[k].closing = cs[k].closing
    BY <2>1, <2>5 DEF Kept
  <2>7. Registered' = Registered \cup {Key(t)}
    BY <2>6 DEF Registered
  <2> QED BY <2>2, <2>3, <2>4, <2>6, <2>7 DEF Closing
<1>9. PoolTypes'
  BY <1>1, <1>2, <1>5, <1>8 DEF PoolTypes, Moves, NotOpening
<1>10. ConditionHeld'
  BY <1>1, <1>2, <1>4, <1>5 DEF ConditionHeld, Moves, Holding, Tearing
<1>11. OneCloses'
  BY <1>8 DEF OneCloses
<1>12. NoneOfItsOwn'
  BY <1>1, <1>4, <1>5, <1>6, <1>7, <1>8 DEF NoneOfItsOwn, Moves, ConditionHeld, Holding, Tearing
<1>13. OneOpens'
  BY <1>1, <1>2, <1>4, <1>5 DEF OneOpens, Moves, ConditionHeld, Holding, NotOpening
<1>14. Owned'
  BY <1>1, <1>2, <1>8 DEF Owned, NotOpening
<1>15. Room'
  <2>1. IsFiniteSet(Registered)
    BY FS_Subset DEF PoolTypes
  <2>2. /\ Cardinality(Registered) \in Nat
        /\ Cardinality(Registered \cup {Key(t)}) = Cardinality(Registered) + 1
    BY <1>1, <2>1, FS_AddElement, FS_CardinalityType
  <2> QED BY <1>1, <1>2, <1>8, <2>2 DEF Room, NotOpening
<1> QED BY <1>6, <1>9, <1>10, <1>11, <1>12, <1>13, <1>14, <1>15

LEMMA NotOpenedStep ==
  ASSUME PoolInv, NEW t \in Tasks, NotOpened(t)
  PROVE  PoolInv'
<1> DEFINE stage == FailStage(t)
<1> USE PoolAssumption DEF PoolInv
<1>1. pc[t] = "opening" /\ opening.key = Key(t) /\ holder = t /\ Key(t) \in Keys /\ Key(t) \notin Registered
  BY DEF NotOpened, OneOpens, ConditionHeld, Holding, SessionHeld, NoneOfItsOwn
<1>2. /\ UNCHANGED <<clients, modes>> /\ holder' = NoTask /\ opening' = NotOpening
      /\ contexts' = [contexts EXCEPT ![Key(t)] = @ - 1]
  BY DEF NotOpened
<1>3. stage \in {"idle", "shut"} /\ Moves(t, stage) /\ Keeps(t, stage)
  BY Failing DEF NotOpened
<1>4. /\ SessionHeld'
      /\ job' \in [Tasks -> Jobs \cup {NoJob}] /\ session' \in [Keys -> Tasks \cup {NoTask}]
      /\ \A u \in Tasks \ {t} : Key(u)' = Key(u)
  BY <1>1, <1>3, OthersStand DEF Stages
<1>5. Closing' = {} /\ Registered' = Registered
  BY <1>1, <1>2 DEF OneCloses, Closing, Registered
<1>6. PoolTypes'
  <2>1. contexts' \in [Keys -> Int]
    BY <1>1, <1>2 DEF PoolTypes
  <2>2. opening' \in [key : Keys \cup {NoKey}, mode : Modes]
    BY <1>2 DEF NotOpening
  <2> QED BY <1>2, <1>3, <1>4, <1>5, <2>1, <2>2 DEF PoolTypes, Moves
<1>7. ConditionHeld'
  BY <1>1, <1>2, <1>3 DEF ConditionHeld, Moves, Holding, Tearing
<1>8. OneCloses'
  BY <1>5 DEF OneCloses
<1>9. NoneOfItsOwn'
  BY <1>1, <1>3, <1>4, <1>5 DEF NoneOfItsOwn, Moves, ConditionHeld, Holding, Tearing
<1>10. OneOpens'
  BY <1>1, <1>2, <1>3 DEF OneOpens, Moves, ConditionHeld, Holding, NotOpening
<1>11. Owned'
  BY <1>1, <1>2, <1>5 DEF Owned, NotOpening, PoolTypes
<1>12. Room'
  BY <1>2, <1>5 DEF Room, NotOpening
<1> QED BY <1>4, <1>6, <1>7, <1>8, <1>9, <1>10, <1>11, <1>12

\* Most steps leave the clients and the condition alone.
LEMMA SimpleStep ==
  ASSUME PoolInv, NEW t \in Tasks, NEW stage \in Stages,
         pc[t] \notin Holding \cup {"idle"}, stage \notin Holding \cup {"waiting", "woken"},
         Moves(t, stage), Keeps(t, stage),
         SameClients, UNCHANGED <<contexts, opening, holder>>, modes' \in [Keys -> Modes]
  PROVE  PoolInv'
<1>1. holder # t
  BY DEF PoolInv, ConditionHeld
<1>2. holder' = NoTask => Closing = {}
  BY DEF PoolInv, OneCloses
<1>3. stage \notin {"evicting", "opening", "room"} /\ pc[t] # "opening"
  BY DEF Holding, Tearing
<1> QED BY <1>1, <1>2, <1>3, QuietStep

LEMMA SameWhenUnchanged == PoolTypes /\ UNCHANGED clients => SameClients
  BY DEF PoolTypes, SameClients, Registered

\* The steps of lease, close and set_browser_mode that leave the condition alone.
LEMMA LeaseSteps ==
  ASSUME PoolInv, NEW t \in Tasks,
         \/ BeginCall(t) \/ BeginClose(t) \/ BeginMode(t) \/ Lookup(t)
         \/ FirstLock(t) \/ Warmed(t) \/ WarmUpCancelled(t) \/ Used(t) \/ Terminated(t)
         \/ DiscardSkipped(t) \/ Notify(t) \/ TimeOut(t) \/ RaiseLimit(t)
         \/ CancelWait(t) \/ CancelOwnClose(t) \/ CancelNotify(t)
  PROVE  PoolInv'
<1>1. PoolTypes /\ SessionHeld /\ UNCHANGED <<contexts, opening, holder>>
  BY DEF PoolInv, BeginCall, BeginClose, BeginMode, Lookup, FirstLock, Warmed, WarmUpCancelled,
         Used, Terminated, DiscardSkipped, Notify, TimeOut, RaiseLimit, CancelWait, CancelOwnClose,
         CancelNotify, pool, locks
<1>2. pc[t] \in Stages /\ pc[t] \notin Holding \cup {"idle"}
  BY <1>1 DEF PoolTypes, Holding, Tearing, BeginCall, BeginClose, BeginMode, Lookup, FirstLock, Warmed,
         WarmUpCancelled, Used, Terminated, DiscardSkipped, Notify, TimeOut, RaiseLimit, CancelWait,
         CancelOwnClose, CancelNotify
<1>3. modes' \in [Keys -> Modes]
  BY <1>1, PoolAssumption DEF PoolTypes, BeginCall, BeginClose, BeginMode, Lookup, FirstLock, Warmed,
         WarmUpCancelled, Used, Terminated, DiscardSkipped, Notify, TimeOut, RaiseLimit, CancelWait,
         CancelOwnClose, CancelNotify
<1>4. SameClients
  <2>1. CASE UNCHANGED clients
    BY <1>1, <2>1, SameWhenUnchanged
  <2>2. CASE WarmUpCancelled(t) \/ Used(t) \/ DiscardSkipped(t)
    BY <1>1, <2>2, BusyKeeps DEF WarmUpCancelled, Used, DiscardSkipped
  <2>3. CASE Lookup(t) \/ FirstLock(t)
    <3>1. \/ UNCHANGED clients
          \/ /\ Key(t) \in Registered
             /\ clients' = [clients EXCEPT ![Key(t)].inUse = @ + 1, ![Key(t)].calls = TRUE]
      BY <2>3 DEF Lookup, FirstLock, Take, Live
    <3> QED BY <1>1, <2>1, <3>1, TakenKeeps
  <2> QED
    BY <2>1, <2>2, <2>3 DEF BeginCall, BeginClose, BeginMode, Warmed, Terminated, Notify, TimeOut,
         RaiseLimit, CancelWait, CancelOwnClose, CancelNotify, pool
<1>5. \E stage \in Stages : /\ stage \notin Holding \cup {"waiting", "woken"}
                            /\ Moves(t, stage) /\ Keeps(t, stage)
  <2> USE <1>1 DEF Holding, Tearing, Stages
  <2>1. ASSUME NEW stage \in Stages \ (Holding \cup {"waiting", "woken"}), Goto(t, stage),
               Release(t, stage) \/ (stage # "idle" /\ UNCHANGED <<session, job>>)
        PROVE  <1>5
    BY <2>1, Going
  <2>2. CASE Fail(t)
    BY <2>2, Failing
  <2>3. CASE Leave(t)
    BY <2>3, <2>1 DEF Leave
  <2>4. CASE BeginCall(t) \/ Warmed(t) \/ Terminated(t)
    BY <2>4, <2>1 DEF BeginCall, Warmed, Terminated, locks
  <2>5. CASE BeginClose(t) \/ BeginMode(t)
    BY <2>5, <2>1, <2>3 DEF BeginClose, BeginMode
  <2>6. CASE Lookup(t) \/ FirstLock(t)
    BY <2>6, <2>1, <2>2 DEF Lookup, FirstLock, Take
  <2>7. CASE Used(t) \/ TimeOut(t)
    BY <2>7, <2>1 DEF Used, TimeOut, locks
  <2>8. CASE DiscardSkipped(t)
    BY <2>8, <2>1, <2>2 DEF DiscardSkipped
  <2>9. CASE Notify(t)
    <3>1. Ended(t) \in {"idle", "shut"}
      BY DEF Ended, FailStage
    <3>2. Moves(t, Ended(t)) /\ Keeps(t, Ended(t))
      BY <2>9, <3>1 DEF Notify, Wake, Woken, Moves, Keeps, Release, PoolTypes
    <3> QED BY <3>1, <3>2
  <2>10. CASE CancelNotify(t)
    <3>1. FailStage(t) \in {"idle", "shut"}
      BY DEF FailStage
    <3> QED BY <2>10, <3>1, <2>1 DEF CancelNotify
  <2>11. CASE WarmUpCancelled(t) \/ RaiseLimit(t) \/ CancelWait(t) \/ CancelOwnClose(t)
    BY <2>11, <2>2, <2>3 DEF WarmUpCancelled, RaiseLimit, CancelWait, CancelOwnClose
  <2> QED BY <2>4, <2>5, <2>6, <2>7, <2>8, <2>9, <2>10, <2>11
<1> QED BY <1>1, <1>2, <1>3, <1>4, <1>5, SimpleStep

\* The other steps of callers: those that take the condition or give it back ...
LEMMA ConditionSteps ==
  ASSUME PoolInv, NEW t \in Tasks,
         EnterCreate(t) \/ CreateRefused(t) \/ Wait(t) \/ CancelClose(t)
  PROVE  PoolInv'
<1> USE DEF Holding, Tearing, Stages
<1>1. PoolTypes /\ modes' \in [Keys -> Modes] /\ UNCHANGED <<contexts, opening>>
  BY DEF PoolInv, PoolTypes, EnterCreate, CreateRefused, Wait, CancelClose, pool
<1>2. CASE EnterCreate(t) /\ Key(t) \in Registered
  <2>1. /\ CloseBegin(t, Key(t)) /\ Goto(t, "evicting") /\ pc[t] = "create"
        /\ holder = NoTask /\ UNCHANGED <<session, job, modes>>
    BY <1>2 DEF EnterCreate
  <2>2. Closing = {}
    BY <2>1 DEF PoolInv, OneCloses
  <2> QED BY <1>1, <1>2, <2>1, <2>2, Going, ClosesStep
<1>3. CASE EnterCreate(t) /\ Key(t) \notin Registered
  <2>1. /\ holder = NoTask /\ holder' = t /\ Goto(t, "room") /\ pc[t] = "create"
        /\ UNCHANGED <<session, job, clients>>
    BY <1>3 DEF EnterCreate
  <2>2. Closing = {} /\ SameClients /\ Moves(t, "room") /\ Keeps(t, "room")
    BY <1>1, <2>1, Going, SameWhenUnchanged DEF PoolInv, OneCloses
  <2> QED BY <1>1, <1>3, <2>1, <2>2, QuietStep
<1>4. CASE CreateRefused(t)
  <2>1. /\ pc[t] \in {"create", "room", "woken"} /\ holder \in {t, NoTask} /\ holder' = NoTask
        /\ UNCHANGED clients /\ Fail(t)
    BY <1>4 DEF CreateRefused, InRoom, pool
  <2>2. Closing = {}
    BY <1>4 DEF CreateRefused, InRoom, PoolInv, OneCloses
  <2>3. SameClients /\ FailStage(t) \in {"idle", "shut"} /\ Moves(t, FailStage(t)) /\ Keeps(t, FailStage(t))
    BY <1>1, <2>1, Failing, SameWhenUnchanged
  <2>4. holder' = IF holder = t THEN NoTask ELSE holder
    BY <2>1
  <2> QED BY <1>1, <2>1, <2>2, <2>3, <2>4, QuietStep
<1>5. CASE Wait(t)
  <2>1. PICK stage \in {"waiting", "limited"} : Goto(t, stage)
    BY <1>5 DEF Wait
  <2>2. /\ pc[t] \in {"room", "woken"} /\ holder \in {t, NoTask} /\ holder' = NoTask
        /\ UNCHANGED <<clients, session, job>>
    BY <1>5 DEF Wait, InRoom, pool
  <2>3. Closing = {} /\ Key(t) \notin Registered
    BY <1>5, <2>2 DEF Wait, InRoom, PoolInv, OneCloses, NoneOfItsOwn
  <2>4. SameClients /\ Moves(t, stage) /\ Keeps(t, stage)
    BY <1>1, <2>1, <2>2, Going, SameWhenUnchanged
  <2>5. holder' = IF holder = t THEN NoTask ELSE holder
    BY <2>2
  <2> QED BY <1>1, <2>1, <2>2, <2>3, <2>4, <2>5, QuietStep
<1>6. CASE CancelClose(t)
  <2>1. /\ Goto(t, "cancelled") /\ pc[t] \in {"evicting", "restarting", "shutting"}
        /\ UNCHANGED <<clients, session, job, holder>>
    BY <1>6 DEF CancelClose, pool, locks
  <2>2. SameClients /\ Moves(t, "cancelled") /\ Keeps(t, "cancelled") /\ holder = t /\ t # NoTask
    BY <1>1, <2>1, Going, SameWhenUnchanged, PoolAssumption DEF PoolInv, ConditionHeld
  <2> QED BY <1>1, <2>1, <2>2, QuietStep
<1> QED BY <1>2, <1>3, <1>4, <1>5, <1>6

\* ... and those that begin to close a client.
LEMMA ClosingSteps ==
  ASSUME PoolInv, NEW t \in Tasks, Evict(t) \/ Discard(t) \/ Restart(t) \/ Shut(t)
  PROVE  PoolInv'
<1> USE DEF Holding, Tearing, Stages
<1>1. PoolTypes /\ UNCHANGED <<contexts, opening>>
  BY DEF PoolInv, Evict, Discard, Restart, Shut
<1>2. CASE Evict(t)
  <2>1. PICK k \in Evictable : CloseBegin(t, k)
    BY <1>2 DEF Evict
  <2>2. /\ Goto(t, "evicting") /\ pc[t] \in {"room", "woken"} /\ holder \in {t, NoTask}
        /\ UNCHANGED <<session, job, modes>>
    BY <1>2 DEF Evict, InRoom
  <2>3. Closing = {} /\ Key(t) \notin Registered
    BY <1>2, <2>2 DEF Evict, InRoom, PoolInv, OneCloses, NoneOfItsOwn
  <2>4. k \in Registered
    BY DEF Evictable, Active
  <2> QED BY <1>1, <2>1, <2>2, <2>3, <2>4, Going, ClosesStep
<1>3. ASSUME NEW stage \in {"discarding", "restarting", "shutting"},
             CloseBegin(t, Key(t)), Goto(t, stage), Key(t) \in Registered,
             pc[t] \in {"discard", "restart", "shut"}, holder = NoTask,
             UNCHANGED <<session, job, modes>>
      PROVE  PoolInv'
  <2>1. Closing = {}
    BY <1>3 DEF PoolInv, OneCloses
  <2> QED BY <1>1, <1>3, <2>1, Going, ClosesStep
<1>4. CASE Discard(t)
  BY <1>3, <1>4 DEF Discard
<1>5. CASE (Restart(t) \/ Shut(t)) /\ Key(t) \in Registered
  BY <1>3, <1>5 DEF Restart, Shut
<1>6. CASE (Restart(t) \/ Shut(t)) /\ Key(t) \notin Registered
  <2>1. UNCHANGED <<clients, holder>> /\ pc[t] \in {"restart", "shut"}
    BY <1>6 DEF Restart, Shut
  <2>2. modes' \in [Keys -> Modes]
    BY <1>1, <1>6, PoolAssumption DEF Restart, Shut, PoolTypes, Jobs, NoJob
  <2>3. PICK stage \in {"lookup", "idle"} : Moves(t, stage) /\ Keeps(t, stage)
    BY <1>1, <1>6, Going DEF Restart, Shut, Leave
  <2> QED BY <1>1, <2>1, <2>2, <2>3, SameWhenUnchanged, SimpleStep
<1> QED BY <1>2, <1>4, <1>5, <1>6

LEMMA StartStep ==
  ASSUME PoolInv, NEW t \in Tasks, Start(t)
  PROVE  PoolInv'
<1> USE PoolAssumption DEF PoolInv
<1>1. PICK j \in Jobs : /\ session[j.key] = NoTask /\ job' = [job EXCEPT ![t] = j]
                        /\ session' = [session EXCEPT ![j.key] = t]
  BY DEF Start
<1>2. /\ pc[t] = "idle" /\ pc' = [pc EXCEPT ![t] = "begin"]
      /\ UNCHANGED <<clients, contexts, opening, modes, holder>>
  BY DEF Start, Goto, pool
<1>3. j.key \in Keys
  BY DEF Jobs
<1>4. /\ Key(t)' = j.key
      /\ \A u \in Tasks \ {t} : Key(u)' = Key(u) /\ pc'[u] = pc[u]
      /\ pc'[t] = "begin"
  BY <1>1, <1>2 DEF PoolTypes, Key
<1>5. Registered' = Registered /\ Closing' = Closing
  BY <1>2 DEF Registered, Closing
<1>6. PoolTypes'
  BY <1>1, <1>2, <1>3, <1>5 DEF PoolTypes, Stages
<1>7. SessionHeld'
  <2>1. ASSUME NEW u \in Tasks \ {t}, pc[u] # "idle" PROVE Key(u) \in Keys /\ session'[Key(u)] = u
    BY <1>1, <1>3, <2>1 DEF SessionHeld, PoolTypes
  <2>2. session'[j.key] = t
    BY <1>1, <1>3 DEF PoolTypes
  <2> QED BY <1>3, <1>4, <2>1, <2>2 DEF SessionHeld
<1>8. ConditionHeld' /\ OneCloses'
  BY <1>2, <1>4, <1>5 DEF ConditionHeld, OneCloses, Holding, Tearing
<1>9. NoneOfItsOwn' /\ OneOpens'
  BY <1>2, <1>4, <1>5 DEF NoneOfItsOwn, OneOpens
<1>10. Owned' /\ Room'
  BY <1>2, <1>5 DEF Owned, Room
<1> QED BY <1>6, <1>7, <1>8, <1>9, <1>10

\* The reaper and close_all() take and hold the condition as callers do.
LEMMA KeeperCloses ==
  ASSUME PoolInv, NEW who \in {"reaper", "closer"}, NEW k \in Registered,
         holder \in {NoTask, who}, Closing = {}, CloseBegin(who, k),
         UNCHANGED <<contexts, opening, modes, session, pc, job>>
  PROVE  PoolInv'
<1> USE PoolAssumption DEF PoolInv
<1>1. clients' = [clients EXCEPT ![k].closing = TRUE] /\ holder' = who
  BY DEF CloseBegin
<1>2. Registered' = Registered /\ clients' \in [Registered -> Kept]
  BY <1>1 DEF PoolTypes, Kept, Registered
<1>3. \A l \in Registered : clients'[l].alive = clients[l].alive /\ (clients'[l].closing <=> l = k)
  <2>1. \A l \in Registered : clients[l] \in Kept /\ ~clients[l].closing
    BY DEF PoolTypes, Closing
  <2> QED BY <1>1, <2>1 DEF PoolTypes, Kept
<1>4. Closing' = {k}
  BY <1>2, <1>3 DEF Closing
<1>5. \A t \in Tasks : Key(t)' = Key(t) /\ pc'[t] = pc[t] /\ pc[t] \notin Holding
  BY DEF Key, ConditionHeld
<1>6. PoolTypes' /\ SessionHeld'
  BY <1>2, <1>5 DEF PoolTypes, SessionHeld
<1>7. ConditionHeld' /\ OneCloses'
  BY <1>1, <1>4, <1>5 DEF ConditionHeld, OneCloses, Holding
<1>8. NoneOfItsOwn' /\ OneOpens'
  BY <1>2, <1>5 DEF NoneOfItsOwn, OneOpens, Holding, Tearing
<1>9. Owned' /\ Room'
  BY <1>2, <1>3 DEF Owned, Room
<1> QED BY <1>6, <1>7, <1>8, <1>9

LEMMA KeeperSettles ==
  ASSUME PoolInv, NEW who \in {"reaper", "closer"}, holder = who, holder' \in {NoTask, who},
         NEW k \in Closing, Settle(k), pc' = Woken(pc),
         UNCHANGED <<opening, modes, session, job>>
  PROVE  PoolInv'
<1> USE PoolAssumption DEF PoolInv
<1>1. /\ Registered' = Registered \ {k} /\ clients' \in [Registered' -> Kept]
      /\ Closing' = {} /\ opening.key = NoKey /\ contexts' \in [Keys -> Int]
      /\ Owned' /\ Room'
  BY Settles
<1>2. /\ \A t \in Tasks : Key(t)' = Key(t) /\ pc[t] \notin Holding
      /\ \A t \in Tasks : pc'[t] = pc[t] \/ (pc[t] = "waiting" /\ pc'[t] = "woken")
      /\ pc' \in [Tasks -> Stages]
  BY DEF Key, ConditionHeld, Woken, PoolTypes, Stages
<1>3. PoolTypes' /\ SessionHeld'
  BY <1>1, <1>2 DEF PoolTypes, SessionHeld
<1>4. ConditionHeld' /\ OneCloses'
  BY <1>1, <1>2 DEF ConditionHeld, OneCloses, Holding, Tearing
<1>5. NoneOfItsOwn' /\ OneOpens'
  BY <1>1, <1>2 DEF NoneOfItsOwn, OneOpens, Holding, Tearing
<1> QED BY <1>1, <1>3, <1>4, <1>5

LEMMA UpkeepStep == ASSUME PoolInv, Upkeep PROVE PoolInv'
<1>1. ASSUME NEW k \in Keys, ReapBegin(k) PROVE PoolInv'
  <2>1. k \in Registered /\ Closing = {}
    BY <1>1 DEF ReapBegin, Evictable, Active, PoolInv, OneCloses
  <2> QED BY <1>1, <2>1, KeeperCloses DEF ReapBegin
<1>2. ASSUME NEW k \in Keys, SweepBegin(k) PROVE PoolInv'
  <2>1. Closing = {}
    BY <1>2 DEF SweepBegin, PoolInv, OneCloses
  <2> QED BY <1>2, <2>1, KeeperCloses DEF SweepBegin
<1>3. CASE ReapEnd
  BY <1>3, KeeperSettles DEF ReapEnd
<1>4. CASE SweepEnd
  BY <1>4, KeeperSettles DEF SweepEnd, locks
<1>5. ASSUME NEW k \in Keys, RunnerEnds(k) PROVE PoolInv'
  <2> USE PoolAssumption DEF PoolInv
  <2>1. /\ k \in Registered /\ clients[k].alive /\ clients' = [clients EXCEPT ![k].alive = FALSE]
        /\ contexts' = [contexts EXCEPT ![k] = @ - 1]
        /\ UNCHANGED <<opening, modes, holder, session, pc, job>>
    BY <1>5 DEF RunnerEnds, locks
  <2>2. Registered' = Registered /\ clients' \in [Registered -> Kept]
    <3>1. clients[k] \in Kept
      BY <2>1 DEF PoolTypes
    <3>2. [clients[k] EXCEPT !.alive = FALSE] \in Kept
      BY <3>1 DEF Kept
    <3> QED BY <2>1, <3>2 DEF PoolTypes, Registered
  <2>3. \A l \in Registered : /\ clients'[l].closing = clients[l].closing
                              /\ clients'[l].alive = IF l = k THEN FALSE ELSE clients[l].alive
    BY <2>1 DEF PoolTypes, Kept
  <2>4. Closing' = Closing
    BY <2>2, <2>3 DEF Closing
  <2>5. PoolTypes' /\ SessionHeld'
    BY <2>1, <2>2 DEF PoolTypes, SessionHeld, Key
  <2>6. ConditionHeld' /\ OneCloses' /\ NoneOfItsOwn' /\ OneOpens' /\ Room'
    BY <2>1, <2>2, <2>4 DEF ConditionHeld, OneCloses, NoneOfItsOwn, OneOpens, Room, Key
  <2>7. Owned'
    BY <2>1, <2>2, <2>3 DEF Owned, PoolTypes
  <2> QED BY <2>5, <2>6, <2>7
<1>6. CASE AllClosed
  <2> USE PoolAssumption DEF PoolInv
  <2>1. /\ UNCHANGED <<clients, contexts, opening, session, pc, job>> /\ holder' = NoTask
        /\ holder \in {NoTask, "closer"} /\ Registered = {} /\ modes' \in [Keys -> Modes]
    BY <1>6 DEF AllClosed, pool
  <2>2. Registered' = Registered /\ Closing' = {}
    BY <2>1 DEF Registered, Closing
  <2>3. \A t \in Tasks : Key(t)' = Key(t) /\ pc[t] \notin Holding
    BY <2>1 DEF Key, ConditionHeld
  <2>4. PoolTypes' /\ SessionHeld' /\ ConditionHeld'
    BY <2>1, <2>2, <2>3 DEF PoolTypes, SessionHeld, ConditionHeld
  <2>5. OneCloses' /\ NoneOfItsOwn' /\ OneOpens' /\ Owned' /\ Room'
    BY <2>1, <2>2, <2>3 DEF OneCloses, NoneOfItsOwn, OneOpens, Owned, Room, Holding, Tearing
  <2> QED BY <2>4, <2>5
<1>7. CASE ReaperStops \/ CloseAll
  BY <1>7 DEF ReaperStops, CloseAll, pool, locks, PoolInv, PoolTypes, SessionHeld, ConditionHeld,
       OneCloses, NoneOfItsOwn, OneOpens, Owned, Room, Registered, Closing, Key
<1> QED BY <1>1, <1>2, <1>3, <1>4, <1>5, <1>6, <1>7 DEF Upkeep

LEMMA PoolStep == PoolInv /\ [Next]_vars => PoolInv'
<1> SUFFICES ASSUME PoolInv, [Next]_vars PROVE PoolInv'
  OBVIOUS
<1>1. CASE UNCHANGED vars
  BY <1>1 DEF vars, pool, locks, PoolInv, PoolTypes, SessionHeld, ConditionHeld, OneCloses,
       NoneOfItsOwn, OneOpens, Owned, Room, Registered, Closing, Key
<1>2. CASE Upkeep
  BY <1>2, UpkeepStep
<1>3. ASSUME NEW t \in Tasks, Creating(t) PROVE PoolInv'
  BY <1>3, ConditionSteps, ClosingSteps, LeaseSteps, OpenStep, OpenedStep, NotOpenedStep DEF Creating
<1>4. ASSUME NEW t \in Tasks, Calling(t) PROVE PoolInv'
  BY <1>4, StartStep, LeaseSteps DEF Calling
<1>5. ASSUME NEW t \in Tasks, Ending(t) PROVE PoolInv'
  BY <1>5, LeaseSteps, ClosingSteps DEF Ending
<1>6. ASSUME NEW t \in Tasks, ClosingOwn(t) PROVE PoolInv'
  BY <1>6, LeaseSteps, ClosingSteps, CloseEndStep DEF ClosingOwn
<1>7. ASSUME NEW t \in Tasks, Cancelling(t) PROVE PoolInv'
  BY <1>7, LeaseSteps, ConditionSteps DEF Cancelling
<1> QED BY <1>1, <1>2, <1>3, <1>4, <1>5, <1>6, <1>7 DEF Next

LEMMA PoolInit == Init => PoolInv
<1> SUFFICES ASSUME Init PROVE PoolInv
  OBVIOUS
<1> USE PoolAssumption DEF Init
<1>1. Registered = {} /\ Closing = {}
  BY DEF Registered, Closing
<1>2. clients \in [Registered -> Kept]
  BY <1>1 DEF Registered
<1>3. PoolTypes
  BY <1>1, <1>2 DEF PoolTypes, NotOpening, Stages
<1>4. Cardinality(Registered) = 0
  BY <1>1, FS_EmptySet
<1> QED
  BY <1>1, <1>3, <1>4 DEF PoolInv, SessionHeld, ConditionHeld, OneCloses, NoneOfItsOwn, OneOpens,
       Owned, Room, NotOpening, Holding, Tearing

\* Whoever opens or closes a client holds the condition for as long as it takes,
\* and every context is accounted for (_create, _close_client).
THEOREM ConditionGuards == Spec => []PoolInv
  BY PoolInit, PoolStep, PTL DEF Spec

-----------------------------------------------------------------------------
\* For any sessions and any limit: no more contexts than max_clients, none that
\* belongs to no client, whatever is cancelled or fails while it is opened.
THEOREM LimitHolds == Spec => []WithinLimit
<1>1. PoolInv => WithinLimit
  <2> SUFFICES ASSUME PoolInv PROVE WithinLimit
    OBVIOUS
  <2> USE PoolAssumption DEF PoolInv
  <2> DEFINE inUse == { k \in Keys : contexts[k] > 0 }
  <2>1. IsFiniteSet(Registered) /\ Cardinality(Registered) \in Nat
    BY FS_Subset, FS_CardinalityType DEF PoolTypes
  <2>2. \A k \in Keys :
          contexts[k] = IF k \in Registered THEN (IF clients[k].alive THEN 1 ELSE 0)
                                            ELSE (IF opening.key = k THEN 1 ELSE 0)
    BY DEF Owned
  <2>3. Cardinality(inUse) <= MaxClients
    <3>1. CASE opening.key = NoKey
      <4>1. inUse \subseteq Registered
        BY <2>2, <3>1
      <4>2. IsFiniteSet(inUse) /\ Cardinality(inUse) \in Nat /\ Cardinality(inUse) <= Cardinality(Registered)
        BY <2>1, <4>1, FS_Subset, FS_CardinalityType
      <4> QED BY <2>1, <4>2 DEF Room
    <3>2. CASE opening.key # NoKey
      <4>1. inUse \subseteq Registered \cup {opening.key}
        BY <2>2, <3>2
      <4>2. /\ IsFiniteSet(Registered \cup {opening.key})
            /\ Cardinality(Registered \cup {opening.key}) = Cardinality(Registered) + 1
        BY <2>1, <3>2, FS_AddElement DEF OneOpens
      <4>3. Cardinality(inUse) \in Nat /\ Cardinality(inUse) <= Cardinality(Registered) + 1
        BY <4>1, <4>2, FS_Subset, FS_CardinalityType
      <4> QED BY <2>1, <3>2, <4>3 DEF Room
    <3> QED BY <3>1, <3>2
  <2> QED BY <2>2, <2>3 DEF WithinLimit
<1> QED BY <1>1, ConditionGuards, PTL

\* A pool that is closed for good has nothing, and nothing comes back, for any
\* number of calls that were under way (close_all(final=True), _create).
THEOREM ClosedForGood == Spec => []Settled
<1> DEFINE Emptied == /\ closer # "off" => closed
                      /\ closer = "done" => Registered = {} /\ opening.key = NoKey
<1>1. Init => Emptied
  BY DEF Init
<1>2. PoolInv /\ Emptied /\ [Next]_vars => Emptied'
  <2> SUFFICES ASSUME PoolInv, Emptied, [Next]_vars PROVE Emptied'
    OBVIOUS
  <2>1. CASE AllClosed
    <3>1. opening.key = NoKey
      BY <2>1, PoolAssumption DEF AllClosed, PoolInv, OneOpens, ConditionHeld, Holding
    <3> QED BY <2>1, <3>1 DEF AllClosed, pool, Registered
  <2>2. CASE CloseAll
    BY <2>2 DEF CloseAll, pool, Registered
  <2>3. ASSUME UNCHANGED <<closed, closer>>,
               closed => Registered' \subseteq Registered /\ (opening' = opening \/ opening' = NotOpening)
        PROVE  Emptied'
    BY <2>3 DEF NotOpening
  <2>4. CASE UNCHANGED vars
    BY <2>3, <2>4 DEF vars, pool, Registered
  <2>5. CASE Upkeep /\ ~AllClosed /\ ~CloseAll
    <3>1. UNCHANGED <<closed, closer, opening>>
      BY <2>5 DEF Upkeep, ReapEnd, ReaperStops, SweepEnd, ReapBegin, SweepBegin, RunnerEnds, pool, locks
    <3>2. \/ UNCHANGED clients
          \/ \E k \in Closing : Settle(k)
          \/ \E k \in Registered : clients' = [clients EXCEPT ![k].closing = TRUE]
          \/ \E k \in Registered : clients' = [clients EXCEPT ![k].alive = FALSE]
      BY <2>5 DEF Upkeep, ReapEnd, ReaperStops, SweepEnd, ReapBegin, SweepBegin, RunnerEnds, pool,
                  CloseBegin, Evictable, Active
    <3>3. Registered' \subseteq Registered
      BY <3>2 DEF Settle, Restrict, Registered
    <3> QED BY <2>3, <3>1, <3>3
  <2>6. ASSUME NEW t \in Tasks, Creating(t) PROVE Emptied'
    <3>1. CASE Opened(t) \/ Open(t) \/ NotOpened(t)
      BY <2>3, <3>1 DEF Opened, Open, NotOpened, Registered
    <3>2. CASE EnterCreate(t) \/ Evict(t)
      BY <2>3, <3>2 DEF EnterCreate, Evict, CloseBegin, Registered
    <3>3. CASE CreateRefused(t) \/ Wait(t) \/ TimeOut(t) \/ RaiseLimit(t)
      BY <2>3, <3>3 DEF CreateRefused, Wait, TimeOut, RaiseLimit, pool, Registered
    <3> QED BY <2>6, <3>1, <3>2, <3>3 DEF Creating
  <2>7. ASSUME NEW t \in Tasks, Calling(t) \/ Ending(t) PROVE Emptied'
    <3>1. CASE Start(t) \/ Terminated(t) \/ BeginCall(t) \/ Warmed(t) \/ Notify(t)
      BY <2>3, <3>1 DEF Start, Terminated, BeginCall, Warmed, Notify, pool, Registered
    <3>2. CASE Used(t) \/ WarmUpCancelled(t) \/ DiscardSkipped(t)
      BY <2>3, <3>2 DEF Used, WarmUpCancelled, DiscardSkipped, Busy, Registered
    <3>3. CASE Lookup(t)
      BY <2>3, <3>3 DEF Lookup, Registered
    <3>4. CASE FirstLock(t) \/ Discard(t)
      BY <2>3, <3>4 DEF FirstLock, Discard, CloseBegin, Registered
    <3> QED BY <2>7, <3>1, <3>2, <3>3, <3>4 DEF Calling, Ending
  <2>8. ASSUME NEW t \in Tasks, ClosingOwn(t) \/ Cancelling(t) PROVE Emptied'
    <3>1. CASE CloseEnd(t)
      BY <2>3, <3>1 DEF CloseEnd, Settle, Restrict, Registered
    <3>2. CASE BeginClose(t) \/ BeginMode(t) \/ Restart(t) \/ Shut(t)
      BY <2>3, <3>2 DEF BeginClose, BeginMode, Restart, Shut, CloseBegin, pool, Registered
    <3>3. CASE Cancelling(t)
      BY <2>3, <3>3 DEF Cancelling, CancelClose, CancelWait, CancelOwnClose, CancelNotify, pool, Registered
    <3> QED BY <2>8, <3>1, <3>2, <3>3 DEF ClosingOwn
  <2> QED BY <2>1, <2>2, <2>4, <2>5, <2>6, <2>7, <2>8 DEF Next
<1>3. PoolInv /\ Emptied => Settled
  BY PoolAssumption DEF PoolInv, Owned, Settled
<1> QED BY <1>1, <1>2, <1>3, ConditionGuards, PTL DEF Spec

-----------------------------------------------------------------------------
(* The use of a client.                                                    *)

Using == {"warming", "using", "discard", "discarding"}

\* A client counts the task that uses it, and a task that retires its client
\* has it closed.
Counted ==
  /\ \A k \in Registered : clients[k].inUse = IF Users(k) = {} THEN 0 ELSE 1
  /\ \A t \in Tasks : pc[t] = "discarding" /\ Key(t) \in Registered => Key(t) \in Closing

\* Only the task that holds a session uses its client.
LEMMA OneUser ==
  ASSUME PoolInv, NEW t \in Tasks, pc[t] # "idle"
  PROVE  Key(t) \in Keys /\ (Users(Key(t)) = {} <=> pc[t] \notin Using)
  BY PoolAssumption DEF PoolInv, SessionHeld, Users, Using

\* A step of t changes the use of the client of its own session only.
LEMMA UseMoves ==
  ASSUME PoolInv, Counted, NEW t \in Tasks, NEW stage \in Stages, pc[t] # "idle",
         Moves(t, stage), Keeps(t, stage),
         \A k \in Registered' \ {Key(t)} :
           k \in Registered /\ clients'[k].inUse = clients[k].inUse /\ (k \in Closing => k \in Closing'),
         Key(t) \in Registered' => clients'[Key(t)].inUse = IF stage \in Using THEN 1 ELSE 0,
         stage = "discarding" /\ Key(t) \in Registered' => Key(t) \in Closing',
         PoolInv'
  PROVE  Counted'
<1>1. /\ \A u \in Tasks \ {t} : Key(u)' = Key(u) /\ (pc[u] # "idle" => Key(u) # Key(t))
      /\ stage # "idle" => Key(t)' = Key(t)
      /\ Key(t) \in Keys
  BY OthersStand DEF PoolInv
<1>2. \A u \in Tasks \ {t} : /\ pc'[u] \in Using <=> pc[u] \in Using
                             /\ pc'[u] = "discarding" <=> pc[u] = "discarding"
                             /\ pc'[u] # "idle" <=> pc[u] # "idle"
  BY DEF Moves, Using
<1>3. \A k \in Keys \ {Key(t)} : Users(k)' = Users(k)
  <2>1. \A k : Users(k) = { u \in Tasks : Key(u) = k /\ pc[u] \in Using }
    BY DEF Users, Using
  <2>2. \A k : Users(k)' = { u \in Tasks : Key(u)' = k /\ pc'[u] \in Using }
    BY DEF Users, Using
  <2>3. pc'[t] \in Using => Key(t)' = Key(t)
    BY <1>1 DEF Moves, Using
  <2> QED BY <1>1, <1>2, <2>1, <2>2, <2>3
<1>4. \A k \in {Key(t)} : Users(k)' = {} <=> stage \notin Using
  <2>1. \A k : Users(k)' = { u \in Tasks : Key(u)' = k /\ pc'[u] \in Using }
    BY DEF Users, Using
  <2>2. stage \in Using => stage # "idle"
    BY DEF Using
  <2>3. pc'[t] = stage /\ \A u \in Tasks \ {t} : pc'[u] \in Using => pc[u] # "idle"
    BY <1>2 DEF Moves, Using
  <2> QED BY <1>1, <1>2, <2>1, <2>2, <2>3
<1>5. \A k \in Registered' : clients'[k].inUse = IF Users(k)' = {} THEN 0 ELSE 1
  <2>1. Registered' \subseteq Keys
    BY DEF PoolInv, PoolTypes
  <2> QED BY <1>3, <1>4, <2>1 DEF Counted
<1>6. \A u \in Tasks : pc'[u] = "discarding" /\ Key(u)' \in Registered' => Key(u)' \in Closing'
  <2>1. ASSUME NEW u \in Tasks \ {t}, pc'[u] = "discarding", Key(u)' \in Registered'
        PROVE  Key(u)' \in Closing'
    BY <1>1, <1>2, <2>1 DEF Counted
  <2>2. pc'[t] = "discarding" => stage = "discarding"
    BY DEF Moves
  <2> QED BY <1>1, <2>1, <2>2
<1> QED BY <1>5, <1>6 DEF Counted

\* The steps of a caller that change the use of no client, and start or end no close.
LEMMA UseStands ==
  ASSUME PoolInv, PoolInv', Counted, NEW t \in Tasks, NEW stage \in Stages, pc[t] # "idle",
         UNCHANGED clients, Moves(t, stage), Keeps(t, stage),
         stage # "discarding", stage \in Using <=> pc[t] \in Using
  PROVE  Counted'
<1>1. Registered' = Registered /\ Closing' = Closing
  BY DEF Registered, Closing
<1>2. Key(t) \in Registered => clients'[Key(t)].inUse = IF stage \in Using THEN 1 ELSE 0
  BY OneUser DEF Counted
<1> QED BY <1>1, <1>2, UseMoves

\* A caller lets go of its client.
LEMMA UseEnds ==
  ASSUME PoolInv, PoolInv', Counted, NEW t \in Tasks, NEW stage \in Stages \ Using,
         pc[t] \in Using \ {"discarding"},
         clients' = Busy(Key(t), -1), Moves(t, stage), Keeps(t, stage)
  PROVE  Counted'
<1>1. pc[t] # "idle" /\ (Key(t) \in Registered => clients[Key(t)].inUse = 1)
  BY OneUser DEF Using, Counted
<1>2. SameClients
  BY BusyKeeps DEF PoolInv
<1>3. Registered' = Registered /\ Closing' = Closing
  BY <1>2 DEF SameClients, Closing
<1>4. /\ \A k \in Registered \ {Key(t)} : clients'[k].inUse = clients[k].inUse
      /\ Key(t) \in Registered => clients'[Key(t)].inUse = 0
  BY <1>1 DEF Busy, PoolInv, PoolTypes, Kept
<1>5. stage # "discarding"
  BY DEF Using
<1> QED BY <1>1, <1>3, <1>4, <1>5, UseMoves

\* A caller takes its client, or leaves it for now.
LEMMA UseBegins ==
  ASSUME PoolInv, PoolInv', Counted, NEW t \in Tasks, Lookup(t) \/ FirstLock(t)
  PROVE  Counted'
<1>1. pc[t] \in {"lookup", "first"} /\ pc[t] # "idle" /\ pc[t] \notin Using
  BY DEF Lookup, FirstLock, Using
<1>2. Key(t) \in Registered => clients[Key(t)].inUse = 0
  BY <1>1, OneUser DEF Counted
<1>3. CASE Lookup(t) /\ closed
  <2>1. Fail(t) /\ UNCHANGED clients
    BY <1>3 DEF Lookup
  <2>2. FailStage(t) \in {"idle", "shut"} /\ Moves(t, FailStage(t)) /\ Keeps(t, FailStage(t))
    BY <2>1, Failing DEF PoolInv
  <2> QED BY <1>1, <2>1, <2>2, UseStands DEF Stages, Using
<1>4. CASE ~(Lookup(t) /\ closed)
  <2>1. UNCHANGED <<session, job>>
    BY <1>4 DEF Lookup, FirstLock
  <2>2. \/ UNCHANGED clients /\ \E stage \in {"create", "first"} : Goto(t, stage)
        \/ /\ Key(t) \in Registered
           /\ clients' = [clients EXCEPT ![Key(t)].inUse = @ + 1, ![Key(t)].calls = TRUE]
           /\ \E stage \in {"using", "warming"} : Goto(t, stage)
    BY <1>4 DEF Lookup, FirstLock, Take, Live
  <2>3. ASSUME NEW stage \in {"create", "first"}, Goto(t, stage), UNCHANGED clients PROVE Counted'
    <3>1. Moves(t, stage) /\ Keeps(t, stage) /\ stage \notin Using
      BY <2>1, <2>3, Going DEF Stages, PoolInv, Using
    <3> QED BY <1>1, <2>3, <3>1, UseStands DEF Stages, Using
  <2>4. ASSUME NEW stage \in {"using", "warming"}, Goto(t, stage), Key(t) \in Registered,
               clients' = [clients EXCEPT ![Key(t)].inUse = @ + 1, ![Key(t)].calls = TRUE]
        PROVE  Counted'
    <3>1. Moves(t, stage) /\ Keeps(t, stage) /\ stage \in Using /\ stage # "discarding"
      BY <2>1, <2>4, Going DEF Stages, PoolInv, Using
    <3>2. SameClients
      BY <2>4, TakenKeeps DEF PoolInv
    <3>3. Registered' = Registered /\ Closing' = Closing
      BY <3>2 DEF SameClients, Closing
    <3>4. /\ \A k \in Registered \ {Key(t)} : clients'[k] = clients[k]
          /\ clients'[Key(t)].inUse = 1
      <4>1. clients[Key(t)] \in Kept /\ clients \in [Registered -> Kept]
        BY <2>4 DEF PoolInv, PoolTypes
      <4> QED BY <1>2, <2>4, <4>1 DEF Kept
    <3> QED BY <1>1, <3>1, <3>3, <3>4, UseMoves DEF Stages
  <2> QED BY <2>2, <2>3, <2>4
<1> QED BY <1>3, <1>4

\* The client that a caller has opened is in use, or not yet.
LEMMA UseOfOpened ==
  ASSUME PoolInv, PoolInv', Counted, NEW t \in Tasks, Opened(t)
  PROVE  Counted'
<1> DEFINE cs == [k \in Registered \cup {Key(t)} |-> IF k = Key(t) THEN NewClient ELSE clients[k]]
<1>1. pc[t] = "opening" /\ pc[t] # "idle" /\ Key(t) \notin Registered /\ Closing = {} /\ UNCHANGED <<session, job>>
  BY DEF Opened, PoolInv, NoneOfItsOwn, OneCloses
<1>2. Take(t, cs)
  BY DEF Opened
<1>3. /\ cs[Key(t)].inUse = 0 /\ cs[Key(t)] \in [alive : {TRUE}, calls : {FALSE}, inUse : {0}, closing : {FALSE}, mode : Modes]
      /\ \A k \in Registered : cs[k] = clients[k]
      /\ DOMAIN cs = Registered \cup {Key(t)}
  <2>1. opening.mode \in Modes
    BY DEF PoolInv, PoolTypes
  <2> QED BY <1>1, <2>1 DEF NewClient
<1> HIDE DEF cs
<1>4. PICK stage \in {"first", "warming"} :
        /\ Goto(t, stage)
        /\ clients' = IF stage = "first" THEN cs
                      ELSE [cs EXCEPT ![Key(t)].inUse = @ + 1, ![Key(t)].calls = TRUE]
  BY <1>2, <1>3 DEF Take
<1>5. Moves(t, stage) /\ Keeps(t, stage) /\ stage \in Stages
  BY <1>1, <1>4, Going DEF Stages, PoolInv
<1>6. /\ Registered' = Registered \cup {Key(t)}
      /\ \A k \in Registered : clients'[k] = clients[k]
      /\ clients'[Key(t)].inUse = IF stage \in Using THEN 1 ELSE 0
  BY <1>1, <1>3, <1>4 DEF Using, Registered
<1> QED BY <1>1, <1>5, <1>6, UseMoves

\* A caller begins to close a client: to make room, or its own.
LEMMA UseInCloses ==
  ASSUME PoolInv, PoolInv', Counted, NEW t \in Tasks, NEW stage \in Tearing, NEW k \in Registered,
         pc[t] # "idle", CloseBegin(t, k), Goto(t, stage), UNCHANGED <<session, job>>,
         stage \in Using <=> pc[t] \in Using, stage = "discarding" => k = Key(t)
  PROVE  Counted'
<1>1. Moves(t, stage) /\ Keeps(t, stage) /\ stage \in Stages
  BY Going DEF Tearing, Stages, PoolInv
<1>2. clients' = [clients EXCEPT ![k].closing = TRUE] /\ clients \in [Registered -> Kept]
  BY DEF CloseBegin, PoolInv, PoolTypes
<1>3. /\ Registered' = Registered
      /\ \A l \in Registered : clients'[l].inUse = clients[l].inUse
      /\ \A l \in Registered : clients'[l].closing = (IF l = k THEN TRUE ELSE clients[l].closing)
  BY <1>2 DEF Registered, Kept
<1>4. Key(t) \in Registered => clients'[Key(t)].inUse = IF stage \in Using THEN 1 ELSE 0
  BY <1>3, OneUser DEF Counted
<1>5. /\ k \in Closing' /\ \A l \in Closing : l \in Closing'
  BY <1>3 DEF Closing
<1> QED BY <1>1, <1>3, <1>4, <1>5, UseMoves

LEMMA UseInCloseEnd ==
  ASSUME PoolInv, PoolInv', Counted, NEW t \in Tasks, CloseEnd(t)
  PROVE  Counted'
<1> DEFINE stage == AfterClose(t)
<1>1. PICK k \in Closing : Settle(k)
  BY DEF CloseEnd
<1>2. pc[t] \in Tearing /\ pc[t] # "idle"
  BY DEF CloseEnd, PoolInv, ConditionHeld, OneCloses, Holding, Tearing
<1>3. stage \in {"room", "lookup", "notifyFailed", "idle"} /\ stage \notin Using /\ stage \in Stages
  BY <1>2 DEF AfterClose, Tearing, Using, Stages
<1>4. Moves(t, stage) /\ Keeps(t, stage)
  BY <1>3 DEF CloseEnd, Wake, Woken, Release, Moves, Keeps, PoolInv, PoolTypes, Stages
<1>5. /\ Registered' = Registered \ {k} /\ k \in Registered /\ \A l \in Closing : l = k
      /\ \A l \in Registered \ {k} : clients'[l] = clients[l]
  BY <1>1 DEF Settle, Restrict, Registered, Closing, PoolInv, OneCloses
<1>6. Key(t) \in Registered' => clients'[Key(t)].inUse = 0
  <2>1. pc[t] = "discarding" => Key(t) \notin Registered'
    BY <1>5 DEF Counted
  <2>2. pc[t] # "discarding" => pc[t] \notin Using
    BY <1>2 DEF Tearing, Using
  <2> QED BY <1>2, <1>5, <2>1, <2>2, OneUser DEF Counted
<1>7. \A l \in Registered' \ {Key(t)} :
        l \in Registered /\ clients'[l].inUse = clients[l].inUse /\ (l \in Closing => l \in Closing')
  BY <1>5
<1>8. stage # "discarding"
  BY <1>3
<1> HIDE DEF stage
<1> QED BY <1>2, <1>3, <1>4, <1>6, <1>7, <1>8, UseMoves

\* The steps of the callers that are left.
LEMMA UseInCalls ==
  ASSUME PoolInv, PoolInv', Counted, NEW t \in Tasks,
         Creating(t) \/ Ending(t) \/ ClosingOwn(t) \/ Cancelling(t) \/ WarmUpCancelled(t) \/ Terminated(t)
  PROVE  Counted'
<1> USE DEF Stages, Using
<1>1. ASSUME NEW stage \in Stages \ {"discarding"}, pc[t] # "idle", UNCHANGED clients, Goto(t, stage),
             Release(t, stage) \/ (stage # "idle" /\ UNCHANGED <<session, job>>),
             stage \in Using <=> pc[t] \in Using
      PROVE  Counted'
  BY <1>1, Going, UseStands DEF PoolInv
<1>2. ASSUME Fail(t), UNCHANGED clients, pc[t] \notin Using \cup {"idle"} PROVE Counted'
  <2>1. FailStage(t) \in {"idle", "shut"} /\ Moves(t, FailStage(t)) /\ Keeps(t, FailStage(t))
    BY <1>2, Failing DEF PoolInv
  <2> QED BY <1>2, <2>1, UseStands
<1>3. ASSUME Leave(t), UNCHANGED clients, pc[t] \notin Using \cup {"idle"} PROVE Counted'
  BY <1>1, <1>3 DEF Leave
<1>4. CASE Lookup(t) \/ FirstLock(t) \/ Opened(t) \/ CloseEnd(t)
  BY <1>4, UseBegins, UseOfOpened, UseInCloseEnd
<1>5. CASE EnterCreate(t)
  <2>1. CASE Key(t) \in Registered
    BY <1>5, <2>1, UseInCloses DEF EnterCreate, Tearing
  <2>2. CASE Key(t) \notin Registered
    BY <1>1, <1>5, <2>2 DEF EnterCreate
  <2> QED BY <2>1, <2>2
<1>6. CASE Evict(t)
  <2>1. PICK k \in Registered : CloseBegin(t, k)
    BY <1>6 DEF Evict, Evictable, Active
  <2> QED BY <1>6, <2>1, UseInCloses DEF Evict, InRoom, Tearing
<1>7. CASE CreateRefused(t) \/ RaiseLimit(t) \/ NotOpened(t) \/ CancelWait(t)
  BY <1>2, <1>7 DEF CreateRefused, InRoom, RaiseLimit, NotOpened, CancelWait, pool
<1>8. CASE Wait(t) \/ TimeOut(t) \/ Open(t)
  BY <1>1, <1>8 DEF Wait, InRoom, TimeOut, Open, pool, locks
<1>9. CASE BeginCall(t) \/ Warmed(t) \/ Terminated(t) \/ CancelClose(t) \/ BeginClose(t) \/ BeginMode(t)
  BY <1>1, <1>3, <1>9 DEF BeginCall, Warmed, Terminated, CancelClose, BeginClose, BeginMode, pool, locks
<1>10. CASE Used(t) \/ DiscardSkipped(t) \/ WarmUpCancelled(t)
  <2>1. clients' = Busy(Key(t), -1) /\ pc[t] \in Using \ {"discarding"}
    BY <1>10 DEF Used, DiscardSkipped, WarmUpCancelled
  <2>2. \/ Fail(t)
        \/ \E stage \in {"notify", "notifyFailed"} : Goto(t, stage) /\ UNCHANGED <<session, job>>
    BY <1>10 DEF Used, DiscardSkipped, WarmUpCancelled, locks
  <2>3. CASE Fail(t)
    <3>1. FailStage(t) \in {"idle", "shut"} /\ Moves(t, FailStage(t)) /\ Keeps(t, FailStage(t))
      BY <2>3, Failing DEF PoolInv
    <3> QED BY <2>1, <3>1, UseEnds
  <2>4. ASSUME NEW stage \in {"notify", "notifyFailed"}, Goto(t, stage), UNCHANGED <<session, job>>
        PROVE  Counted'
    BY <2>1, <2>4, Going, UseEnds DEF PoolInv
  <2> QED BY <2>2, <2>3, <2>4
<1>11. CASE Discard(t)
  BY <1>11, UseInCloses DEF Discard, Tearing
<1>12. CASE Notify(t)
  <2>1. Ended(t) \in {"idle", "shut"}
    BY DEF Ended, FailStage
  <2>2. Moves(t, Ended(t)) /\ Keeps(t, Ended(t))
    BY <1>12, <2>1 DEF Notify, Wake, Woken, Moves, Keeps, Release, PoolInv, PoolTypes
  <2> QED BY <1>12, <2>1, <2>2, UseStands DEF Notify, pool
<1>13. CASE Restart(t) \/ Shut(t)
  <2>1. CASE Key(t) \in Registered
    BY <1>13, <2>1, UseInCloses DEF Restart, Shut, Tearing
  <2>2. CASE Key(t) \notin Registered
    BY <1>1, <1>3, <1>13, <2>2 DEF Restart, Shut
  <2> QED BY <2>1, <2>2
<1>14. CASE CancelOwnClose(t)
  BY <1>3, <1>14 DEF CancelOwnClose, pool
<1>15. CASE CancelNotify(t)
  <2>1. FailStage(t) \in {"idle", "shut"}
    BY DEF FailStage
  <2> QED BY <1>1, <1>15, <2>1 DEF CancelNotify, pool
<1> QED
  BY <1>4, <1>5, <1>6, <1>7, <1>8, <1>9, <1>10, <1>11, <1>12, <1>13, <1>14, <1>15
  DEF Creating, Ending, ClosingOwn, Cancelling

\* The reaper, close_all() and a lost transport change the use of no client.
LEMMA UseInUpkeep ==
  ASSUME PoolInv, PoolInv', Counted, Upkeep
  PROVE  Counted'
<1>1. /\ \A t \in Tasks : Key(t)' = Key(t) /\ (pc'[t] \in Using <=> pc[t] \in Using)
      /\ \A t \in Tasks : pc'[t] = "discarding" => pc[t] = "discarding"
  <2>1. job' = job /\ (pc' = pc \/ pc' = Woken(pc))
    BY DEF Upkeep, ReapEnd, ReaperStops, CloseAll, SweepEnd, AllClosed, ReapBegin, SweepBegin, RunnerEnds, locks
  <2> QED BY <2>1 DEF Woken, Using, Key, PoolInv, PoolTypes
<1>2. \A k : Users(k)' = Users(k)
  <2>1. \A k : Users(k) = { t \in Tasks : Key(t) = k /\ pc[t] \in Using }
    BY DEF Users, Using
  <2>2. \A k : Users(k)' = { t \in Tasks : Key(t)' = k /\ pc'[t] \in Using }
    BY DEF Users, Using
  <2> QED BY <1>1, <2>1, <2>2
<1>3. /\ Registered' \subseteq Registered
      /\ \A k \in Registered' : clients'[k].inUse = clients[k].inUse /\ (k \in Closing => k \in Closing')
  <2>1. CASE UNCHANGED clients
    BY <2>1 DEF Registered, Closing
  <2>2. ASSUME NEW k \in Closing, Settle(k) PROVE <1>3
    BY <2>2 DEF Settle, Restrict, Registered, Closing
  <2>3. ASSUME NEW k \in Registered,
               clients' = [clients EXCEPT ![k].closing = TRUE] \/ clients' = [clients EXCEPT ![k].alive = FALSE]
        PROVE  <1>3
    <3>1. clients \in [Registered -> Kept] /\ Registered' = Registered
      BY <2>3 DEF PoolInv, PoolTypes, Registered
    <3>2. \A l \in Registered : /\ clients'[l].inUse = clients[l].inUse
                                /\ clients[l].closing => clients'[l].closing
      BY <2>3, <3>1 DEF Kept
    <3> QED BY <3>1, <3>2 DEF Closing
  <2> QED
    BY <2>1, <2>2, <2>3 DEF Upkeep, ReapEnd, ReaperStops, CloseAll, SweepEnd, AllClosed, ReapBegin,
         SweepBegin, RunnerEnds, CloseBegin, Evictable, Active, pool
<1>4. \A t \in Tasks : pc'[t] = "discarding" /\ Key(t)' \in Registered' => Key(t)' \in Closing'
  BY <1>1, <1>3 DEF Counted
<1> QED BY <1>2, <1>3, <1>4 DEF Counted

LEMMA UseInStart ==
  ASSUME PoolInv, Counted, NEW t \in Tasks, Start(t)
  PROVE  Counted'
<1>1. /\ UNCHANGED clients /\ pc' = [pc EXCEPT ![t] = "begin"] /\ pc[t] = "idle"
      /\ \E j \in Jobs : job' = [job EXCEPT ![t] = j]
  BY DEF Start, Goto, pool
<1>2. \A u \in Tasks : /\ pc'[u] \in Using <=> pc[u] \in Using
                       /\ pc[u] \in Using => Key(u)' = Key(u)
                       /\ pc'[u] = "discarding" <=> pc[u] = "discarding"
  BY <1>1 DEF Using, Key, PoolInv, PoolTypes
<1>3. \A k : Users(k)' = Users(k)
  <2>1. \A k : Users(k) = { u \in Tasks : Key(u) = k /\ pc[u] \in Using }
    BY DEF Users, Using
  <2>2. \A k : Users(k)' = { u \in Tasks : Key(u)' = k /\ pc'[u] \in Using }
    BY DEF Users, Using
  <2> QED BY <1>2, <2>1, <2>2
<1>4. Registered' = Registered /\ Closing' = Closing
  BY <1>1 DEF Registered, Closing
<1>5. \A u \in Tasks : pc'[u] = "discarding" => pc[u] \in Using
  BY <1>2 DEF Using
<1> QED BY <1>1, <1>2, <1>3, <1>4, <1>5 DEF Counted

LEMMA UseCounted == Spec => [](PoolInv /\ Counted)
<1>1. Init => Counted
  BY DEF Init, Counted, Registered
<1>2. PoolInv /\ PoolInv' /\ Counted /\ [Next]_vars => Counted'
  <2> SUFFICES ASSUME PoolInv, PoolInv', Counted, [Next]_vars PROVE Counted'
    OBVIOUS
  <2>1. CASE UNCHANGED vars
    BY <2>1 DEF vars, pool, Counted, Registered, Closing, Users, Key
  <2> QED BY <2>1, UseInUpkeep, UseInCalls, UseInStart DEF Next, Calling
<1> QED BY <1>1, <1>2, ConditionGuards, PTL DEF Spec

\* For any callers and sessions: a client that is in use is closed by close_all()
\* or by its user, never to make room and never by the reaper (_evictable).
THEOREM UsersAreLeftAlone == Spec => InUseStays
<1> DEFINE Stays == \A k \in Registered :
                      Users(k) # {} /\ k \in Closing' \ Closing => holder' = "closer" \/ holder' \in Users(k)
<1>1. PoolInv /\ Counted /\ [Next]_vars => [Stays]_vars
  <2> SUFFICES ASSUME PoolInv, Counted, Next, NEW k \in Registered, Users(k) # {}, k \in Closing' \ Closing
               PROVE  holder' = "closer" \/ holder' \in Users(k)
    OBVIOUS
  <2>1. clients[k].inUse = 1 /\ k \notin Evictable
    BY DEF Counted, Evictable
  <2>2. ASSUME NEW t \in Tasks, NEW l \in Registered, CloseBegin(t, l) PROVE l = k /\ holder' = t
    <3>1. clients' = [clients EXCEPT ![l].closing = TRUE] /\ clients \in [Registered -> Kept]
      BY <2>2 DEF CloseBegin, PoolInv, PoolTypes
    <3>2. \A m \in Registered : m # l => clients'[m] = clients[m]
      BY <3>1
    <3>3. k = l
      BY <3>2 DEF Closing
    <3> QED BY <2>2, <3>3 DEF CloseBegin
  <2>3. ASSUME NEW t \in Tasks, pc[t] \in {"create", "restart", "shut"} PROVE Key(t) # k
    BY <2>3, OneUser DEF Using
  <2>4. ASSUME UNCHANGED clients \/ SameClients PROVE FALSE
    BY <2>4 DEF SameClients, Closing, Registered
  <2>5. ASSUME NEW l \in Closing, Settle(l) PROVE FALSE
    BY <2>5 DEF Settle, Restrict, Registered, Closing
  <2>6. ASSUME NEW t \in Tasks, Creating(t) PROVE FALSE
    <3>1. CASE EnterCreate(t) \/ Evict(t)
      BY <2>1, <2>2, <2>3, <2>4, <3>1 DEF EnterCreate, Evict, Evictable, Active
    <3>2. CASE Opened(t)
      <4>1. Key(t) \notin Registered
        BY <3>2 DEF Opened, PoolInv, NoneOfItsOwn
      <4>2. clients'[k] = clients[k]
        BY <3>2, <4>1 DEF Opened, Take
      <4> QED BY <4>2 DEF Closing
    <3>3. CASE CreateRefused(t) \/ Wait(t) \/ TimeOut(t) \/ RaiseLimit(t) \/ Open(t) \/ NotOpened(t)
      BY <2>4, <3>3 DEF CreateRefused, Wait, TimeOut, RaiseLimit, Open, NotOpened, pool
    <3> QED BY <2>6, <3>1, <3>2, <3>3 DEF Creating
  <2>7. ASSUME NEW t \in Tasks, Calling(t) \/ Ending(t) PROVE holder' \in Users(k)
    <3>1. CASE Discard(t)
      <4>1. Key(t) = k /\ holder' = t
        BY <2>2, <3>1 DEF Discard
      <4> QED BY <3>1, <4>1 DEF Discard, Users
    <3>2. CASE Used(t) \/ WarmUpCancelled(t) \/ DiscardSkipped(t)
      BY <2>4, <3>2, BusyKeeps DEF Used, WarmUpCancelled, DiscardSkipped, PoolInv
    <3>3. CASE Lookup(t) \/ FirstLock(t)
      <4>1. \/ UNCHANGED clients
            \/ /\ Key(t) \in Registered
               /\ clients' = [clients EXCEPT ![Key(t)].inUse = @ + 1, ![Key(t)].calls = TRUE]
        BY <3>3 DEF Lookup, FirstLock, Take, Live
      <4> QED BY <2>4, <4>1, TakenKeeps DEF PoolInv
    <3>4. CASE Start(t) \/ Terminated(t) \/ BeginCall(t) \/ Warmed(t) \/ Notify(t)
      BY <2>4, <3>4 DEF Start, Terminated, BeginCall, Warmed, Notify, pool
    <3> QED BY <2>7, <3>1, <3>2, <3>3, <3>4 DEF Calling, Ending
  <2>8. ASSUME NEW t \in Tasks, ClosingOwn(t) \/ Cancelling(t) PROVE FALSE
    <3>1. CASE Restart(t) \/ Shut(t)
      BY <2>2, <2>3, <2>4, <3>1 DEF Restart, Shut
    <3>2. CASE CloseEnd(t)
      BY <2>5, <3>2 DEF CloseEnd
    <3>3. CASE BeginClose(t) \/ BeginMode(t) \/ Cancelling(t)
      BY <2>4, <3>3 DEF BeginClose, BeginMode, Cancelling, CancelClose, CancelWait, CancelOwnClose, CancelNotify, pool
    <3> QED BY <2>8, <3>1, <3>2, <3>3 DEF ClosingOwn
  <2>9. CASE Upkeep
    <3>1. ASSUME NEW l \in Keys, ReapBegin(l) PROVE FALSE
      <4>1. clients' = [clients EXCEPT ![l].closing = TRUE] /\ l \in Evictable /\ l # k
        BY <2>1, <3>1 DEF ReapBegin, CloseBegin
      <4>2. clients'[k] = clients[k]
        BY <4>1 DEF PoolInv, PoolTypes
      <4> QED BY <4>2 DEF Closing
    <3>2. ASSUME NEW l \in Keys, SweepBegin(l) PROVE holder' = "closer"
      BY <3>2 DEF SweepBegin, CloseBegin
    <3>3. ASSUME NEW l \in Keys, RunnerEnds(l) PROVE FALSE
      <4>1. clients' = [clients EXCEPT ![l].alive = FALSE] /\ clients \in [Registered -> Kept]
        BY <3>3 DEF RunnerEnds, PoolInv, PoolTypes
      <4>2. clients'[k].closing = clients[k].closing
        BY <4>1 DEF Kept
      <4> QED BY <4>2 DEF Closing
    <3>4. CASE ReapEnd \/ SweepEnd
      BY <2>5, <3>4 DEF ReapEnd, SweepEnd
    <3>5. CASE ReaperStops \/ CloseAll \/ AllClosed
      BY <2>4, <3>5 DEF ReaperStops, CloseAll, AllClosed, pool
    <3> QED BY <2>9, <3>1, <3>2, <3>3, <3>4, <3>5 DEF Upkeep
  <2> QED BY <2>6, <2>7, <2>8, <2>9 DEF Next
<1> QED BY <1>1, UseCounted, PTL DEF Spec, InUseStays
=============================================================================
