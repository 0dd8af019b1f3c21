------------------------- MODULE McpRegistryProofs -------------------------
(***************************************************************************)
(* Proofs about McpRegistry, for any number of servers, configurations,    *)
(* callers, connections and changes of the credentials: the catalog shows  *)
(* the live connection of each server and nobody else's; every connection  *)
(* that is open is in somebody's hands; what is published was built from   *)
(* the definition and the credential of the moment; and a revocation that  *)
(* answers "disabled" leaves no connection of the server open.             *)
(*                                                                         *)
(* The inductive invariant Inv says who holds which connection (HandsOK,   *)
(* Exclusive, Phased), that a server has at most one (OneEach), why the    *)
(* next one to publish finds the place free (Turn), and what the two means *)
(* of exclusion give: whoever still has the current epoch works with the   *)
(* current definition (Fresh), and whoever holds a connection in a         *)
(* reconnect or a revocation also holds the lock of the server (LockOK).   *)
(* There is one lemma per action; its steps <1>act, <1>now, <1>task, ...   *)
(* say what the action does to one variable at a time, and the steps that  *)
(* follow are the conjuncts of the invariant.                              *)
(***************************************************************************)
EXTENDS McpRegistry, FiniteSetTheorems, TLAPS

\* Where an operation has a connection in its hands while it waits.
Holding == {"drop", "connect", "abandon", "undo"}
\* Where an operation can be.
Ats == {"idle", "reconnect", "revoke"} \cup Holding
\* What a definition is resolved to.
Definition == [config : {"absent", "off"} \cup Configs, cred : 0..MaxVersion]

\* The types of the operations and of the connections.
Task == [at : Ats, server : Servers \cup {None}, conn : Conns \cup {None},
         after : Definition, sure : BOOLEAN]
Connection ==
  [server : Servers \cup {None}, config : Configs \cup {None}, cred : 0..MaxVersion,
   phase : Phases, lost : BOOLEAN, broken : BOOLEAN]

\* Operations and the cold load hold a connection exactly while they wait for it;
\* operations begin after the load has, and those of a reconcile after its end.
HandsOK ==
  /\ task \in [Workers -> Task]
  /\ loader \in [at : {"start", "connect", "abandon", "done"},
                 todo : SUBSET Conns, conn : Conns \cup {None}]
  /\ \A w \in Workers :
       /\ task[w].conn \in Conns <=> task[w].at \in Holding
       /\ task[w].at # "idle" => task[w].server \in Servers /\ loader.at # "start"
       /\ task[w].at # "idle" /\ w \in Reconcilers => task[w].server = w[2] /\ loader.at = "done"
       /\ task[w].at = "revoke" => w \in Reconcilers
  /\ registered \subseteq Conns
  /\ loader.conn \in Conns <=> loader.at = "abandon"
  /\ loader.at \in {"start", "done"} => loader.todo = {}
  /\ loader.at = "start" => registered = {}

\* Nobody else has the connection that an operation or the load holds: no other
\* operation, not the load, not the registry.
Exclusive ==
  /\ \A v, w \in Workers : task[v].conn = task[w].conn /\ task[v].conn \in Conns => v = w
  /\ \A w \in Workers : task[w].conn \notin registered \cup loader.todo
  /\ \A w \in Workers : task[w].conn \in Conns => task[w].conn # loader.conn
  /\ registered \cap loader.todo = {}
  /\ loader.conn \notin registered \cup loader.todo

\* Only an owner that has ended is broken; what is registered has been up, and what
\* is dropped or undone was asked to close before.
Phased ==
  /\ \A c \in Conns : conns[c].broken => conns[c].phase = "gone"
  /\ \A c \in registered : conns[c].phase # "starting" /\ conns[c].server \in Servers
  /\ \A c \in loader.todo : conns[c].server \in Servers
  /\ \A w \in Workers :
       /\ task[w].at \in Holding => conns[task[w].conn].server = task[w].server
       /\ task[w].at \in Holding \ {"connect"} => conns[task[w].conn].phase \in {"closing", "gone"}

\* A server has at most one connection in the registry, and one in the load.
OneEach ==
  /\ \A c, d \in registered : conns[c].server = conns[d].server => c = d
  /\ \A c, d \in loader.todo : conns[c].server = conns[d].server => c = d

\* The registry has no connection of n.
Clear(n) == \A c \in registered : conns[c].server # n

\* Who has the current epoch of a server and may publish finds the place free:
\* whoever took the place first would have taken the epoch, too.
Turn ==
  /\ \A w \in Workers : task[w].at \in {"drop", "connect", "undo"} /\ ~Obsolete(w)
                          => Clear(task[w].server)
  /\ \A c \in loader.todo : ~Outdated(c) => Clear(conns[c].server)

\* The catalog shows what is registered and up, and nothing else.
Catalogued ==
  \A n \in Servers, c \in Conns :
    catalog[n] = c <=> c \in registered /\ conns[c].server = n /\ conns[c].phase = "up"

\* Where an operation is inside the lock of its server.
Locked(w) == task[w].at \in {"drop", "connect", "abandon"} \/ (task[w].at = "undo" /\ w \in Reconcilers)

\* The lock of a server is held by the one that is inside it.
LockOK == \A w \in Workers : Locked(w) => lock[task[w].server] = w

\* While a revocation waits, nothing of its server is up in the registry: only
\* reconnects publish, and they are locked out.
Quiet ==
  \A w \in Reconcilers : task[w].at = "undo" =>
    \A c \in registered : conns[c].server = task[w].server => conns[c].phase # "up"

\* Connection c was built from the definition and the credential of the moment.
BuiltFrom(c, n) ==
  conns[c].config = defs[n].config /\ conns[c].cred = version[n] /\ defs[n].config \in Configs

\* Whoever has the current epoch builds, or has built, from the definition and the
\* credential of the moment: each change of either takes the epoch away.
Fresh ==
  /\ \A w \in Workers :
       /\ task[w].at = "drop" /\ ~Obsolete(w) => defs[task[w].server].config \in Configs
       /\ task[w].at = "connect" /\ ~Obsolete(w) /\ conns[task[w].conn].phase \in {"starting", "up"}
            => BuiltFrom(task[w].conn, task[w].server)
  /\ \A c \in loader.todo :
       ~Outdated(c) /\ conns[c].phase \in {"starting", "up"} => BuiltFrom(c, conns[c].server)

\* The inductive invariant.
Inv ==
  /\ TypeOK /\ HandsOK /\ Exclusive /\ Phased /\ OneEach /\ Turn
  /\ Catalogued /\ LockOK /\ Quiet /\ Fresh /\ NoOrphan

-----------------------------------------------------------------------------
(* What the helpers of the actions give.                                    *)

\* A step that leaves connection c alone.
Same(c) ==
  /\ conns'[c].server = conns[c].server /\ conns'[c].config = conns[c].config
  /\ conns'[c].cred = conns[c].cred /\ conns'[c].phase = conns[c].phase
  /\ conns'[c].broken = conns[c].broken

\* Of(n) is what the registry has of server n.
LEMMA OfParts ==
  ASSUME NEW n
  PROVE  /\ \A c : c \in Of(n) <=> c \in registered /\ conns[c].server = n
         /\ Of(n) = {} <=> Clear(n)
  BY DEF Of, Clear

\* disconnect() turns an open connection into a closing one, and only that one.
LEMMA AskedParts ==
  ASSUME TypeOK, NEW c \in Conns, conns' = Asked(c)
  PROVE  /\ conns' \in [Conns -> Connection]
         /\ conns'[c].server = conns[c].server /\ conns'[c].broken = conns[c].broken
         /\ conns'[c].phase = IF conns[c].phase = "up" THEN "closing" ELSE conns[c].phase
         /\ \A d \in Conns : d # c => Same(d)
  BY DEF TypeOK, Asked, Connection, Phases, Same

\* The owner of a connection that ends leaves the server name behind, nothing else.
LEMMA EndedParts ==
  ASSUME TypeOK, NEW c \in Conns, NEW bad \in BOOLEAN
  PROVE  /\ Ended(c, bad) \in Connection
         /\ Ended(c, bad).server = conns[c].server
         /\ Ended(c, bad).phase = "gone" /\ Ended(c, bad).broken = bad
<1>1. 0 \in 0..MaxVersion
  BY RegistryAssumption
<1>2. conns[c].server \in Servers \cup {None}
  BY DEF TypeOK
<1>3. /\ Unused \in Connection
      /\ Unused.phase = "gone"
  BY <1>1 DEF Unused, Connection, Phases
<1> QED BY <1>2, <1>3 DEF Ended, Connection

\* A connection that is built has the configuration and credential of the moment.
LEMMA StartingParts ==
  ASSUME TypeOK, NEW n \in Servers, NEW cfg \in Configs
  PROVE  /\ Starting(n, cfg) \in Connection
         /\ Starting(n, cfg).server = n /\ Starting(n, cfg).config = cfg
         /\ Starting(n, cfg).cred = version[n]
         /\ Starting(n, cfg).phase = "starting" /\ Starting(n, cfg).broken = FALSE
  BY DEF TypeOK, Starting, Connection, Phases

\* A worker that does nothing holds no connection and no server.
LEMMA IdleParts ==
  /\ Idle \in Task
  /\ Idle.at = "idle" /\ Idle.conn = None /\ Idle.conn \notin Conns /\ Idle.server = None
  BY RegistryAssumption DEF Idle, Task, Absent, Ats, Definition

\* Await changes the operation of one worker.
LEMMA AwaitParts ==
  ASSUME HandsOK, NEW w \in Workers, NEW n \in Servers, NEW at \in Ats, NEW c \in Conns,
         Await(w, n, at, c)
  PROVE  /\ task' \in [Workers -> Task]
         /\ task'[w].at = at /\ task'[w].server = n /\ task'[w].conn = c
         /\ \A v \in Workers : v # w => task'[v] = task[v]
<1> DEFINE t == [task[w] EXCEPT !.at = at, !.server = n, !.conn = c]
<1>1. task \in [Workers -> Task]
  BY DEF HandsOK
<1>2. task' = [task EXCEPT ![w] = t]
  BY DEF Await
<1>3. t \in Task /\ t.at = at /\ t.server = n /\ t.conn = c
  BY <1>1 DEF Task
<1> HIDE DEF t
<1> QED
  BY <1>1, <1>2, <1>3

\* A definition is resolved from the files and the credential.
LEMMA ResolvedParts ==
  ASSUME TypeOK, NEW n \in Servers
  PROVE  /\ Resolved(n) \in Definition
         /\ Resolved(n).config = source[n] /\ Resolved(n).cred = version[n]
  BY DEF TypeOK, Resolved, Definition

\* An operation that ends lets go of its connection.
LEMMA FinishParts ==
  ASSUME HandsOK, NEW w \in Workers, task' = [task EXCEPT ![w] = Idle]
  PROVE  /\ task' \in [Workers -> Task]
         /\ task'[w].at = "idle" /\ task'[w].conn = None /\ task'[w].conn \notin Conns
         /\ \A v \in Workers : v # w => task'[v] = task[v]
  BY IdleParts DEF HandsOK

-----------------------------------------------------------------------------
(* Each action keeps the invariant.                                         *)

\* reconnect_mcp_server finds the server gone or disabled: the epoch is taken all the same.
LEMMA ReconnectRefusedKeeps ==
  ASSUME Inv, NEW w \in Workers, ReconnectRefused(w)
  PROVE  Inv'
<1> DEFINE n == task[w].server
<1>act. /\ TypeOK /\ HandsOK /\ n \in Servers /\ task[w].at = "reconnect" /\ lock[n] = None
        /\ source[n] \notin Configs /\ defs' = [defs EXCEPT ![n] = Resolved(n)]
        /\ epoch' = [epoch EXCEPT ![n] = w] /\ task' = [task EXCEPT ![w] = Idle]
        /\ UNCHANGED <<source, version, held, conns, registered, catalog, lock, refreshing, loader>>
  BY DEF Inv, ReconnectRefused, Enter, config, HandsOK
<1>now. n \in Servers /\ task[w].at = "reconnect" /\ \A v \in Workers : Locked(v) => task[v].server # n
  BY <1>act, RegistryAssumption DEF Inv, LockOK, Locked
<1> HIDE DEF n
<1>task. /\ task' \in [Workers -> Task]
         /\ task'[w].at = "idle" /\ task'[w].conn \notin Conns
         /\ \A v \in Workers : v # w => task'[v] = task[v]
  BY <1>act, FinishParts
<1>conns. conns' = conns
  BY <1>act
<1>registered. registered' = registered
  BY <1>act
<1>catalog. catalog' = catalog
  BY <1>act
<1>epoch. /\ epoch'[n] = w
          /\ \A m \in Servers : m # n => epoch'[m] = epoch[m]
  BY <1>act DEF TypeOK
<1>lock. lock' = lock
  BY <1>act
<1>defs. /\ defs'[n] \in Definition
         /\ \A m \in Servers : m # n => defs'[m] = defs[m]
         /\ version' = version
  BY <1>act, ResolvedParts DEF TypeOK
<1>loader. loader' = loader
  BY <1>act
<1>1. TypeOK'
  BY RegistryAssumption, <1>act, <1>now, <1>task, <1>conns, <1>registered, <1>catalog,
     <1>epoch, <1>lock, <1>defs, <1>loader
     DEF Inv, TypeOK, Phases, Definition, Connection
<1>2. HandsOK'
  BY RegistryAssumption, <1>now, <1>task, <1>registered, <1>loader DEF Inv, HandsOK, Holding
<1>3. Exclusive'
  BY RegistryAssumption, <1>now, <1>task, <1>registered, <1>loader
     DEF Inv, HandsOK, Exclusive, Holding
<1>4. Phased'
  BY RegistryAssumption, <1>now, <1>task, <1>conns, <1>registered, <1>loader
     DEF Inv, HandsOK, Exclusive, Phased, Holding, Same
<1>5. OneEach'
  BY RegistryAssumption, <1>now, <1>conns, <1>registered, <1>loader
     DEF Inv, HandsOK, OneEach, Phased, Clear, Same
<1>6. Turn'
  BY RegistryAssumption, <1>now, <1>task, <1>conns, <1>registered, <1>epoch, <1>loader
     DEF Inv, HandsOK, Exclusive, Phased, OneEach, Turn, Obsolete, Outdated, Clear, Holding,
         Same
<1>7. Catalogued'
  BY RegistryAssumption, <1>now, <1>conns, <1>registered, <1>catalog
     DEF Inv, HandsOK, Phased, Catalogued, Clear, Same
<1>8. LockOK'
  BY RegistryAssumption, <1>now, <1>task, <1>lock DEF Inv, LockOK, Locked, HandsOK
<1>9. Quiet'
  BY RegistryAssumption, <1>now, <1>task, <1>conns, <1>registered
     DEF Inv, HandsOK, Phased, Quiet, Locked, Same, Workers
<1>10. Fresh'
  BY RegistryAssumption, <1>now, <1>task, <1>conns, <1>epoch, <1>defs, <1>loader
     DEF Inv, HandsOK, Exclusive, Phased, Fresh, Locked, Obsolete, Outdated, BuiltFrom,
         Holding, Same
<1>11. NoOrphan'
  <2>1. SUFFICES ASSUME NEW e \in Conns, conns'[e].phase \in {"starting", "up"},
                        e \notin registered', e \notin loader'.todo
                 PROVE  \E v \in Workers : task'[v].at = "connect" /\ task'[v].conn = e
    BY DEF NoOrphan
  <2> QED
    BY RegistryAssumption, <1>now, <1>task, <1>conns, <1>registered, <1>loader, <2>1
       DEF Inv, HandsOK, Exclusive, Phased, NoOrphan, Holding, Same
<1> QED BY <1>1, <1>2, <1>3, <1>4, <1>5, <1>6, <1>7, <1>8, <1>9, <1>10, <1>11 DEF Inv

\* A reconnect takes the old connection out of the registry and asks it to close.
LEMMA DropOldKeeps ==
  ASSUME Inv, NEW w \in Workers, DropOld(w)
  PROVE  Inv'
<1> DEFINE n == task[w].server
<1>act. /\ TypeOK /\ HandsOK /\ n \in Servers /\ task[w].at = "reconnect" /\ lock[n] = None
        /\ source[n] \in Configs /\ defs' = [defs EXCEPT ![n] = Resolved(n)]
        /\ epoch' = [epoch EXCEPT ![n] = w] /\ catalog' = [catalog EXCEPT ![n] = None]
        /\ lock' = [lock EXCEPT ![n] = w] /\ refreshing' = refreshing \cup {n}
        /\ UNCHANGED <<source, version, held, status, loader>>
  BY DEF Inv, DropOld, Enter, config, HandsOK
<1>drop. PICK c \in Of(n) : registered' = registered \ Of(n) /\ conns' = Asked(c) /\ Await(w, n, "drop", c)
  BY DEF DropOld
<1>now. /\ n \in Servers /\ w \in Workers /\ c \in Conns /\ c \in registered /\ conns[c].server = n
        /\ conns[c].phase # "starting" /\ task[w].at = "reconnect" /\ loader.at # "start"
        /\ \A d \in registered : conns[d].server = n => d = c
        /\ w \in Reconcilers => n = w[2] /\ loader.at = "done"
        /\ \A v \in Workers : Locked(v) => task[v].server # n
  BY <1>act, <1>drop, RegistryAssumption DEF Inv, Of, TypeOK, LockOK, Phased, HandsOK, OneEach
<1> HIDE DEF n
<1>task. /\ task' \in [Workers -> Task]
         /\ task'[w].at = "drop" /\ task'[w].server = n /\ task'[w].conn = c
         /\ \A v \in Workers : v # w => task'[v] = task[v]
  BY <1>act, <1>drop, <1>now, AwaitParts DEF Ats, Holding
<1>conns. /\ conns' \in [Conns -> Connection]
          /\ conns'[c].server = conns[c].server
          /\ conns'[c].phase \in {"closing", "gone"} /\ (conns'[c].broken => conns[c].broken)
          /\ conns[c].phase = "gone" => conns'[c].phase = "gone"
          /\ \A d \in Conns : d # c => Same(d)
  BY <1>act, <1>drop, <1>now, AskedParts DEF Connection, Phases
<1>registered. \A d : d \in registered' <=> d \in registered /\ conns[d].server # n
  BY <1>act, <1>drop DEF Of
<1>catalog. /\ catalog'[n] = None
            /\ \A m \in Servers : m # n => catalog'[m] = catalog[m]
  BY <1>act DEF TypeOK
<1>epoch. /\ epoch'[n] = w
          /\ \A m \in Servers : m # n => epoch'[m] = epoch[m]
  BY <1>act DEF TypeOK
<1>lock. /\ lock'[n] = w
         /\ \A m \in Servers : m # n => lock'[m] = lock[m]
  BY <1>act DEF TypeOK
<1>defs. /\ defs'[n] \in Definition /\ defs'[n].config \in Configs
         /\ \A m \in Servers : m # n => defs'[m] = defs[m]
         /\ version' = version
  BY <1>act, ResolvedParts DEF TypeOK
<1>loader. loader' = loader
  BY <1>act
<1>1. TypeOK'
  BY RegistryAssumption, <1>act, <1>now, <1>task, <1>conns, <1>registered, <1>catalog,
     <1>epoch, <1>lock, <1>defs, <1>loader
     DEF Inv, TypeOK, Phases, Definition, Connection
<1>2. HandsOK'
  BY RegistryAssumption, <1>now, <1>task, <1>registered, <1>loader DEF Inv, HandsOK, Holding
<1>3. Exclusive'
  BY RegistryAssumption, <1>now, <1>task, <1>registered, <1>loader
     DEF Inv, HandsOK, Exclusive, Holding
<1>4. Phased'
  BY RegistryAssumption, <1>now, <1>task, <1>conns, <1>registered, <1>loader
     DEF Inv, HandsOK, Exclusive, Phased, Holding, Same
<1>5. OneEach'
  BY RegistryAssumption, <1>now, <1>conns, <1>registered, <1>loader
     DEF Inv, HandsOK, OneEach, Phased, Clear, Same
<1>6. Turn'
  BY RegistryAssumption, <1>now, <1>task, <1>conns, <1>registered, <1>epoch, <1>loader
     DEF Inv, HandsOK, Exclusive, Phased, OneEach, Turn, Obsolete, Outdated, Clear, Holding,
         Same
<1>7. Catalogued'
  BY RegistryAssumption, <1>now, <1>conns, <1>registered, <1>catalog
     DEF Inv, HandsOK, Phased, Catalogued, Clear, Same
<1>8. LockOK'
  BY RegistryAssumption, <1>now, <1>task, <1>lock DEF Inv, LockOK, Locked, HandsOK
<1>9. Quiet'
  BY RegistryAssumption, <1>now, <1>task, <1>conns, <1>registered
     DEF Inv, HandsOK, Phased, Quiet, Locked, Same, Workers
<1>10. Fresh'
  BY RegistryAssumption, <1>now, <1>task, <1>conns, <1>epoch, <1>defs, <1>loader
     DEF Inv, HandsOK, Exclusive, Phased, Fresh, Locked, Obsolete, Outdated, BuiltFrom,
         Holding, Same
<1>11. NoOrphan'
  <2>1. SUFFICES ASSUME NEW e \in Conns, conns'[e].phase \in {"starting", "up"},
                        e \notin registered', e \notin loader'.todo
                 PROVE  \E v \in Workers : task'[v].at = "connect" /\ task'[v].conn = e
    BY DEF NoOrphan
  <2> QED
    BY RegistryAssumption, <1>now, <1>task, <1>conns, <1>registered, <1>loader, <2>1
       DEF Inv, HandsOK, Exclusive, Phased, NoOrphan, Holding, Same
<1> QED BY <1>1, <1>2, <1>3, <1>4, <1>5, <1>6, <1>7, <1>8, <1>9, <1>10, <1>11 DEF Inv

\* The old connection did not close: it is registered again, as the place is free
\* while the epoch is still its own (Turn).
LEMMA NotDroppedKeeps ==
  ASSUME Inv, NEW w \in Workers, NotDropped(w)
  PROVE  Inv'
<1> DEFINE n == task[w].server
           c == task[w].conn
<1>act. /\ TypeOK /\ HandsOK /\ n \in Servers /\ c \in Conns /\ task[w].at = "drop" /\ epoch[n] = w
        /\ registered' = registered \cup {c}
        /\ task' = [task EXCEPT ![w] = Idle]
        /\ lock' = [lock EXCEPT ![n] = None]
        /\ refreshing' = refreshing \ {n}
        /\ UNCHANGED <<source, version, held, defs, epoch, conns, catalog, loader>>
  BY DEF Inv, NotDropped, Finish, Obsolete, config, HandsOK, Holding
<1>now. /\ n \in Servers /\ c \in Conns /\ conns[c].server = n /\ conns[c].phase \in {"closing", "gone"}
        /\ epoch[n] = w /\ lock[n] = w /\ Clear(n) /\ task[w].at = "drop"
        /\ c \notin registered \cup loader.todo /\ c # loader.conn
        /\ \A v \in Workers : v # w => task[v].conn # c
        /\ \A v \in Workers : v # w /\ Locked(v) => task[v].server # n
  BY <1>act DEF Inv, Phased, Turn, Obsolete, LockOK, Locked, Exclusive, Holding
<1> HIDE DEF n, c
<1>task. /\ task' \in [Workers -> Task]
         /\ task'[w].at = "idle" /\ task'[w].conn \notin Conns
         /\ \A v \in Workers : v # w => task'[v] = task[v]
  BY <1>act, FinishParts
<1>conns. conns' = conns
  BY <1>act
<1>registered. \A d : d \in registered' <=> d \in registered \/ d = c
  BY <1>act
<1>catalog. catalog' = catalog
  BY <1>act
<1>epoch. epoch' = epoch
  BY <1>act
<1>lock. /\ lock'[n] = None
         /\ \A m \in Servers : m # n => lock'[m] = lock[m]
  BY <1>act DEF TypeOK
<1>defs. /\ defs' = defs
         /\ version' = version
  BY <1>act
<1>loader. loader' = loader
  BY <1>act
<1>1. TypeOK'
  BY RegistryAssumption, <1>act, <1>now, <1>task, <1>conns, <1>registered, <1>catalog,
     <1>epoch, <1>lock, <1>defs, <1>loader
     DEF Inv, TypeOK, Phases, Definition, Connection
<1>2. HandsOK'
  BY RegistryAssumption, <1>now, <1>task, <1>registered, <1>loader DEF Inv, HandsOK, Holding
<1>3. Exclusive'
  BY RegistryAssumption, <1>now, <1>task, <1>registered, <1>loader
     DEF Inv, HandsOK, Exclusive, Holding
<1>4. Phased'
  BY RegistryAssumption, <1>now, <1>task, <1>conns, <1>registered, <1>loader
     DEF Inv, HandsOK, Exclusive, Phased, Holding, Same
<1>5. OneEach'
  BY RegistryAssumption, <1>now, <1>conns, <1>registered, <1>loader
     DEF Inv, HandsOK, OneEach, Phased, Clear, Same
<1>6. Turn'
  BY RegistryAssumption, <1>now, <1>task, <1>conns, <1>registered, <1>epoch, <1>loader
     DEF Inv, HandsOK, Exclusive, Phased, OneEach, Turn, Obsolete, Outdated, Clear, Holding,
         Same
<1>7. Catalogued'
  BY RegistryAssumption, <1>now, <1>conns, <1>registered, <1>catalog
     DEF Inv, HandsOK, Phased, Catalogued, Clear, Same
<1>8. LockOK'
  BY RegistryAssumption, <1>now, <1>task, <1>lock DEF Inv, LockOK, Locked, HandsOK
<1>9. Quiet'
  BY RegistryAssumption, <1>now, <1>task, <1>conns, <1>registered
     DEF Inv, HandsOK, Phased, Quiet, Locked, Same, Workers
<1>10. Fresh'
  BY RegistryAssumption, <1>now, <1>task, <1>conns, <1>epoch, <1>defs, <1>loader
     DEF Inv, HandsOK, Exclusive, Phased, Fresh, Locked, Obsolete, Outdated, BuiltFrom,
         Holding, Same
<1>11. NoOrphan'
  <2>1. SUFFICES ASSUME NEW e \in Conns, conns'[e].phase \in {"starting", "up"},
                        e \notin registered', e \notin loader'.todo
                 PROVE  \E v \in Workers : task'[v].at = "connect" /\ task'[v].conn = e
    BY DEF NoOrphan
  <2> QED
    BY RegistryAssumption, <1>now, <1>task, <1>conns, <1>registered, <1>loader, <2>1
       DEF Inv, HandsOK, Exclusive, Phased, NoOrphan, Holding, Same
<1> QED BY <1>1, <1>2, <1>3, <1>4, <1>5, <1>6, <1>7, <1>8, <1>9, <1>10, <1>11 DEF Inv

\* A reconnect that is overtaken while it drops the old connection gives up.
LEMMA DropSupersededKeeps ==
  ASSUME Inv, NEW w \in Workers, DropSuperseded(w)
  PROVE  Inv'
<1> DEFINE n == task[w].server
<1>act. /\ TypeOK /\ HandsOK /\ n \in Servers /\ task[w].at = "drop"
        /\ task' = [task EXCEPT ![w] = Idle]
        /\ lock' = [lock EXCEPT ![n] = None]
        /\ refreshing' = refreshing \ {n}
        /\ UNCHANGED <<source, version, held, defs, epoch, conns, registered, catalog, loader>>
  BY DEF Inv, DropSuperseded, Finish, config, HandsOK
<1>now. /\ n \in Servers
        /\ \A v \in Workers : v # w /\ Locked(v) => task[v].server # n
  BY <1>act DEF Inv, LockOK, Locked
<1> HIDE DEF n
<1>task. /\ task' \in [Workers -> Task]
         /\ task'[w].at = "idle" /\ task'[w].conn \notin Conns
         /\ \A v \in Workers : v # w => task'[v] = task[v]
  BY <1>act, FinishParts
<1>conns. /\ conns' = conns
          /\ conns[task[w].conn].phase \in {"closing", "gone"}
  BY <1>act DEF Inv, Phased, Holding
<1>registered. registered' = registered
  BY <1>act
<1>catalog. catalog' = catalog
  BY <1>act
<1>epoch. epoch' = epoch
  BY <1>act
<1>lock. /\ lock'[n] = None
         /\ \A m \in Servers : m # n => lock'[m] = lock[m]
  BY <1>act DEF TypeOK
<1>defs. /\ defs' = defs
         /\ version' = version
  BY <1>act
<1>loader. loader' = loader
  BY <1>act
<1>1. TypeOK'
  BY RegistryAssumption, <1>act, <1>now, <1>task, <1>conns, <1>registered, <1>catalog,
     <1>epoch, <1>lock, <1>defs, <1>loader
     DEF Inv, TypeOK, Phases, Definition, Connection
<1>2. HandsOK'
  BY RegistryAssumption, <1>now, <1>task, <1>registered, <1>loader DEF Inv, HandsOK, Holding
<1>3. Exclusive'
  BY RegistryAssumption, <1>now, <1>task, <1>registered, <1>loader
     DEF Inv, HandsOK, Exclusive, Holding
<1>4. Phased'
  BY RegistryAssumption, <1>now, <1>task, <1>conns, <1>registered, <1>loader
     DEF Inv, HandsOK, Exclusive, Phased, Holding, Same
<1>5. OneEach'
  BY RegistryAssumption, <1>now, <1>conns, <1>registered, <1>loader
     DEF Inv, HandsOK, OneEach, Phased, Clear, Same
<1>6. Turn'
  BY RegistryAssumption, <1>now, <1>task, <1>conns, <1>registered, <1>epoch, <1>loader
     DEF Inv, HandsOK, Exclusive, Phased, OneEach, Turn, Obsolete, Outdated, Clear, Holding,
         Same
<1>7. Catalogued'
  BY RegistryAssumption, <1>now, <1>conns, <1>registered, <1>catalog
     DEF Inv, HandsOK, Phased, Catalogued, Clear, Same
<1>8. LockOK'
  BY RegistryAssumption, <1>now, <1>task, <1>lock DEF Inv, LockOK, Locked, HandsOK
<1>9. Quiet'
  BY RegistryAssumption, <1>now, <1>task, <1>conns, <1>registered
     DEF Inv, HandsOK, Phased, Quiet, Locked, Same, Workers
<1>10. Fresh'
  BY RegistryAssumption, <1>now, <1>task, <1>conns, <1>epoch, <1>defs, <1>loader
     DEF Inv, HandsOK, Exclusive, Phased, Fresh, Locked, Obsolete, Outdated, BuiltFrom,
         Holding, Same
<1>11. NoOrphan'
  <2>1. SUFFICES ASSUME NEW e \in Conns, conns'[e].phase \in {"starting", "up"},
                        e \notin registered', e \notin loader'.todo
                 PROVE  \E v \in Workers : task'[v].at = "connect" /\ task'[v].conn = e
    BY DEF NoOrphan
  <2> QED
    BY RegistryAssumption, <1>now, <1>task, <1>conns, <1>registered, <1>loader, <2>1
       DEF Inv, HandsOK, Exclusive, Phased, NoOrphan, Holding, Same
<1> QED BY <1>1, <1>2, <1>3, <1>4, <1>5, <1>6, <1>7, <1>8, <1>9, <1>10, <1>11 DEF Inv

\* _close_obsolete_connection has waited for the connection of an overtaken reconnect.
LEMMA AbandonedKeeps ==
  ASSUME Inv, NEW w \in Workers, Abandoned(w)
  PROVE  Inv'
<1> DEFINE n == task[w].server
<1>act. /\ TypeOK /\ HandsOK /\ n \in Servers /\ task[w].at = "abandon"
        /\ task' = [task EXCEPT ![w] = Idle]
        /\ lock' = [lock EXCEPT ![n] = None]
        /\ refreshing' = refreshing \ {n}
        /\ UNCHANGED <<source, version, held, defs, epoch, conns, registered, catalog, loader>>
  BY DEF Inv, Abandoned, Finish, config, HandsOK
<1>now. /\ n \in Servers
        /\ \A v \in Workers : v # w /\ Locked(v) => task[v].server # n
  BY <1>act DEF Inv, LockOK, Locked
<1> HIDE DEF n
<1>task. /\ task' \in [Workers -> Task]
         /\ task'[w].at = "idle" /\ task'[w].conn \notin Conns
         /\ \A v \in Workers : v # w => task'[v] = task[v]
  BY <1>act, FinishParts
<1>conns. /\ conns' = conns
          /\ conns[task[w].conn].phase \in {"closing", "gone"}
  BY <1>act DEF Inv, Phased, Holding
<1>registered. registered' = registered
  BY <1>act
<1>catalog. catalog' = catalog
  BY <1>act
<1>epoch. epoch' = epoch
  BY <1>act
<1>lock. /\ lock'[n] = None
         /\ \A m \in Servers : m # n => lock'[m] = lock[m]
  BY <1>act DEF TypeOK
<1>defs. /\ defs' = defs
         /\ version' = version
  BY <1>act
<1>loader. loader' = loader
  BY <1>act
<1>1. TypeOK'
  BY RegistryAssumption, <1>act, <1>now, <1>task, <1>conns, <1>registered, <1>catalog,
     <1>epoch, <1>lock, <1>defs, <1>loader
     DEF Inv, TypeOK, Phases, Definition, Connection
<1>2. HandsOK'
  BY RegistryAssumption, <1>now, <1>task, <1>registered, <1>loader DEF Inv, HandsOK, Holding
<1>3. Exclusive'
  BY RegistryAssumption, <1>now, <1>task, <1>registered, <1>loader
     DEF Inv, HandsOK, Exclusive, Holding
<1>4. Phased'
  BY RegistryAssumption, <1>now, <1>task, <1>conns, <1>registered, <1>loader
     DEF Inv, HandsOK, Exclusive, Phased, Holding, Same
<1>5. OneEach'
  BY RegistryAssumption, <1>now, <1>conns, <1>registered, <1>loader
     DEF Inv, HandsOK, OneEach, Phased, Clear, Same
<1>6. Turn'
  BY RegistryAssumption, <1>now, <1>task, <1>conns, <1>registered, <1>epoch, <1>loader
     DEF Inv, HandsOK, Exclusive, Phased, OneEach, Turn, Obsolete, Outdated, Clear, Holding,
         Same
<1>7. Catalogued'
  BY RegistryAssumption, <1>now, <1>conns, <1>registered, <1>catalog
     DEF Inv, HandsOK, Phased, Catalogued, Clear, Same
<1>8. LockOK'
  BY RegistryAssumption, <1>now, <1>task, <1>lock DEF Inv, LockOK, Locked, HandsOK
<1>9. Quiet'
  BY RegistryAssumption, <1>now, <1>task, <1>conns, <1>registered
     DEF Inv, HandsOK, Phased, Quiet, Locked, Same, Workers
<1>10. Fresh'
  BY RegistryAssumption, <1>now, <1>task, <1>conns, <1>epoch, <1>defs, <1>loader
     DEF Inv, HandsOK, Exclusive, Phased, Fresh, Locked, Obsolete, Outdated, BuiltFrom,
         Holding, Same
<1>11. NoOrphan'
  <2>1. SUFFICES ASSUME NEW e \in Conns, conns'[e].phase \in {"starting", "up"},
                        e \notin registered', e \notin loader'.todo
                 PROVE  \E v \in Workers : task'[v].at = "connect" /\ task'[v].conn = e
    BY DEF NoOrphan
  <2> QED
    BY RegistryAssumption, <1>now, <1>task, <1>conns, <1>registered, <1>loader, <2>1
       DEF Inv, HandsOK, Exclusive, Phased, NoOrphan, Holding, Same
<1> QED BY <1>1, <1>2, <1>3, <1>4, <1>5, <1>6, <1>7, <1>8, <1>9, <1>10, <1>11 DEF Inv

\* A reconnect publishes its connection: the place is free, and the definition is the
\* one of the moment, as the epoch is still its own.
LEMMA ConnectedKeeps ==
  ASSUME Inv, NEW w \in Workers, Connected(w)
  PROVE  Inv'
<1> DEFINE n == task[w].server
           c == task[w].conn
<1>act. /\ TypeOK /\ HandsOK /\ n \in Servers /\ c \in Conns
        /\ task[w].at = "connect" /\ conns[c].phase # "starting" /\ epoch[n] = w
        /\ Conclude({c})
        /\ task' = [task EXCEPT ![w] = Idle]
        /\ lock' = [lock EXCEPT ![n] = None]
        /\ refreshing' = refreshing \ {n}
        /\ UNCHANGED <<source, version, held, defs, epoch, conns, loader>>
  BY DEF Inv, Connected, Finish, Obsolete, config, HandsOK, Holding
<1>now. /\ n \in Servers /\ c \in Conns /\ conns[c].server = n /\ conns[c].phase # "starting"
        /\ epoch[n] = w /\ lock[n] = w /\ Clear(n) /\ Locked(w)
        /\ c \notin registered \cup loader.todo /\ c # loader.conn
        /\ c = task[w].conn /\ \A v \in Workers : v # w => task[v].conn # c
        /\ \A v \in Workers : v # w /\ Locked(v) => task[v].server # n
  BY <1>act DEF Inv, Phased, Turn, Obsolete, LockOK, Locked, Exclusive, Holding
<1> HIDE DEF n, c
<1>task. /\ task' \in [Workers -> Task]
         /\ task'[w].at = "idle" /\ task'[w].conn \notin Conns
         /\ \A v \in Workers : v # w => task'[v] = task[v]
  BY <1>act, FinishParts
<1>conns. conns' = conns
  BY <1>act
<1>registered. \A d : d \in registered' <=> d \in registered \/ (d = c /\ conns[c].phase = "up")
  BY <1>act DEF Conclude
<1>catalog. /\ catalog' \in [Servers -> Conns \cup {None}]
            /\ catalog'[n] = IF conns[c].phase = "up" THEN c ELSE catalog[n]
            /\ \A m \in Servers : m # n => catalog'[m] = catalog[m]
  <2> DEFINE Pub(m) == { d \in {c} : conns[d].server = m } \cap { d \in {c} : conns[d].phase = "up" }
  <2>1. catalog' = [m \in Servers |-> IF Pub(m) # {} THEN CHOOSE d \in Pub(m) : TRUE ELSE catalog[m]]
    BY <1>act DEF Conclude
  <2>2. \A m \in Servers : Pub(m) = IF m = n /\ conns[c].phase = "up" THEN {c} ELSE {}
    BY <1>now
  <2> QED BY <1>act, <2>1, <2>2 DEF TypeOK
<1>epoch. epoch' = epoch
  BY <1>act
<1>lock. /\ lock'[n] = None
         /\ \A m \in Servers : m # n => lock'[m] = lock[m]
  BY <1>act DEF TypeOK
<1>defs. /\ defs' = defs
         /\ version' = version
  BY <1>act
<1>loader. loader' = loader
  BY <1>act
<1>1. TypeOK'
  <2>1. source' \in [Servers -> {"absent", "off"} \cup Configs] /\ held' \in [Servers -> BOOLEAN]
    BY RegistryAssumption, <1>act, <1>now, <1>task, <1>conns, <1>registered, <1>catalog,
       <1>epoch, <1>lock, <1>defs, <1>loader
       DEF Inv, TypeOK, Phases, Definition, Connection
  <2>2. version' \in [Servers -> 0..MaxVersion]
    BY RegistryAssumption, <1>act, <1>now, <1>task, <1>conns, <1>registered, <1>catalog,
       <1>epoch, <1>lock, <1>defs, <1>loader
       DEF Inv, TypeOK, Phases, Definition, Connection
  <2>3. defs' \in [Servers -> Definition]
    BY RegistryAssumption, <1>act, <1>now, <1>task, <1>conns, <1>registered, <1>catalog,
       <1>epoch, <1>lock, <1>defs, <1>loader
       DEF Inv, TypeOK, Phases, Definition, Connection
  <2>4. epoch' \in [Servers -> {None, Loading} \cup Workers]
    BY RegistryAssumption, <1>act, <1>now, <1>task, <1>conns, <1>registered, <1>catalog,
       <1>epoch, <1>lock, <1>defs, <1>loader
       DEF Inv, TypeOK, Phases, Definition, Connection
  <2>5. conns' \in [Conns -> Connection]
    BY RegistryAssumption, <1>act, <1>now, <1>task, <1>conns, <1>registered, <1>catalog,
       <1>epoch, <1>lock, <1>defs, <1>loader
       DEF Inv, TypeOK, Phases, Definition, Connection
  <2>6. registered' \subseteq Conns /\ refreshing' \subseteq Servers
    BY RegistryAssumption, <1>act, <1>now, <1>task, <1>conns, <1>registered, <1>catalog,
       <1>epoch, <1>lock, <1>defs, <1>loader
       DEF Inv, TypeOK, Phases, Definition, Connection
  <2>7. catalog' \in [Servers -> Conns \cup {None}]
    BY RegistryAssumption, <1>act, <1>now, <1>task, <1>conns, <1>registered, <1>catalog,
       <1>epoch, <1>lock, <1>defs, <1>loader
       DEF Inv, TypeOK, Phases, Definition, Connection
  <2>8. lock' \in [Servers -> Workers \cup {None}]
    BY RegistryAssumption, <1>act, <1>now, <1>task, <1>conns, <1>registered, <1>catalog,
       <1>epoch, <1>lock, <1>defs, <1>loader
       DEF Inv, TypeOK, Phases, Definition, Connection
  <2> QED BY <2>1, <2>2, <2>3, <2>4, <2>5, <2>6, <2>7, <2>8 DEF TypeOK, Definition, Connection
<1>2. HandsOK'
  BY RegistryAssumption, <1>now, <1>task, <1>registered, <1>loader DEF Inv, HandsOK, Holding
<1>3. Exclusive'
  BY RegistryAssumption, <1>now, <1>task, <1>registered, <1>loader
     DEF Inv, HandsOK, Exclusive, Holding
<1>4. Phased'
  BY RegistryAssumption, <1>now, <1>task, <1>conns, <1>registered, <1>loader
     DEF Inv, HandsOK, Exclusive, Phased, Holding, Same
<1>5. OneEach'
  BY RegistryAssumption, <1>now, <1>conns, <1>registered, <1>loader
     DEF Inv, HandsOK, OneEach, Phased, Clear, Same
<1>6. Turn'
  BY RegistryAssumption, <1>now, <1>task, <1>conns, <1>registered, <1>epoch, <1>loader
     DEF Inv, HandsOK, Exclusive, Phased, OneEach, Turn, Obsolete, Outdated, Clear, Holding,
         Same
<1>7. Catalogued'
  BY RegistryAssumption, <1>now, <1>conns, <1>registered, <1>catalog
     DEF Inv, HandsOK, Phased, Catalogued, Clear, Same
<1>8. LockOK'
  BY RegistryAssumption, <1>now, <1>task, <1>lock DEF Inv, LockOK, Locked, HandsOK
<1>9. Quiet'
  BY RegistryAssumption, <1>now, <1>task, <1>conns, <1>registered
     DEF Inv, HandsOK, Phased, Quiet, Locked, Same, Workers
<1>10. Fresh'
  BY RegistryAssumption, <1>now, <1>task, <1>conns, <1>epoch, <1>defs, <1>loader
     DEF Inv, HandsOK, Exclusive, Phased, Fresh, Locked, Obsolete, Outdated, BuiltFrom,
         Holding, Same
<1>11. NoOrphan'
  <2>1. SUFFICES ASSUME NEW e \in Conns, conns'[e].phase \in {"starting", "up"},
                        e \notin registered', e \notin loader'.todo
                 PROVE  \E v \in Workers : task'[v].at = "connect" /\ task'[v].conn = e
    BY DEF NoOrphan
  <2> QED
    BY RegistryAssumption, <1>now, <1>task, <1>conns, <1>registered, <1>loader, <2>1
       DEF Inv, HandsOK, Exclusive, Phased, NoOrphan, Holding, Same
<1> QED BY <1>1, <1>2, <1>3, <1>4, <1>5, <1>6, <1>7, <1>8, <1>9, <1>10, <1>11 DEF Inv

\* A reconnect that is overtaken while it connects asks its connection to close.
LEMMA ConnectSupersededKeeps ==
  ASSUME Inv, NEW w \in Workers, ConnectSuperseded(w)
  PROVE  Inv'
<1> DEFINE n == task[w].server
           c == task[w].conn
<1>act. /\ TypeOK /\ HandsOK /\ n \in Servers /\ c \in Conns
        /\ task[w].at = "connect" /\ conns[c].phase # "starting" /\ epoch[n] # w
        /\ conns' = Asked(c) /\ Await(w, n, "abandon", c)
        /\ UNCHANGED <<source, version, held, defs, epoch, registered, catalog, status, lock, refreshing, loader>>
  BY DEF Inv, ConnectSuperseded, HandsOK, Holding, config, Obsolete
<1>now. /\ n \in Servers /\ w \in Workers /\ c \in Conns /\ c = task[w].conn /\ conns[c].server = n /\ conns[c].phase # "starting"
        /\ c \notin registered \cup loader.todo /\ c # loader.conn
        /\ lock[n] = w /\ \A v \in Workers : v # w => task[v].conn # c
        /\ loader.at # "start"
        /\ w \in Reconcilers => n = w[2] /\ loader.at = "done"
  BY <1>act DEF Inv, Phased, LockOK, Locked, Exclusive, Holding, HandsOK
<1> HIDE DEF n, c
<1>task. /\ task' \in [Workers -> Task]
         /\ task'[w].at = "abandon" /\ task'[w].server = n /\ task'[w].conn = c
         /\ \A v \in Workers : v # w => task'[v] = task[v]
  BY <1>act, AwaitParts DEF Ats, Holding
<1>conns. /\ conns' \in [Conns -> Connection]
          /\ conns'[c].server = conns[c].server
          /\ conns'[c].phase \in {"closing", "gone"} /\ (conns'[c].broken => conns[c].broken)
          /\ conns[c].phase = "gone" => conns'[c].phase = "gone"
          /\ \A d \in Conns : d # c => Same(d)
  BY <1>act, AskedParts DEF Connection, Phases
<1>registered. registered' = registered
  BY <1>act
<1>catalog. catalog' = catalog
  BY <1>act
<1>epoch. epoch' = epoch
  BY <1>act
<1>lock. lock' = lock
  BY <1>act
<1>defs. /\ defs' = defs
         /\ version' = version
  BY <1>act
<1>loader. loader' = loader
  BY <1>act
<1>1. TypeOK'
  BY RegistryAssumption, <1>act, <1>now, <1>task, <1>conns, <1>registered, <1>catalog,
     <1>epoch, <1>lock, <1>defs, <1>loader
     DEF Inv, TypeOK, Phases, Definition, Connection
<1>2. HandsOK'
  BY RegistryAssumption, <1>now, <1>task, <1>registered, <1>loader DEF Inv, HandsOK, Holding
<1>3. Exclusive'
  BY RegistryAssumption, <1>now, <1>task, <1>registered, <1>loader
     DEF Inv, HandsOK, Exclusive, Holding
<1>4. Phased'
  BY RegistryAssumption, <1>now, <1>task, <1>conns, <1>registered, <1>loader
     DEF Inv, HandsOK, Exclusive, Phased, Holding, Same
<1>5. OneEach'
  BY RegistryAssumption, <1>now, <1>conns, <1>registered, <1>loader
     DEF Inv, HandsOK, OneEach, Phased, Clear, Same
<1>6. Turn'
  BY RegistryAssumption, <1>now, <1>task, <1>conns, <1>registered, <1>epoch, <1>loader
     DEF Inv, HandsOK, Exclusive, Phased, OneEach, Turn, Obsolete, Outdated, Clear, Holding,
         Same
<1>7. Catalogued'
  BY RegistryAssumption, <1>now, <1>conns, <1>registered, <1>catalog
     DEF Inv, HandsOK, Phased, Catalogued, Clear, Same
<1>8. LockOK'
  BY RegistryAssumption, <1>now, <1>task, <1>lock DEF Inv, LockOK, Locked, HandsOK
<1>9. Quiet'
  BY RegistryAssumption, <1>now, <1>task, <1>conns, <1>registered
     DEF Inv, HandsOK, Phased, Quiet, Locked, Same, Workers
<1>10. Fresh'
  BY RegistryAssumption, <1>now, <1>task, <1>conns, <1>epoch, <1>defs, <1>loader
     DEF Inv, HandsOK, Exclusive, Phased, Fresh, Locked, Obsolete, Outdated, BuiltFrom,
         Holding, Same
<1>11. NoOrphan'
  <2>1. SUFFICES ASSUME NEW e \in Conns, conns'[e].phase \in {"starting", "up"},
                        e \notin registered', e \notin loader'.todo
                 PROVE  \E v \in Workers : task'[v].at = "connect" /\ task'[v].conn = e
    BY DEF NoOrphan
  <2> QED
    BY RegistryAssumption, <1>now, <1>task, <1>conns, <1>registered, <1>loader, <2>1
       DEF Inv, HandsOK, Exclusive, Phased, NoOrphan, Holding, Same
<1> QED BY <1>1, <1>2, <1>3, <1>4, <1>5, <1>6, <1>7, <1>8, <1>9, <1>10, <1>11 DEF Inv

\* The disconnect of a host has ended.
LEMMA DisconnectedKeeps ==
  ASSUME Inv, NEW w \in Workers, Disconnected(w)
  PROVE  Inv'
<1>act. /\ TypeOK /\ HandsOK /\ task[w].at = "undo"
        /\ task' = [task EXCEPT ![w] = Idle]
        /\ UNCHANGED <<source, version, held, defs, epoch, conns, registered, catalog, lock, refreshing, loader>>
  BY DEF Inv, Disconnected, config
<1>now. conns[task[w].conn].phase \in {"closing", "gone"}
  BY <1>act DEF Inv, Phased, Holding
<1>task. /\ task' \in [Workers -> Task]
         /\ task'[w].at = "idle" /\ task'[w].conn \notin Conns
         /\ \A v \in Workers : v # w => task'[v] = task[v]
  BY <1>act, FinishParts
<1>conns. conns' = conns
  BY <1>act
<1>registered. registered' = registered
  BY <1>act
<1>catalog. catalog' = catalog
  BY <1>act
<1>epoch. epoch' = epoch
  BY <1>act
<1>lock. lock' = lock
  BY <1>act
<1>defs. /\ defs' = defs
         /\ version' = version
  BY <1>act
<1>loader. loader' = loader
  BY <1>act
<1>1. TypeOK'
  BY RegistryAssumption, <1>act, <1>now, <1>task, <1>conns, <1>registered, <1>catalog,
     <1>epoch, <1>lock, <1>defs, <1>loader
     DEF Inv, TypeOK, Phases, Definition, Connection
<1>2. HandsOK'
  BY RegistryAssumption, <1>now, <1>task, <1>registered, <1>loader DEF Inv, HandsOK, Holding
<1>3. Exclusive'
  BY RegistryAssumption, <1>now, <1>task, <1>registered, <1>loader
     DEF Inv, HandsOK, Exclusive, Holding
<1>4. Phased'
  BY RegistryAssumption, <1>now, <1>task, <1>conns, <1>registered, <1>loader
     DEF Inv, HandsOK, Exclusive, Phased, Holding, Same
<1>5. OneEach'
  BY RegistryAssumption, <1>now, <1>conns, <1>registered, <1>loader
     DEF Inv, HandsOK, OneEach, Phased, Clear, Same
<1>6. Turn'
  BY RegistryAssumption, <1>now, <1>task, <1>conns, <1>registered, <1>epoch, <1>loader
     DEF Inv, HandsOK, Exclusive, Phased, OneEach, Turn, Obsolete, Outdated, Clear, Holding,
         Same
<1>7. Catalogued'
  BY RegistryAssumption, <1>now, <1>conns, <1>registered, <1>catalog
     DEF Inv, HandsOK, Phased, Catalogued, Clear, Same
<1>8. LockOK'
  BY RegistryAssumption, <1>now, <1>task, <1>lock DEF Inv, LockOK, Locked, HandsOK
<1>9. Quiet'
  BY RegistryAssumption, <1>now, <1>task, <1>conns, <1>registered
     DEF Inv, HandsOK, Phased, Quiet, Locked, Same, Workers
<1>10. Fresh'
  BY RegistryAssumption, <1>now, <1>task, <1>conns, <1>epoch, <1>defs, <1>loader
     DEF Inv, HandsOK, Exclusive, Phased, Fresh, Locked, Obsolete, Outdated, BuiltFrom,
         Holding, Same
<1>11. NoOrphan'
  <2>1. SUFFICES ASSUME NEW e \in Conns, conns'[e].phase \in {"starting", "up"},
                        e \notin registered', e \notin loader'.todo
                 PROVE  \E v \in Workers : task'[v].at = "connect" /\ task'[v].conn = e
    BY DEF NoOrphan
  <2> QED
    BY RegistryAssumption, <1>now, <1>task, <1>conns, <1>registered, <1>loader, <2>1
       DEF Inv, HandsOK, Exclusive, Phased, NoOrphan, Holding, Same
<1> QED BY <1>1, <1>2, <1>3, <1>4, <1>5, <1>6, <1>7, <1>8, <1>9, <1>10, <1>11 DEF Inv

\* A disconnect or a revocation that failed registers the connection again, if not overtaken.
LEMMA StillOpenKeeps ==
  ASSUME Inv, NEW w \in Workers, StillOpen(w)
  PROVE  Inv'
<1> DEFINE n == task[w].server
           c == task[w].conn
<1>act. /\ TypeOK /\ HandsOK /\ n \in Servers /\ c \in Conns /\ task[w].at = "undo"
        /\ \/ epoch[n] = w /\ registered' = registered \cup {c}
           \/ registered' = registered
        /\ task' = [task EXCEPT ![w] = Idle]
        /\ lock' = IF w \in Reconcilers THEN [lock EXCEPT ![n] = None] ELSE lock
        /\ UNCHANGED <<source, version, held, defs, epoch, conns, catalog, refreshing, loader>>
  BY DEF Inv, StillOpen, Obsolete, config, HandsOK, Holding
<1>now. /\ n \in Servers /\ w \in Workers /\ c \in Conns /\ conns[c].server = n /\ conns[c].phase \in {"closing", "gone"}
        /\ c \notin registered \cup loader.todo /\ c # loader.conn
        /\ c = task[w].conn /\ \A v \in Workers : v # w => task[v].conn # c
        /\ epoch[n] = w => Clear(n)
        /\ w \in Reconcilers => \A v \in Workers : v # w /\ Locked(v) => task[v].server # n
        /\ loader.at # "start"
  BY <1>act DEF Inv, Phased, Turn, Obsolete, LockOK, Locked, Exclusive, Holding, HandsOK
<1> HIDE DEF n, c
<1>task. /\ task' \in [Workers -> Task]
         /\ task'[w].at = "idle" /\ task'[w].conn \notin Conns
         /\ \A v \in Workers : v # w => task'[v] = task[v]
  BY <1>act, FinishParts
<1>conns. conns' = conns
  BY <1>act
<1>registered. /\ registered \subseteq registered'
               /\ \A d \in registered' : d \in registered \/ (d = c /\ epoch[n] = w)
  BY <1>act
<1>catalog. catalog' = catalog
  BY <1>act
<1>epoch. epoch' = epoch
  BY <1>act
<1>lock. /\ w \notin Reconcilers => lock' = lock
         /\ w \in Reconcilers => lock'[n] = None
         /\ \A m \in Servers : m # n => lock'[m] = lock[m]
  BY <1>act DEF TypeOK
<1>defs. /\ defs' = defs
         /\ version' = version
  BY <1>act
<1>loader. loader' = loader
  BY <1>act
<1>1. TypeOK'
  BY RegistryAssumption, <1>act, <1>now, <1>task, <1>conns, <1>registered, <1>catalog,
     <1>epoch, <1>lock, <1>defs, <1>loader
     DEF Inv, TypeOK, Phases, Definition, Connection
<1>2. HandsOK'
  BY RegistryAssumption, <1>now, <1>task, <1>registered, <1>loader DEF Inv, HandsOK, Holding
<1>3. Exclusive'
  BY RegistryAssumption, <1>now, <1>task, <1>registered, <1>loader
     DEF Inv, HandsOK, Exclusive, Holding
<1>4. Phased'
  BY RegistryAssumption, <1>now, <1>task, <1>conns, <1>registered, <1>loader
     DEF Inv, HandsOK, Exclusive, Phased, Holding, Same
<1>5. OneEach'
  BY RegistryAssumption, <1>now, <1>conns, <1>registered, <1>loader
     DEF Inv, HandsOK, OneEach, Phased, Clear, Same
<1>6. Turn'
  BY RegistryAssumption, <1>now, <1>task, <1>conns, <1>registered, <1>epoch, <1>loader
     DEF Inv, HandsOK, Exclusive, Phased, OneEach, Turn, Obsolete, Outdated, Clear, Holding,
         Same
<1>7. Catalogued'
  BY RegistryAssumption, <1>now, <1>conns, <1>registered, <1>catalog
     DEF Inv, HandsOK, Phased, Catalogued, Clear, Same
<1>8. LockOK'
  BY RegistryAssumption, <1>now, <1>task, <1>lock DEF Inv, LockOK, Locked, HandsOK
<1>9. Quiet'
  BY RegistryAssumption, <1>now, <1>task, <1>conns, <1>registered
     DEF Inv, HandsOK, Phased, Quiet, Locked, Same, Workers
<1>10. Fresh'
  BY RegistryAssumption, <1>now, <1>task, <1>conns, <1>epoch, <1>defs, <1>loader
     DEF Inv, HandsOK, Exclusive, Phased, Fresh, Locked, Obsolete, Outdated, BuiltFrom,
         Holding, Same
<1>11. NoOrphan'
  <2>1. SUFFICES ASSUME NEW e \in Conns, conns'[e].phase \in {"starting", "up"},
                        e \notin registered', e \notin loader'.todo
                 PROVE  \E v \in Workers : task'[v].at = "connect" /\ task'[v].conn = e
    BY DEF NoOrphan
  <2> QED
    BY RegistryAssumption, <1>now, <1>task, <1>conns, <1>registered, <1>loader, <2>1
       DEF Inv, HandsOK, Exclusive, Phased, NoOrphan, Holding, Same
<1> QED BY <1>1, <1>2, <1>3, <1>4, <1>5, <1>6, <1>7, <1>8, <1>9, <1>10, <1>11 DEF Inv

\* A revocation finds nothing to take down.
LEMMA RevokeIdleKeeps ==
  ASSUME Inv, NEW w \in Workers, RevokeIdle(w)
  PROVE  Inv'
<1> DEFINE n == task[w].server
<1>act. /\ TypeOK /\ HandsOK /\ n \in Servers /\ task[w].at = "revoke" /\ lock[n] = None
        /\ Clear(n) /\ epoch' \in {epoch, [epoch EXCEPT ![n] = w]}
        /\ defs' = [defs EXCEPT ![n] = task[w].after] /\ task[w].after \in Definition
        /\ task' = [task EXCEPT ![w] = Idle]
        /\ lock' = [lock EXCEPT ![n] = None]
        /\ refreshing' = refreshing \ {n}
        /\ UNCHANGED <<source, version, held, conns, registered, catalog, loader>>
  BY OfParts DEF Inv, RevokeIdle, MayRevoke, Answer, Finish, config, HandsOK, Task
<1>now. /\ n \in Servers /\ w \in Workers /\ loader.todo = {}
        /\ \A v \in Workers : Locked(v) => task[v].server # n
        /\ Clear(n) /\ task[w].conn \notin Conns
  BY <1>act, RegistryAssumption DEF Inv, LockOK, HandsOK, Holding
<1> HIDE DEF n
<1>task. /\ task' \in [Workers -> Task]
         /\ task'[w].at = "idle" /\ task'[w].conn \notin Conns
         /\ \A v \in Workers : v # w => task'[v] = task[v]
  BY <1>act, FinishParts
<1>conns. conns' = conns
  BY <1>act
<1>registered. registered' = registered
  BY <1>act
<1>catalog. catalog' = catalog
  BY <1>act
<1>epoch. /\ epoch'[n] \in {epoch[n], w}
          /\ \A m \in Servers : m # n => epoch'[m] = epoch[m]
  BY <1>act DEF TypeOK
<1>lock. /\ lock'[n] = None
         /\ \A m \in Servers : m # n => lock'[m] = lock[m]
  BY <1>act DEF TypeOK
<1>defs. /\ defs'[n] \in Definition
         /\ \A m \in Servers : m # n => defs'[m] = defs[m]
         /\ version' = version
  BY <1>act DEF TypeOK
<1>loader. loader' = loader
  BY <1>act
<1>1. TypeOK'
  BY RegistryAssumption, <1>act, <1>now, <1>task, <1>conns, <1>registered, <1>catalog,
     <1>epoch, <1>lock, <1>defs, <1>loader
     DEF Inv, TypeOK, Phases, Definition, Connection
<1>2. HandsOK'
  BY RegistryAssumption, <1>now, <1>task, <1>registered, <1>loader DEF Inv, HandsOK, Holding
<1>3. Exclusive'
  BY RegistryAssumption, <1>now, <1>task, <1>registered, <1>loader
     DEF Inv, HandsOK, Exclusive, Holding
<1>4. Phased'
  BY RegistryAssumption, <1>now, <1>task, <1>conns, <1>registered, <1>loader
     DEF Inv, HandsOK, Exclusive, Phased, Holding, Same
<1>5. OneEach'
  BY RegistryAssumption, <1>now, <1>conns, <1>registered, <1>loader
     DEF Inv, HandsOK, OneEach, Phased, Clear, Same
<1>6. Turn'
  BY RegistryAssumption, <1>now, <1>task, <1>conns, <1>registered, <1>epoch, <1>loader
     DEF Inv, HandsOK, Exclusive, Phased, OneEach, Turn, Obsolete, Outdated, Clear, Holding,
         Same
<1>7. Catalogued'
  BY RegistryAssumption, <1>now, <1>conns, <1>registered, <1>catalog
     DEF Inv, HandsOK, Phased, Catalogued, Clear, Same
<1>8. LockOK'
  BY RegistryAssumption, <1>now, <1>task, <1>lock DEF Inv, LockOK, Locked, HandsOK
<1>9. Quiet'
  BY RegistryAssumption, <1>now, <1>task, <1>conns, <1>registered
     DEF Inv, HandsOK, Phased, Quiet, Locked, Same, Workers
<1>10. Fresh'
  BY RegistryAssumption, <1>now, <1>task, <1>conns, <1>epoch, <1>defs, <1>loader
     DEF Inv, HandsOK, Exclusive, Phased, Fresh, Locked, Obsolete, Outdated, BuiltFrom,
         Holding, Same
<1>11. NoOrphan'
  <2>1. SUFFICES ASSUME NEW e \in Conns, conns'[e].phase \in {"starting", "up"},
                        e \notin registered', e \notin loader'.todo
                 PROVE  \E v \in Workers : task'[v].at = "connect" /\ task'[v].conn = e
    BY DEF NoOrphan
  <2> QED
    BY RegistryAssumption, <1>now, <1>task, <1>conns, <1>registered, <1>loader, <2>1
       DEF Inv, HandsOK, Exclusive, Phased, NoOrphan, Holding, Same
<1> QED BY <1>1, <1>2, <1>3, <1>4, <1>5, <1>6, <1>7, <1>8, <1>9, <1>10, <1>11 DEF Inv

\* A revocation takes the connection out of the registry under the lock.
LEMMA RevokeKeeps ==
  ASSUME Inv, NEW w \in Workers, Revoke(w)
  PROVE  Inv'
<1> DEFINE n == task[w].server
<1>act. /\ TypeOK /\ HandsOK /\ n \in Servers /\ task[w].at = "revoke" /\ lock[n] = None
        /\ w \in Reconcilers /\ n = w[2] /\ loader.at = "done" /\ loader.todo = {}
        /\ defs' \in {defs, [defs EXCEPT ![n] = task[w].after]} /\ task[w].after \in Definition
        /\ epoch' = [epoch EXCEPT ![n] = w] /\ registered' = registered \ Of(n)
        /\ catalog' = [catalog EXCEPT ![n] = None] /\ lock' = [lock EXCEPT ![n] = w]
        /\ UNCHANGED <<source, version, held, refreshing, loader>>
  BY DEF Inv, Revoke, MayRevoke, TakeDown, config, HandsOK, Task
<1>revoke. PICK c \in Of(n) : conns' = Asked(c) /\ task' = [task EXCEPT ![w].at = "undo", ![w].conn = c]
  BY DEF Revoke
<1>now. /\ n \in Servers /\ w \in Reconcilers /\ n = w[2] /\ loader.at = "done" /\ loader.todo = {}
        /\ c \in Conns /\ c \in registered /\ conns[c].server = n
        /\ conns[c].phase # "starting" /\ task[w].at = "revoke"
        /\ \A d \in registered : conns[d].server = n => d = c
        /\ \A v \in Workers : Locked(v) => task[v].server # n
  BY <1>act, <1>revoke, RegistryAssumption DEF Inv, Of, TypeOK, LockOK, Phased, OneEach
<1> HIDE DEF n
<1>task. /\ task' \in [Workers -> Task]
         /\ task'[w].at = "undo" /\ task'[w].server = n /\ task'[w].conn = c
         /\ \A v \in Workers : v # w => task'[v] = task[v]
  BY <1>act, <1>revoke, <1>now DEF HandsOK, Task, Ats, Holding
<1>conns. /\ conns' \in [Conns -> Connection]
          /\ conns'[c].server = conns[c].server
          /\ conns'[c].phase \in {"closing", "gone"} /\ (conns'[c].broken => conns[c].broken)
          /\ conns[c].phase = "gone" => conns'[c].phase = "gone"
          /\ \A d \in Conns : d # c => Same(d)
  BY <1>act, <1>revoke, <1>now, AskedParts DEF Connection, Phases
<1>registered. \A d : d \in registered' <=> d \in registered /\ conns[d].server # n
  BY <1>act DEF Of
<1>catalog. /\ catalog'[n] = None
            /\ \A m \in Servers : m # n => catalog'[m] = catalog[m]
  BY <1>act DEF TypeOK
<1>epoch. /\ epoch'[n] = w
          /\ \A m \in Servers : m # n => epoch'[m] = epoch[m]
  BY <1>act DEF TypeOK
<1>lock. /\ lock'[n] = w
         /\ \A m \in Servers : m # n => lock'[m] = lock[m]
  BY <1>act DEF TypeOK
<1>defs. /\ defs'[n] \in Definition
         /\ \A m \in Servers : m # n => defs'[m] = defs[m]
         /\ version' = version
  BY <1>act DEF TypeOK, Definition
<1>loader. loader' = loader
  BY <1>act
<1>1. TypeOK'
  BY RegistryAssumption, <1>act, <1>now, <1>task, <1>conns, <1>registered, <1>catalog,
     <1>epoch, <1>lock, <1>defs, <1>loader
     DEF Inv, TypeOK, Phases, Definition, Connection
<1>2. HandsOK'
  BY RegistryAssumption, <1>now, <1>task, <1>registered, <1>loader DEF Inv, HandsOK, Holding
<1>3. Exclusive'
  BY RegistryAssumption, <1>now, <1>task, <1>registered, <1>loader
     DEF Inv, HandsOK, Exclusive, Holding
<1>4. Phased'
  BY RegistryAssumption, <1>now, <1>task, <1>conns, <1>registered, <1>loader
     DEF Inv, HandsOK, Exclusive, Phased, Holding, Same
<1>5. OneEach'
  BY RegistryAssumption, <1>now, <1>conns, <1>registered, <1>loader
     DEF Inv, HandsOK, OneEach, Phased, Clear, Same
<1>6. Turn'
  BY RegistryAssumption, <1>now, <1>task, <1>conns, <1>registered, <1>epoch, <1>loader
     DEF Inv, HandsOK, Exclusive, Phased, OneEach, Turn, Obsolete, Outdated, Clear, Holding,
         Same
<1>7. Catalogued'
  BY RegistryAssumption, <1>now, <1>conns, <1>registered, <1>catalog
     DEF Inv, HandsOK, Phased, Catalogued, Clear, Same
<1>8. LockOK'
  BY RegistryAssumption, <1>now, <1>task, <1>lock DEF Inv, LockOK, Locked, HandsOK
<1>9. Quiet'
  BY RegistryAssumption, <1>now, <1>task, <1>conns, <1>registered
     DEF Inv, HandsOK, Phased, Quiet, Locked, Same, Workers
<1>10. Fresh'
  BY RegistryAssumption, <1>now, <1>task, <1>conns, <1>epoch, <1>defs, <1>loader
     DEF Inv, HandsOK, Exclusive, Phased, Fresh, Locked, Obsolete, Outdated, BuiltFrom,
         Holding, Same
<1>11. NoOrphan'
  <2>1. SUFFICES ASSUME NEW e \in Conns, conns'[e].phase \in {"starting", "up"},
                        e \notin registered', e \notin loader'.todo
                 PROVE  \E v \in Workers : task'[v].at = "connect" /\ task'[v].conn = e
    BY DEF NoOrphan
  <2> QED
    BY RegistryAssumption, <1>now, <1>task, <1>conns, <1>registered, <1>loader, <2>1
       DEF Inv, HandsOK, Exclusive, Phased, NoOrphan, Holding, Same
<1> QED BY <1>1, <1>2, <1>3, <1>4, <1>5, <1>6, <1>7, <1>8, <1>9, <1>10, <1>11 DEF Inv

\* A revocation has seen its connection close.
LEMMA RevokedKeeps ==
  ASSUME Inv, NEW w \in Workers, Revoked(w)
  PROVE  Inv'
<1> DEFINE n == task[w].server
<1>act. /\ TypeOK /\ HandsOK /\ n \in Servers /\ task[w].at = "undo" /\ w \in Reconcilers /\ loader.todo = {}
        /\ defs' = [defs EXCEPT ![n] = task[w].after] /\ task[w].after \in Definition
        /\ task' = [task EXCEPT ![w] = Idle]
        /\ lock' = [lock EXCEPT ![n] = None]
        /\ refreshing' = refreshing \ {n}
        /\ UNCHANGED <<source, version, held, epoch, conns, registered, catalog, loader>>
  BY DEF Inv, Revoked, Answer, Finish, config, HandsOK, Task
<1>now. /\ n \in Servers /\ loader.todo = {}
        /\ \A v \in Workers : v # w /\ Locked(v) => task[v].server # n
  BY <1>act DEF Inv, LockOK, Locked
<1> HIDE DEF n
<1>task. /\ task' \in [Workers -> Task]
         /\ task'[w].at = "idle" /\ task'[w].conn \notin Conns
         /\ \A v \in Workers : v # w => task'[v] = task[v]
  BY <1>act, FinishParts
<1>conns. /\ conns' = conns
          /\ conns[task[w].conn].phase \in {"closing", "gone"}
  BY <1>act DEF Inv, Phased, Holding
<1>registered. registered' = registered
  BY <1>act
<1>catalog. catalog' = catalog
  BY <1>act
<1>epoch. epoch' = epoch
  BY <1>act
<1>lock. /\ lock'[n] = None
         /\ \A m \in Servers : m # n => lock'[m] = lock[m]
  BY <1>act DEF TypeOK
<1>defs. /\ defs'[n] \in Definition
         /\ \A m \in Servers : m # n => defs'[m] = defs[m]
         /\ version' = version
  BY <1>act DEF TypeOK
<1>loader. loader' = loader
  BY <1>act
<1>1. TypeOK'
  BY RegistryAssumption, <1>act, <1>now, <1>task, <1>conns, <1>registered, <1>catalog,
     <1>epoch, <1>lock, <1>defs, <1>loader
     DEF Inv, TypeOK, Phases, Definition, Connection
<1>2. HandsOK'
  BY RegistryAssumption, <1>now, <1>task, <1>registered, <1>loader DEF Inv, HandsOK, Holding
<1>3. Exclusive'
  BY RegistryAssumption, <1>now, <1>task, <1>registered, <1>loader
     DEF Inv, HandsOK, Exclusive, Holding
<1>4. Phased'
  BY RegistryAssumption, <1>now, <1>task, <1>conns, <1>registered, <1>loader
     DEF Inv, HandsOK, Exclusive, Phased, Holding, Same
<1>5. OneEach'
  BY RegistryAssumption, <1>now, <1>conns, <1>registered, <1>loader
     DEF Inv, HandsOK, OneEach, Phased, Clear, Same
<1>6. Turn'
  BY RegistryAssumption, <1>now, <1>task, <1>conns, <1>registered, <1>epoch, <1>loader
     DEF Inv, HandsOK, Exclusive, Phased, OneEach, Turn, Obsolete, Outdated, Clear, Holding,
         Same
<1>7. Catalogued'
  BY RegistryAssumption, <1>now, <1>conns, <1>registered, <1>catalog
     DEF Inv, HandsOK, Phased, Catalogued, Clear, Same
<1>8. LockOK'
  BY RegistryAssumption, <1>now, <1>task, <1>lock DEF Inv, LockOK, Locked, HandsOK
<1>9. Quiet'
  BY RegistryAssumption, <1>now, <1>task, <1>conns, <1>registered
     DEF Inv, HandsOK, Phased, Quiet, Locked, Same, Workers
<1>10. Fresh'
  BY RegistryAssumption, <1>now, <1>task, <1>conns, <1>epoch, <1>defs, <1>loader
     DEF Inv, HandsOK, Exclusive, Phased, Fresh, Locked, Obsolete, Outdated, BuiltFrom,
         Holding, Same
<1>11. NoOrphan'
  <2>1. SUFFICES ASSUME NEW e \in Conns, conns'[e].phase \in {"starting", "up"},
                        e \notin registered', e \notin loader'.todo
                 PROVE  \E v \in Workers : task'[v].at = "connect" /\ task'[v].conn = e
    BY DEF NoOrphan
  <2> QED
    BY RegistryAssumption, <1>now, <1>task, <1>conns, <1>registered, <1>loader, <2>1
       DEF Inv, HandsOK, Exclusive, Phased, NoOrphan, Holding, Same
<1> QED BY <1>1, <1>2, <1>3, <1>4, <1>5, <1>6, <1>7, <1>8, <1>9, <1>10, <1>11 DEF Inv

\* A host asks for a reconnect.
LEMMA CallReconnectKeeps ==
  ASSUME Inv, NEW w \in Workers, NEW n \in Servers, CallReconnect(w, n)
  PROVE  Inv'
<1>act. /\ TypeOK /\ HandsOK /\ w \in Callers /\ w \notin Reconcilers /\ task[w] = Idle /\ loader.at # "start"
        /\ task' = [task EXCEPT ![w] = [Idle EXCEPT !.at = "reconnect", !.server = n]]
        /\ UNCHANGED <<source, version, held, defs, epoch, conns, registered, catalog, lock, refreshing, loader>>
  BY RegistryAssumption DEF Inv, CallReconnect, Begin, config
<1>now. w \notin Reconcilers /\ loader.at # "start" /\ task[w].at = "idle"
  BY <1>act, IdleParts
<1>task. /\ task' \in [Workers -> Task]
         /\ task'[w].at = "reconnect" /\ task'[w].server = n
         /\ task'[w].conn = None /\ None \notin Conns
         /\ \A v \in Workers : v # w => task'[v] = task[v]
  <2> DEFINE t == [Idle EXCEPT !.at = "reconnect", !.server = n]
  <2>1. Idle \in Task /\ Idle.conn = None /\ None \notin Conns
    BY IdleParts
  <2>2. t \in Task /\ t.at = "reconnect" /\ t.server = n /\ t.conn = None
    BY <2>1 DEF Task, Ats
  <2> HIDE DEF t
  <2>3. task' = [task EXCEPT ![w] = t]
    BY <1>act DEF t
  <2> QED BY <1>act, <2>1, <2>2, <2>3 DEF HandsOK
<1>conns. conns' = conns
  BY <1>act
<1>registered. registered' = registered
  BY <1>act
<1>catalog. catalog' = catalog
  BY <1>act
<1>epoch. epoch' = epoch
  BY <1>act
<1>lock. lock' = lock
  BY <1>act
<1>defs. /\ defs' = defs
         /\ version' = version
  BY <1>act
<1>loader. loader' = loader
  BY <1>act
<1>1. TypeOK'
  BY RegistryAssumption, <1>act, <1>now, <1>task, <1>conns, <1>registered, <1>catalog,
     <1>epoch, <1>lock, <1>defs, <1>loader
     DEF Inv, TypeOK, Phases, Definition, Connection
<1>2. HandsOK'
  BY RegistryAssumption, <1>now, <1>task, <1>registered, <1>loader DEF Inv, HandsOK, Holding
<1>3. Exclusive'
  BY RegistryAssumption, <1>now, <1>task, <1>registered, <1>loader
     DEF Inv, HandsOK, Exclusive, Holding
<1>4. Phased'
  BY RegistryAssumption, <1>now, <1>task, <1>conns, <1>registered, <1>loader
     DEF Inv, HandsOK, Exclusive, Phased, Holding, Same
<1>5. OneEach'
  BY RegistryAssumption, <1>now, <1>conns, <1>registered, <1>loader
     DEF Inv, HandsOK, OneEach, Phased, Clear, Same
<1>6. Turn'
  BY RegistryAssumption, <1>now, <1>task, <1>conns, <1>registered, <1>epoch, <1>loader
     DEF Inv, HandsOK, Exclusive, Phased, OneEach, Turn, Obsolete, Outdated, Clear, Holding,
         Same
<1>7. Catalogued'
  BY RegistryAssumption, <1>now, <1>conns, <1>registered, <1>catalog
     DEF Inv, HandsOK, Phased, Catalogued, Clear, Same
<1>8. LockOK'
  BY RegistryAssumption, <1>now, <1>task, <1>lock DEF Inv, LockOK, Locked, HandsOK
<1>9. Quiet'
  BY RegistryAssumption, <1>now, <1>task, <1>conns, <1>registered
     DEF Inv, HandsOK, Phased, Quiet, Locked, Same, Workers
<1>10. Fresh'
  BY RegistryAssumption, <1>now, <1>task, <1>conns, <1>epoch, <1>defs, <1>loader
     DEF Inv, HandsOK, Exclusive, Phased, Fresh, Locked, Obsolete, Outdated, BuiltFrom,
         Holding, Same
<1>11. NoOrphan'
  <2>1. SUFFICES ASSUME NEW e \in Conns, conns'[e].phase \in {"starting", "up"},
                        e \notin registered', e \notin loader'.todo
                 PROVE  \E v \in Workers : task'[v].at = "connect" /\ task'[v].conn = e
    BY DEF NoOrphan
  <2> QED
    BY RegistryAssumption, <1>now, <1>task, <1>conns, <1>registered, <1>loader, <2>1
       DEF Inv, HandsOK, Exclusive, Phased, NoOrphan, Holding, Same
<1> QED BY <1>1, <1>2, <1>3, <1>4, <1>5, <1>6, <1>7, <1>8, <1>9, <1>10, <1>11 DEF Inv

\* connect() of a connection succeeds or fails.
LEMMA StartedKeeps ==
  ASSUME Inv, NEW c \in Conns, Started(c)
  PROVE  Inv'
<1>act. /\ TypeOK /\ conns[c].phase = "starting"
        /\ UNCHANGED <<source, version, held, defs, epoch, registered, catalog, lock, refreshing, task, loader>>
  BY DEF Inv, Started, config
<1>now. c \in Conns /\ c \notin registered /\ conns[c].phase = "starting"
  BY <1>act DEF Inv, Phased
<1>task. task' = task
  BY <1>act
<1>conns. /\ conns' \in [Conns -> Connection] /\ conns'[c].server = conns[c].server
          /\ \/ /\ conns'[c].phase = "up" /\ conns'[c].broken = conns[c].broken
                /\ conns'[c].config = conns[c].config /\ conns'[c].cred = conns[c].cred
             \/ conns'[c].phase = "gone"
          /\ \A d \in Conns : d # c => Same(d)
  <2>1. CASE conns' = [conns EXCEPT ![c].phase = "up"]
    BY <1>act, <2>1 DEF TypeOK, Connection, Phases, Same
  <2>2. ASSUME NEW bad \in BOOLEAN, conns' = [conns EXCEPT ![c] = Ended(c, bad)]
        PROVE  /\ conns' \in [Conns -> Connection] /\ conns'[c].server = conns[c].server
               /\ conns'[c].phase = "gone"
               /\ \A d \in Conns : d # c => Same(d)
    BY <1>act, <2>2, EndedParts DEF TypeOK, Connection, Same
  <2> QED BY <2>1, <2>2 DEF Started
<1>registered. registered' = registered
  BY <1>act
<1>catalog. catalog' = catalog
  BY <1>act
<1>epoch. epoch' = epoch
  BY <1>act
<1>lock. lock' = lock
  BY <1>act
<1>defs. /\ defs' = defs
         /\ version' = version
  BY <1>act
<1>loader. loader' = loader
  BY <1>act
<1>1. TypeOK'
  BY RegistryAssumption, <1>act, <1>now, <1>task, <1>conns, <1>registered, <1>catalog,
     <1>epoch, <1>lock, <1>defs, <1>loader
     DEF Inv, TypeOK, Phases, Definition, Connection
<1>2. HandsOK'
  BY RegistryAssumption, <1>now, <1>task, <1>registered, <1>loader DEF Inv, HandsOK, Holding
<1>3. Exclusive'
  BY RegistryAssumption, <1>now, <1>task, <1>registered, <1>loader
     DEF Inv, HandsOK, Exclusive, Holding
<1>4. Phased'
  BY RegistryAssumption, <1>now, <1>task, <1>conns, <1>registered, <1>loader
     DEF Inv, HandsOK, Exclusive, Phased, Holding, Same
<1>5. OneEach'
  BY RegistryAssumption, <1>now, <1>conns, <1>registered, <1>loader
     DEF Inv, HandsOK, OneEach, Phased, Clear, Same
<1>6. Turn'
  BY RegistryAssumption, <1>now, <1>task, <1>conns, <1>registered, <1>epoch, <1>loader
     DEF Inv, HandsOK, Exclusive, Phased, OneEach, Turn, Obsolete, Outdated, Clear, Holding,
         Same
<1>7. Catalogued'
  BY RegistryAssumption, <1>now, <1>conns, <1>registered, <1>catalog
     DEF Inv, HandsOK, Phased, Catalogued, Clear, Same
<1>8. LockOK'
  BY RegistryAssumption, <1>now, <1>task, <1>lock DEF Inv, LockOK, Locked, HandsOK
<1>9. Quiet'
  BY RegistryAssumption, <1>now, <1>task, <1>conns, <1>registered
     DEF Inv, HandsOK, Phased, Quiet, Locked, Same, Workers
<1>10. Fresh'
  BY RegistryAssumption, <1>now, <1>task, <1>conns, <1>epoch, <1>defs, <1>loader
     DEF Inv, HandsOK, Exclusive, Phased, Fresh, Locked, Obsolete, Outdated, BuiltFrom,
         Holding, Same
<1>11. NoOrphan'
  <2>1. SUFFICES ASSUME NEW e \in Conns, conns'[e].phase \in {"starting", "up"},
                        e \notin registered', e \notin loader'.todo
                 PROVE  \E v \in Workers : task'[v].at = "connect" /\ task'[v].conn = e
    BY DEF NoOrphan
  <2> QED
    BY RegistryAssumption, <1>now, <1>task, <1>conns, <1>registered, <1>loader, <2>1
       DEF Inv, HandsOK, Exclusive, Phased, NoOrphan, Holding, Same
<1> QED BY <1>1, <1>2, <1>3, <1>4, <1>5, <1>6, <1>7, <1>8, <1>9, <1>10, <1>11 DEF Inv

\* The owner of a connection loses the transport and takes the tools out of the catalog.
LEMMA LostKeeps ==
  ASSUME Inv, NEW c \in Conns, Lost(c)
  PROVE  Inv'
<1>act. /\ TypeOK /\ conns[c].phase = "up"
        /\ catalog' = IF c \in registered THEN [catalog EXCEPT ![conns[c].server] = None] ELSE catalog
        /\ UNCHANGED <<source, version, held, defs, epoch, registered, lock, refreshing, task, loader>>
  BY DEF Inv, Lost, config
<1>now. /\ c \in Conns /\ conns[c].phase = "up"
        /\ c \in registered => conns[c].server \in Servers
  BY <1>act DEF Inv, Phased
<1>task. task' = task
  BY <1>act
<1>conns. /\ conns' \in [Conns -> Connection] /\ conns'[c].server = conns[c].server
          /\ conns'[c].phase = "closing" /\ conns'[c].broken = conns[c].broken
          /\ \A d \in Conns : d # c => Same(d)
  <2>1. conns[c] \in Connection /\ conns \in [Conns -> Connection]
    BY <1>act DEF TypeOK, Connection
  <2> DEFINE x == [conns[c] EXCEPT !.phase = "closing", !.lost = TRUE]
  <2>2. x \in Connection /\ x.server = conns[c].server /\ x.broken = conns[c].broken /\ x.phase = "closing"
    BY <2>1 DEF Connection, Phases
  <2> HIDE DEF x
  <2>3. conns' = [conns EXCEPT ![c] = x]
    BY <2>1 DEF Lost, x
  <2> QED BY <2>1, <2>2, <2>3 DEF Same
<1>registered. registered' = registered
  BY <1>act
<1>catalog. /\ c \in registered => catalog'[conns[c].server] = None
            /\ c \notin registered => catalog' = catalog
            /\ \A m \in Servers : m # conns[c].server => catalog'[m] = catalog[m]
  BY <1>act, <1>now DEF TypeOK
<1>epoch. epoch' = epoch
  BY <1>act
<1>lock. lock' = lock
  BY <1>act
<1>defs. /\ defs' = defs
         /\ version' = version
  BY <1>act
<1>loader. loader' = loader
  BY <1>act
<1>1. TypeOK'
  BY RegistryAssumption, <1>act, <1>now, <1>task, <1>conns, <1>registered, <1>catalog,
     <1>epoch, <1>lock, <1>defs, <1>loader
     DEF Inv, TypeOK, Phases, Definition, Connection
<1>2. HandsOK'
  BY RegistryAssumption, <1>now, <1>task, <1>registered, <1>loader DEF Inv, HandsOK, Holding
<1>3. Exclusive'
  BY RegistryAssumption, <1>now, <1>task, <1>registered, <1>loader
     DEF Inv, HandsOK, Exclusive, Holding
<1>4. Phased'
  BY RegistryAssumption, <1>now, <1>task, <1>conns, <1>registered, <1>loader
     DEF Inv, HandsOK, Exclusive, Phased, Holding, Same
<1>5. OneEach'
  BY RegistryAssumption, <1>now, <1>conns, <1>registered, <1>loader
     DEF Inv, HandsOK, OneEach, Phased, Clear, Same
<1>6. Turn'
  BY RegistryAssumption, <1>now, <1>task, <1>conns, <1>registered, <1>epoch, <1>loader
     DEF Inv, HandsOK, Exclusive, Phased, OneEach, Turn, Obsolete, Outdated, Clear, Holding,
         Same
<1>7. Catalogued'
  BY RegistryAssumption, <1>now, <1>conns, <1>registered, <1>catalog
     DEF Inv, HandsOK, Phased, Catalogued, Clear, Same
<1>8. LockOK'
  BY RegistryAssumption, <1>now, <1>task, <1>lock DEF Inv, LockOK, Locked, HandsOK
<1>9. Quiet'
  BY RegistryAssumption, <1>now, <1>task, <1>conns, <1>registered
     DEF Inv, HandsOK, Phased, Quiet, Locked, Same, Workers
<1>10. Fresh'
  BY RegistryAssumption, <1>now, <1>task, <1>conns, <1>epoch, <1>defs, <1>loader
     DEF Inv, HandsOK, Exclusive, Phased, Fresh, Locked, Obsolete, Outdated, BuiltFrom,
         Holding, Same
<1>11. NoOrphan'
  <2>1. SUFFICES ASSUME NEW e \in Conns, conns'[e].phase \in {"starting", "up"},
                        e \notin registered', e \notin loader'.todo
                 PROVE  \E v \in Workers : task'[v].at = "connect" /\ task'[v].conn = e
    BY DEF NoOrphan
  <2> QED
    BY RegistryAssumption, <1>now, <1>task, <1>conns, <1>registered, <1>loader, <2>1
       DEF Inv, HandsOK, Exclusive, Phased, NoOrphan, Holding, Same
<1> QED BY <1>1, <1>2, <1>3, <1>4, <1>5, <1>6, <1>7, <1>8, <1>9, <1>10, <1>11 DEF Inv

\* The owner of a connection has closed the transport.
LEMMA CloseEndsKeeps ==
  ASSUME Inv, NEW c \in Conns, CloseEnds(c)
  PROVE  Inv'
<1>act. /\ TypeOK /\ conns[c].phase = "closing"
        /\ UNCHANGED <<source, version, held, defs, epoch, registered, catalog, lock, refreshing, task, loader>>
  BY DEF Inv, CloseEnds, config
<1>now. c \in Conns /\ conns[c].phase = "closing"
  BY <1>act
<1>task. task' = task
  BY <1>act
<1>conns. /\ conns' \in [Conns -> Connection] /\ conns'[c].server = conns[c].server
          /\ conns'[c].phase = "gone"
          /\ \A d \in Conns : d # c => Same(d)
  <2>1. PICK bad \in BOOLEAN : conns' = [conns EXCEPT ![c] = Ended(c, bad)]
    BY DEF CloseEnds
  <2> QED BY <1>act, <2>1, EndedParts DEF TypeOK, Connection, Same
<1>registered. registered' = registered
  BY <1>act
<1>catalog. catalog' = catalog
  BY <1>act
<1>epoch. epoch' = epoch
  BY <1>act
<1>lock. lock' = lock
  BY <1>act
<1>defs. /\ defs' = defs
         /\ version' = version
  BY <1>act
<1>loader. loader' = loader
  BY <1>act
<1>1. TypeOK'
  BY RegistryAssumption, <1>act, <1>now, <1>task, <1>conns, <1>registered, <1>catalog,
     <1>epoch, <1>lock, <1>defs, <1>loader
     DEF Inv, TypeOK, Phases, Definition, Connection
<1>2. HandsOK'
  BY RegistryAssumption, <1>now, <1>task, <1>registered, <1>loader DEF Inv, HandsOK, Holding
<1>3. Exclusive'
  BY RegistryAssumption, <1>now, <1>task, <1>registered, <1>loader
     DEF Inv, HandsOK, Exclusive, Holding
<1>4. Phased'
  BY RegistryAssumption, <1>now, <1>task, <1>conns, <1>registered, <1>loader
     DEF Inv, HandsOK, Exclusive, Phased, Holding, Same
<1>5. OneEach'
  BY RegistryAssumption, <1>now, <1>conns, <1>registered, <1>loader
     DEF Inv, HandsOK, OneEach, Phased, Clear, Same
<1>6. Turn'
  BY RegistryAssumption, <1>now, <1>task, <1>conns, <1>registered, <1>epoch, <1>loader
     DEF Inv, HandsOK, Exclusive, Phased, OneEach, Turn, Obsolete, Outdated, Clear, Holding,
         Same
<1>7. Catalogued'
  BY RegistryAssumption, <1>now, <1>conns, <1>registered, <1>catalog
     DEF Inv, HandsOK, Phased, Catalogued, Clear, Same
<1>8. LockOK'
  BY RegistryAssumption, <1>now, <1>task, <1>lock DEF Inv, LockOK, Locked, HandsOK
<1>9. Quiet'
  BY RegistryAssumption, <1>now, <1>task, <1>conns, <1>registered
     DEF Inv, HandsOK, Phased, Quiet, Locked, Same, Workers
<1>10. Fresh'
  BY RegistryAssumption, <1>now, <1>task, <1>conns, <1>epoch, <1>defs, <1>loader
     DEF Inv, HandsOK, Exclusive, Phased, Fresh, Locked, Obsolete, Outdated, BuiltFrom,
         Holding, Same
<1>11. NoOrphan'
  <2>1. SUFFICES ASSUME NEW e \in Conns, conns'[e].phase \in {"starting", "up"},
                        e \notin registered', e \notin loader'.todo
                 PROVE  \E v \in Workers : task'[v].at = "connect" /\ task'[v].conn = e
    BY DEF NoOrphan
  <2> QED
    BY RegistryAssumption, <1>now, <1>task, <1>conns, <1>registered, <1>loader, <2>1
       DEF Inv, HandsOK, Exclusive, Phased, NoOrphan, Holding, Same
<1> QED BY <1>1, <1>2, <1>3, <1>4, <1>5, <1>6, <1>7, <1>8, <1>9, <1>10, <1>11 DEF Inv

\* The files change: nothing but a reconcile or a reconnect looks at them.
LEMMA EditSourceKeeps ==
  ASSUME Inv, NEW n \in Servers, EditSource(n)
  PROVE  Inv'
<1>act. /\ TypeOK /\ source' \in [Servers -> {"absent", "off"} \cup Configs]
        /\ UNCHANGED <<version, held, defs, epoch, conns, registered, catalog, lock, refreshing, task, loader>>
  BY DEF Inv, TypeOK, EditSource
<1>task. task' = task
  BY <1>act
<1>conns. conns' = conns
  BY <1>act
<1>registered. registered' = registered
  BY <1>act
<1>catalog. catalog' = catalog
  BY <1>act
<1>epoch. epoch' = epoch
  BY <1>act
<1>lock. lock' = lock
  BY <1>act
<1>defs. /\ defs' = defs
         /\ version' = version
  BY <1>act
<1>loader. loader' = loader
  BY <1>act
<1>1. TypeOK'
  BY RegistryAssumption, <1>act, <1>task, <1>conns, <1>registered, <1>catalog, <1>epoch,
     <1>lock, <1>defs, <1>loader
     DEF Inv, TypeOK, Phases, Definition, Connection
<1>2. HandsOK'
  BY RegistryAssumption, <1>task, <1>registered, <1>loader DEF Inv, HandsOK, Holding
<1>3. Exclusive'
  BY RegistryAssumption, <1>task, <1>registered, <1>loader
     DEF Inv, HandsOK, Exclusive, Holding
<1>4. Phased'
  BY RegistryAssumption, <1>task, <1>conns, <1>registered, <1>loader
     DEF Inv, HandsOK, Exclusive, Phased, Holding, Same
<1>5. OneEach'
  BY RegistryAssumption, <1>conns, <1>registered, <1>loader
     DEF Inv, HandsOK, OneEach, Phased, Clear, Same
<1>6. Turn'
  BY RegistryAssumption, <1>task, <1>conns, <1>registered, <1>epoch, <1>loader
     DEF Inv, HandsOK, Exclusive, Phased, OneEach, Turn, Obsolete, Outdated, Clear, Holding,
         Same
<1>7. Catalogued'
  BY RegistryAssumption, <1>conns, <1>registered, <1>catalog
     DEF Inv, HandsOK, Phased, Catalogued, Clear, Same
<1>8. LockOK'
  BY RegistryAssumption, <1>task, <1>lock DEF Inv, LockOK, Locked, HandsOK
<1>9. Quiet'
  BY RegistryAssumption, <1>task, <1>conns, <1>registered
     DEF Inv, HandsOK, Phased, Quiet, Locked, Same, Workers
<1>10. Fresh'
  BY RegistryAssumption, <1>task, <1>conns, <1>epoch, <1>defs, <1>loader
     DEF Inv, HandsOK, Exclusive, Phased, Fresh, Locked, Obsolete, Outdated, BuiltFrom,
         Holding, Same
<1>11. NoOrphan'
  <2>1. SUFFICES ASSUME NEW e \in Conns, conns'[e].phase \in {"starting", "up"},
                        e \notin registered', e \notin loader'.todo
                 PROVE  \E v \in Workers : task'[v].at = "connect" /\ task'[v].conn = e
    BY DEF NoOrphan
  <2> QED
    BY RegistryAssumption, <1>task, <1>conns, <1>registered, <1>loader, <2>1
       DEF Inv, HandsOK, Exclusive, Phased, NoOrphan, Holding, Same
<1> QED BY <1>1, <1>2, <1>3, <1>4, <1>5, <1>6, <1>7, <1>8, <1>9, <1>10, <1>11 DEF Inv

\* A credential changes, and takes the epoch from all who work with the old one
\* (Fresh would not survive otherwise).
LEMMA SetCredentialKeeps ==
  ASSUME Inv, NEW n \in Servers, SetCredential(n)
  PROVE  Inv'
<1>act. /\ TypeOK /\ held' \in [Servers -> BOOLEAN]
        /\ version' \in [Servers -> 0..MaxVersion]
        /\ epoch' = IF defs[n].config = "absent" THEN epoch ELSE [epoch EXCEPT ![n] = None]
        /\ UNCHANGED <<source, defs, conns, registered, catalog, lock, refreshing, task, loader>>
  BY RegistryAssumption DEF Inv, TypeOK, SetCredential, Superseded
<1>task. task' = task
  BY <1>act
<1>conns. conns' = conns
  BY <1>act
<1>registered. registered' = registered
  BY <1>act
<1>catalog. catalog' = catalog
  BY <1>act
<1>epoch. /\ \A m \in Servers : epoch'[m] # None => epoch'[m] = epoch[m]
          /\ \A m \in Servers : epoch'[m] # None => m # n \/ defs[n].config \notin Configs
  BY <1>act, RegistryAssumption DEF TypeOK
<1>lock. lock' = lock
  BY <1>act
<1>defs. /\ defs' = defs
         /\ \A m \in Servers : m # n => version'[m] = version[m]
  BY <1>act DEF Inv, TypeOK, SetCredential
<1>loader. loader' = loader
  BY <1>act
<1>1. TypeOK'
  BY RegistryAssumption, <1>act, <1>task, <1>conns, <1>registered, <1>catalog, <1>epoch,
     <1>lock, <1>defs, <1>loader
     DEF Inv, TypeOK, Phases, Definition, Connection
<1>2. HandsOK'
  BY RegistryAssumption, <1>task, <1>registered, <1>loader DEF Inv, HandsOK, Holding
<1>3. Exclusive'
  BY RegistryAssumption, <1>task, <1>registered, <1>loader
     DEF Inv, HandsOK, Exclusive, Holding
<1>4. Phased'
  BY RegistryAssumption, <1>task, <1>conns, <1>registered, <1>loader
     DEF Inv, HandsOK, Exclusive, Phased, Holding, Same
<1>5. OneEach'
  BY RegistryAssumption, <1>conns, <1>registered, <1>loader
     DEF Inv, HandsOK, OneEach, Phased, Clear, Same
<1>6. Turn'
  BY RegistryAssumption, <1>task, <1>conns, <1>registered, <1>epoch, <1>loader
     DEF Inv, HandsOK, Exclusive, Phased, OneEach, Turn, Obsolete, Outdated, Clear, Holding,
         Same
<1>7. Catalogued'
  BY RegistryAssumption, <1>conns, <1>registered, <1>catalog
     DEF Inv, HandsOK, Phased, Catalogued, Clear, Same
<1>8. LockOK'
  BY RegistryAssumption, <1>task, <1>lock DEF Inv, LockOK, Locked, HandsOK
<1>9. Quiet'
  BY RegistryAssumption, <1>task, <1>conns, <1>registered
     DEF Inv, HandsOK, Phased, Quiet, Locked, Same, Workers
<1>10. Fresh'
  BY RegistryAssumption, <1>task, <1>conns, <1>epoch, <1>defs, <1>loader
     DEF Inv, HandsOK, Exclusive, Phased, Fresh, Locked, Obsolete, Outdated, BuiltFrom,
         Holding, Same
<1>11. NoOrphan'
  <2>1. SUFFICES ASSUME NEW e \in Conns, conns'[e].phase \in {"starting", "up"},
                        e \notin registered', e \notin loader'.todo
                 PROVE  \E v \in Workers : task'[v].at = "connect" /\ task'[v].conn = e
    BY DEF NoOrphan
  <2> QED
    BY RegistryAssumption, <1>task, <1>conns, <1>registered, <1>loader, <2>1
       DEF Inv, HandsOK, Exclusive, Phased, NoOrphan, Holding, Same
<1> QED BY <1>1, <1>2, <1>3, <1>4, <1>5, <1>6, <1>7, <1>8, <1>9, <1>10, <1>11 DEF Inv

\* What a reconcile begins for a server holds no connection yet.
LEMMA OperationParts ==
  ASSUME TypeOK, NEW n \in Servers
  PROVE  /\ Operation(n) \in Task /\ Operation(n).at \in {"idle", "reconnect", "revoke"}
         /\ Operation(n).conn = None
         /\ Operation(n).at # "idle" => Operation(n).server = n
<1>1. Idle \in Task /\ Resolved(n) \in Definition /\ Idle.conn = None /\ Idle.at = "idle"
  BY IdleParts, ResolvedParts
<1> QED BY <1>1 DEF Operation, Task, Ats

\* A reconcile begins an operation for each server, after the load has ended.
LEMMA ReconcileKeeps ==
  ASSUME Inv, Reconcile
  PROVE  Inv'
<1>act. /\ TypeOK /\ loader.at = "done" /\ loader.todo = {}
        /\ UNCHANGED <<source, version, held, defs, epoch, conns, registered, catalog, status, lock, refreshing, loader>>
  BY DEF Inv, Reconcile, HandsOK, config
<1>now. /\ loader.at = "done" /\ loader.todo = {} /\ None \notin Conns
        /\ \A w \in Workers : w \in Reconcilers => task[w].at = "idle"
  BY <1>act, RegistryAssumption, IdleParts DEF Reconcile
<1>task. /\ \A w \in Workers : w \notin Reconcilers => task'[w] = task[w]
         /\ \A w \in Workers : w \in Reconcilers =>
               /\ task'[w].at \in {"idle", "reconnect", "revoke"} /\ task'[w].conn = None
               /\ task'[w].at # "idle" => task'[w].server = w[2] /\ w[2] \in Servers
         /\ task' \in [Workers -> Task]
  <2>1. ASSUME NEW w \in Workers, w \notin Reconcilers
        PROVE  task'[w] = task[w] /\ task'[w] \in Task
    BY <2>1 DEF Reconcile, Inv, HandsOK
  <2>2. ASSUME NEW w \in Workers, w \in Reconcilers
        PROVE  /\ task'[w].at \in {"idle", "reconnect", "revoke"} /\ task'[w].conn = None
               /\ task'[w].at # "idle" => task'[w].server = w[2] /\ w[2] \in Servers
               /\ task'[w] \in Task
    <3>1. w[2] \in Servers /\ task'[w] = Operation(w[2])
      BY <2>2 DEF Reconcile, Reconcilers
    <3> QED BY <1>act, <3>1, OperationParts
  <2> QED BY <2>1, <2>2 DEF Reconcile
<1>conns. conns' = conns
  BY <1>act
<1>registered. registered' = registered
  BY <1>act
<1>catalog. catalog' = catalog
  BY <1>act
<1>epoch. epoch' = epoch
  BY <1>act
<1>lock. lock' = lock
  BY <1>act
<1>defs. /\ defs' = defs
         /\ version' = version
  BY <1>act
<1>loader. loader' = loader
  BY <1>act
<1>1. TypeOK'
  BY RegistryAssumption, <1>act, <1>now, <1>task, <1>conns, <1>registered, <1>catalog,
     <1>epoch, <1>lock, <1>defs, <1>loader
     DEF Inv, TypeOK, Phases, Definition, Connection
<1>2. HandsOK'
  BY RegistryAssumption, <1>now, <1>task, <1>registered, <1>loader DEF Inv, HandsOK, Holding
<1>3. Exclusive'
  BY RegistryAssumption, <1>now, <1>task, <1>registered, <1>loader
     DEF Inv, HandsOK, Exclusive, Holding
<1>4. Phased'
  BY RegistryAssumption, <1>now, <1>task, <1>conns, <1>registered, <1>loader
     DEF Inv, HandsOK, Exclusive, Phased, Holding, Same
<1>5. OneEach'
  BY RegistryAssumption, <1>now, <1>conns, <1>registered, <1>loader
     DEF Inv, HandsOK, OneEach, Phased, Clear, Same
<1>6. Turn'
  BY RegistryAssumption, <1>now, <1>task, <1>conns, <1>registered, <1>epoch, <1>loader
     DEF Inv, HandsOK, Exclusive, Phased, OneEach, Turn, Obsolete, Outdated, Clear, Holding,
         Same
<1>7. Catalogued'
  BY RegistryAssumption, <1>now, <1>conns, <1>registered, <1>catalog
     DEF Inv, HandsOK, Phased, Catalogued, Clear, Same
<1>8. LockOK'
  BY RegistryAssumption, <1>now, <1>task, <1>lock DEF Inv, LockOK, Locked, HandsOK
<1>9. Quiet'
  BY RegistryAssumption, <1>now, <1>task, <1>conns, <1>registered
     DEF Inv, HandsOK, Phased, Quiet, Locked, Same, Workers
<1>10. Fresh'
  BY RegistryAssumption, <1>now, <1>task, <1>conns, <1>epoch, <1>defs, <1>loader
     DEF Inv, HandsOK, Exclusive, Phased, Fresh, Locked, Obsolete, Outdated, BuiltFrom,
         Holding, Same
<1>11. NoOrphan'
  <2>1. SUFFICES ASSUME NEW e \in Conns, conns'[e].phase \in {"starting", "up"},
                        e \notin registered', e \notin loader'.todo
                 PROVE  \E v \in Workers : task'[v].at = "connect" /\ task'[v].conn = e
    BY DEF NoOrphan
  <2> QED
    BY RegistryAssumption, <1>now, <1>task, <1>conns, <1>registered, <1>loader, <2>1
       DEF Inv, HandsOK, Exclusive, Phased, NoOrphan, Holding, Same
<1> QED BY <1>1, <1>2, <1>3, <1>4, <1>5, <1>6, <1>7, <1>8, <1>9, <1>10, <1>11 DEF Inv

\* The build of a reconnect that has the lock and the place: a connection that nobody
\* has is started, or the reconnect ends, as the host still owes the credential.
LEMMA BuildKeeps ==
  ASSUME Inv, NEW w \in Workers, NEW n \in Servers, NEW cfg \in Configs, NEW def \in Definition,
         n = task[w].server, task[w].at \in {"reconnect", "drop"}, def.config = cfg,
         lock[n] \in {None, w}, Clear(n),
         epoch' = [epoch EXCEPT ![n] = w], defs' = [defs EXCEPT ![n] = def],
         Build(w, cfg), UNCHANGED <<config, registered, catalog, loader>>
  PROVE  Inv'
<1>act. /\ TypeOK /\ HandsOK /\ epoch' = [epoch EXCEPT ![n] = w] /\ defs' = [defs EXCEPT ![n] = def]
        /\ UNCHANGED <<source, version, held, registered, catalog, loader>>
  BY DEF Inv, config
<1>now. /\ n \in Servers /\ n = task[w].server /\ Clear(n) /\ loader.at # "start"
        /\ w \in Reconcilers => n = w[2] /\ loader.at = "done"
        /\ task[w].at \in {"reconnect", "drop"}
        /\ \A v \in Workers : v # w /\ Locked(v) => task[v].server # n
  BY RegistryAssumption DEF Inv, LockOK, HandsOK
<1>registered. registered' = registered
  BY <1>act
<1>catalog. catalog' = catalog
  BY <1>act
<1>epoch. /\ epoch'[n] = w
          /\ \A m \in Servers : m # n => epoch'[m] = epoch[m]
  BY <1>act DEF TypeOK
<1>defs. /\ defs'[n] = def /\ def.config = cfg /\ cfg \in Configs
         /\ \A m \in Servers : m # n => defs'[m] = defs[m]
         /\ version' = version
  BY <1>act DEF TypeOK
<1>loader. loader' = loader
  BY <1>act
<1>1. CASE held[n]
  <2> DEFINE c == NewConn(w)
  <2>build. /\ c \in Conns /\ Free(c, w)
            /\ conns' = [conns EXCEPT ![c] = Starting(n, cfg)] /\ Await(w, n, "connect", c)
            /\ lock' = [lock EXCEPT ![n] = w] /\ refreshing' = refreshing \cup {n}
    BY <1>1 DEF Build, NewConn
  <2>free. /\ c \in Conns /\ c \notin registered /\ c \notin loader.todo /\ c # loader.conn
           /\ \A v \in Workers : v # w => task[v].conn # c
           /\ conns[c].phase \in {"closing", "gone"}
    BY <2>build DEF Free
  <2> HIDE DEF c
  <2>task. /\ task' \in [Workers -> Task]
           /\ task'[w].at = "connect" /\ task'[w].server = n /\ task'[w].conn = c
           /\ \A v \in Workers : v # w => task'[v] = task[v]
    BY <1>act, <2>build, AwaitParts DEF Ats, Holding
  <2>conns. /\ conns' \in [Conns -> Connection]
            /\ conns'[c].server = n /\ conns'[c].config = cfg /\ conns'[c].cred = version[n]
            /\ conns'[c].phase = "starting" /\ conns'[c].broken = FALSE
            /\ \A d \in Conns : d # c => Same(d)
    <3> DEFINE x == Starting(n, cfg)
    <3>1. /\ x \in Connection /\ x.server = n /\ x.config = cfg /\ x.cred = version[n]
          /\ x.phase = "starting" /\ x.broken = FALSE
      <4>1. TypeOK
        BY DEF Inv
      <4> QED BY <4>1 DEF TypeOK, Starting, Connection, Phases
    <3>2. conns' = [conns EXCEPT ![c] = x] /\ conns \in [Conns -> Connection]
      BY <1>act, <2>build DEF TypeOK, Connection
    <3> HIDE DEF x
    <3> QED BY <2>build, <3>1, <3>2 DEF Same
  <2>lock. /\ lock'[n] = w
           /\ \A m \in Servers : m # n => lock'[m] = lock[m]
    BY <1>act, <2>build DEF TypeOK
  <2>1. TypeOK'
    BY RegistryAssumption, <1>act, <1>now, <2>task, <2>conns, <1>registered, <1>catalog,
       <1>epoch, <2>lock, <1>defs, <1>loader, <2>free, <2>build
       DEF Inv, TypeOK, Phases, Definition, Connection
  <2>2. HandsOK'
    BY RegistryAssumption, <1>now, <2>task, <1>registered, <1>loader, <2>free
       DEF Inv, HandsOK, Holding
  <2>3. Exclusive'
    BY RegistryAssumption, <1>now, <2>task, <1>registered, <1>loader, <2>free
       DEF Inv, HandsOK, Exclusive, Holding
  <2>4. Phased'
    BY RegistryAssumption, <1>now, <2>task, <2>conns, <1>registered, <1>loader, <2>free
       DEF Inv, HandsOK, Exclusive, Phased, Holding, Same
  <2>5. OneEach'
    BY RegistryAssumption, <1>now, <2>conns, <1>registered, <1>loader, <2>free
       DEF Inv, HandsOK, OneEach, Phased, Clear, Same
  <2>6. Turn'
    BY RegistryAssumption, <1>now, <2>task, <2>conns, <1>registered, <1>epoch, <1>loader,
       <2>free
       DEF Inv, HandsOK, Exclusive, Phased, OneEach, Turn, Obsolete, Outdated, Clear, Holding,
           Same
  <2>7. Catalogued'
    BY RegistryAssumption, <1>now, <2>conns, <1>registered, <1>catalog, <2>free
       DEF Inv, HandsOK, Phased, Catalogued, Clear, Same
  <2>8. LockOK'
    BY RegistryAssumption, <1>now, <2>task, <2>lock, <2>free DEF Inv, LockOK, Locked, HandsOK
  <2>9. Quiet'
    BY RegistryAssumption, <1>now, <2>task, <2>conns, <1>registered, <2>free
       DEF Inv, HandsOK, Phased, Quiet, Locked, Same, Workers
  <2>10. Fresh'
    BY RegistryAssumption, <1>now, <2>task, <2>conns, <1>epoch, <1>defs, <1>loader, <2>free
       DEF Inv, HandsOK, Exclusive, Phased, Fresh, Locked, Obsolete, Outdated, BuiltFrom,
           Holding, Same
  <2>11. NoOrphan'
    <3>1. SUFFICES ASSUME NEW e \in Conns, conns'[e].phase \in {"starting", "up"},
                          e \notin registered', e \notin loader'.todo
                   PROVE  \E v \in Workers : task'[v].at = "connect" /\ task'[v].conn = e
      BY DEF NoOrphan
    <3> QED
      BY RegistryAssumption, <1>now, <2>task, <2>conns, <1>registered, <1>loader, <2>free, <3>1
         DEF Inv, HandsOK, Exclusive, Phased, NoOrphan, Holding, Same
  <2> QED BY <2>1, <2>2, <2>3, <2>4, <2>5, <2>6, <2>7, <2>8, <2>9, <2>10, <2>11 DEF Inv
<1>2. CASE ~held[n]
  <2>build. /\ conns' = conns /\ task' = [task EXCEPT ![w] = Idle]
            /\ lock' = [lock EXCEPT ![n] = None] /\ refreshing' = refreshing \ {n}
    BY <1>2, <1>act DEF Build, Finish
  <2>task. /\ task' \in [Workers -> Task]
           /\ task'[w].at = "idle" /\ task'[w].conn \notin Conns
           /\ \A v \in Workers : v # w => task'[v] = task[v]
    BY <1>act, <2>build, FinishParts
  <2>conns. /\ conns' = conns
            /\ task[w].at = "drop" => conns[task[w].conn].phase \in {"closing", "gone"}
    BY <2>build DEF Inv, Phased, Holding
  <2>lock. /\ lock'[n] = None
           /\ \A m \in Servers : m # n => lock'[m] = lock[m]
    BY <1>act, <2>build DEF TypeOK
  <2>1. TypeOK'
    BY RegistryAssumption, <1>act, <1>now, <2>task, <2>conns, <1>registered, <1>catalog,
       <1>epoch, <2>lock, <1>defs, <1>loader, <2>build
       DEF Inv, TypeOK, Phases, Definition, Connection
  <2>2. HandsOK'
    BY RegistryAssumption, <1>now, <2>task, <1>registered, <1>loader DEF Inv, HandsOK, Holding
  <2>3. Exclusive'
    BY RegistryAssumption, <1>now, <2>task, <1>registered, <1>loader
       DEF Inv, HandsOK, Exclusive, Holding
  <2>4. Phased'
    BY RegistryAssumption, <1>now, <2>task, <2>conns, <1>registered, <1>loader
       DEF Inv, HandsOK, Exclusive, Phased, Holding, Same
  <2>5. OneEach'
    BY RegistryAssumption, <1>now, <2>conns, <1>registered, <1>loader
       DEF Inv, HandsOK, OneEach, Phased, Clear, Same
  <2>6. Turn'
    BY RegistryAssumption, <1>now, <2>task, <2>conns, <1>registered, <1>epoch, <1>loader
       DEF Inv, HandsOK, Exclusive, Phased, OneEach, Turn, Obsolete, Outdated, Clear, Holding,
           Same
  <2>7. Catalogued'
    BY RegistryAssumption, <1>now, <2>conns, <1>registered, <1>catalog
       DEF Inv, HandsOK, Phased, Catalogued, Clear, Same
  <2>8. LockOK'
    BY RegistryAssumption, <1>now, <2>task, <2>lock DEF Inv, LockOK, Locked, HandsOK
  <2>9. Quiet'
    BY RegistryAssumption, <1>now, <2>task, <2>conns, <1>registered
       DEF Inv, HandsOK, Phased, Quiet, Locked, Same, Workers
  <2>10. Fresh'
    BY RegistryAssumption, <1>now, <2>task, <2>conns, <1>epoch, <1>defs, <1>loader
       DEF Inv, HandsOK, Exclusive, Phased, Fresh, Locked, Obsolete, Outdated, BuiltFrom,
           Holding, Same
  <2>11. NoOrphan'
    <3>1. SUFFICES ASSUME NEW e \in Conns, conns'[e].phase \in {"starting", "up"},
                          e \notin registered', e \notin loader'.todo
                   PROVE  \E v \in Workers : task'[v].at = "connect" /\ task'[v].conn = e
      BY DEF NoOrphan
    <3> QED
      BY RegistryAssumption, <1>now, <2>task, <2>conns, <1>registered, <1>loader, <3>1
         DEF Inv, HandsOK, Exclusive, Phased, NoOrphan, Holding, Same
  <2> QED BY <2>1, <2>2, <2>3, <2>4, <2>5, <2>6, <2>7, <2>8, <2>9, <2>10, <2>11 DEF Inv
<1> QED BY <1>1, <1>2

\* A reconnect without an old connection builds at once.
LEMMA ConnectAtOnceKeeps ==
  ASSUME Inv, NEW w \in Workers, ConnectAtOnce(w)
  PROVE  Inv'
<1> DEFINE n == task[w].server
<1>1. /\ n \in Servers /\ task[w].at = "reconnect" /\ lock[n] = None
      /\ source[n] \in Configs /\ defs' = [defs EXCEPT ![n] = Resolved(n)]
      /\ epoch' = [epoch EXCEPT ![n] = w] /\ Of(n) = {} /\ Build(w, source[n])
      /\ UNCHANGED <<config, registered, catalog, loader>>
  BY DEF Inv, ConnectAtOnce, Enter, HandsOK
<1>2. Resolved(n) \in Definition /\ Resolved(n).config = source[n]
  BY <1>1, ResolvedParts DEF Inv
<1> QED BY <1>1, <1>2, BuildKeeps, OfParts

\* A reconnect whose old connection has closed builds the new one.
LEMMA DroppedKeeps ==
  ASSUME Inv, NEW w \in Workers, Dropped(w)
  PROVE  Inv'
<1> DEFINE n == task[w].server
<1>1. /\ n \in Servers /\ task[w].at = "drop" /\ epoch[n] = w
      /\ Build(w, defs[n].config)
      /\ UNCHANGED <<config, defs, epoch, registered, catalog, loader>>
  BY DEF Inv, Dropped, HandsOK, Obsolete
<1>2. lock[n] = w /\ Clear(n) /\ defs[n].config \in Configs
  BY <1>1 DEF Inv, LockOK, Locked, Turn, Fresh, Obsolete
<1>3. /\ defs[n] \in Definition
      /\ epoch' = [epoch EXCEPT ![n] = w] /\ defs' = [defs EXCEPT ![n] = defs[n]]
  BY <1>1 DEF Inv, TypeOK, Definition
<1> QED BY <1>1, <1>2, <1>3, BuildKeeps

\* A host disconnects a server, without the lock.
LEMMA CallDisconnectKeeps ==
  ASSUME Inv, NEW w \in Workers, NEW n \in Servers, CallDisconnect(w, n)
  PROVE  Inv'
<1>act. /\ TypeOK /\ HandsOK /\ w \in Callers /\ task[w] = Idle /\ loader.at # "start"
        /\ epoch' = [epoch EXCEPT ![n] = w] /\ registered' = registered \ Of(n)
        /\ catalog' = [catalog EXCEPT ![n] = None]
        /\ UNCHANGED <<source, version, held, defs, lock, refreshing, loader>>
  BY DEF Inv, CallDisconnect, TakeDown, config
<1>now. n \in Servers /\ task[w].at = "idle" /\ loader.at # "start" /\ w \notin Reconcilers
  BY <1>act, IdleParts, RegistryAssumption
<1>registered. \A d : d \in registered' <=> d \in registered /\ conns[d].server # n
  BY <1>act DEF Of
<1>catalog. /\ catalog'[n] = None
            /\ \A m \in Servers : m # n => catalog'[m] = catalog[m]
  BY <1>act DEF TypeOK
<1>epoch. /\ epoch'[n] = w
          /\ \A m \in Servers : m # n => epoch'[m] = epoch[m]
  BY <1>act DEF TypeOK
<1>lock. lock' = lock
  BY <1>act
<1>defs. /\ defs' = defs
         /\ version' = version
  BY <1>act
<1>loader. loader' = loader
  BY <1>act
<1>1. CASE Of(n) = {}
  <2>task. task' = task
    BY <1>1 DEF CallDisconnect
  <2>conns. /\ conns' = conns
            /\ \A d \in registered : conns[d].server # n
    BY <1>1 DEF CallDisconnect, Of
  <2>1. TypeOK'
    BY RegistryAssumption, <1>act, <1>now, <2>task, <2>conns, <1>registered, <1>catalog,
       <1>epoch, <1>lock, <1>defs, <1>loader
       DEF Inv, TypeOK, Phases, Definition, Connection
  <2>2. HandsOK'
    BY RegistryAssumption, <1>now, <2>task, <1>registered, <1>loader DEF Inv, HandsOK, Holding
  <2>3. Exclusive'
    BY RegistryAssumption, <1>now, <2>task, <1>registered, <1>loader
       DEF Inv, HandsOK, Exclusive, Holding
  <2>4. Phased'
    BY RegistryAssumption, <1>now, <2>task, <2>conns, <1>registered, <1>loader
       DEF Inv, HandsOK, Exclusive, Phased, Holding, Same
  <2>5. OneEach'
    BY RegistryAssumption, <1>now, <2>conns, <1>registered, <1>loader
       DEF Inv, HandsOK, OneEach, Phased, Clear, Same
  <2>6. Turn'
    BY RegistryAssumption, <1>now, <2>task, <2>conns, <1>registered, <1>epoch, <1>loader
       DEF Inv, HandsOK, Exclusive, Phased, OneEach, Turn, Obsolete, Outdated, Clear, Holding,
           Same
  <2>7. Catalogued'
    BY RegistryAssumption, <1>now, <2>conns, <1>registered, <1>catalog
       DEF Inv, HandsOK, Phased, Catalogued, Clear, Same
  <2>8. LockOK'
    BY RegistryAssumption, <1>now, <2>task, <1>lock DEF Inv, LockOK, Locked, HandsOK
  <2>9. Quiet'
    BY RegistryAssumption, <1>now, <2>task, <2>conns, <1>registered
       DEF Inv, HandsOK, Phased, Quiet, Locked, Same, Workers
  <2>10. Fresh'
    BY RegistryAssumption, <1>now, <2>task, <2>conns, <1>epoch, <1>defs, <1>loader
       DEF Inv, HandsOK, Exclusive, Phased, Fresh, Locked, Obsolete, Outdated, BuiltFrom,
           Holding, Same
  <2>11. NoOrphan'
    <3>1. SUFFICES ASSUME NEW e \in Conns, conns'[e].phase \in {"starting", "up"},
                          e \notin registered', e \notin loader'.todo
                   PROVE  \E v \in Workers : task'[v].at = "connect" /\ task'[v].conn = e
      BY DEF NoOrphan
    <3> QED
      BY RegistryAssumption, <1>now, <2>task, <2>conns, <1>registered, <1>loader, <3>1
         DEF Inv, HandsOK, Exclusive, Phased, NoOrphan, Holding, Same
  <2> QED BY <2>1, <2>2, <2>3, <2>4, <2>5, <2>6, <2>7, <2>8, <2>9, <2>10, <2>11 DEF Inv
<1>2. CASE Of(n) # {}
  <2>ask. PICK c \in Of(n) : conns' = Asked(c) /\ Await(w, n, "undo", c)
    BY <1>2 DEF CallDisconnect
  <2>old. c \in registered /\ c \in Conns /\ conns[c].server = n /\ conns[c].phase # "starting"
         /\ \A d \in registered : conns[d].server = n => d = c
    BY <1>act, <2>ask DEF Of, TypeOK, Inv, Phased, OneEach
  <2>task. /\ task' \in [Workers -> Task]
           /\ task'[w].at = "undo" /\ task'[w].server = n /\ task'[w].conn = c
           /\ \A v \in Workers : v # w => task'[v] = task[v]
    BY <1>act, <2>ask, <2>old, AwaitParts DEF Ats, Holding
  <2>conns. /\ conns' \in [Conns -> Connection]
            /\ conns'[c].server = conns[c].server
            /\ conns'[c].phase \in {"closing", "gone"} /\ (conns'[c].broken => conns[c].broken)
            /\ conns[c].phase = "gone" => conns'[c].phase = "gone"
            /\ \A d \in Conns : d # c => Same(d)
    BY <1>act, <2>ask, <2>old, AskedParts DEF Connection, Phases
  <2>1. TypeOK'
    BY RegistryAssumption, <1>act, <1>now, <2>task, <2>conns, <1>registered, <1>catalog,
       <1>epoch, <1>lock, <1>defs, <1>loader, <2>old
       DEF Inv, TypeOK, Phases, Definition, Connection
  <2>2. HandsOK'
    BY RegistryAssumption, <1>now, <2>task, <1>registered, <1>loader, <2>old
       DEF Inv, HandsOK, Holding
  <2>3. Exclusive'
    BY RegistryAssumption, <1>now, <2>task, <1>registered, <1>loader, <2>old
       DEF Inv, HandsOK, Exclusive, Holding
  <2>4. Phased'
    BY RegistryAssumption, <1>now, <2>task, <2>conns, <1>registered, <1>loader, <2>old
       DEF Inv, HandsOK, Exclusive, Phased, Holding, Same
  <2>5. OneEach'
    BY RegistryAssumption, <1>now, <2>conns, <1>registered, <1>loader, <2>old
       DEF Inv, HandsOK, OneEach, Phased, Clear, Same
  <2>6. Turn'
    BY RegistryAssumption, <1>now, <2>task, <2>conns, <1>registered, <1>epoch, <1>loader,
       <2>old
       DEF Inv, HandsOK, Exclusive, Phased, OneEach, Turn, Obsolete, Outdated, Clear, Holding,
           Same
  <2>7. Catalogued'
    BY RegistryAssumption, <1>now, <2>conns, <1>registered, <1>catalog, <2>old
       DEF Inv, HandsOK, Phased, Catalogued, Clear, Same
  <2>8. LockOK'
    BY RegistryAssumption, <1>now, <2>task, <1>lock, <2>old DEF Inv, LockOK, Locked, HandsOK
  <2>9. Quiet'
    BY RegistryAssumption, <1>now, <2>task, <2>conns, <1>registered, <2>old
       DEF Inv, HandsOK, Phased, Quiet, Locked, Same, Workers
  <2>10. Fresh'
    BY RegistryAssumption, <1>now, <2>task, <2>conns, <1>epoch, <1>defs, <1>loader, <2>old
       DEF Inv, HandsOK, Exclusive, Phased, Fresh, Locked, Obsolete, Outdated, BuiltFrom,
           Holding, Same
  <2>11. NoOrphan'
    <3>1. SUFFICES ASSUME NEW e \in Conns, conns'[e].phase \in {"starting", "up"},
                          e \notin registered', e \notin loader'.todo
                   PROVE  \E v \in Workers : task'[v].at = "connect" /\ task'[v].conn = e
      BY DEF NoOrphan
    <3> QED
      BY RegistryAssumption, <1>now, <2>task, <2>conns, <1>registered, <1>loader, <2>old, <3>1
         DEF Inv, HandsOK, Exclusive, Phased, NoOrphan, Holding, Same
  <2> QED BY <2>1, <2>2, <2>3, <2>4, <2>5, <2>6, <2>7, <2>8, <2>9, <2>10, <2>11 DEF Inv
<1> QED BY <1>1, <1>2

\* The cold load starts a connection of its own for each server that is ready.
LEMMA LoadBeginKeeps ==
  ASSUME Inv, LoadBegin
  PROVE  Inv'
<1> DEFINE ready == { n \in Servers : source[n] \in Configs /\ held[n] }
<1>act. /\ TypeOK /\ HandsOK /\ loader.at = "start" /\ registered = {}
        /\ defs' = [n \in Servers |-> IF source[n] = "absent" THEN Absent ELSE Resolved(n)]
        /\ epoch' = [n \in Servers |-> IF n \in ready THEN Loading ELSE epoch[n]]
        /\ UNCHANGED <<source, version, held, registered, catalog, lock, refreshing, task>>
  BY DEF Inv, LoadBegin, HandsOK, config
<1>pick. PICK f \in [ready -> { c \in Conns : Free(c, None) }] :
           /\ \A m, n \in ready : f[m] = f[n] => m = n
           /\ conns' = [c \in Conns |-> IF \E n \in ready : f[n] = c
                                          THEN LET n == CHOOSE n \in ready : f[n] = c
                                               IN Starting(n, source[n])
                                          ELSE conns[c]]
           /\ loader' = [loader EXCEPT !.at = "connect", !.todo = { f[n] : n \in ready }]
  BY DEF LoadBegin
<1>set. { f[n] : n \in ready } \in SUBSET Conns
  BY <1>pick
<1>loader. /\ loader'.at = "connect" /\ loader'.todo = { f[n] : n \in ready }
           /\ loader'.conn = loader.conn /\ loader.conn \notin Conns
           /\ loader' \in [at : {"start", "connect", "abandon", "done"},
                           todo : SUBSET Conns, conn : Conns \cup {None}]
  BY <1>set, <1>act, <1>pick DEF HandsOK
<1>now. /\ registered = {} /\ loader.at = "start" /\ loader.todo = {}
        /\ \A w \in Workers : task[w].at = "idle" /\ task[w].conn \notin Conns
  BY <1>act DEF HandsOK, Holding
<1>started. ASSUME NEW n \in ready
            PROVE  /\ n \in Servers /\ f[n] \in Conns /\ source[n] \in Configs
                   /\ conns'[f[n]] = Starting(n, source[n])
                   /\ conns'[f[n]] \in Connection
                   /\ conns'[f[n]].server = n /\ conns'[f[n]].config = source[n]
                   /\ conns'[f[n]].cred = version[n] /\ conns'[f[n]].phase = "starting"
                   /\ conns'[f[n]].broken = FALSE /\ epoch'[n] = Loading /\ defs'[n].config = source[n]
  <2>1. n \in Servers /\ f[n] \in Conns /\ source[n] \in Configs
    BY <1>pick
  <2>2. (CHOOSE m \in ready : f[m] = f[n]) = n
    BY <1>pick
  <2>3. conns'[f[n]] = Starting(n, source[n])
    BY <1>pick, <2>1, <2>2
  <2>4. epoch'[n] = Loading /\ defs'[n] = Resolved(n)
    BY <1>act, <2>1, RegistryAssumption
  <2>5. defs'[n].config = source[n]
    BY <1>act, <2>1, <2>4, ResolvedParts
  <2>6. /\ conns'[f[n]] \in Connection
        /\ conns'[f[n]].server = n /\ conns'[f[n]].config = source[n]
        /\ conns'[f[n]].cred = version[n] /\ conns'[f[n]].phase = "starting"
        /\ conns'[f[n]].broken = FALSE
    <3>1. TypeOK
      BY DEF Inv
    <3>2. /\ Starting(n, source[n]) \in Connection
          /\ Starting(n, source[n]).server = n /\ Starting(n, source[n]).config = source[n]
          /\ Starting(n, source[n]).cred = version[n] /\ Starting(n, source[n]).phase = "starting"
          /\ Starting(n, source[n]).broken = FALSE
      BY <2>1, <3>1 DEF TypeOK, Starting, Connection, Phases
    <3> QED BY <2>3, <3>2
  <2> QED BY <2>1, <2>3, <2>4, <2>5, <2>6
<1>old. \A d \in Conns : d \notin loader'.todo => conns'[d] = conns[d] /\ Same(d)
  BY <1>pick, <1>loader DEF Same
<1>new. /\ \A d \in loader'.todo :
             /\ d \in Conns /\ d # loader.conn /\ conns'[d] \in Connection /\ conns'[d].broken = FALSE
             /\ conns'[d].server \in Servers /\ conns'[d].config = defs'[conns'[d].server].config
             /\ conns'[d].cred = version[conns'[d].server] /\ conns'[d].phase = "starting"
             /\ defs'[conns'[d].server].config \in Configs
        /\ \A d, e \in loader'.todo : conns'[d].server = conns'[e].server => d = e
  <2>1. \A d \in loader'.todo : \E n \in ready : d = f[n]
    BY <1>loader
  <2>2. ASSUME NEW d \in loader'.todo
        PROVE  /\ d \in Conns /\ d # loader.conn /\ conns'[d] \in Connection /\ conns'[d].broken = FALSE
               /\ conns'[d].server \in Servers /\ conns'[d].config = defs'[conns'[d].server].config
               /\ conns'[d].cred = version[conns'[d].server] /\ conns'[d].phase = "starting"
               /\ defs'[conns'[d].server].config \in Configs
    <3>1. PICK n \in ready : d = f[n]
      BY <2>1
    <3> HIDE DEF ready
    <3>2. /\ n \in Servers /\ d \in Conns /\ source[n] \in Configs
          /\ conns'[d] \in Connection /\ conns'[d].server = n /\ conns'[d].config = source[n]
          /\ conns'[d].cred = version[n] /\ conns'[d].phase = "starting"
          /\ conns'[d].broken = FALSE /\ defs'[n].config = source[n]
      BY <1>started, <3>1
    <3> QED BY <1>loader, <3>2
  <2>3. ASSUME NEW d \in loader'.todo, NEW e \in loader'.todo, conns'[d].server = conns'[e].server
        PROVE  d = e
    <3>1. PICK m \in ready : d = f[m]
      BY <2>1
    <3>2. PICK n \in ready : e = f[n]
      BY <2>1
    <3> HIDE DEF ready
    <3>3. conns'[d].server = m /\ conns'[e].server = n
      BY <1>started, <3>1, <3>2
    <3> QED BY <2>3, <3>1, <3>2, <3>3
  <2> QED BY <2>2, <2>3
<1>conns. conns' \in [Conns -> Connection]
  <2>1. ASSUME NEW d \in Conns
        PROVE  conns'[d] \in Connection
    <3>1. CASE d \in loader'.todo
      BY <1>new, <3>1
    <3>2. CASE d \notin loader'.todo
      BY <1>act, <1>old, <3>2 DEF TypeOK, Connection
    <3> QED BY <3>1, <3>2
  <2> QED BY <1>pick, <2>1
<1>defs. /\ \A n \in Servers : defs'[n] \in Definition
         /\ version' = version
  BY <1>act, ResolvedParts, RegistryAssumption DEF Absent, Definition
<1> HIDE DEF ready
<1>task. task' = task
  BY <1>act
<1>registered. registered' = registered
  BY <1>act
<1>catalog. catalog' = catalog
  BY <1>act
<1>lock. lock' = lock
  BY <1>act
<1>1. TypeOK'
  BY RegistryAssumption, <1>act, <1>task, <1>conns, <1>registered, <1>catalog, <1>lock,
     <1>defs, <1>loader
     DEF Inv, TypeOK, Phases, Definition, Connection
<1>2. HandsOK'
  BY RegistryAssumption, <1>now, <1>task, <1>registered, <1>loader DEF Inv, HandsOK, Holding
<1>3. Exclusive'
  BY RegistryAssumption, <1>now, <1>task, <1>registered, <1>loader
     DEF Inv, HandsOK, Exclusive, Holding
<1>4. Phased'
  BY RegistryAssumption, <1>now, <1>task, <1>conns, <1>registered, <1>loader, <1>new, <1>old
     DEF Inv, HandsOK, Exclusive, Phased, Holding, Same
<1>5. OneEach'
  BY RegistryAssumption, <1>now, <1>conns, <1>registered, <1>loader, <1>new, <1>old
     DEF Inv, HandsOK, OneEach, Phased, Clear, Same
<1>6. Turn'
  BY RegistryAssumption, <1>now, <1>task, <1>conns, <1>registered, <1>loader, <1>new, <1>old
     DEF Inv, HandsOK, Exclusive, Phased, OneEach, Turn, Obsolete, Outdated, Clear, Holding,
         Same
<1>7. Catalogued'
  BY RegistryAssumption, <1>now, <1>conns, <1>registered, <1>catalog
     DEF Inv, HandsOK, Phased, Catalogued, Clear, Same
<1>8. LockOK'
  BY RegistryAssumption, <1>now, <1>task, <1>lock DEF Inv, LockOK, Locked, HandsOK
<1>9. Quiet'
  BY RegistryAssumption, <1>now, <1>task, <1>registered
     DEF Inv, HandsOK, Phased, Quiet, Locked, Same, Workers
<1>10. Fresh'
  BY RegistryAssumption, <1>now, <1>task, <1>conns, <1>defs, <1>loader, <1>new, <1>old
     DEF Inv, HandsOK, Exclusive, Phased, Fresh, Locked, Obsolete, Outdated, BuiltFrom,
         Holding, Same
<1>11. NoOrphan'
  <2>1. SUFFICES ASSUME NEW e \in Conns, conns'[e].phase \in {"starting", "up"},
                        e \notin registered', e \notin loader'.todo
                 PROVE  \E v \in Workers : task'[v].at = "connect" /\ task'[v].conn = e
    BY DEF NoOrphan
  <2> QED
    BY RegistryAssumption, <1>now, <1>task, <1>conns, <1>registered, <1>loader, <1>new, <1>old,
       <2>1
       DEF Inv, HandsOK, Exclusive, Phased, NoOrphan, Holding, Same
<1> QED BY <1>1, <1>2, <1>3, <1>4, <1>5, <1>6, <1>7, <1>8, <1>9, <1>10, <1>11 DEF Inv

\* The cold load publishes connections whose epoch is still its own, up to one that
\* was overtaken, which is asked to close.
LEMMA LoadedKeeps ==
  ASSUME Inv, Loaded
  PROVE  Inv'
<1>act. /\ TypeOK /\ HandsOK /\ loader.at = "connect"
        /\ \A c \in loader.todo : conns[c].phase # "starting"
        /\ UNCHANGED <<source, version, held, defs, epoch, lock, refreshing, task>>
  BY DEF Inv, Loaded, config
<1>pick. PICK S \in SUBSET loader.todo :
           /\ \A c \in S : ~Outdated(c)
           /\ Conclude(S)
           /\ \/ /\ S = loader.todo
                 /\ loader' = [at |-> "done", todo |-> {}, conn |-> None]
                 /\ UNCHANGED conns
              \/ \E c \in loader.todo \ S :
                   /\ Outdated(c)
                   /\ conns' = Asked(c)
                   /\ loader' = [at |-> "abandon", todo |-> loader.todo \ (S \cup {c}), conn |-> c]
  BY DEF Loaded
<1>now. /\ S \subseteq Conns /\ \A c \in S : c \notin registered /\ epoch[conns[c].server] = Loading
        /\ \A c \in S : Clear(conns[c].server) /\ conns[c].server \in Servers
        /\ \A c \in S : c \in loader.todo /\ conns[c].phase # "starting"
        /\ loader.at = "connect" /\ loader.conn \notin Conns
        /\ \A c \in S, d \in loader.todo : conns[c].server = conns[d].server => c = d
  BY <1>act, <1>pick DEF Inv, HandsOK, Exclusive, Turn, Outdated, Phased, OneEach
<1>registered. \A d : d \in registered' <=> d \in registered \/ (d \in S /\ conns[d].phase = "up")
  BY <1>pick DEF Conclude
<1>catalog. /\ \A c \in S : conns[c].phase = "up" => catalog'[conns[c].server] = c
            /\ \A n \in Servers :
                 (\A c \in S : conns[c].server = n => conns[c].phase # "up") => catalog'[n] = catalog[n]
            /\ catalog' \in [Servers -> Conns \cup {None}]
  <2> DEFINE Pub(n) == { c \in S : conns[c].server = n } \cap { c \in S : conns[c].phase = "up" }
  <2>1. catalog' = [n \in Servers |-> IF Pub(n) # {} THEN CHOOSE c \in Pub(n) : TRUE ELSE catalog[n]]
    BY <1>pick DEF Conclude
  <2>2. ASSUME NEW c \in S, conns[c].phase = "up"
        PROVE  catalog'[conns[c].server] = c
    <3>1. c \in Pub(conns[c].server) /\ \A d \in Pub(conns[c].server) : d = c
      BY <1>pick, <1>now, <2>2
    <3>2. (CHOOSE d \in Pub(conns[c].server) : TRUE) = c
      BY <3>1
    <3> QED BY <1>now, <2>1, <3>1, <3>2
  <2>3. ASSUME NEW n \in Servers, \A c \in S : conns[c].server = n => conns[c].phase # "up"
        PROVE  catalog'[n] = catalog[n]
    <3>1. Pub(n) = {}
      BY <2>3
    <3> QED BY <2>1, <3>1
  <2>4. \A n \in Servers : Pub(n) # {} => (CHOOSE c \in Pub(n) : TRUE) \in Conns
    BY <1>now
  <2> QED BY <1>act, <2>1, <2>2, <2>3, <2>4 DEF TypeOK
<1>task. task' = task
  BY <1>act
<1>epoch. epoch' = epoch
  BY <1>act
<1>lock. lock' = lock
  BY <1>act
<1>defs. /\ defs' = defs
         /\ version' = version
  BY <1>act
<1>6. CASE S = loader.todo /\ loader' = [at |-> "done", todo |-> {}, conn |-> None] /\ UNCHANGED conns
  <2>loader. /\ loader'.at = "done" /\ loader'.todo = {} /\ loader'.conn = None
             /\ None \notin Conns /\ S = loader.todo
             /\ loader' \in [at : {"start", "connect", "abandon", "done"},
                             todo : SUBSET Conns, conn : Conns \cup {None}]
    BY <1>6, RegistryAssumption
  <2>conns. conns' = conns
    BY <1>6
  <2>1. TypeOK'
    BY RegistryAssumption, <1>act, <1>now, <1>task, <2>conns, <1>registered, <1>catalog,
       <1>epoch, <1>lock, <1>defs, <2>loader
       DEF Inv, TypeOK, Phases, Definition, Connection
  <2>2. HandsOK'
    BY RegistryAssumption, <1>now, <1>task, <1>registered, <2>loader DEF Inv, HandsOK, Holding
  <2>3. Exclusive'
    BY RegistryAssumption, <1>now, <1>task, <1>registered, <2>loader
       DEF Inv, HandsOK, Exclusive, Holding
  <2>4. Phased'
    BY RegistryAssumption, <1>now, <1>task, <2>conns, <1>registered, <2>loader
       DEF Inv, HandsOK, Exclusive, Phased, Holding, Same
  <2>5. OneEach'
    BY RegistryAssumption, <1>now, <2>conns, <1>registered, <2>loader
       DEF Inv, HandsOK, OneEach, Phased, Clear, Same
  <2>6. Turn'
    BY RegistryAssumption, <1>now, <1>task, <2>conns, <1>registered, <1>epoch, <2>loader
       DEF Inv, HandsOK, Exclusive, Phased, OneEach, Turn, Obsolete, Outdated, Clear, Holding,
           Same
  <2>7. Catalogued'
    BY RegistryAssumption, <1>now, <2>conns, <1>registered, <1>catalog
       DEF Inv, HandsOK, Phased, Catalogued, Clear, Same
  <2>8. LockOK'
    BY RegistryAssumption, <1>now, <1>task, <1>lock DEF Inv, LockOK, Locked, HandsOK
  <2>9. Quiet'
    BY RegistryAssumption, <1>now, <1>task, <2>conns, <1>registered
       DEF Inv, HandsOK, Phased, Quiet, Locked, Same, Workers
  <2>10. Fresh'
    BY RegistryAssumption, <1>now, <1>task, <2>conns, <1>epoch, <1>defs, <2>loader
       DEF Inv, HandsOK, Exclusive, Phased, Fresh, Locked, Obsolete, Outdated, BuiltFrom,
           Holding, Same
  <2>11. NoOrphan'
    <3>1. SUFFICES ASSUME NEW e \in Conns, conns'[e].phase \in {"starting", "up"},
                          e \notin registered', e \notin loader'.todo
                   PROVE  \E v \in Workers : task'[v].at = "connect" /\ task'[v].conn = e
      BY DEF NoOrphan
    <3> QED
      BY RegistryAssumption, <1>now, <1>task, <2>conns, <1>registered, <2>loader, <3>1
         DEF Inv, HandsOK, Exclusive, Phased, NoOrphan, Holding, Same
  <2> QED BY <2>1, <2>2, <2>3, <2>4, <2>5, <2>6, <2>7, <2>8, <2>9, <2>10, <2>11 DEF Inv
<1>7. ASSUME NEW c \in loader.todo \ S, Outdated(c), conns' = Asked(c),
             loader' = [at |-> "abandon", todo |-> loader.todo \ (S \cup {c}), conn |-> c]
      PROVE  Inv'
  <2>loader. /\ loader'.at = "abandon" /\ loader'.todo = loader.todo \ (S \cup {c}) /\ loader'.conn = c
             /\ c \in Conns /\ c \notin registered /\ c \in loader.todo /\ c \notin S
             /\ loader' \in [at : {"start", "connect", "abandon", "done"},
                             todo : SUBSET Conns, conn : Conns \cup {None}]
    BY <1>act, <1>7 DEF HandsOK, Inv, Exclusive
  <2>conns. /\ conns' \in [Conns -> Connection]
            /\ conns'[c].server = conns[c].server /\ conns'[c].broken = conns[c].broken
            /\ conns'[c].phase \in {"closing", "gone"}
            /\ conns[c].phase = "gone" => conns'[c].phase = "gone"
            /\ \A d \in Conns : d # c => Same(d)
    BY <1>act, <1>7, <2>loader, AskedParts DEF Connection, Phases
  <2>1. TypeOK'
    BY RegistryAssumption, <1>act, <1>now, <1>task, <2>conns, <1>registered, <1>catalog,
       <1>epoch, <1>lock, <1>defs, <2>loader
       DEF Inv, TypeOK, Phases, Definition, Connection
  <2>2. HandsOK'
    BY RegistryAssumption, <1>now, <1>task, <1>registered, <2>loader DEF Inv, HandsOK, Holding
  <2>3. Exclusive'
    BY RegistryAssumption, <1>now, <1>task, <1>registered, <2>loader
       DEF Inv, HandsOK, Exclusive, Holding
  <2>4. Phased'
    BY RegistryAssumption, <1>now, <1>task, <2>conns, <1>registered, <2>loader
       DEF Inv, HandsOK, Exclusive, Phased, Holding, Same
  <2>5. OneEach'
    BY RegistryAssumption, <1>now, <2>conns, <1>registered, <2>loader
       DEF Inv, HandsOK, OneEach, Phased, Clear, Same
  <2>6. Turn'
    BY RegistryAssumption, <1>now, <1>task, <2>conns, <1>registered, <1>epoch, <2>loader
       DEF Inv, HandsOK, Exclusive, Phased, OneEach, Turn, Obsolete, Outdated, Clear, Holding,
           Same
  <2>7. Catalogued'
    <3>1. ASSUME NEW m \in Servers, NEW d \in Conns, catalog'[m] = d
          PROVE  d \in registered' /\ conns'[d].server = m /\ conns'[d].phase = "up"
      <4>1. CASE \E s \in S : conns[s].server = m /\ conns[s].phase = "up"
        <5>1. PICK s \in S : conns[s].server = m /\ conns[s].phase = "up"
          BY <4>1
        <5>2. d = s
          BY <1>catalog, <3>1, <5>1
        <5> QED BY <5>1, <5>2, <1>registered, <2>loader, <2>conns DEF Same
      <4>2. CASE ~\E s \in S : conns[s].server = m /\ conns[s].phase = "up"
        <5>1. catalog[m] = d
          BY <1>catalog, <3>1, <4>2
        <5>2. d \in registered /\ conns[d].server = m /\ conns[d].phase = "up"
          BY <3>1, <5>1 DEF Inv, Catalogued
        <5> QED BY <5>2, <1>registered, <2>loader, <2>conns DEF Same
      <4> QED BY <4>1, <4>2
    <3>2. ASSUME NEW m \in Servers, NEW d \in Conns, d \in registered', conns'[d].server = m,
                 conns'[d].phase = "up"
          PROVE  catalog'[m] = d
      BY RegistryAssumption, <1>now, <2>conns, <1>registered, <1>catalog, <3>2
         DEF Inv, HandsOK, Phased, Catalogued, Clear, Same
    <3> QED BY <3>1, <3>2 DEF Catalogued
  <2>8. LockOK'
    BY RegistryAssumption, <1>now, <1>task, <1>lock DEF Inv, LockOK, Locked, HandsOK
  <2>9. Quiet'
    BY RegistryAssumption, <1>now, <1>task, <2>conns, <1>registered
       DEF Inv, HandsOK, Phased, Quiet, Locked, Same, Workers
  <2>10. Fresh'
    BY RegistryAssumption, <1>now, <1>task, <2>conns, <1>epoch, <1>defs, <2>loader
       DEF Inv, HandsOK, Exclusive, Phased, Fresh, Locked, Obsolete, Outdated, BuiltFrom,
           Holding, Same
  <2>11. NoOrphan'
    <3>1. SUFFICES ASSUME NEW e \in Conns, conns'[e].phase \in {"starting", "up"},
                          e \notin registered', e \notin loader'.todo
                   PROVE  \E v \in Workers : task'[v].at = "connect" /\ task'[v].conn = e
      BY DEF NoOrphan
    <3> QED
      BY RegistryAssumption, <1>now, <1>task, <2>conns, <1>registered, <2>loader, <3>1
         DEF Inv, HandsOK, Exclusive, Phased, NoOrphan, Holding, Same
  <2> QED BY <2>1, <2>2, <2>3, <2>4, <2>5, <2>6, <2>7, <2>8, <2>9, <2>10, <2>11 DEF Inv
<1> QED BY <1>pick, <1>6, <1>7

\* The cold load has waited for the connection that was overtaken.
LEMMA LoadAbandonedKeeps ==
  ASSUME Inv, LoadAbandoned
  PROVE  Inv'
<1>act. /\ loader.at = "abandon" /\ conns[loader.conn].phase \in {"closing", "gone"}
        /\ UNCHANGED <<source, version, held, defs, epoch, conns, registered, catalog, status, lock, refreshing, task>>
  BY DEF LoadAbandoned, config
<1>now. loader.at = "abandon" /\ conns[loader.conn].phase \in {"closing", "gone"} /\ None \notin Conns
  BY <1>act, RegistryAssumption
<1>task. task' = task
  BY <1>act
<1>conns. conns' = conns
  BY <1>act
<1>registered. registered' = registered
  BY <1>act
<1>catalog. catalog' = catalog
  BY <1>act
<1>epoch. epoch' = epoch
  BY <1>act
<1>lock. lock' = lock
  BY <1>act
<1>defs. /\ defs' = defs
         /\ version' = version
  BY <1>act
<1>loader. /\ loader'.at = "connect" /\ loader'.todo = loader.todo /\ loader'.conn = None
           /\ loader' \in [at : {"start", "connect", "abandon", "done"},
                            todo : SUBSET Conns, conn : Conns \cup {None}]
  BY DEF LoadAbandoned, Inv, HandsOK
<1>1. TypeOK'
  BY RegistryAssumption, <1>act, <1>now, <1>task, <1>conns, <1>registered, <1>catalog,
     <1>epoch, <1>lock, <1>defs, <1>loader
     DEF Inv, TypeOK, Phases, Definition, Connection
<1>2. HandsOK'
  BY RegistryAssumption, <1>now, <1>task, <1>registered, <1>loader DEF Inv, HandsOK, Holding
<1>3. Exclusive'
  BY RegistryAssumption, <1>now, <1>task, <1>registered, <1>loader
     DEF Inv, HandsOK, Exclusive, Holding
<1>4. Phased'
  BY RegistryAssumption, <1>now, <1>task, <1>conns, <1>registered, <1>loader
     DEF Inv, HandsOK, Exclusive, Phased, Holding, Same
<1>5. OneEach'
  BY RegistryAssumption, <1>now, <1>conns, <1>registered, <1>loader
     DEF Inv, HandsOK, OneEach, Phased, Clear, Same
<1>6. Turn'
  BY RegistryAssumption, <1>now, <1>task, <1>conns, <1>registered, <1>epoch, <1>loader
     DEF Inv, HandsOK, Exclusive, Phased, OneEach, Turn, Obsolete, Outdated, Clear, Holding,
         Same
<1>7. Catalogued'
  BY RegistryAssumption, <1>now, <1>conns, <1>registered, <1>catalog
     DEF Inv, HandsOK, Phased, Catalogued, Clear, Same
<1>8. LockOK'
  BY RegistryAssumption, <1>now, <1>task, <1>lock DEF Inv, LockOK, Locked, HandsOK
<1>9. Quiet'
  BY RegistryAssumption, <1>now, <1>task, <1>conns, <1>registered
     DEF Inv, HandsOK, Phased, Quiet, Locked, Same, Workers
<1>10. Fresh'
  BY RegistryAssumption, <1>now, <1>task, <1>conns, <1>epoch, <1>defs, <1>loader
     DEF Inv, HandsOK, Exclusive, Phased, Fresh, Locked, Obsolete, Outdated, BuiltFrom,
         Holding, Same
<1>11. NoOrphan'
  <2>1. SUFFICES ASSUME NEW e \in Conns, conns'[e].phase \in {"starting", "up"},
                        e \notin registered', e \notin loader'.todo
                 PROVE  \E v \in Workers : task'[v].at = "connect" /\ task'[v].conn = e
    BY DEF NoOrphan
  <2> QED
    BY RegistryAssumption, <1>now, <1>task, <1>conns, <1>registered, <1>loader, <2>1
       DEF Inv, HandsOK, Exclusive, Phased, NoOrphan, Holding, Same
<1> QED BY <1>1, <1>2, <1>3, <1>4, <1>5, <1>6, <1>7, <1>8, <1>9, <1>10, <1>11 DEF Inv

-----------------------------------------------------------------------------
(* The invariant.                                                           *)

\* The invariant holds before the cold load.
LEMMA InitInv == Init => Inv
<1> SUFFICES ASSUME Init PROVE Inv
  OBVIOUS
<1>1. /\ 0 \in 0..MaxVersion /\ Absent \in Definition
      /\ Unused \in Connection /\ Unused.phase = "gone" /\ Unused.broken = FALSE
  BY RegistryAssumption DEF Absent, Definition, Unused, Connection, Phases
<1>2. /\ registered = {} /\ loader.todo = {} /\ loader.at = "start" /\ loader.conn = None
      /\ \A w \in Workers : task[w] = Idle
      /\ \A c \in Conns : conns[c] = Unused
  BY DEF Init
<1>3. TypeOK
  BY <1>1 DEF Init, TypeOK, Definition, Connection
<1>4. HandsOK
  BY <1>2, IdleParts, RegistryAssumption DEF Init, HandsOK, Holding
<1>5. Exclusive
  BY <1>2, IdleParts DEF Exclusive
<1>6. Phased /\ NoOrphan
  BY <1>1, <1>2, IdleParts DEF Phased, NoOrphan, Holding
<1>7. OneEach /\ Turn /\ Fresh /\ LockOK /\ Quiet
  BY <1>2, IdleParts DEF OneEach, Turn, Fresh, LockOK, Locked, Quiet, Workers
<1>8. Catalogued
  BY <1>2, RegistryAssumption DEF Init, Catalogued
<1> QED BY <1>3, <1>4, <1>5, <1>6, <1>7, <1>8 DEF Inv

\* The steps of an operation keep the invariant.
LEMMA WorkKeeps ==
  ASSUME Inv, NEW w \in Workers, Work(w)
  PROVE  Inv'
BY ReconnectRefusedKeeps, DropOldKeeps, ConnectAtOnceKeeps, DroppedKeeps, NotDroppedKeeps,
   DropSupersededKeeps, ConnectedKeeps, ConnectSupersededKeeps, AbandonedKeeps,
   DisconnectedKeeps, StillOpenKeeps, RevokeIdleKeeps, RevokeKeeps, RevokedKeeps DEF Work

\* Every step keeps the invariant.
LEMMA NextKeeps == Inv /\ [Next]_vars => Inv'
<1> SUFFICES ASSUME Inv, [Next]_vars PROVE Inv'
  OBVIOUS
<1>1. ASSUME NEW w \in Workers, Work(w) PROVE Inv'
  BY <1>1, WorkKeeps
<1>2. ASSUME NEW w \in Callers, NEW n \in Servers, CallReconnect(w, n) \/ CallDisconnect(w, n)
      PROVE  Inv'
  BY <1>2, CallReconnectKeeps, CallDisconnectKeeps DEF Workers
<1>3. ASSUME NEW c \in Conns, Owner(c) PROVE Inv'
  BY <1>3, StartedKeeps, LostKeeps, CloseEndsKeeps DEF Owner
<1>4. ASSUME NEW n \in Servers, EditSource(n) \/ SetCredential(n) PROVE Inv'
  BY <1>4, EditSourceKeeps, SetCredentialKeeps
<1>5. CASE Reconcile
  BY <1>5, ReconcileKeeps
<1>6. CASE Load
  BY <1>6, LoadBeginKeeps, LoadedKeeps, LoadAbandonedKeeps DEF Load
<1>7. CASE UNCHANGED vars
  BY <1>7 DEF Inv, vars, config, TypeOK, HandsOK, Exclusive, Phased, OneEach, Turn, Clear,
              Catalogued, LockOK, Locked, Quiet, Fresh, BuiltFrom, NoOrphan, Obsolete, Outdated
<1> QED BY <1>1, <1>2, <1>3, <1>4, <1>5, <1>6, <1>7 DEF Next

\* The invariant holds in every state.
LEMMA SpecInv == Spec => []Inv
<1>1. Init => Inv
  BY InitInv
<1>2. Inv /\ [Next]_vars => Inv'
  BY NextKeeps
<1> QED BY <1>1, <1>2, PTL DEF Spec

\* The variables of the registry have their types.
THEOREM TypeCorrect == Spec => []TypeOK
<1>1. Inv => TypeOK
  BY DEF Inv
<1> QED BY <1>1, SpecInv, PTL

\* The registry has at most one connection of a server, and the catalog shows its
\* tools exactly while it is up: neither a reconnect that raced a load or another
\* reconnect nor a lost transport leaves the tools of a dead connection behind.
THEOREM CatalogIsLive == Spec => []CatalogLive
<1>1. Inv => CatalogLive
  <2> SUFFICES ASSUME Inv, NEW n \in Servers
               PROVE  /\ Cardinality(Of(n)) <= 1
                      /\ \A c \in Conns : catalog[n] = c <=> c \in Of(n) /\ conns[c].phase = "up"
    BY DEF CatalogLive
  <2>1. Cardinality(Of(n)) <= 1
    <3>1. CASE Of(n) = {}
      BY <3>1, FS_EmptySet
    <3>2. ASSUME NEW c \in Of(n) PROVE Cardinality(Of(n)) <= 1
      <4>1. Of(n) = {c}
        BY DEF Of, Inv, OneEach
      <4>2. Cardinality({c}) = 1
        BY FS_Singleton
      <4> QED BY <4>1, <4>2
    <3> QED BY <3>1, <3>2
  <2>2. \A c \in Conns : catalog[n] = c <=> c \in Of(n) /\ conns[c].phase = "up"
    BY OfParts DEF Inv, Catalogued
  <2> QED BY <2>1, <2>2
<1> QED BY <1>1, SpecInv, PTL

\* A connection that starts or is up is registered, or in the hands of the load or of
\* a reconnect that waits for it: whoever is overtaken closes what he opened.
THEOREM NobodyIsOrphaned == Spec => []NoOrphan
<1>1. Inv => NoOrphan
  BY DEF Inv
<1> QED BY <1>1, SpecInv, PTL

-----------------------------------------------------------------------------
(* What the steps may not do.                                               *)

\* A connection enters the registry when a reconnect or the load has connected it, or
\* when it could not be closed.
LEMMA FewPublish ==
  ASSUME Inv, Next, NEW c \in Conns, c \in registered', c \notin registered
  PROVE  \/ Loaded
         \/ \E w \in Workers : Connected(w) \/ NotDropped(w) \/ StillOpen(w)
<1>1. ASSUME NEW w \in Workers, Work(w), ~(Connected(w) \/ NotDropped(w) \/ StillOpen(w))
      PROVE  c \in registered
  BY <1>1 DEF Work, ReconnectRefused, DropOld, ConnectAtOnce, Dropped, DropSuperseded,
     ConnectSuperseded, Abandoned, Disconnected, RevokeIdle, Revoke, Revoked, TakeDown
<1>2. ASSUME NEW w \in Callers, NEW n \in Servers, CallReconnect(w, n) \/ CallDisconnect(w, n)
      PROVE  c \in registered
  BY <1>2 DEF CallReconnect, CallDisconnect, TakeDown
<1>3. ASSUME NEW d \in Conns, Owner(d) PROVE c \in registered
  BY <1>3 DEF Owner, Started, Lost, CloseEnds
<1>4. ASSUME NEW n \in Servers, EditSource(n) \/ SetCredential(n) PROVE c \in registered
  BY <1>4 DEF EditSource, SetCredential
<1>5. CASE Reconcile \/ LoadBegin \/ LoadAbandoned
  BY <1>5 DEF Reconcile, LoadBegin, LoadAbandoned
<1> QED BY <1>1, <1>2, <1>3, <1>4, <1>5 DEF Next, Load

\* What enters the registry and is up was built from the definition and the
\* credential of the moment.
LEMMA PublishesFresh ==
  ASSUME Inv, Next, NEW c \in Conns, c \in registered', c \notin registered,
         conns'[c].phase = "up"
  PROVE  /\ conns'[c].config = defs'[conns'[c].server].config
         /\ conns'[c].cred = version'[conns'[c].server]
<1>0. TypeOK /\ HandsOK
  BY DEF Inv
<1>1. CASE Loaded
  <2>1. PICK S \in SUBSET loader.todo :
          /\ \A d \in S : ~Outdated(d)
          /\ Conclude(S)
          /\ \/ UNCHANGED conns
             \/ \E d \in loader.todo \ S : conns' = Asked(d)
    BY <1>1 DEF Loaded
  <2>2. c \in S /\ c \in loader.todo /\ ~Outdated(c) /\ conns[c].phase = "up"
    BY <2>1 DEF Conclude
  <2>3. BuiltFrom(c, conns[c].server)
    BY <2>2 DEF Inv, Fresh
  <2>4. Same(c)
    <3>1. CASE UNCHANGED conns
      BY <3>1 DEF Same
    <3>2. ASSUME NEW d \in loader.todo \ S, conns' = Asked(d) PROVE Same(c)
      BY <1>0, <2>2, <3>2, AskedParts DEF HandsOK
    <3> QED BY <2>1, <3>1, <3>2
  <2>5. defs' = defs /\ version' = version
    BY <1>1 DEF Loaded, config
  <2> QED BY <2>3, <2>4, <2>5 DEF BuiltFrom, Same
<1>2. ASSUME NEW w \in Workers, Connected(w)
      PROVE  /\ conns'[c].config = defs'[conns'[c].server].config
             /\ conns'[c].cred = version'[conns'[c].server]
  <2>1. /\ task[w].at = "connect" /\ ~Obsolete(w) /\ Conclude({task[w].conn})
        /\ conns' = conns /\ defs' = defs /\ version' = version
    BY <1>2 DEF Connected, config
  <2>2. c = task[w].conn
    BY <2>1 DEF Conclude
  <2>3. BuiltFrom(c, task[w].server) /\ conns[c].server = task[w].server
    BY <2>1, <2>2 DEF Inv, Fresh, Phased, Holding
  <2> QED BY <2>1, <2>3 DEF BuiltFrom
<1>3. ASSUME NEW w \in Workers, NotDropped(w) \/ StillOpen(w)
      PROVE  FALSE
  <2>1. c = task[w].conn /\ task[w].at \in {"drop", "undo"} /\ conns' = conns
    BY <1>3 DEF NotDropped, StillOpen
  <2> QED BY <2>1 DEF Inv, Phased, Holding
<1> QED BY <1>1, <1>2, <1>3, FewPublish

\* No step publishes an open connection built from a definition or a credential that
\* has been replaced: the comparison of the epochs after connect() is enough.
THEOREM PublishedIsFresh == Spec => FreshWhenPublished
<1>1. Inv /\ [Next]_vars =>
        [\A c \in Conns :
           c \in registered' \ registered /\ conns'[c].phase = "up"
             => LET n == conns'[c].server IN
                conns'[c].config = defs'[n].config /\ conns'[c].cred = version'[n]]_vars
  BY PublishesFresh
<1> QED BY <1>1, SpecInv, PTL DEF Spec, FreshWhenPublished

\* Who may put the operation of a reconcile to rest.
LEMMA FewAnswer ==
  ASSUME Inv, Next, NEW w \in Reconcilers, task[w].at \in {"revoke", "undo"}, task'[w] = Idle
  PROVE  RevokeIdle(w) \/ Revoked(w) \/ StillOpen(w)
<1>1. w \in Workers /\ w \notin Callers /\ task'[w] # task[w] /\ task \in [Workers -> Task]
  BY IdleParts, RegistryAssumption DEF Workers, Inv, HandsOK
<1>2. ASSUME NEW v \in Workers, Work(v), v # w PROVE FALSE
  BY <1>1, <1>2 DEF Work, ReconnectRefused, DropOld, ConnectAtOnce, Dropped, NotDropped,
     DropSuperseded, Connected, ConnectSuperseded, Abandoned, Disconnected, StillOpen, RevokeIdle,
     Revoke, Revoked, Build, Await, Finish, Answer
<1>3. ASSUME Work(w) PROVE RevokeIdle(w) \/ Revoked(w) \/ StillOpen(w)
  <2>1. ~Revoke(w)
    <3>1. Revoke(w) => \E c \in Of(task[w].server) :
                         task' = [task EXCEPT ![w].at = "undo", ![w].conn = c]
      BY DEF Revoke
    <3> QED BY <1>1, <3>1, IdleParts DEF Task
  <2> QED BY <1>1, <1>3, <2>1 DEF Work, ReconnectRefused, DropOld, ConnectAtOnce, Dropped,
        NotDropped, DropSuperseded, Connected, ConnectSuperseded, Abandoned, Disconnected, Enter
<1>4. ASSUME NEW v \in Callers, NEW n \in Servers, CallReconnect(v, n) \/ CallDisconnect(v, n)
      PROVE  FALSE
  BY <1>1, <1>4 DEF CallReconnect, CallDisconnect, Begin, Await
<1>5. ASSUME NEW d \in Conns, Owner(d) PROVE FALSE
  BY <1>1, <1>5 DEF Owner, Started, Lost, CloseEnds
<1>6. ASSUME NEW n \in Servers, EditSource(n) \/ SetCredential(n) PROVE FALSE
  BY <1>1, <1>6 DEF EditSource, SetCredential
<1>7. CASE Reconcile
  BY <1>1, <1>7, IdleParts DEF Reconcile
<1>8. CASE Load
  BY <1>1, <1>8 DEF Load, LoadBegin, Loaded, LoadAbandoned
<1> QED BY <1>1, <1>2, <1>3, <1>4, <1>5, <1>6, <1>7, <1>8 DEF Next

\* A revocation that reports "disabled" has the lock, or nobody has it; so no reconnect
\* holds a connection of the server, and none in the registry is up.
LEMMA DownWhenAnswered ==
  ASSUME Inv, Next, NEW w \in Reconcilers, task[w].at \in {"revoke", "undo"}, task'[w] = Idle,
         status'[w[2]] = "disabled", NEW c \in Conns, conns[c].server = w[2]
  PROVE  conns'[c].phase \notin {"starting", "up"}
<1>1. /\ w \in Workers /\ task[w].server = w[2] /\ w[2] \in Servers /\ loader.todo = {}
  BY DEF Workers, Inv, HandsOK
<1>2. RevokeIdle(w) \/ Revoked(w) \/ StillOpen(w)
  BY FewAnswer
<1>3. conns' = conns
  BY <1>2 DEF RevokeIdle, Revoked, StillOpen
<1>4. lock[w[2]] \in {None, w}
  <2>1. CASE RevokeIdle(w)
    BY <1>1, <2>1 DEF RevokeIdle, MayRevoke
  <2>2. CASE Revoked(w) \/ StillOpen(w)
    BY <1>1, <2>2 DEF Revoked, StillOpen, Inv, LockOK, Locked
  <2> QED BY <1>2, <2>1, <2>2
<1>5. c \in registered => conns[c].phase \notin {"starting", "up"}
  <2>1. CASE RevokeIdle(w)
    BY <1>1, <2>1 DEF RevokeIdle, Of
  <2>2. CASE Revoked(w) \/ StillOpen(w)
    BY <1>1, <2>2 DEF Revoked, StillOpen, Inv, Quiet, Phased
  <2> QED BY <1>2, <2>1, <2>2
<1>6. ASSUME NEW v \in Workers, task[v].at = "connect", task[v].conn = c
      PROVE  FALSE
  <2>1. lock[w[2]] = v
    BY <1>6 DEF Inv, Phased, LockOK, Locked, Holding
  <2>2. v = w
    BY <1>4, <2>1, RegistryAssumption
  <2> QED BY <1>6, <2>2
<1> QED BY <1>1, <1>3, <1>5, <1>6 DEF Inv, NoOrphan

\* When a reconcile answers that a server is removed or disabled, no connection of the
\* server starts or is up, whatever the hosts and the files did meanwhile.
THEOREM RevocationHolds == Spec => RevokedIsDown
<1>1. Inv /\ [Next]_vars =>
        [\A w \in Reconcilers :
           task[w].at \in {"revoke", "undo"} /\ task'[w] = Idle /\ status'[w[2]] = "disabled"
             => \A c \in Conns : conns[c].server = w[2] => conns'[c].phase \notin {"starting", "up"}]_vars
  BY DownWhenAnswered
<1> QED BY <1>1, SpecInv, PTL DEF Spec, RevokedIsDown
=============================================================================
