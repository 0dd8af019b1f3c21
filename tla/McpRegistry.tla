---------------------------- MODULE McpRegistry ----------------------------
(***************************************************************************)
(* The registry of MCP connections (tools/mcp_loader.py): the cold load,   *)
(* reconnect, disconnect, the reconciliation with the configuration files  *)
(* and the host's credentials, all of which run concurrently in one loop.  *)
(*                                                                         *)
(* A connection is owned by a task of its own, which opens the transport,  *)
(* waits to be asked to close, and closes it.  Whoever publishes one holds *)
(* an epoch; every operation on the server takes a new epoch, and who      *)
(* finds his own replaced when he wakes up must not publish.  Reconnects   *)
(* and revocations of a server exclude each other; a host's disconnect     *)
(* does not wait for them.                                                 *)
(*                                                                         *)
(* Simplifications: an epoch is known by its owner, as it is only ever     *)
(* compared with one's own; a definition is its configuration and the      *)
(* version of the credential it was resolved with; identifiers of          *)
(* connections are used again once nothing refers to them.                 *)
(***************************************************************************)
EXTENDS Naturals, FiniteSets

CONSTANTS
  Servers, Configs,  \* names, and the configurations a server can have
  Callers,           \* the host's requests: reconnect and disconnect
  Conns,             \* identifiers of connections
  MaxVersion,        \* bound on the changes of a credential
  None

VARIABLES
  source,        \* what the files say of a server
  version, held, \* its credential: how often it changed, whether there is one
  defs,          \* _mcp_server_definitions
  epoch,         \* _mcp_connection_epochs: whose epoch is current
  conns,         \* every connection, by identifier
  registered,    \* _mcp_connections
  catalog,       \* the connection whose tools the catalog shows
  status,        \* _mcp_status
  lock,          \* _mcp_reconnect_locks
  refreshing,    \* the servers marked as loading in the catalog
  task,          \* the operations under way
  loader         \* the cold load

config == <<source, version, held>>
vars   == <<config, defs, epoch, conns, registered, catalog, status, lock,
            refreshing, task, loader>>

Reconcilers == {"reconcile"} \X Servers
Workers     == Callers \cup Reconcilers
Loading     == <<"load">>  \* the cold load, as the owner of an epoch

\* The three kinds of owners of an epoch are told apart from each other and from
\* no owner at all.
ASSUME RegistryAssumption ==
  /\ MaxVersion \in Nat /\ {"absent", "off"} \cap Configs = {}
  /\ None \notin Conns \cup Workers \cup {Loading}
  /\ Loading \notin Workers /\ Callers \cap Reconcilers = {}

Absent == [config |-> "absent", cred |-> 0]
Idle   == [at |-> "idle", server |-> None, conn |-> None, after |-> Absent, sure |-> FALSE]
Unused == [server |-> None, config |-> None, cred |-> 0, phase |-> "gone",
           lost |-> FALSE, broken |-> FALSE]

\* starting: connect() waits; up: the owner waits to be asked to close;
\* closing: it closes the transport; gone: it has ended, maybe with an error.
Phases == {"starting", "up", "closing", "gone"}

Resolved(n) == [config |-> source[n], cred |-> version[n]]

Init ==
  /\ source \in [Servers -> {"absent", "off"} \cup Configs]
  /\ held \in [Servers -> BOOLEAN]
  /\ version = [n \in Servers |-> 0]
  /\ defs = [n \in Servers |-> Absent]
  /\ epoch = [n \in Servers |-> None] /\ lock = [n \in Servers |-> None]
  /\ conns = [c \in Conns |-> Unused]
  /\ registered = {} /\ refreshing = {}
  /\ catalog = [n \in Servers |-> None]
  /\ status = [n \in Servers |-> "none"]
  /\ task = [w \in Workers |-> Idle]
  /\ loader = [at |-> "start", todo |-> {}, conn |-> None]

-----------------------------------------------------------------------------
(* A connection and its owner.                                             *)

Of(n)   == { c \in registered : conns[c].server = n }
\* An owner that still closes, with nobody to wait for it, changes nothing more.
Free(c, w) ==
  /\ conns[c].phase \in {"closing", "gone"} /\ c \notin registered
  /\ c \notin loader.todo \cup {loader.conn}
  /\ \A v \in Workers \ {w} : task[v].conn # c

NewConn(w) == CHOOSE c \in Conns : Free(c, w)

\* A build reads the credential of the moment.
Starting(n, cfg) == [server |-> n, config |-> cfg, cred |-> version[n],
                     phase |-> "starting", lost |-> FALSE, broken |-> FALSE]

\* The owner has ended; the cleanup of the transport may have failed.
Ended(c, bad) == [Unused EXCEPT !.server = conns[c].server, !.broken = bad]

\* disconnect() asks the owner to close; it has done so if it lost the server.
Asked(c) == [conns EXCEPT ![c].phase = IF @ = "up" THEN "closing" ELSE @]

\* How disconnect() ends: it raises after a time-out, or for a failed cleanup.
Closed(c) == conns[c].phase = "gone" /\ ~conns[c].broken

\* Mutant of Unclosed: the wait for the owner has no time-out.
UnclosedAtLast(c) == conns[c].broken

Unclosed(c) == conns[c].phase = "closing" \/ conns[c].broken

Started(c) ==
  /\ conns[c].phase = "starting"
  /\ \/ conns' = [conns EXCEPT ![c].phase = "up"]
     \/ \E bad \in BOOLEAN : conns' = [conns EXCEPT ![c] = Ended(c, bad)]
  /\ UNCHANGED <<config, defs, epoch, registered, catalog, status, lock, refreshing, task, loader>>

\* The transport is lost: the owner takes the tools out of the catalog.
Lost(c) ==
  /\ conns[c].phase = "up"
  /\ conns' = [conns EXCEPT ![c].phase = "closing", ![c].lost = TRUE]
  /\ catalog' = IF c \in registered THEN [catalog EXCEPT ![conns[c].server] = None] ELSE catalog
  /\ UNCHANGED <<config, defs, epoch, registered, status, lock, refreshing, task, loader>>

CloseEnds(c) ==
  /\ conns[c].phase = "closing"
  /\ \E bad \in BOOLEAN : conns' = [conns EXCEPT ![c] = Ended(c, bad)]
  /\ status' = IF conns[c].lost /\ c \in registered
                 THEN [status EXCEPT ![conns[c].server] = "failed"] ELSE status
  /\ UNCHANGED <<config, defs, epoch, registered, catalog, lock, refreshing, task, loader>>

-----------------------------------------------------------------------------
(* reconnect_mcp_server.                                                   *)

Obsolete(w) == epoch[task[w].server] # w

Begin(w, n, at) == task' = [task EXCEPT ![w] = [Idle EXCEPT !.at = at, !.server = n]]
Await(w, n, at, c) ==
  task' = [task EXCEPT ![w] = [@ EXCEPT !.at = at, !.server = n, !.conn = c]]

Report(n, state) == status' = [status EXCEPT ![n] = state]

\* The end of an operation that holds the lock.
Finish(w) ==
  /\ task' = [task EXCEPT ![w] = Idle]
  /\ lock' = [lock EXCEPT ![task[w].server] = None]
  /\ refreshing' = refreshing \ {task[w].server}

CallReconnect(w, n) ==
  /\ w \in Callers /\ task[w] = Idle /\ loader.at # "start"
  /\ Begin(w, n, "reconnect")
  /\ UNCHANGED <<config, defs, epoch, conns, registered, catalog, status, lock, refreshing, loader>>

\* The definition is read from the files again, and the epoch is taken.
Enter(w) ==
  LET n == task[w].server IN
  /\ task[w].at = "reconnect" /\ lock[n] = None
  /\ defs' = [defs EXCEPT ![n] = Resolved(n)]
  /\ epoch' = [epoch EXCEPT ![n] = w]

ReconnectRefused(w) ==
  LET n == task[w].server IN
  /\ Enter(w) /\ source[n] \notin Configs
  /\ status' = IF source[n] = "off" THEN [status EXCEPT ![n] = "disabled"] ELSE status
  /\ task' = [task EXCEPT ![w] = Idle]
  /\ UNCHANGED <<config, conns, registered, catalog, lock, refreshing, loader>>

\* The old connection leaves the registry before its close is awaited.
DropOld(w) ==
  LET n == task[w].server IN
  /\ Enter(w) /\ source[n] \in Configs
  /\ \E c \in Of(n) :
       /\ registered' = registered \ Of(n)
       /\ conns' = Asked(c)
       /\ Await(w, n, "drop", c)
  /\ catalog' = [catalog EXCEPT ![n] = None]
  /\ lock' = [lock EXCEPT ![n] = w]
  /\ refreshing' = refreshing \cup {n}
  /\ UNCHANGED <<config, status, loader>>

\* connect() is awaited, unless the host still owes the credential.
Build(w, cfg) ==
  LET n == task[w].server IN
  /\ Report(n, "connecting")
  /\ IF held[n]
       THEN /\ \E c \in Conns : Free(c, w)
            /\ conns' = [conns EXCEPT ![NewConn(w)] = Starting(n, cfg)]
            /\ Await(w, n, "connect", NewConn(w))
            /\ lock' = [lock EXCEPT ![n] = w]
            /\ refreshing' = refreshing \cup {n}
       ELSE Finish(w) /\ UNCHANGED conns

ConnectAtOnce(w) ==
  LET n == task[w].server IN
  /\ Enter(w) /\ source[n] \in Configs /\ Of(n) = {}
  /\ Build(w, source[n])
  /\ UNCHANGED <<config, registered, catalog, loader>>

Dropped(w) ==
  /\ task[w].at = "drop" /\ Closed(task[w].conn) /\ ~Obsolete(w)
  /\ UNCHANGED <<config, defs, epoch, registered, catalog, loader>>
  /\ Build(w, defs[task[w].server].config)

\* It stays registered, so that a later disconnect can join its cleanup.
NotDropped(w) ==
  LET c == task[w].conn IN
  /\ task[w].at = "drop" /\ Unclosed(c) /\ ~Obsolete(w)
  /\ registered' = registered \cup {c}
  /\ Report(task[w].server, "failed")
  /\ Finish(w)
  /\ UNCHANGED <<config, defs, epoch, conns, catalog, loader>>

DropSuperseded(w) ==
  /\ task[w].at = "drop" /\ (Closed(task[w].conn) \/ Unclosed(task[w].conn)) /\ Obsolete(w)
  /\ Finish(w)
  /\ UNCHANGED <<config, defs, epoch, conns, registered, catalog, status, loader>>

\* Connections enter the registry and their tools the catalog, or they failed.
Conclude(S) ==
  LET up    == { c \in S : conns[c].phase = "up" }
      of(n) == { c \in S : conns[c].server = n }
  IN /\ registered' = registered \cup up
     /\ catalog' = [n \in Servers |-> IF of(n) \cap up # {} THEN CHOOSE c \in of(n) \cap up : TRUE
                                                           ELSE catalog[n]]
     /\ status' = [n \in Servers |-> IF of(n) = {} THEN status[n]
                                     ELSE IF of(n) \cap up # {} THEN "connected" ELSE "failed"]

Connected(w) ==
  LET c == task[w].conn IN
  /\ task[w].at = "connect" /\ conns[c].phase # "starting"
  /\ ~Obsolete(w)
  /\ Conclude({c})
  /\ Finish(w)
  /\ UNCHANGED <<config, defs, epoch, conns, loader>>

\* Mutant of ConnectSuperseded: the connection is not closed.
Forgotten(w) ==
  LET c == task[w].conn IN
  /\ task[w].at = "connect" /\ conns[c].phase # "starting" /\ Obsolete(w)
  /\ Await(w, task[w].server, "abandon", c)
  /\ UNCHANGED <<config, defs, epoch, conns, registered, catalog, status, lock, refreshing, loader>>

ConnectSuperseded(w) ==
  LET c == task[w].conn IN
  /\ task[w].at = "connect" /\ conns[c].phase # "starting" /\ Obsolete(w)
  /\ conns' = Asked(c)
  /\ Await(w, task[w].server, "abandon", c)
  /\ UNCHANGED <<config, defs, epoch, registered, catalog, status, lock, refreshing, loader>>

\* _close_obsolete_connection: an error is only logged.
Abandoned(w) ==
  /\ task[w].at = "abandon" /\ conns[task[w].conn].phase \in {"closing", "gone"}
  /\ Finish(w)
  /\ UNCHANGED <<config, defs, epoch, conns, registered, catalog, status, loader>>

-----------------------------------------------------------------------------
(* disconnect_mcp_server, and the revocation of a server by reconcile.      *)

\* What it does before it waits: nothing of n is registered any more.
TakeDown(w, n) ==
  /\ epoch' = [epoch EXCEPT ![n] = w]
  /\ registered' = registered \ Of(n)
  /\ catalog' = [catalog EXCEPT ![n] = None]

CallDisconnect(w, n) ==
  /\ w \in Callers /\ task[w] = Idle /\ loader.at # "start"
  /\ TakeDown(w, n)
  /\ IF Of(n) = {}
       THEN Report(n, "disabled") /\ UNCHANGED <<conns, task>>
       ELSE \E c \in Of(n) :
              conns' = Asked(c) /\ Await(w, n, "undo", c) /\ UNCHANGED status
  /\ UNCHANGED <<config, defs, lock, refreshing, loader>>

Disconnected(w) ==
  /\ w \in Callers /\ task[w].at = "undo" /\ Closed(task[w].conn)
  /\ status' = IF Obsolete(w) THEN status ELSE [status EXCEPT ![task[w].server] = "disabled"]
  /\ task' = [task EXCEPT ![w] = Idle]
  /\ UNCHANGED <<config, defs, epoch, conns, registered, catalog, lock, refreshing, loader>>

\* The connection is registered again, unless somebody else has taken over.
StillOpen(w) ==
  LET n == task[w].server IN
  /\ task[w].at = "undo" /\ Unclosed(task[w].conn)
  /\ IF Obsolete(w) THEN UNCHANGED <<registered, status>>
     ELSE registered' = registered \cup {task[w].conn} /\ Report(n, "failed")
  /\ task' = [task EXCEPT ![w] = Idle]
  /\ lock' = IF w \in Reconcilers THEN [lock EXCEPT ![n] = None] ELSE lock
  /\ UNCHANGED <<config, defs, epoch, conns, catalog, refreshing, loader>>

\* Mutant of MayRevoke: it does not.
RevokeAtOnce(w) == task[w].at = "revoke"

\* A revocation waits for the reconnect that holds the lock.
MayRevoke(w) == task[w].at = "revoke" /\ lock[task[w].server] = None

\* The answer to the host: the server is removed or disabled.
Answer(w) ==
  LET n == task[w].server IN
  /\ Report(n, "disabled")
  /\ defs' = [defs EXCEPT ![n] = task[w].after]
  /\ Finish(w)

\* Nothing to take down; an epoch is taken if the server may have been in use.
RevokeIdle(w) ==
  LET n == task[w].server IN
  /\ MayRevoke(w) /\ Of(n) = {}
  /\ epoch' = IF task[w].sure THEN [epoch EXCEPT ![n] = w] ELSE epoch
  /\ Answer(w)
  /\ UNCHANGED <<config, conns, registered, catalog, loader>>

Revoke(w) ==
  LET n == task[w].server IN
  /\ MayRevoke(w)
  /\ defs' = IF task[w].after = Absent THEN defs ELSE [defs EXCEPT ![n] = task[w].after]
  /\ TakeDown(w, n)
  /\ lock' = [lock EXCEPT ![n] = w]
  /\ \E c \in Of(n) :
       conns' = Asked(c) /\ task' = [task EXCEPT ![w].at = "undo", ![w].conn = c]
  /\ UNCHANGED <<config, status, refreshing, loader>>

Revoked(w) ==
  /\ w \in Reconcilers /\ task[w].at = "undo" /\ Closed(task[w].conn)
  /\ Answer(w)
  /\ UNCHANGED <<config, epoch, conns, registered, catalog, loader>>

-----------------------------------------------------------------------------
(* reconcile_mcp_sources, the files, and the credentials of the host.       *)

\* What a reconcile does about server n, from what it reads when it starts.
Operation(n) ==
  LET begin(at) == [Idle EXCEPT !.at = at, !.server = n, 
                                  !.sure = source[n] = "absent" \/ defs[n].config # "off"]
  IN CASE source[n] = "absent" ->
            IF defs[n].config = "absent" THEN Idle ELSE begin("revoke")
       [] source[n] = "off" -> [begin("revoke") EXCEPT !.after = Resolved(n)]
       [] OTHER -> IF defs[n] = Resolved(n) /\ status[n] # "failed"
                     THEN Idle ELSE [begin("reconnect") EXCEPT !.sure = FALSE]

\* One at a time, and only after the cold load.
Reconcile ==
  /\ loader.at = "done" /\ \A w \in Reconcilers : task[w] = Idle
  /\ task' = [w \in Workers |-> IF w \in Reconcilers THEN Operation(w[2]) ELSE task[w]]
  /\ UNCHANGED <<config, defs, epoch, conns, registered, catalog, status, lock, refreshing, loader>>

EditSource(n) ==
  /\ \E v \in {"absent", "off"} \cup Configs : v # source[n] /\ source' = [source EXCEPT ![n] = v]
  /\ UNCHANGED <<version, held, defs, epoch, conns, registered, catalog, status, lock,
                 refreshing, task, loader>>

\* Mutant of Superseded: the epoch stays.
NotSuperseded(n) == UNCHANGED epoch

\* Whoever works with the credential of before is superseded.
Superseded(n) == epoch' = IF defs[n].config = "absent" THEN epoch ELSE [epoch EXCEPT ![n] = None]

SetCredential(n) ==
  /\ version[n] < MaxVersion
  /\ version' = [version EXCEPT ![n] = @ + 1]
  /\ \E have \in BOOLEAN : held' = [held EXCEPT ![n] = have]
  /\ Superseded(n)
  /\ UNCHANGED <<source, defs, conns, registered, catalog, status, lock, refreshing, task, loader>>

-----------------------------------------------------------------------------
(* load_mcp_tools_async.                                                    *)

LoadBegin ==
  LET ready == { n \in Servers : source[n] \in Configs /\ held[n] } IN
  /\ loader.at = "start"
  /\ defs' = [n \in Servers |-> IF source[n] = "absent" THEN Absent ELSE Resolved(n)]
  /\ status' = [n \in Servers |-> CASE source[n] = "absent" -> "none"
                                    [] source[n] = "off" -> "disabled"
                                    [] OTHER -> "connecting"]
  /\ \E f \in [ready -> { c \in Conns : Free(c, None) }] :
       /\ \A m, n \in ready : f[m] = f[n] => m = n
       /\ conns' = [c \in Conns |-> IF \E n \in ready : f[n] = c
                                     THEN LET n == CHOOSE n \in ready : f[n] = c
                                          IN Starting(n, source[n])
                                     ELSE conns[c]]
       /\ loader' = [loader EXCEPT !.at = "connect", !.todo = { f[n] : n \in ready }]
  /\ epoch' = [n \in Servers |-> IF n \in ready THEN Loading ELSE epoch[n]]
  /\ UNCHANGED <<config, registered, catalog, lock, refreshing, task>>

\* Mutant of Outdated: the load does not look whether it was overtaken.
NeverOutdated(c) == FALSE

Outdated(c) == epoch[conns[c].server] # Loading

\* All are awaited together; then one after the other is published, up to one
\* that has to be closed first.
Loaded ==
  /\ loader.at = "connect" /\ \A c \in loader.todo : conns[c].phase # "starting"
  /\ \E S \in SUBSET loader.todo :
       /\ \A c \in S : ~Outdated(c)
       /\ Conclude(S)
       /\ \/ /\ S = loader.todo
             /\ loader' = [at |-> "done", todo |-> {}, conn |-> None]
             /\ UNCHANGED conns
          \/ \E c \in loader.todo \ S :
               /\ Outdated(c)
               /\ conns' = Asked(c)
               /\ loader' = [at |-> "abandon", todo |-> loader.todo \ (S \cup {c}), conn |-> c]
  /\ UNCHANGED <<config, defs, epoch, lock, refreshing, task>>

LoadAbandoned ==
  /\ loader.at = "abandon" /\ conns[loader.conn].phase \in {"closing", "gone"}
  /\ loader' = [loader EXCEPT !.at = "connect", !.conn = None]
  /\ UNCHANGED <<config, defs, epoch, conns, registered, catalog, status, lock, refreshing, task>>

-----------------------------------------------------------------------------

Work(w) ==
  \/ ReconnectRefused(w) \/ DropOld(w) \/ ConnectAtOnce(w) \/ Dropped(w) \/ NotDropped(w)
  \/ DropSuperseded(w) \/ Connected(w) \/ ConnectSuperseded(w) \/ Abandoned(w)
  \/ Disconnected(w) \/ StillOpen(w) \/ RevokeIdle(w) \/ Revoke(w) \/ Revoked(w)

Owner(c) == Started(c) \/ Lost(c) \/ CloseEnds(c)

Load == LoadBegin \/ Loaded \/ LoadAbandoned

Next ==
  \/ \E w \in Workers : Work(w)
  \/ \E w \in Callers, n \in Servers : CallReconnect(w, n) \/ CallDisconnect(w, n)
  \/ \E c \in Conns : Owner(c)
  \/ \E n \in Servers : EditSource(n) \/ SetCredential(n)
  \/ Reconcile \/ Load

Spec == Init /\ [][Next]_vars

\* connect() ends by its time-out, and so does every wait for a close, whether
\* or not the transport ever closes.  No host is obliged to call anything, and
\* a server that is lost or an owner that closes is not assumed either.
Fairness ==
  /\ \A w \in Workers : WF_vars(Work(w))
  /\ \A c \in Conns : WF_vars(Started(c))
  /\ WF_vars(Loaded \/ LoadAbandoned)

FairSpec == Spec /\ Fairness

-----------------------------------------------------------------------------

\* The values of the variables.
TypeOK ==
  /\ source \in [Servers -> {"absent", "off"} \cup Configs]
  /\ version \in [Servers -> 0..MaxVersion] /\ held \in [Servers -> BOOLEAN]
  /\ defs \in [Servers -> [config : {"absent", "off"} \cup Configs, cred : 0..MaxVersion]]
  /\ epoch \in [Servers -> {None, Loading} \cup Workers]
  /\ conns \in [Conns -> [server : Servers \cup {None}, config : Configs \cup {None},
                         cred : 0..MaxVersion, phase : Phases, lost : BOOLEAN, broken : BOOLEAN]]
  /\ registered \subseteq Conns /\ refreshing \subseteq Servers
  /\ catalog \in [Servers -> Conns \cup {None}]
  /\ lock \in [Servers -> Workers \cup {None}]

\* The model sees the tools of the one live connection of a server, and only
\* those: what is in the catalog can be called, what is up and registered can be
\* found, and there are never two (_replace_server_catalog, remove_server).
CatalogLive ==
  \A n \in Servers :
    /\ Cardinality(Of(n)) <= 1
    /\ \A c \in Conns : catalog[n] = c <=> c \in Of(n) /\ conns[c].phase = "up"

\* Every connection that runs is registered, or somebody who has not forgotten
\* it is about to publish or to close it: no server process is left behind.
NoOrphan ==
  \A c \in Conns :
    conns[c].phase \in {"starting", "up"} =>
      \/ c \in registered
      \/ c \in loader.todo
      \/ \E w \in Workers : task[w].at = "connect" /\ task[w].conn = c

\* What is published was built from the definition and with the credential that
\* are valid at that moment, however much changed while it connected.
FreshWhenPublished ==
  [][\A c \in Conns :
       c \in registered' \ registered /\ conns'[c].phase = "up"
         => LET n == conns'[c].server IN
            conns'[c].config = defs'[n].config /\ conns'[c].cred = version'[n]]_vars

\* When a reconcile answers that it has removed or disabled a server, nothing of
\* it is connected, nor on its way ("an in-flight reconnect must finish
\* publishing before revocation can close it").
RevokedIsDown ==
  [][\A w \in Reconcilers :
       task[w].at \in {"revoke", "undo"} /\ task'[w] = Idle
       /\ status'[w[2]] = "disabled"
         => \A c \in Conns : conns[c].server = w[2] => conns'[c].phase \notin {"starting", "up"}]_vars

\* A search waits for the servers that are being refreshed, and a reconcile for
\* the cold load: neither lasts for ever, not even if no transport ever closes.
RefreshEnds ==
  /\ \A n \in Servers : n \in refreshing ~> n \notin refreshing
  /\ loader.at # "start" ~> loader.at = "done"
=============================================================================
