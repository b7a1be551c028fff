----------------------------- MODULE NodeTables -----------------------------
(***************************************************************************)
(* The tables of nodes by mode (discover.go, host.go) and the goroutines   *)
(* that fill them: discovery, the handler of handshakes that other nodes   *)
(* begin, and callers of RoutingTable(mode).                               *)
(*                                                                         *)
(* All three look a mode's table up and, if there is none, create one and  *)
(* write it to the map, the first two after they have put a peer in it.    *)
(* Discovery, which is one goroutine, holds tryConnectLock for a peer,     *)
(* RoutingTable holds bp.mu, the handler holds nothing.  When one writes   *)
(* the map while another reads or writes it, the Go runtime may stop the   *)
(* program.                                                                *)
(*                                                                         *)
(* The supervisor's try would be a fourth, but it has no peers: nothing    *)
(* sets the option AddsBook.                                               *)
(***************************************************************************)
EXTENDS Naturals, FiniteSets

CONSTANTS
  Peer, Mode,
  Handler,     (* goroutines that serve a handshake                        *)
  Caller,      (* goroutines that call RoutingTable(mode)                  *)
  Disc,        (* discovery's goroutine                                    *)
  NoPeer, NoMode,
  BucketSize,  (* of the tables that NewTable makes                        *)
  MaxTables    (* bound on the tables created                              *)

VARIABLES
  phase,       (* of NewDeP2P: connecting, running, failed                 *)
  tables,      (* the map: per mode the table, 0 for none                  *)
  content,     (* per table: its peers                                     *)
  made,        (* tables created                                           *)
  writes,      (* per mode: how often its entry was written                *)
  conn,        (* actuators: the mode of the peers connected, else NoMode  *)
  at,          (* per goroutine: idle, shaking, checking, waiting,         *)
               (* looking, renewing, creating, writing, adding             *)
  job,         (* per goroutine: the peer and the mode it works on         *)
  got,         (* per goroutine: the table it has found or created, or 0   *)
  muHeld,      (* bp.mu, held for writing                                  *)
  fatal        (* the runtime has stopped the program                      *)

tableVars == <<tables, content, made, writes>>
lockVars  == <<muHeld, fatal>>
callVars  == <<phase, conn, job, got>>
vars == <<tableVars, callVars, at, lockVars>>

Goroutine == {Disc} \cup Handler \cup Caller
NoJob     == [peer |-> NoPeer, mode |-> NoMode]
Table     == 1 .. MaxTables

TypeOK ==
  /\ phase \in {"connecting", "running", "failed"}
  /\ tables \in [Mode -> 0 .. made]
  /\ content \in [Table -> SUBSET Peer]
  /\ made \in 0 .. MaxTables
  /\ writes \in [Mode -> 0 .. MaxTables]
  /\ conn \in [Peer -> Mode \cup {NoMode}]
  /\ at \in [Goroutine -> {"idle", "shaking", "checking", "waiting", "looking",
                           "renewing", "creating", "writing", "adding"}]
  /\ job \in [Goroutine -> [peer : Peer \cup {NoPeer}, mode : Mode \cup {NoMode}]]
  /\ got \in [Goroutine -> 0 .. made]
  /\ {muHeld, fatal} \subseteq BOOLEAN

Init ==
  /\ phase = "connecting"
  /\ tables = [m \in Mode |-> 0]
  /\ content = [t \in Table |-> {}]
  /\ made = 0
  /\ writes = [m \in Mode |-> 0]
  /\ conn = [p \in Peer |-> NoMode]
  /\ at = [g \in Goroutine |-> "idle"]
  /\ job = [g \in Goroutine |-> NoJob]
  /\ got = [g \in Goroutine |-> 0]
  /\ muHeld = FALSE
  /\ fatal = FALSE

-----------------------------------------------------------------------------
Goes(g, from, to) == at[g] = from /\ at' = [at EXCEPT ![g] = to]
Works(g, p, m)    == job' = [job EXCEPT ![g] = [peer |-> p, mode |-> m]]

(* networkDiscoveryNode: NewDeP2P fails if it can connect to none of the   *)
(* bootstrap nodes; otherwise discovery runs, the handshake handler is     *)
(* registered and callers have a node.                                     *)
ConnectToBootstrapPeers ==
  /\ phase = "connecting"
  /\ phase' \in {"running", "failed"}
  /\ UNCHANGED <<tableVars, conn, at, job, got, lockVars>>

Connected(p) == conn[p] # NoMode

(* AddConn replaces the actuator the peer may have had.                    *)
AddConn(p, m) == conn' = [conn EXCEPT ![p] = m]

(* Discovery: a peer that is connected already changes nothing.            *)
Discover(p) ==
  /\ phase = "running"
  /\ ~ Connected(p)
  /\ Goes(Disc, "idle", "shaking")
  /\ Works(Disc, p, NoMode)
  /\ UNCHANGED <<phase, tableVars, conn, got, lockVars>>

HandshakeFails ==
  /\ Goes(Disc, "shaking", "idle")
  /\ AddConn(job[Disc].peer, NoMode)
  /\ job' = [job EXCEPT ![Disc] = NoJob]
  /\ UNCHANGED <<phase, tableVars, got, lockVars>>

HandshakeAgreed(m) ==
  /\ Goes(Disc, "shaking", "looking")
  /\ Works(Disc, job[Disc].peer, m)
  /\ UNCHANGED <<phase, tableVars, conn, got, lockVars>>

(* A handshake that peer p has begun.                                      *)
HandshakeArrives(g, p, m) ==
  /\ phase = "running"
  /\ g \in Handler
  /\ Goes(g, "idle", "looking")
  /\ Works(g, p, m)
  /\ UNCHANGED <<phase, tableVars, conn, got, lockVars>>

(* RoutingTable reads the map under the read lock, which it gives back;    *)
(* if there is no table it looks again under the write lock.               *)
RoutingTable(g, m) ==
  /\ phase = "running"
  /\ g \in Caller
  /\ ~ muHeld
  /\ Goes(g, "idle", "checking")
  /\ Works(g, NoPeer, m)
  /\ UNCHANGED <<phase, tableVars, conn, got, lockVars>>

Check(g) ==
  /\ at[g] = "checking"
  /\ IF tables[job[g].mode] # 0
     THEN Goes(g, "checking", "idle") /\ job' = [job EXCEPT ![g] = NoJob]
     ELSE Goes(g, "checking", "waiting") /\ UNCHANGED job
  /\ UNCHANGED <<phase, tableVars, conn, got, lockVars>>

Lock(g) ==
  /\ ~ muHeld
  /\ \A h \in Caller : at[h] # "checking"
  /\ Goes(g, "waiting", "looking")
  /\ muHeld' = TRUE
  /\ UNCHANGED <<tableVars, callVars, fatal>>

(* The look into the map, and NewTable when there is none.                 *)
Look(g) ==
  /\ at[g] = "looking"
  /\ IF tables[job[g].mode] # 0
     THEN /\ Goes(g, "looking", "renewing")
          /\ got' = [got EXCEPT ![g] = tables[job[g].mode]]
          /\ UNCHANGED made
     ELSE /\ Goes(g, "looking", "creating")
          /\ made < MaxTables
          /\ made' = made + 1
          /\ got' = [got EXCEPT ![g] = made']
  /\ UNCHANGED <<phase, tables, content, writes, conn, job, lockVars>>

Full(t) == Cardinality(content[t]) >= BucketSize

Renew_NewOnly(g) ==
  /\ Goes(g, "renewing", "adding") \/ Goes(g, "creating", "writing")
  /\ content' = [content EXCEPT ![got[g]] =
                    IF at[g] = "creating" THEN {job[g].peer} \ {NoPeer} ELSE @]
  /\ UNCHANGED <<tables, made, writes, callVars, lockVars>>

(* renewKbucketRoutingTable puts the peer, if there is one, into the table *)
(* at hand.  The table may refuse it when a bucket, and so the table, has  *)
(* that many peers: that is logged and nothing else.                       *)
Renew(g) ==
  /\ Goes(g, "renewing", "adding") \/ Goes(g, "creating", "writing")
  /\ \/ content' = [content EXCEPT ![got[g]] = @ \cup ({job[g].peer} \ {NoPeer})]
     \/ Full(got[g]) /\ UNCHANGED content
  /\ UNCHANGED <<tables, made, writes, callVars, lockVars>>

Write(g) ==
  /\ Goes(g, "writing", "adding")
  /\ tables' = [tables EXCEPT ![job[g].mode] = got[g]]
  /\ writes' = [writes EXCEPT ![job[g].mode] = @ + 1]
  /\ UNCHANGED <<content, made, callVars, lockVars>>

(* One writes the map while another uses it, and the runtime notices.      *)
MapRace ==
  /\ \E g, h \in Goroutine :
       g # h /\ at[g] = "writing" /\ at[h] \in {"checking", "looking", "writing"}
  /\ fatal' = TRUE
  /\ UNCHANGED <<tableVars, callVars, at, muHeld>>

(* Discovery's AddConn, made whether or not the table took the peer, or    *)
(* the end of the call.                                                    *)
Finish(g) ==
  /\ Goes(g, "adding", "idle")
  /\ got' = [got EXCEPT ![g] = 0]
  /\ job' = [job EXCEPT ![g] = NoJob]
  /\ IF g = Disc THEN AddConn(job[g].peer, job[g].mode) ELSE UNCHANGED conn
  /\ muHeld' = (muHeld /\ g \notin Caller)
  /\ UNCHANGED <<phase, tableVars, fatal>>

Step(g) == Check(g) \/ Lock(g) \/ Look(g) \/ Renew(g) \/ Write(g) \/ Finish(g)

Next ==
  /\ ~ fatal
  /\ \/ ConnectToBootstrapPeers
     \/ \E p \in Peer : Discover(p)
     \/ HandshakeFails
     \/ \E m \in Mode : HandshakeAgreed(m)
     \/ \E g \in Goroutine, p \in Peer, m \in Mode : HandshakeArrives(g, p, m)
     \/ \E g \in Goroutine, m \in Mode : RoutingTable(g, m)
     \/ \E g \in Goroutine : Step(g)
     \/ MapRace

Spec == Init /\ [][Next]_vars
-----------------------------------------------------------------------------
(* A connected peer is in the table of its mode, unless that table is full *)
(* or was created twice: what discovery has put into a table, others who   *)
(* create and fill tables meanwhile lose only in these two ways            *)
(* (discover.go, handleChanNewPeerFound).                                  *)
InTableUnlessReplaced ==
  \A p \in Peer : Connected(p) =>
    \/ /\ tables[conn[p]] # 0
       /\ p \in content[tables[conn[p]]] \/ Full(tables[conn[p]])
    \/ writes[conn[p]] > 1

(* The lock makes it safe (discover.go:118) and one checks carefully       *)
(* whether the table was created meanwhile (host.go:314): a mode that has  *)
(* a table keeps it.                                                       *)
TableStays == [][\A m \in Mode : tables[m] # 0 => tables'[m] = tables[m]]_vars
=============================================================================
