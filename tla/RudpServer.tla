------------------------------ MODULE RudpServer ------------------------------
(***************************************************************************)
(* The connections of an rudp server: the handshake of Client.run and the  *)
(* connection table of Server.readLoop, with the server's shutdown and its *)
(* restart.  What happens inside a connection is in RudpConn; here it is   *)
(* open, flushing after Close, or dead.                                    *)
(*                                                                         *)
(* A client stands for its socket, and so for its address: two clients     *)
(* never have the same.                                                    *)
(***************************************************************************)
EXTENDS Integers, FiniteSets

CONSTANTS
  Clients, Nobody,
  EpochLimit,  \* Params.EpochLimit
  MaxIDs,      \* bound on the connections of one run of the server
  MaxRuns      \* bound on the runs of the server

ASSUME ServerConstantsOK ==
  /\ Nobody \notin Clients
  /\ EpochLimit \in Nat \ {0} /\ MaxIDs \in Nat /\ MaxRuns \in Nat \ {0}

IDs == 1 .. MaxIDs

VARIABLES
  peerOf,   \* conns: ID -> the address of the connection's peer, or Nobody
  state,    \* ID -> its mainLoop: "none", "open", "flush", "dead"
  byAddr,   \* address -> ID, or 0
  nextID,
  server,   \* "up", "closing" or "done"
  run,      \* which run of the server this is
  client,   \* "idle", "connecting", "up", "failed" or "ended"
  id,       \* the connection ID a client was assigned
  epochs,   \* epochs waited for ConnAck
  net,      \* packets sent so far
  landed    \* history of this run: <<connection's peer, sender>> of routed packets

tableVars == <<peerOf, state, byAddr, nextID>>
clientVars == <<client, id, epochs>>
allServerVars == <<tableVars, server, run, clientVars, net, landed>>

Connect(c) == [typ |-> "Connect", from |-> c]
ConnAck(c, i) == [typ |-> "ConnAck", to |-> c, id |-> i]
Packet(c, i) == [typ |-> "Data", from |-> c, id |-> i]   \* Data, Ack or Close

FreshTable == <<[i \in IDs |-> Nobody], [i \in IDs |-> "none"], [c \in Clients |-> 0], 0>>

ServerInit ==
  /\ peerOf = FreshTable[1] /\ state = FreshTable[2] /\ byAddr = FreshTable[3] /\ nextID = FreshTable[4]
  /\ server = "up" /\ run = 1
  /\ client = [c \in Clients |-> "idle"] /\ id = [c \in Clients |-> 0]
  /\ epochs = [c \in Clients |-> 0]
  /\ net = {} /\ landed = {}

-----------------------------------------------------------------------------
(* The client. *)

\* NewClient: run sends the first Connect.
Dial(c) ==
  /\ client[c] = "idle"
  /\ client' = [client EXCEPT ![c] = "connecting"]
  /\ net' = net \cup {Connect(c)}
  /\ UNCHANGED <<tableVars, server, run, id, epochs, landed>>

\* An epoch without answer: again, or ErrConnectTimeout.
ClientTick(c) ==
  LET late == epochs[c] + 1 >= EpochLimit IN
  /\ client[c] = "connecting"
  /\ epochs' = [epochs EXCEPT ![c] = @ + 1]
  /\ client' = [client EXCEPT ![c] = IF late THEN "failed" ELSE @]
  /\ net' = IF late THEN net ELSE net \cup {Connect(c)}
  /\ UNCHANGED <<tableVars, server, run, id, landed>>

\* ConnAck: take the ID and become the connection's mainLoop, which ignores any
\* further ConnAck.
ClientConnAck(p) ==
  LET c == p.to IN
  /\ p.typ = "ConnAck"
  /\ IF client[c] = "connecting"
     THEN client' = [client EXCEPT ![c] = "up"] /\ id' = [id EXCEPT ![c] = p.id]
     ELSE UNCHANGED <<client, id>>
  /\ UNCHANGED <<tableVars, server, run, epochs, net, landed>>

\* The connection sends something; it ends, by Close, by the peer's Close or by
\* silence.
ClientSend(c) ==
  /\ client[c] = "up" /\ net' = net \cup {Packet(c, id[c])}
  /\ UNCHANGED <<tableVars, server, run, clientVars, landed>>
ClientEnds(c) ==
  /\ client[c] = "up" /\ client' = [client EXCEPT ![c] = "ended"]
  /\ UNCHANGED <<tableVars, server, run, id, epochs, net, landed>>

-----------------------------------------------------------------------------
(* Server.readLoop. *)

\* forget, for a set of connections that have ended.
Forget(S) ==
  /\ peerOf' = [i \in IDs |-> IF i \in S THEN Nobody ELSE peerOf[i]]
  /\ byAddr' = [c \in Clients |-> IF byAddr[c] \in S THEN 0 ELSE byAddr[c]]

\* nextID++
NewID == nextID + 1

\* (mutant) a retried Connect is not recognised
KnownNever(c) == FALSE
\* The address has a connection that has not ended.
Known(c) == byAddr[c] # 0 /\ state[byAddr[c]] # "dead"

\* Connect: ignored while closing; a connection that has ended is forgotten; a
\* retry gets the same ID again, otherwise a connection is made.
ServerConnect(p) ==
  LET c == p.from IN
  /\ p.typ = "Connect"
  /\ CASE server # "up" -> UNCHANGED <<tableVars, net>>
       [] server = "up" /\ Known(c) ->
            net' = net \cup {ConnAck(c, byAddr[c])} /\ UNCHANGED tableVars
       [] server = "up" /\ ~Known(c) ->
            /\ nextID < MaxIDs
            /\ nextID' = NewID
            /\ peerOf' = [i \in IDs |-> IF i = NewID THEN c
                                       ELSE IF i = byAddr[c] THEN Nobody ELSE peerOf[i]]
            /\ byAddr' = [byAddr EXCEPT ![c] = NewID]
            /\ state' = [state EXCEPT ![NewID] = "open"]
            /\ net' = net \cup {ConnAck(c, NewID)}
  /\ UNCHANGED <<server, run, clientVars, landed>>

\* (mutant) the source is not compared with the connection's peer
FromPeerAny(p) == p.id \in IDs /\ peerOf[p.id] # Nobody
\* sameAddr(addr, c.raddr)
FromPeer(p) == p.id \in IDs /\ peerOf[p.id] = p.from

\* Any other packet goes to the connection it names, if it came from its peer.
ServerRoute(p) ==
  /\ p.typ = "Data"
  /\ IF server # "done" /\ FromPeer(p)
     THEN IF state[p.id] = "dead"
          THEN Forget({p.id}) /\ UNCHANGED landed
          ELSE landed' = landed \cup {<<peerOf[p.id], p.from>>} /\ UNCHANGED <<peerOf, byAddr>>
     ELSE UNCHANGED <<peerOf, byAddr, landed>>
  /\ UNCHANGED <<state, nextID, server, run, clientVars, net>>

\* Once an epoch: forget the connections that have ended.
Sweep ==
  /\ server # "done" /\ Forget({i \in IDs : state[i] = "dead"})
  /\ UNCHANGED <<state, nextID, server, run, clientVars, net, landed>>

\* (mutant) the connections are not told
BeginShutdownAlone ==
  /\ server = "up" /\ server' = "closing"
  /\ UNCHANGED <<tableVars, run, clientVars, net, landed>>

\* Server.Close: every connection flushes and ends.
BeginShutdown ==
  /\ server = "up" /\ server' = "closing"
  /\ state' = [i \in IDs |-> IF state[i] = "open" THEN "flush" ELSE state[i]]
  /\ UNCHANGED <<peerOf, byAddr, nextID, run, clientVars, net, landed>>

ShutdownDone ==
  /\ server = "closing" /\ \A i \in IDs : peerOf[i] = Nobody
  /\ server' = "done"
  /\ UNCHANGED <<tableVars, run, clientVars, net, landed>>

\* A mainLoop ends: see RudpConn.
ConnEnds(i) ==
  /\ state[i] \in {"open", "flush"} /\ state' = [state EXCEPT ![i] = "dead"]
  /\ UNCHANGED <<peerOf, byAddr, nextID, server, run, clientVars, net, landed>>

-----------------------------------------------------------------------------
\* The server process ends and starts again: connection IDs restart from 1.
Restart ==
  /\ run < MaxRuns /\ run' = run + 1 /\ server' = "up" /\ landed' = {}
  /\ peerOf' = FreshTable[1] /\ state' = FreshTable[2] /\ byAddr' = FreshTable[3] /\ nextID' = FreshTable[4]
  /\ UNCHANGED <<clientVars, net>>

\* A packet that was sent may arrive at any time, any number of times, or never.
Deliver(p) == ClientConnAck(p) \/ ServerConnect(p) \/ ServerRoute(p)

ServerNext ==
  \/ \E c \in Clients : Dial(c) \/ ClientTick(c) \/ ClientSend(c) \/ ClientEnds(c)
  \/ \E p \in net : Deliver(p)
  \/ Sweep \/ BeginShutdown \/ ShutdownDone \/ Restart
  \/ \E i \in IDs : ConnEnds(i)

ServerSpec == ServerInit /\ [][ServerNext]_allServerVars
-----------------------------------------------------------------------------
(* Properties. *)

\* The types of the state.
ServerTypeOK ==
  /\ peerOf \in [IDs -> Clients \cup {Nobody}]
  /\ state \in [IDs -> {"none", "open", "flush", "dead"}]
  /\ byAddr \in [Clients -> 0 .. MaxIDs] /\ nextID \in 0 .. MaxIDs
  /\ server \in {"up", "closing", "done"} /\ run \in 1 .. MaxRuns
  /\ client \in [Clients -> {"idle", "connecting", "up", "failed", "ended"}]
  /\ id \in [Clients -> 0 .. MaxIDs] /\ epochs \in [Clients -> 0 .. EpochLimit]
  /\ \A c \in Clients : client[c] \in {"idle", "connecting"} => epochs[c] < EpochLimit

\* The two tables agree, no running connection is missing from them, and however
\* often a Connect is retried or repeated an address has at most one running
\* connection (server.go:86-98, 149-170).
OneConnPerAddr ==
  /\ \A c \in Clients : byAddr[c] # 0 => peerOf[byAddr[c]] = c
  /\ \A i \in IDs : peerOf[i] # Nobody => byAddr[peerOf[i]] = i
  /\ \A i \in IDs : state[i] \in {"open", "flush"} => peerOf[i] # Nobody

\* A packet reaches only a connection made for its sender, also when it is left
\* over from a previous run of the server, in which its connection ID was given to
\* somebody else (server.go:172-176).
OnlyFromPeer == \A l \in landed : l[1] = l[2]

\* The read loop runs, and a flush ends (CloseEnds of RudpConn).
ServerFairness ==
  /\ WF_allServerVars(Sweep) /\ WF_allServerVars(ShutdownDone)
  /\ \A i \in IDs : WF_allServerVars(state[i] = "flush" /\ ConnEnds(i))
FairServerSpec == ServerSpec /\ ServerFairness

\* Server.Close returns, unless the process ends first (server.go:99-131).
ServerCloseReturns == \A r \in 1 .. MaxRuns : server = "closing" /\ run = r ~> server = "done" \/ run # r
=============================================================================
