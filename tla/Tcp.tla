---------------------------------- MODULE Tcp ----------------------------------
(***************************************************************************)
(* The TCP transport: at each end of a connection the goroutines queue,    *)
(* writer and read, on the server's side the accept loop, and the calls    *)
(* Dial, Write, Read and Close.  A message is its number in the order of   *)
(* the Writes, so the backlog of queue is taken + 1 .. sent.               *)
(*                                                                         *)
(* The two kernels are external.  They hold at most SockBuf messages in    *)
(* each direction and deliver them in order.  A connection is reset when   *)
(* one end has hung up and something sent to it was not read there         *)
(* (RFC 1122, 4.2.2.13); what is on the way in the other direction may     *)
(* then be lost.  The network may also fail.                               *)
(***************************************************************************)
EXTENDS Integers

CONSTANTS
  Conns,      \* connections
  MaxWrites,  \* bound on the messages of the client and of the server
  SockBuf,    \* messages the kernels hold in one direction
  MayBreak    \* connections that the network may cut

ASSUME TcpConstantsOK ==
  /\ MaxWrites \in [{"client", "server"} -> Nat] /\ SockBuf \in Nat \ {0}
  /\ MayBreak \subseteq Conns

Sides == {"client", "server"}
Ends == Conns \X Sides
Peer(e) == <<e[1], IF e[2] = "client" THEN "server" ELSE "client">>
ClientEnd(k) == <<k, "client">>
ServerEnd(k) == <<k, "server">>

VARIABLES
  listener,  \* "open" or "closed"
  closing,   \* the accept loop has ended: its closing and done are closed
  conns,     \* the accept loop's list
  nc,        \* the end's socket: "none", "open" or "closed"
  broken,    \* connections cut by the network, or by a listener that closes
  reset,     \* connections reset by a kernel
  sent,      \* messages queue has received
  taken,     \* of them, those given to writer
  onwire,    \* of them, those given to the kernel
  arrived,   \* messages read from the kernel
  got,       \* messages of a connection returned by the server's Read
  told,      \* connections whose end the server's Read has reported
  leaving,   \* queue's closing: Close has been called
  queue,     \* "none", "run", "drained" (toWriter closed) or "quit"
  writer,    \* "none", "idle", "write" or "done"
  reader,    \* "none", "read", "offer", "report" (dead closed) or "done"
  user       \* the client's Close: "open", "waiting" or "closed"

serverVars == <<listener, closing, conns>>
netVars == <<nc, broken, reset>>
countVars == <<sent, taken, onwire, arrived>>
readVars == <<got, told>>
vars == <<serverVars, netVars, countVars, readVars, leaving, queue, writer, reader, user>>

Zeros == [e \in Ends |-> 0]

Init ==
  /\ listener = "open" /\ closing = FALSE /\ conns = {}
  /\ nc = [e \in Ends |-> "none"] /\ broken = {} /\ reset = {}
  /\ sent = Zeros /\ taken = Zeros /\ onwire = Zeros /\ arrived = Zeros
  /\ got = [k \in Conns |-> {}] /\ told = {} /\ leaving = {}
  /\ queue = [e \in Ends |-> "none"] /\ writer = [e \in Ends |-> "none"]
  /\ reader = [e \in Ends |-> "none"] /\ user = [k \in Conns |-> "open"]

Dead(e) == reader[e] \in {"report", "done"}   \* <-c.dead

\* out of read has nobody to receive from it any more.
Stop(e) == IF e[2] = "client" THEN user[e[1]] # "open" ELSE closing

Set(f, e, v) == f' = [f EXCEPT ![e] = v]

\* newTCPConn, and the go statement that starts read.
NewTCPConn(e) ==
  /\ Set(nc, e, "open") /\ Set(queue, e, "run") /\ Set(writer, e, "idle") /\ Set(reader, e, "read")

-----------------------------------------------------------------------------
(* The server. *)

\* DialTCP: the kernel completes the connection before Accept returns it.
DialTCP(k) ==
  /\ listener = "open" /\ nc[ClientEnd(k)] = "none"
  /\ NewTCPConn(ClientEnd(k))
  /\ UNCHANGED <<serverVars, broken, reset, countVars, readVars, leaving, user>>

\* forget connections that have ended
Pruned == {k \in conns : ~Dead(ServerEnd(k))}

Accept(k) ==
  /\ listener = "open" /\ nc[ClientEnd(k)] # "none" /\ nc[ServerEnd(k)] = "none"
  /\ conns' = Pruned \cup {k}
  /\ NewTCPConn(ServerEnd(k))
  /\ UNCHANGED <<listener, closing, broken, reset, countVars, readVars, leaving, user>>

\* TCPServer.Close: the listener is closed.  The kernel resets the connections
\* it had not handed out.
CloseListener ==
  /\ listener = "open" /\ listener' = "closed"
  /\ broken' = broken \cup {k \in Conns : nc[ClientEnd(k)] # "none" /\ nc[ServerEnd(k)] = "none"}
  /\ UNCHANGED <<closing, conns, nc, reset, countVars, readVars, leaving, queue, writer, reader, user>>

\* Accept returns an error: hang up on everyone.
AcceptFails ==
  /\ listener = "closed" /\ ~closing /\ closing' = TRUE
  /\ nc' = [e \in Ends |-> IF e[2] = "server" /\ e[1] \in conns THEN "closed" ELSE nc[e]]
  /\ UNCHANGED <<listener, conns, broken, reset, countVars, readVars, leaving, queue, writer, reader, user>>

-----------------------------------------------------------------------------
(* queue *)

\* Write reaches queue.  Once Close has been called, or the connection has
\* ended, the message is dropped and nothing changes.
Write(e) ==
  /\ queue[e] = "run" /\ e \notin leaving /\ sent[e] < MaxWrites[e[2]]
  /\ Set(sent, e, sent[e] + 1)
  /\ UNCHANGED <<serverVars, netVars, taken, onwire, arrived, readVars, leaving, queue, writer, reader, user>>

HandOff(e) ==
  /\ queue[e] = "run" /\ taken[e] < sent[e] /\ writer[e] = "idle"
  /\ Set(taken, e, taken[e] + 1) /\ Set(writer, e, "write")
  /\ UNCHANGED <<serverVars, netVars, sent, onwire, arrived, readVars, leaving, queue, reader, user>>

\* (mutant) does not wait for the backlog
QueueDrainedAtOnce(e) ==
  /\ queue[e] = "run" /\ e \in leaving
  /\ Set(queue, e, "drained")
  /\ UNCHANGED <<serverVars, netVars, countVars, readVars, leaving, writer, reader, user>>

\* Nothing pending and closing: close(toWriter).
QueueDrained(e) ==
  /\ queue[e] = "run" /\ e \in leaving /\ taken[e] = sent[e]
  /\ Set(queue, e, "drained")
  /\ UNCHANGED <<serverVars, netVars, countVars, readVars, leaving, writer, reader, user>>

QueueDead(e) ==
  /\ queue[e] = "run" /\ Dead(e)
  /\ Set(queue, e, "quit")
  /\ UNCHANGED <<serverVars, netVars, countVars, readVars, leaving, writer, reader, user>>

-----------------------------------------------------------------------------
(* writer *)

HangUp(e) == Set(nc, e, "closed") /\ Set(writer, e, "done")

\* nc.Write returns; the kernel takes the message also when the peer has left.
WriterWrites(e) ==
  /\ writer[e] = "write" /\ nc[e] = "open" /\ e[1] \notin broken \cup reset
  /\ onwire[e] - arrived[Peer(e)] < SockBuf
  /\ Set(onwire, e, onwire[e] + 1) /\ Set(writer, e, "idle")
  /\ UNCHANGED <<serverVars, netVars, sent, taken, arrived, readVars, leaving, queue, reader, user>>

WriterFails(e) ==
  /\ writer[e] = "write" /\ (nc[e] = "closed" \/ e[1] \in broken \cup reset)
  /\ HangUp(e)
  /\ UNCHANGED <<serverVars, broken, reset, countVars, readVars, leaving, queue, reader, user>>

\* (mutant) the socket is left open
WriterClosesNothing(e) ==
  /\ writer[e] = "idle" /\ queue[e] = "drained"
  /\ Set(writer, e, "done")
  /\ UNCHANGED <<serverVars, netVars, countVars, readVars, leaving, queue, reader, user>>

\* toWriter is closed.
WriterCloses(e) ==
  /\ writer[e] = "idle" /\ queue[e] = "drained"
  /\ HangUp(e)
  /\ UNCHANGED <<serverVars, broken, reset, countVars, readVars, leaving, queue, reader, user>>

WriterDead(e) ==
  /\ writer[e] = "idle" /\ Dead(e)
  /\ Set(writer, e, "done")
  /\ UNCHANGED <<serverVars, netVars, countVars, readVars, leaving, queue, reader, user>>

-----------------------------------------------------------------------------
(* read, and the calls of Read *)

ReadFrame(e) ==
  /\ reader[e] = "read" /\ nc[e] = "open" /\ arrived[e] < onwire[Peer(e)]
  /\ Set(arrived, e, arrived[e] + 1) /\ Set(reader, e, "offer")
  /\ UNCHANGED <<serverVars, netVars, sent, taken, onwire, readVars, leaving, queue, writer, user>>

\* (mutant) ends without a word
ReadFailsSilently(e) ==
  /\ reader[e] = "read"
  /\ \/ nc[e] = "closed" \/ e[1] \in broken \cup reset
     \/ nc[Peer(e)] = "closed" /\ arrived[e] = onwire[Peer(e)]
  /\ Set(nc, e, "closed") /\ Set(reader, e, "done")
  /\ UNCHANGED <<serverVars, broken, reset, countVars, readVars, leaving, queue, writer, user>>

\* The socket was closed on this side, the peer has hung up and everything was
\* read, or the connection was cut.
ReadFails(e) ==
  /\ reader[e] = "read"
  /\ \/ nc[e] = "closed" \/ e[1] \in broken \cup reset
     \/ nc[Peer(e)] = "closed" /\ arrived[e] = onwire[Peer(e)]
  /\ Set(nc, e, "closed") /\ Set(reader, e, "report")
  /\ UNCHANGED <<serverVars, broken, reset, countVars, readVars, leaving, queue, writer, user>>

\* (mutant) offers the frame until somebody takes it
FrameDroppedNever(e) == FALSE /\ UNCHANGED vars

FrameReturned(e) ==
  /\ reader[e] = "offer" /\ Set(reader, e, "read")
  /\ IF e[2] = "server" THEN Set(got, e[1], got[e[1]] \cup {arrived[e]}) ELSE UNCHANGED got
  /\ UNCHANGED <<serverVars, netVars, countVars, told, leaving, queue, writer, user>>

FrameDropped(e) ==
  /\ reader[e] = "offer" /\ Stop(e) /\ Set(reader, e, "read")
  /\ UNCHANGED <<serverVars, netVars, countVars, readVars, leaving, queue, writer, user>>

EndReturned(e) ==
  /\ reader[e] = "report" /\ Set(reader, e, "done")
  /\ told' = IF e[2] = "server" THEN told \cup {e[1]} ELSE told
  /\ UNCHANGED <<serverVars, netVars, countVars, got, leaving, queue, writer, user>>

EndDropped(e) ==
  /\ reader[e] = "report" /\ Stop(e) /\ Set(reader, e, "done")
  /\ UNCHANGED <<serverVars, netVars, countVars, readVars, leaving, queue, writer, user>>

-----------------------------------------------------------------------------
(* TCPClient.Close *)

\* close() is received by queue or finds the connection dead; then stop is
\* closed.  A second Close changes nothing.
Close(k) ==
  LET e == ClientEnd(k) IN
  /\ user[k] = "open" /\ (queue[e] = "run" \/ Dead(e))
  /\ leaving' = IF queue[e] = "run" THEN leaving \cup {e} ELSE leaving
  /\ Set(user, k, "waiting")
  /\ UNCHANGED <<serverVars, netVars, countVars, readVars, queue, writer, reader>>

CloseReturns(k) ==
  /\ user[k] = "waiting" /\ reader[ClientEnd(k)] = "done"
  /\ Set(user, k, "closed")
  /\ UNCHANGED <<serverVars, netVars, countVars, readVars, leaving, queue, writer, reader>>

-----------------------------------------------------------------------------
(* The kernels and the network. *)

Reset(k) ==
  /\ k \notin reset \cup broken
  /\ \E e \in {ClientEnd(k), ServerEnd(k)} : nc[e] = "closed" /\ arrived[e] < onwire[Peer(e)]
  /\ reset' = reset \cup {k}
  /\ UNCHANGED <<serverVars, nc, broken, countVars, readVars, leaving, queue, writer, reader, user>>

Break(k) ==
  /\ k \in MayBreak \ (broken \cup reset) /\ nc[ClientEnd(k)] # "none"
  /\ broken' = broken \cup {k}
  /\ UNCHANGED <<serverVars, nc, reset, countVars, readVars, leaving, queue, writer, reader, user>>

-----------------------------------------------------------------------------
QueueStep(e) == HandOff(e) \/ QueueDrained(e) \/ QueueDead(e)
WriterStep(e) == WriterWrites(e) \/ WriterFails(e) \/ WriterCloses(e) \/ WriterDead(e)
ReaderStep(e) == ReadFrame(e) \/ ReadFails(e) \/ FrameDropped(e) \/ EndDropped(e)
Read(e) == FrameReturned(e) \/ EndReturned(e)

Next ==
  \/ \E e \in Ends : Write(e) \/ QueueStep(e) \/ WriterStep(e) \/ ReaderStep(e) \/ Read(e)
  \/ \E k \in Conns : DialTCP(k) \/ Accept(k) \/ Close(k) \/ CloseReturns(k) \/ Reset(k) \/ Break(k)
  \/ CloseListener \/ AcceptFails

Spec == Init /\ [][Next]_vars
-----------------------------------------------------------------------------
(* Properties. *)

TypeOK ==
  /\ listener \in {"open", "closed"} /\ closing \in BOOLEAN /\ conns \subseteq Conns
  /\ nc \in [Ends -> {"none", "open", "closed"}] /\ broken \subseteq Conns /\ reset \subseteq Conns
  /\ sent \in [Ends -> Nat] /\ taken \in [Ends -> Nat]
  /\ onwire \in [Ends -> Nat] /\ arrived \in [Ends -> Nat]
  /\ got \in [Conns -> SUBSET Nat] /\ told \subseteq Conns /\ leaving \subseteq Ends
  /\ queue \in [Ends -> {"none", "run", "drained", "quit"}]
  /\ writer \in [Ends -> {"none", "idle", "write", "done"}]
  /\ reader \in [Ends -> {"none", "read", "offer", "report", "done"}]
  /\ user \in [Conns -> {"open", "waiting", "closed"}]

\* Close delivers what was written before it (tcp.go:259, transport.go:45): when
\* the server's Read reports the end of a connection, it has returned every
\* message of the client.  Excepted are a server that was closed, a network that
\* failed, and a server that had itself written something the client left
\* unread, for which the kernel resets the connection.
CloseDelivers ==
  \A k \in told :
    \/ got[k] = 1 .. sent[ClientEnd(k)]
    \/ listener = "closed" \/ k \in broken
    \/ arrived[ClientEnd(k)] < onwire[ServerEnd(k)]

\* Goroutines run, the kernels deliver, reset or notice by keep-alive that the
\* network is cut, and the server's user reads until it is told that the server
\* is closed.  The client's user need not read.
Fairness ==
  /\ WF_vars(AcceptFails) /\ \A k \in Conns : WF_vars(Accept(k)) /\ WF_vars(Reset(k))
  /\ \A e \in Ends : WF_vars(QueueStep(e)) /\ WF_vars(WriterStep(e)) /\ WF_vars(ReaderStep(e))
  /\ \A k \in Conns : WF_vars(~closing /\ Read(ServerEnd(k))) /\ WF_vars(CloseReturns(k))

FairSpec == Spec /\ Fairness

Ended(e) == queue[e] # "run" /\ writer[e] \notin {"idle", "write"} /\ reader[e] \in {"none", "done"}

\* The client's Close returns, and leaves none of the connection's goroutines
\* behind, whatever the server and the network do meanwhile (tcp.go:259-270).
CloseEnds == \A k \in Conns : user[k] = "waiting" ~> user[k] = "closed" /\ Ended(ClientEnd(k))

\* Closing the server ends all its goroutines, those of a connection that is
\* blocked in a socket write, in a read or in the hand-over to Read included
\* (tcp.go:172-198, 209-215).
ServerCloseEnds == listener = "closed" ~> closing /\ \A k \in Conns : Ended(ServerEnd(k))

\* The server learns of every connection that ended at the client's side, by
\* Close or by a broken network, unless it is closed itself (transport.go:35).
EndReported ==
  \A k \in Conns :
    nc[ClientEnd(k)] = "closed" ~> k \in told \/ listener = "closed"
=============================================================================
