------------------------------ MODULE EdgeProofs -------------------------------
(***************************************************************************)
(* The edges of the process, network and disk.  The TCP transport, for any *)
(* number of connections and messages: Close delivers what was written     *)
(* before it, and a closed server has hung up on everybody.  The           *)
(* connection table of an rudp server, for any number of clients,          *)
(* connections and restarts (for what goes on inside an rudp connection,   *)
(* see ConnProofs).  And the log file, which implements LogContract for    *)
(* any records, any snapshots and any length of the log.                   *)
(***************************************************************************)
EXTENDS Tcp, RudpServer, Wal, SequenceTheorems, TLAPS
-----------------------------------------------------------------------------
(* The two ends of a connection. *)

\* The two ends of a connection differ, and so do those of two connections.
LEMMA EndsFacts ==
  /\ \A k \in Conns : ClientEnd(k) \in Ends /\ ServerEnd(k) \in Ends
  /\ \A k, l \in Conns : /\ ClientEnd(k) # ServerEnd(l)
                         /\ ClientEnd(k) = ClientEnd(l) => k = l
                         /\ ServerEnd(k) = ServerEnd(l) => k = l
BY Zenon DEF ClientEnd, ServerEnd, Ends, Sides

\* Every end is one of the two ends of its connection.
LEMMA EndIs ==
  ASSUME NEW e \in Ends
  PROVE  /\ e[1] \in Conns
         /\ \/ e = ClientEnd(e[1]) /\ e[2] = "client" /\ Peer(e) = ServerEnd(e[1])
            \/ e = ServerEnd(e[1]) /\ e[2] = "server" /\ Peer(e) = ClientEnd(e[1])
BY SMTT(30) DEF ClientEnd, ServerEnd, Ends, Sides, Peer

-----------------------------------------------------------------------------
(* TCP: the inductive invariant. *)

\* Always: the counters of the client's writer, what queue has drained, and that
\* the accept loop knows every open socket of its side.
Books(k) ==
  LET c == ClientEnd(k)  s == ServerEnd(k) IN
  /\ writer[c] \in {"none", "idle"} => onwire[c] = taken[c]
  /\ writer[c] = "write" => taken[c] = onwire[c] + 1
  /\ queue[c] = "drained" => taken[c] = sent[c]
  /\ nc[c] = "none" => writer[c] = "none"
  /\ s \notin leaving /\ queue[s] # "drained"
  /\ nc[s] = "none" => reader[s] = "none"
  /\ reader[s] = "offer" => arrived[s] > 0
  /\ Dead(s) => nc[s] = "closed"
  /\ k \in told => reader[s] = "done"
  /\ nc[s] = "open" => k \in conns /\ ~closing

\* While neither the server nor the network fails: only the client hangs up first,
\* and not before everything is on the net; the server hangs up when it has read
\* all of it, unless the connection was reset for something the client left unread.
Clean(k) ==
  LET c == ClientEnd(k)  s == ServerEnd(k) IN
  /\ k \in reset => nc[c] = "closed" /\ arrived[c] < onwire[s]
  /\ nc[s] = "closed" => nc[c] = "closed" /\ (k \in reset \/ arrived[s] = onwire[c])
  /\ nc[c] = "closed" => queue[c] = "drained" /\ onwire[c] = sent[c]
  /\ got[k] = (1 .. arrived[s]) \ (IF reader[s] = "offer" THEN {arrived[s]} ELSE {})

TcpInv ==
  /\ TypeOK /\ (closing => listener = "closed")
  /\ \A k \in Conns : Books(k) /\ (listener = "open" /\ k \notin broken => Clean(k))

\* Without a connection.
LEMMA TcpInit == Init => TcpInv
<1>. SUFFICES ASSUME Init  PROVE TcpInv
  BY Zenon
<1>1. TypeOK
  BY Zenon DEF Init, TypeOK, Zeros
<1>2. ASSUME NEW k \in Conns  PROVE Books(k) /\ Clean(k)
  <2>1. Books(k)
    BY Zenon, EndsFacts DEF Init, Zeros, Books, Dead
  <2>2. Clean(k)
    BY SMTT(30), EndsFacts DEF Init, Zeros, Clean
  <2>. QED  BY Zenon, <2>1, <2>2
<1>. QED  BY Zenon, <1>1, <1>2 DEF TcpInv, Init

\* A step at one end of a connection.
LEMMA EndStep ==
  ASSUME TcpInv, NEW e \in Ends, 
         Write(e) \/ QueueStep(e) \/ WriterStep(e) \/ ReaderStep(e) \/ Read(e)
  PROVE  TcpInv'
<1>0. /\ TypeOK /\ e[1] \in Conns
      /\ \/ e = ClientEnd(e[1]) /\ e[2] = "client" /\ Peer(e) = ServerEnd(e[1])
         \/ e = ServerEnd(e[1]) /\ e[2] = "server" /\ Peer(e) = ClientEnd(e[1])
  BY Zenon, EndIs DEF TcpInv
<1>1. CASE Write(e)
  <2>1. TypeOK'
    BY SMTT(30), <1>0, <1>1 DEF TypeOK, Write, Set, serverVars, netVars, countVars, readVars
  <2>2. ASSUME NEW k \in Conns  PROVE Books(k)' /\ (listener' = "open" /\ k \notin broken' => Clean(k)')
    <3>1. Books(k) /\ (listener = "open" /\ k \notin broken => Clean(k))
      BY Zenon DEF TcpInv
    <3>2. Books(k)'
      BY Zenon, <1>0, <1>1, <3>1, EndsFacts DEF TypeOK, Books, Dead, Write, Set, serverVars, netVars, countVars, readVars
    <3>3. listener' = "open" /\ k \notin broken' => Clean(k)'
      BY Zenon, <1>0, <1>1, <3>1, EndsFacts DEF TypeOK, Books, Clean, Write, Set, serverVars, netVars, countVars, readVars
    <3>. QED  BY Zenon, <3>2, <3>3
  <2>. QED  BY Zenon, <1>1, <2>1, <2>2 DEF TcpInv, Write, serverVars
<1>2. CASE HandOff(e)
  <2>1. TypeOK'
    BY SMTT(30), <1>0, <1>2 DEF TypeOK, HandOff, Set, serverVars, netVars, countVars, readVars
  <2>2. ASSUME NEW k \in Conns  PROVE Books(k)' /\ (listener' = "open" /\ k \notin broken' => Clean(k)')
    <3>1. Books(k) /\ (listener = "open" /\ k \notin broken => Clean(k))
      BY Zenon DEF TcpInv
    <3>2. Books(k)'
      BY Zenon, <1>0, <1>2, <3>1, EndsFacts DEF TypeOK, Books, Dead, HandOff, Set, serverVars, netVars, countVars, readVars
    <3>3. listener' = "open" /\ k \notin broken' => Clean(k)'
      BY Zenon, <1>0, <1>2, <3>1, EndsFacts DEF TypeOK, Books, Clean, HandOff, Set, serverVars, netVars, countVars, readVars
    <3>. QED  BY Zenon, <3>2, <3>3
  <2>. QED  BY Zenon, <1>2, <2>1, <2>2 DEF TcpInv, HandOff, serverVars
<1>3. CASE QueueDrained(e)
  <2>1. TypeOK'
    BY Zenon, <1>0, <1>3 DEF TypeOK, QueueDrained, Set, serverVars, netVars, countVars, readVars
  <2>2. ASSUME NEW k \in Conns  PROVE Books(k)' /\ (listener' = "open" /\ k \notin broken' => Clean(k)')
    <3>1. Books(k) /\ (listener = "open" /\ k \notin broken => Clean(k))
      BY Zenon DEF TcpInv
    <3>2. Books(k)'
      BY Zenon, <1>0, <1>3, <3>1, EndsFacts DEF TypeOK, Books, Dead, QueueDrained, Set, serverVars, netVars, countVars, readVars
    <3>3. listener' = "open" /\ k \notin broken' => Clean(k)'
      BY Zenon, <1>0, <1>3, <3>1, EndsFacts DEF TypeOK, Books, Clean, QueueDrained, Set, serverVars, netVars, countVars, readVars
    <3>. QED  BY Zenon, <3>2, <3>3
  <2>. QED  BY Zenon, <1>3, <2>1, <2>2 DEF TcpInv, QueueDrained, serverVars
<1>4. CASE QueueDead(e)
  <2>1. TypeOK'
    BY Zenon, <1>0, <1>4 DEF TypeOK, QueueDead, Set, serverVars, netVars, countVars, readVars
  <2>2. ASSUME NEW k \in Conns  PROVE Books(k)' /\ (listener' = "open" /\ k \notin broken' => Clean(k)')
    <3>1. Books(k) /\ (listener = "open" /\ k \notin broken => Clean(k))
      BY Zenon DEF TcpInv
    <3>2. Books(k)'
      BY Zenon, <1>0, <1>4, <3>1, EndsFacts DEF TypeOK, Books, Dead, QueueDead, Set, serverVars, netVars, countVars, readVars
    <3>3. listener' = "open" /\ k \notin broken' => Clean(k)'
      BY Zenon, <1>0, <1>4, <3>1, EndsFacts DEF TypeOK, Books, Clean, QueueDead, Set, serverVars, netVars, countVars, readVars
    <3>. QED  BY Zenon, <3>2, <3>3
  <2>. QED  BY Zenon, <1>4, <2>1, <2>2 DEF TcpInv, QueueDead, serverVars
<1>5. CASE WriterWrites(e)
  <2>1. TypeOK'
    BY SMTT(30), <1>0, <1>5 DEF TypeOK, WriterWrites, Set, serverVars, netVars, countVars, readVars
  <2>2. ASSUME NEW k \in Conns  PROVE Books(k)' /\ (listener' = "open" /\ k \notin broken' => Clean(k)')
    <3>. DEFINE c == ClientEnd(k)
                s == ServerEnd(k)
    <3>1. c \in Ends /\ s \in Ends /\ Books(k) /\ (listener = "open" /\ k \notin broken => Clean(k))
      BY Zenon, EndsFacts DEF TcpInv
    <3>2. /\ writer[e] = "write" /\ nc[e] = "open"
          /\ writer'[c] = (IF e = c THEN "idle" ELSE writer[c])
          /\ onwire'[c] = (IF e = c THEN onwire[c] + 1 ELSE onwire[c])
          /\ onwire'[s] = (IF e = s THEN onwire[s] + 1 ELSE onwire[s])
          /\ onwire[c] \in Nat /\ onwire[s] \in Nat /\ arrived[c] \in Nat /\ taken[c] \in Nat
      <4>1. /\ writer \in [Ends -> {"none", "idle", "write", "done"}] /\ onwire \in [Ends -> Nat]
            /\ arrived \in [Ends -> Nat] /\ taken \in [Ends -> Nat]
        BY Zenon, <1>0 DEF TypeOK
      <4>. QED  BY Zenon, <1>5, <3>1, <4>1 DEF WriterWrites, Set
    <3>3. /\ taken'[c] = taken[c] /\ arrived'[c] = arrived[c] /\ arrived'[s] = arrived[s]
          /\ nc' = nc /\ reset' = reset /\ broken' = broken /\ listener' = listener
      BY Zenon, <1>5 DEF WriterWrites, serverVars, netVars
    <3>4. Books(k)'
      <4>1. /\ writer'[c] \in {"none", "idle"} => onwire'[c] = taken'[c]
            /\ writer'[c] = "write" => taken'[c] = onwire'[c] + 1
        BY SMTT(30), <3>1, <3>2, <3>3 DEF Books
      <4>2. nc'[c] = "none" => writer'[c] = "none"
        BY Zenon, <3>1, <3>2, <3>3 DEF Books
      <4>. QED  BY Zenon, <1>5, <3>1, <4>1, <4>2 DEF Books, Dead, WriterWrites, serverVars, netVars, readVars
    <3>5. ASSUME listener' = "open" /\ k \notin broken'  PROVE Clean(k)'
      <4>1. Clean(k)
        BY Zenon, <3>1, <3>3, <3>5
      <4>2. k \in reset' => nc'[c] = "closed" /\ arrived'[c] < onwire'[s]
        BY SMTT(30), <3>2, <3>3, <4>1 DEF Clean
      <4>3. nc[c] = "closed" => onwire'[c] = onwire[c]
        BY Zenon, <3>2
      <4>4. nc[s] = "closed" => nc[c] = "closed"
        BY Zenon, <4>1 DEF Clean
      <4>. QED  BY Zenon, <1>5, <3>3, <4>1, <4>2, <4>3, <4>4 DEF Clean, WriterWrites, readVars
    <3>. QED  BY Zenon, <3>4, <3>5
  <2>. QED  BY Zenon, <1>5, <2>1, <2>2 DEF TcpInv, WriterWrites, serverVars
<1>6. CASE WriterFails(e)
  <2>1. TypeOK'
    BY Zenon, <1>0, <1>6 DEF TypeOK, WriterFails, Set, serverVars, netVars, countVars, readVars, HangUp
  <2>2. ASSUME NEW k \in Conns  PROVE Books(k)' /\ (listener' = "open" /\ k \notin broken' => Clean(k)')
    <3>. DEFINE c == ClientEnd(k)
                s == ServerEnd(k)
    <3>1. c \in Ends /\ s \in Ends /\ Books(k) /\ (listener = "open" /\ k \notin broken => Clean(k))
      BY Zenon, EndsFacts DEF TcpInv
    <3>2. /\ writer[e] = "write"
          /\ writer'[c] = (IF e = c THEN "done" ELSE writer[c])
          /\ nc'[c] = (IF e = c THEN "closed" ELSE nc[c]) /\ nc'[s] = (IF e = s THEN "closed" ELSE nc[s])
      <4>1. writer \in [Ends -> {"none", "idle", "write", "done"}] /\ nc \in [Ends -> {"none", "open", "closed"}]
        BY Zenon, <1>0 DEF TypeOK
      <4>. QED  BY Zenon, <1>6, <3>1, <4>1 DEF WriterFails, HangUp, Set
    <3>3. Books(k)'
      BY Zenon, <1>6, <3>1, <3>2 DEF Books, Dead, WriterFails, serverVars, countVars, readVars
    <3>4. ASSUME listener' = "open" /\ k \notin broken'  PROVE Clean(k)'
      <4>1. Clean(k) /\ k \notin broken
        BY Zenon, <1>6, <3>1, <3>4 DEF WriterFails, serverVars
      <4>2. e = c \/ e = s => e[1] = k
        BY SMTT(30) DEF ClientEnd, ServerEnd
      <4>3. ASSUME e = c \/ e = s  PROVE nc[c] = "closed" /\ (e = s => nc[s] = "closed" \/ k \in reset)
        BY Zenon, <1>6, <4>1, <4>2, <4>3 DEF Clean, WriterFails
      <4>. QED  BY Zenon, <1>6, <3>2, <4>1, <4>3 DEF Clean, WriterFails, countVars, readVars
    <3>. QED  BY Zenon, <3>3, <3>4
  <2>. QED  BY Zenon, <1>6, <2>1, <2>2 DEF TcpInv, WriterFails, serverVars
<1>7. CASE WriterCloses(e)
  <2>1. TypeOK'
    BY Zenon, <1>0, <1>7 DEF TypeOK, WriterCloses, Set, serverVars, netVars, countVars, readVars, HangUp
  <2>2. ASSUME NEW k \in Conns  PROVE Books(k)' /\ (listener' = "open" /\ k \notin broken' => Clean(k)')
    <3>1. Books(k) /\ (listener = "open" /\ k \notin broken => Clean(k))
      BY Zenon DEF TcpInv
    <3>2. Books(k)'
      BY SMTT(30), <1>0, <1>7, <3>1, EndsFacts DEF TypeOK, Books, Dead, WriterCloses, Set, serverVars, netVars, countVars, readVars, HangUp
    <3>3. listener' = "open" /\ k \notin broken' => Clean(k)'
      BY SMTT(30), <1>0, <1>7, <3>1, EndsFacts DEF TypeOK, Books, Clean, WriterCloses, Set, serverVars, netVars, countVars, readVars, HangUp
    <3>. QED  BY Zenon, <3>2, <3>3
  <2>. QED  BY Zenon, <1>7, <2>1, <2>2 DEF TcpInv, WriterCloses, serverVars
<1>8. CASE WriterDead(e)
  <2>1. TypeOK'
    BY Zenon, <1>0, <1>8 DEF TypeOK, WriterDead, Set, serverVars, netVars, countVars, readVars
  <2>2. ASSUME NEW k \in Conns  PROVE Books(k)' /\ (listener' = "open" /\ k \notin broken' => Clean(k)')
    <3>1. Books(k) /\ (listener = "open" /\ k \notin broken => Clean(k))
      BY Zenon DEF TcpInv
    <3>2. Books(k)'
      <4>1. writer'[ClientEnd(k)] \in {writer[ClientEnd(k)], "done"} /\ (e = ClientEnd(k) => writer[e] = "idle")
            /\ (e # ClientEnd(k) => writer'[ClientEnd(k)] = writer[ClientEnd(k)])
        <5>1. writer \in [Ends -> {"none", "idle", "write", "done"}]
          BY Zenon, <1>0 DEF TypeOK
        <5>. QED  BY Zenon, <1>8, <5>1, EndsFacts DEF WriterDead, Set
      <4>. QED  BY Zenon, <1>8, <3>1, <4>1 DEF Books, Dead, WriterDead, serverVars, netVars, countVars, readVars
    <3>3. listener' = "open" /\ k \notin broken' => Clean(k)'
      BY Zenon, <1>0, <1>8, <3>1, EndsFacts DEF TypeOK, Books, Clean, WriterDead, Set, serverVars, netVars, countVars, readVars
    <3>. QED  BY Zenon, <3>2, <3>3
  <2>. QED  BY Zenon, <1>8, <2>1, <2>2 DEF TcpInv, WriterDead, serverVars
<1>9. CASE ReadFrame(e)
  <2>1. TypeOK'
    BY SMTT(30), <1>0, <1>9 DEF TypeOK, ReadFrame, Set, serverVars, netVars, countVars, readVars
  <2>2. ASSUME NEW k \in Conns  PROVE Books(k)' /\ (listener' = "open" /\ k \notin broken' => Clean(k)')
    <3>. DEFINE s == ServerEnd(k)
    <3>1. Books(k)'
      BY SMTT(30), <1>0, <1>9, EndsFacts DEF TcpInv, TypeOK, Books, Dead, ReadFrame, Set, serverVars, netVars, readVars
    <3>2. ASSUME listener' = "open" /\ k \notin broken'  PROVE Clean(k)'
      <4>1. Clean(k)
        BY Zenon, <1>9, <3>2 DEF TcpInv, ReadFrame, serverVars, netVars
      <4>2. got'[k] = (1 .. arrived'[s]) \ (IF reader'[s] = "offer" THEN {arrived'[s]} ELSE {})
        <5>1. CASE e = s
          <6>1. /\ arrived'[s] = arrived[s] + 1 /\ reader'[s] = "offer" /\ reader[s] = "read"
                /\ arrived[s] \in Nat /\ got'[k] = got[k]
            BY Zenon, <1>0, <1>9, <5>1 DEF TypeOK, ReadFrame, Set, readVars
          <6>2. got[k] = 1 .. arrived[s]
            BY Zenon, <4>1, <6>1 DEF Clean
          <6>3. 1 .. arrived[s] = (1 .. arrived[s] + 1) \ {arrived[s] + 1}
            BY SMTT(30), <6>1
          <6>. QED  BY Zenon, <6>1, <6>2, <6>3
        <5>2. CASE e # s
          <6>1. arrived'[s] = arrived[s] /\ reader'[s] = reader[s] /\ got'[k] = got[k]
            <7>1. /\ arrived \in [Ends -> Nat] /\ got \in [Conns -> SUBSET Nat]
                  /\ reader \in [Ends -> {"none", "read", "offer", "report", "done"}]
              BY Zenon, <1>0 DEF TypeOK
            <7>2. s \in Ends /\ (e[2] = "server" => e[1] # k)
              BY Zenon, <1>0, <5>2, EndsFacts DEF ServerEnd
            <7>. QED  BY Zenon, <1>9, <5>2, <7>1, <7>2 DEF ReadFrame, Set, readVars
          <6>. QED  BY Zenon, <4>1, <6>1 DEF Clean
        <5>. QED  BY Zenon, <5>1, <5>2
      <4>3. /\ k \in reset' => nc'[ClientEnd(k)] = "closed" /\ arrived'[ClientEnd(k)] < onwire'[s]
            /\ nc'[s] = "closed" => /\ nc'[ClientEnd(k)] = "closed"
                                    /\ k \in reset' \/ arrived'[s] = onwire'[ClientEnd(k)]
            /\ nc'[ClientEnd(k)] = "closed" => /\ queue'[ClientEnd(k)] = "drained"
                                               /\ onwire'[ClientEnd(k)] = sent'[ClientEnd(k)]
        BY Zenon, <1>0, <1>9, <4>1, EndsFacts DEF TypeOK, Clean, ReadFrame, Set, netVars
      <4>. QED  BY Zenon, <4>2, <4>3 DEF Clean
    <3>. QED  BY Zenon, <3>1, <3>2
  <2>. QED  BY Zenon, <1>9, <2>1, <2>2 DEF TcpInv, ReadFrame, serverVars
<1>10. CASE ReadFails(e)
  <2>1. TypeOK'
    BY Zenon, <1>0, <1>10 DEF TypeOK, ReadFails, Set, serverVars, netVars, countVars, readVars
  <2>2. ASSUME NEW k \in Conns  PROVE Books(k)' /\ (listener' = "open" /\ k \notin broken' => Clean(k)')
    <3>1. Books(k) /\ (listener = "open" /\ k \notin broken => Clean(k))
      BY Zenon DEF TcpInv
    <3>2. Books(k)'
      BY SMTT(30), <1>0, <1>10, <3>1, EndsFacts DEF TypeOK, Books, Dead, ReadFails, Set, serverVars, netVars, countVars, readVars
    <3>3. listener' = "open" /\ k \notin broken' => Clean(k)'
      BY SMTT(30), <1>0, <1>10, <3>1, EndsFacts DEF TypeOK, Books, Clean, ReadFails, Set, serverVars, netVars, countVars, readVars
    <3>. QED  BY Zenon, <3>2, <3>3
  <2>. QED  BY Zenon, <1>10, <2>1, <2>2 DEF TcpInv, ReadFails, serverVars
<1>11. CASE FrameReturned(e)
  <2>1. TypeOK'
    BY SMTT(30), <1>0, <1>11 DEF TypeOK, FrameReturned, Set, serverVars, netVars, countVars, readVars
  <2>2. ASSUME NEW k \in Conns  PROVE Books(k)' /\ (listener' = "open" /\ k \notin broken' => Clean(k)')
    <3>. DEFINE s == ServerEnd(k)
    <3>1. Books(k)'
      BY Zenon, <1>0, <1>11, EndsFacts DEF TcpInv, TypeOK, Books, Dead, FrameReturned, Set, serverVars, netVars, countVars
    <3>2. ASSUME listener' = "open" /\ k \notin broken'  PROVE Clean(k)'
      <4>1. Clean(k)
        BY Zenon, <1>11, <3>2 DEF TcpInv, FrameReturned, serverVars, netVars
      <4>2. got'[k] = (1 .. arrived'[s]) \ (IF reader'[s] = "offer" THEN {arrived'[s]} ELSE {})
        <5>1. CASE e = s
          <6>1. /\ arrived'[s] = arrived[s] /\ reader'[s] = "read" /\ reader[s] = "offer"
                /\ arrived[s] \in Nat /\ got'[k] = got[k] \cup {arrived[s]}
            BY SMTT(30), <1>0, <1>11, <5>1, EndsFacts DEF TypeOK, FrameReturned, Set, countVars
          <6>2. got[k] = (1 .. arrived[s]) \ {arrived[s]} /\ arrived[s] \in 1 .. arrived[s]
            <7>1. got[k] = (1 .. arrived[s]) \ {arrived[s]}
              BY Zenon, <4>1, <6>1 DEF Clean
            <7>2. Books(k)
              BY Zenon DEF TcpInv
            <7>3. arrived[s] > 0
              BY Zenon, <6>1, <7>2 DEF Books
            <7>. QED  BY SMTT(30), <6>1, <7>1, <7>3
          <6>. QED  BY Zenon, <6>1, <6>2
        <5>2. CASE e # s
          <6>1. arrived'[s] = arrived[s] /\ reader'[s] = reader[s] /\ got'[k] = got[k]
            <7>1. /\ arrived \in [Ends -> Nat] /\ got \in [Conns -> SUBSET Nat]
                  /\ reader \in [Ends -> {"none", "read", "offer", "report", "done"}]
              BY Zenon, <1>0 DEF TypeOK
            <7>2. s \in Ends /\ (e[2] = "server" => e[1] # k)
              BY Zenon, <1>0, <5>2, EndsFacts DEF ServerEnd
            <7>. QED  BY Zenon, <1>11, <5>2, <7>1, <7>2 DEF FrameReturned, Set, countVars
          <6>. QED  BY Zenon, <4>1, <6>1 DEF Clean
        <5>. QED  BY Zenon, <5>1, <5>2
      <4>. QED  BY Zenon, <1>11, <4>1, <4>2 DEF Clean, FrameReturned, netVars, countVars
    <3>. QED  BY Zenon, <3>1, <3>2
  <2>. QED  BY Zenon, <1>11, <2>1, <2>2 DEF TcpInv, FrameReturned, serverVars
<1>12. CASE FrameDropped(e)
  <2>1. TypeOK'
    BY Zenon, <1>0, <1>12 DEF TypeOK, FrameDropped, Set, serverVars, netVars, countVars, readVars, Stop
  <2>2. ASSUME NEW k \in Conns  PROVE Books(k)' /\ (listener' = "open" /\ k \notin broken' => Clean(k)')
    <3>1. Books(k) /\ (listener = "open" /\ k \notin broken => Clean(k))
      BY Zenon DEF TcpInv
    <3>2. reader[e] = "offer" /\ Stop(e) /\ reader'[ServerEnd(k)] = IF e = ServerEnd(k) THEN "read" ELSE reader[ServerEnd(k)]
      <4>1. reader \in [Ends -> {"none", "read", "offer", "report", "done"}] /\ ServerEnd(k) \in Ends
        BY Zenon, <1>0, EndsFacts DEF TypeOK
      <4>. QED  BY Zenon, <1>12, <4>1 DEF FrameDropped, Set
    <3>3. Books(k)'
      BY Zenon, <1>12, <3>1, <3>2 DEF Books, Dead, FrameDropped, serverVars, netVars, countVars, readVars
    <3>4. ASSUME listener' = "open" /\ k \notin broken'  PROVE Clean(k)'
      <4>1. Clean(k) /\ ~closing
        BY Zenon, <1>12, <3>1, <3>4 DEF TcpInv, FrameDropped, serverVars, netVars
      <4>2. e # ServerEnd(k)
        BY Zenon, <1>0, <3>2, <4>1, EndsFacts DEF Stop
      <4>. QED  BY Zenon, <1>12, <3>2, <4>1, <4>2 DEF Clean, FrameDropped, netVars, countVars, readVars
    <3>. QED  BY Zenon, <3>3, <3>4
  <2>. QED  BY Zenon, <1>12, <2>1, <2>2 DEF TcpInv, FrameDropped, serverVars
<1>13. CASE EndReturned(e)
  <2>1. TypeOK'
    BY Zenon, <1>0, <1>13 DEF TypeOK, EndReturned, Set, serverVars, netVars, countVars, readVars
  <2>2. ASSUME NEW k \in Conns  PROVE Books(k)' /\ (listener' = "open" /\ k \notin broken' => Clean(k)')
    <3>1. Books(k) /\ (listener = "open" /\ k \notin broken => Clean(k))
      BY Zenon DEF TcpInv
    <3>2. Books(k)'
      BY Zenon, <1>0, <1>13, <3>1, EndsFacts DEF TypeOK, Books, Dead, EndReturned, Set, serverVars, netVars, countVars, readVars
    <3>3. listener' = "open" /\ k \notin broken' => Clean(k)'
      BY Zenon, <1>0, <1>13, <3>1, EndsFacts DEF TypeOK, Books, Clean, EndReturned, Set, serverVars, netVars, countVars, readVars
    <3>. QED  BY Zenon, <3>2, <3>3
  <2>. QED  BY Zenon, <1>13, <2>1, <2>2 DEF TcpInv, EndReturned, serverVars
<1>14. CASE EndDropped(e)
  <2>1. TypeOK'
    BY Zenon, <1>0, <1>14 DEF TypeOK, EndDropped, Set, serverVars, netVars, countVars, readVars, Stop
  <2>2. ASSUME NEW k \in Conns  PROVE Books(k)' /\ (listener' = "open" /\ k \notin broken' => Clean(k)')
    <3>1. Books(k) /\ (listener = "open" /\ k \notin broken => Clean(k))
      BY Zenon DEF TcpInv
    <3>2. Books(k)'
      BY Zenon, <1>0, <1>14, <3>1, EndsFacts DEF TypeOK, Books, Dead, EndDropped, Set, serverVars, netVars, countVars, readVars, Stop
    <3>3. listener' = "open" /\ k \notin broken' => Clean(k)'
      BY Zenon, <1>0, <1>14, <3>1, EndsFacts DEF TypeOK, Books, Clean, EndDropped, Set, serverVars, netVars, countVars, readVars, Stop
    <3>. QED  BY Zenon, <3>2, <3>3
  <2>. QED  BY Zenon, <1>14, <2>1, <2>2 DEF TcpInv, EndDropped, serverVars
<1>. QED
  BY Zenon, <1>1, <1>2, <1>3, <1>4, <1>5, <1>6, <1>7, <1>8, <1>9, <1>10, <1>11, <1>12, <1>13, <1>14
  DEF QueueStep, WriterStep, ReaderStep, Read

\* A step that concerns a whole connection: Dial, Accept, Close, the network.
LEMMA ConnStep ==
  ASSUME TcpInv, NEW k \in Conns,
         DialTCP(k) \/ Accept(k) \/ Close(k) \/ CloseReturns(k) \/ Reset(k) \/ Break(k)
  PROVE  TcpInv'
<1>0. TypeOK /\ ClientEnd(k) \in Ends /\ ServerEnd(k) \in Ends /\ MayBreak \subseteq Conns
  BY Zenon, EndsFacts, TcpConstantsOK DEF TcpInv
<1>1. CASE DialTCP(k)
  <2>1. TypeOK'
    BY Zenon, <1>0, <1>1 DEF TypeOK, DialTCP, Set, serverVars, netVars, countVars, readVars, NewTCPConn
  <2>2. ASSUME NEW l \in Conns  PROVE Books(l)' /\ (listener' = "open" /\ l \notin broken' => Clean(l)')
    <3>1. Books(l) /\ (listener = "open" /\ l \notin broken => Clean(l))
      BY Zenon DEF TcpInv
    <3>2. Books(l)'
      BY SMTT(30), <1>0, <1>1, <3>1, EndsFacts DEF TypeOK, Books, Dead, DialTCP, Set, serverVars, netVars, countVars, readVars, NewTCPConn
    <3>3. listener' = "open" /\ l \notin broken' => Clean(l)'
      BY SMTT(30), <1>0, <1>1, <3>1, EndsFacts DEF TypeOK, Books, Clean, DialTCP, Set, serverVars, netVars, countVars, readVars, NewTCPConn
    <3>. QED  BY Zenon, <3>2, <3>3
  <2>. QED  BY Zenon, <1>1, <2>1, <2>2 DEF TcpInv, DialTCP, serverVars
<1>2. CASE Accept(k)
  <2>1. TypeOK'
    BY Zenon, <1>0, <1>2 DEF TypeOK, Accept, Set, serverVars, netVars, countVars, readVars, NewTCPConn, Pruned
  <2>2. ASSUME NEW l \in Conns  PROVE Books(l)' /\ (listener' = "open" /\ l \notin broken' => Clean(l)')
    <3>1. Books(l) /\ (listener = "open" /\ l \notin broken => Clean(l))
      BY Zenon DEF TcpInv
    <3>. DEFINE c == ClientEnd(l)
                s == ServerEnd(l)
    <3>2. /\ nc'[c] = nc[c] /\ nc'[s] = IF l = k THEN "open" ELSE nc[s]
          /\ queue'[c] = queue[c] /\ queue'[s] = IF l = k THEN "run" ELSE queue[s]
          /\ writer'[c] = writer[c] /\ reader'[s] = IF l = k THEN "read" ELSE reader[s]
      <4>1. /\ nc \in [Ends -> {"none", "open", "closed"}]
            /\ queue \in [Ends -> {"none", "run", "drained", "quit"}]
            /\ writer \in [Ends -> {"none", "idle", "write", "done"}]
            /\ reader \in [Ends -> {"none", "read", "offer", "report", "done"}]
        BY Zenon, <1>0 DEF TypeOK
      <4>2. c \in Ends /\ s \in Ends /\ c # ServerEnd(k) /\ (s = ServerEnd(k) <=> l = k)
        BY Zenon, EndsFacts
      <4>. QED  BY Zenon, <1>2, <4>1, <4>2 DEF Accept, NewTCPConn, Set
    <3>3. /\ nc[ServerEnd(k)] = "none" /\ ((l \in conns /\ ~Dead(s)) \/ l = k => l \in conns') /\ ~closing'
      BY Zenon, <1>2 DEF TcpInv, Accept, Pruned
    <3>4. Books(l)'
      <4>1. /\ k \notin told /\ ~closing
        BY Zenon, <3>3, <1>2 DEF TcpInv, Books, Accept
      <4>2. nc[s] = "open" => ~Dead(s)
        BY Zenon, <3>1 DEF Books
      <4>. QED  BY Zenon, <1>2, <3>1, <3>2, <3>3, <4>1, <4>2 DEF Books, Dead, Accept, countVars, readVars
    <3>5. ASSUME listener' = "open" /\ l \notin broken'  PROVE Clean(l)'
      <4>1. Clean(l)
        BY Zenon, <1>2, <3>1, <3>5 DEF Accept
      <4>2. l = k => reader[s] = "none"
        BY Zenon, <3>1, <3>3 DEF Books
      <4>. QED  BY Zenon, <1>2, <3>2, <4>1, <4>2 DEF Clean, Accept, countVars, readVars
    <3>. QED  BY Zenon, <3>4, <3>5
  <2>. QED  BY Zenon, <1>2, <2>1, <2>2 DEF TcpInv, Accept, serverVars
<1>3. CASE Close(k)
  <2>1. TypeOK'
    BY Zenon, <1>0, <1>3 DEF TypeOK, Close, Set, serverVars, netVars, countVars, readVars
  <2>2. ASSUME NEW l \in Conns  PROVE Books(l)' /\ (listener' = "open" /\ l \notin broken' => Clean(l)')
    <3>1. Books(l) /\ (listener = "open" /\ l \notin broken => Clean(l))
      BY Zenon DEF TcpInv
    <3>2. Books(l)'
      BY Zenon, <1>0, <1>3, <3>1, EndsFacts DEF TypeOK, Books, Dead, Close, Set, serverVars, netVars, countVars, readVars
    <3>3. listener' = "open" /\ l \notin broken' => Clean(l)'
      BY Zenon, <1>0, <1>3, <3>1, EndsFacts DEF TypeOK, Books, Clean, Close, Set, serverVars, netVars, countVars, readVars
    <3>. QED  BY Zenon, <3>2, <3>3
  <2>. QED  BY Zenon, <1>3, <2>1, <2>2 DEF TcpInv, Close, serverVars
<1>4. CASE CloseReturns(k)
  <2>1. TypeOK'
    BY Zenon, <1>0, <1>4 DEF TypeOK, CloseReturns, Set, serverVars, netVars, countVars, readVars
  <2>2. ASSUME NEW l \in Conns  PROVE Books(l)' /\ (listener' = "open" /\ l \notin broken' => Clean(l)')
    <3>1. Books(l) /\ (listener = "open" /\ l \notin broken => Clean(l))
      BY Zenon DEF TcpInv
    <3>2. Books(l)'
      BY Zenon, <1>0, <1>4, <3>1, EndsFacts DEF TypeOK, Books, Dead, CloseReturns, Set, serverVars, netVars, countVars, readVars
    <3>3. listener' = "open" /\ l \notin broken' => Clean(l)'
      BY Zenon, <1>0, <1>4, <3>1, EndsFacts DEF TypeOK, Books, Clean, CloseReturns, Set, serverVars, netVars, countVars, readVars
    <3>. QED  BY Zenon, <3>2, <3>3
  <2>. QED  BY Zenon, <1>4, <2>1, <2>2 DEF TcpInv, CloseReturns, serverVars
<1>5. CASE Reset(k)
  <2>1. TypeOK'
    BY Zenon, <1>0, <1>5 DEF TypeOK, Reset, Set, serverVars, netVars, countVars, readVars
  <2>2. ASSUME NEW l \in Conns  PROVE Books(l)' /\ (listener' = "open" /\ l \notin broken' => Clean(l)')
    <3>1. Books(l)'
      BY Zenon, <1>5 DEF TcpInv, Books, Dead, Reset, serverVars, countVars, readVars
    <3>2. ASSUME listener' = "open" /\ l \notin broken'  PROVE Clean(l)'
      <4>1. Clean(l)
        BY Zenon, <1>5, <3>2 DEF TcpInv, Reset, serverVars
      <4>2. l \in reset' => nc[ClientEnd(l)] = "closed" /\ arrived[ClientEnd(l)] < onwire[ServerEnd(l)]
        <5>1. CASE l = k
          <6>1. PICK e \in {ClientEnd(k), ServerEnd(k)} : nc[e] = "closed" /\ arrived[e] < onwire[Peer(e)]
            BY Zenon, <1>5 DEF Reset
          <6>2. Peer(ClientEnd(k)) = ServerEnd(k) /\ Peer(ServerEnd(k)) = ClientEnd(k)
            BY Zenon DEF Peer, ClientEnd, ServerEnd
          <6>3. e = ServerEnd(k) => arrived[e] = onwire[ClientEnd(k)]
            BY Zenon, <1>5, <4>1, <5>1, <6>1 DEF Clean, Reset
          <6>4. onwire[ClientEnd(k)] \in Nat
            BY Zenon, <1>0 DEF TypeOK
          <6>5. ~(onwire[ClientEnd(k)] < onwire[ClientEnd(k)])
            BY SMTT(30), <6>4
          <6>. QED  BY Zenon, <5>1, <6>1, <6>2, <6>3, <6>5
        <5>2. CASE l # k
          BY Zenon, <1>5, <4>1, <5>2 DEF Clean, Reset
        <5>. QED  BY Zenon, <5>1, <5>2
      <4>. QED  BY Zenon, <1>5, <4>1, <4>2 DEF Clean, Reset, countVars, readVars
    <3>. QED  BY Zenon, <3>1, <3>2
  <2>. QED  BY Zenon, <1>5, <2>1, <2>2 DEF TcpInv, Reset, serverVars
<1>6. CASE Break(k)
  <2>1. TypeOK'
    BY Zenon, <1>0, <1>6 DEF TypeOK, Break, Set, serverVars, netVars, countVars, readVars
  <2>2. ASSUME NEW l \in Conns  PROVE Books(l)' /\ (listener' = "open" /\ l \notin broken' => Clean(l)')
    <3>1. Books(l) /\ (listener = "open" /\ l \notin broken => Clean(l))
      BY Zenon DEF TcpInv
    <3>2. Books(l)'
      BY Zenon, <1>0, <1>6, <3>1, EndsFacts DEF TypeOK, Books, Dead, Break, Set, serverVars, netVars, countVars, readVars
    <3>3. listener' = "open" /\ l \notin broken' => Clean(l)'
      BY Zenon, <1>0, <1>6, <3>1, EndsFacts DEF TypeOK, Books, Clean, Break, Set, serverVars, netVars, countVars, readVars
    <3>. QED  BY Zenon, <3>2, <3>3
  <2>. QED  BY Zenon, <1>6, <2>1, <2>2 DEF TcpInv, Break, serverVars
<1>. QED  BY Zenon, <1>1, <1>2, <1>3, <1>4, <1>5, <1>6

\* The server is closed.
LEMMA ServerStep ==
  ASSUME TcpInv, CloseListener \/ AcceptFails
  PROVE  TcpInv'
<1>0. TypeOK
  BY Zenon DEF TcpInv
<1>1. CASE CloseListener
  <2>1. TypeOK' /\ listener' = "closed"
    BY Zenon, <1>0, <1>1 DEF TypeOK, CloseListener, countVars, readVars
  <2>2. ASSUME NEW k \in Conns  PROVE Books(k)'
    BY Zenon, <1>1 DEF TcpInv, Books, Dead, CloseListener, countVars, readVars
  <2>. QED  BY Zenon, <2>1, <2>2 DEF TcpInv
<1>2. CASE AcceptFails
  <2>1. TypeOK' /\ listener' = "closed"
    <3>1. nc' \in [Ends -> {"none", "open", "closed"}]
      BY Zenon, <1>0, <1>2 DEF TypeOK, AcceptFails
    <3>. QED  BY Zenon, <1>0, <1>2, <3>1 DEF TypeOK, AcceptFails, countVars, readVars
  <2>2. ASSUME NEW k \in Conns  PROVE Books(k)'
    <3>1. nc'[ServerEnd(k)] = IF k \in conns THEN "closed" ELSE nc[ServerEnd(k)]
      BY Zenon, <1>2, EndsFacts DEF AcceptFails, ServerEnd
    <3>2. nc'[ClientEnd(k)] = nc[ClientEnd(k)]
      BY Zenon, <1>2, EndsFacts DEF AcceptFails, ClientEnd
    <3>3. Books(k)
      BY Zenon DEF TcpInv
    <3>4. /\ nc'[ServerEnd(k)] # "open" /\ (nc'[ServerEnd(k)] = "none" => nc[ServerEnd(k)] = "none")
          /\ nc[ServerEnd(k)] = "closed" => nc'[ServerEnd(k)] = "closed"
      <4>1. CASE k \in conns
        BY Zenon, <3>1, <4>1
      <4>2. CASE k \notin conns
        BY Zenon, <3>1, <3>3, <4>2 DEF Books
      <4>. QED  BY Zenon, <4>1, <4>2
    <3>. QED  BY Zenon, <1>2, <3>2, <3>3, <3>4 DEF Books, Dead, AcceptFails, countVars, readVars
  <2>. QED  BY Zenon, <2>1, <2>2 DEF TcpInv
<1>. QED  BY Zenon, <1>1, <1>2

\* Every step preserves the invariant.
LEMMA TcpNext ==
  ASSUME TcpInv, [Next]_vars
  PROVE  TcpInv'
<1>1. CASE Next
  BY Zenon, <1>1, EndStep, ConnStep, ServerStep DEF Next
<1>2. CASE UNCHANGED vars
  BY SMTT(30), <1>2 DEF vars, serverVars, netVars, countVars, readVars, TcpInv, TypeOK, Books, Clean, Dead
<1>. QED  BY Zenon, <1>1, <1>2

\* Close delivers what was written before it (tcp.go:259, transport.go:45), through
\* any interleaving of the goroutines of both ends, the kernels and other
\* connections, with the exceptions CloseDelivers names.
THEOREM WrittenIsDelivered == Spec => []CloseDelivers
<1>1. TcpInv => CloseDelivers
  <2>. SUFFICES ASSUME TcpInv, NEW k \in told, listener # "closed", k \notin broken,
                       ~(arrived[ClientEnd(k)] < onwire[ServerEnd(k)])
                PROVE  got[k] = 1 .. sent[ClientEnd(k)]
    BY Zenon DEF CloseDelivers
  <2>1. k \in Conns /\ Books(k) /\ Clean(k)
    BY Zenon DEF TcpInv, TypeOK
  <2>2. reader[ServerEnd(k)] = "done" /\ nc[ServerEnd(k)] = "closed"
    BY Zenon, <2>1 DEF Books, Dead
  <2>. QED  BY Zenon, <2>1, <2>2 DEF Clean
<1>. QED  BY <1>1, TcpInit, TcpNext, PTL DEF Spec

\* Once its accept loop has ended the server has no open socket left.
HungUpOnAll == closing => \A k \in Conns : nc[ServerEnd(k)] # "open"

\* A closed server has hung up on everybody, also on connections accepted while
\* others were being forgotten (tcp.go:172-198): every goroutine of a connection then
\* finds its socket closed.
THEOREM NobodyIsForgotten == Spec => []HungUpOnAll
<1>1. TcpInv => HungUpOnAll
  BY Zenon DEF TcpInv, Books, HungUpOnAll
<1>. QED  BY <1>1, TcpInit, TcpNext, PTL DEF Spec

-----------------------------------------------------------------------------
(* The connection table of an rudp server: the inductive invariant. *)

\* What was sent is well formed.
NetOK ==
  \A p \in net : /\ p.typ \in {"Connect", "ConnAck", "Data"}
                 /\ p.typ \in {"Connect", "Data"} => p.from \in Clients
                 /\ p.typ = "ConnAck" => p.to \in Clients /\ p.id \in 0 .. MaxIDs

\* The types, the two tables and the routed packets; an ID beyond nextID was never
\* given to a connection.
TableInv ==
  /\ ServerTypeOK /\ NetOK /\ OneConnPerAddr /\ OnlyFromPeer
  /\ \A i \in IDs : i > nextID => peerOf[i] = Nobody /\ state[i] = "none"

\* A server starts with empty tables.
LEMMA FreshIsOK ==
  ASSUME peerOf' = FreshTable[1], state' = FreshTable[2], byAddr' = FreshTable[3],
         nextID' = FreshTable[4], landed' = {}
  PROVE  /\ peerOf' \in [IDs -> Clients \cup {Nobody}] /\ byAddr' \in [Clients -> 0 .. MaxIDs]
         /\ state' \in [IDs -> {"none", "open", "flush", "dead"}] /\ nextID' \in 0 .. MaxIDs
         /\ OneConnPerAddr' /\ OnlyFromPeer'
         /\ \A i \in IDs : peerOf'[i] = Nobody /\ state'[i] = "none"
BY SMTT(30), ServerConstantsOK DEF FreshTable, OneConnPerAddr, OnlyFromPeer, IDs

\* The first server starts so.
LEMMA TableInit == ServerInit => TableInv
<1>. SUFFICES ASSUME ServerInit  PROVE TableInv
  BY Zenon
<1>1. ServerTypeOK
  BY SMTT(30), ServerConstantsOK DEF ServerInit, FreshTable, ServerTypeOK
<1>2. OneConnPerAddr /\ OnlyFromPeer /\ NetOK
  BY Zenon DEF ServerInit, FreshTable, OneConnPerAddr, OnlyFromPeer, NetOK
<1>3. \A i \in IDs : peerOf[i] = Nobody /\ state[i] = "none"
  BY Zenon DEF ServerInit, FreshTable
<1>. QED  BY Zenon, <1>1, <1>2, <1>3 DEF TableInv

\* Forgetting connections that have ended keeps the tables in step.
LEMMA ForgetKeeps ==
  ASSUME TableInv, NEW S \in SUBSET IDs, \A i \in S : state[i] = "dead", Forget(S),
         UNCHANGED state
  PROVE  /\ OneConnPerAddr'
         /\ peerOf' \in [IDs -> Clients \cup {Nobody}] /\ byAddr' \in [Clients -> 0 .. MaxIDs]
         /\ \A i \in IDs : peerOf[i] = Nobody => peerOf'[i] = Nobody
<1>1. /\ peerOf' \in [IDs -> Clients \cup {Nobody}] /\ byAddr' \in [Clients -> 0 .. MaxIDs]
      /\ \A i \in IDs : peerOf'[i] = IF i \in S THEN Nobody ELSE peerOf[i]
      /\ \A c \in Clients : byAddr'[c] = IF byAddr[c] \in S THEN 0 ELSE byAddr[c]
  BY SMTT(30), ServerConstantsOK DEF Forget, TableInv, ServerTypeOK
<1>2. 0 \notin IDs /\ \A c \in Clients : byAddr[c] # 0 => byAddr[c] \in IDs
  BY SMTT(30), ServerConstantsOK DEF IDs, TableInv, ServerTypeOK
<1>3. ASSUME NEW c \in Clients, byAddr'[c] # 0  PROVE peerOf'[byAddr'[c]] = c
  BY Zenon, <1>1, <1>2, <1>3 DEF TableInv, OneConnPerAddr
<1>4. ASSUME NEW i \in IDs, peerOf'[i] # Nobody  PROVE byAddr'[peerOf'[i]] = i
  <2>1. i \notin S /\ peerOf'[i] = peerOf[i] /\ peerOf[i] \in Clients
    BY Zenon, <1>1, <1>4 DEF TableInv, ServerTypeOK
  <2>2. byAddr[peerOf[i]] = i
    BY Zenon, <1>4, <2>1 DEF TableInv, OneConnPerAddr
  <2>. QED  BY Zenon, <1>1, <2>1, <2>2
<1>5. ASSUME NEW i \in IDs, state'[i] \in {"open", "flush"}  PROVE peerOf'[i] # Nobody
  BY Zenon, <1>1, <1>5 DEF TableInv, OneConnPerAddr
<1>. QED  BY Zenon, <1>1, <1>3, <1>4, <1>5 DEF OneConnPerAddr

\* The clients send, give up, take their ID and end; the tables stay.
LEMMA ClientStep ==
  ASSUME TableInv,
         \/ \E c \in Clients : Dial(c) \/ ClientTick(c) \/ ClientSend(c) \/ ClientEnds(c)
         \/ \E p \in net : ClientConnAck(p)
  PROVE  TableInv'
<1>1. ASSUME ServerTypeOK', NetOK', UNCHANGED <<tableVars, landed>>  PROVE TableInv'
  BY Zenon, <1>1 DEF TableInv, OneConnPerAddr, OnlyFromPeer, tableVars
<1>2. ASSUME NEW c \in Clients, Dial(c)  PROVE TableInv'
  <2>1. ServerTypeOK'
    BY Zenon, <1>2 DEF Dial, TableInv, ServerTypeOK, tableVars
  <2>2. NetOK'
    BY SMTT(30), <1>2 DEF Dial, TableInv, NetOK, Connect
  <2>. QED  BY Zenon, <1>1, <1>2, <2>1, <2>2 DEF Dial
<1>3. ASSUME NEW c \in Clients, ClientTick(c)  PROVE TableInv'
  <2>1. ServerTypeOK'
    BY SMTT(30), <1>3, ServerConstantsOK DEF ClientTick, TableInv, ServerTypeOK, tableVars
  <2>2. NetOK'
    BY SMTT(30), <1>3 DEF ClientTick, TableInv, NetOK, Connect
  <2>. QED  BY Zenon, <1>1, <1>3, <2>1, <2>2 DEF ClientTick
<1>4. ASSUME NEW c \in Clients, ClientSend(c)  PROVE TableInv'
  BY SMTT(30), <1>1, <1>4 DEF ClientSend, TableInv, ServerTypeOK, NetOK, Packet, tableVars, clientVars
<1>5. ASSUME NEW c \in Clients, ClientEnds(c)  PROVE TableInv'
  BY Zenon, <1>1, <1>5 DEF ClientEnds, TableInv, ServerTypeOK, NetOK, tableVars
<1>6. ASSUME NEW p \in net, ClientConnAck(p)  PROVE TableInv'
  <2>1. p.to \in Clients /\ p.id \in 0 .. MaxIDs
    BY Zenon, <1>6 DEF ClientConnAck, TableInv, NetOK
  <2>. QED  BY SMTT(30), <1>1, <1>6, <2>1 DEF ClientConnAck, TableInv, ServerTypeOK, NetOK, tableVars
<1>. QED  BY Zenon, <1>2, <1>3, <1>4, <1>5, <1>6

\* A Connect: the same connection again, or a new one.
LEMMA ConnectStep ==
  ASSUME TableInv, NEW p \in net, ServerConnect(p)
  PROVE  TableInv'
<1>. DEFINE c == p.from
            n == nextID + 1
<1>0. c \in Clients /\ Nobody \notin Clients /\ MaxIDs \in Nat /\ nextID \in 0 .. MaxIDs
  BY Zenon, ServerConstantsOK DEF ServerConnect, TableInv, NetOK, ServerTypeOK
<1>1. ASSUME UNCHANGED tableVars, net' = net \/ net' = net \cup {ConnAck(c, byAddr[c])}
      PROVE  TableInv'
  <2>1. byAddr[c] \in 0 .. MaxIDs
    BY Zenon, <1>0 DEF TableInv, ServerTypeOK
  <2>2. NetOK'
    BY SMTT(30), <1>0, <1>1, <2>1 DEF TableInv, NetOK, ConnAck
  <2>3. UNCHANGED <<server, run, clientVars, landed>>
    BY Zenon DEF ServerConnect
  <2>. QED  BY Zenon, <1>1, <2>2, <2>3 DEF TableInv, ServerTypeOK, OneConnPerAddr, OnlyFromPeer, tableVars, clientVars
<1>2. CASE server = "up" /\ ~Known(c)
  <2>1. /\ n \in IDs /\ n \in 0 .. MaxIDs /\ n # 0 /\ nextID' = n
        /\ peerOf' = [i \in IDs |-> IF i = n THEN c ELSE IF i = byAddr[c] THEN Nobody ELSE peerOf[i]]
        /\ byAddr' = [byAddr EXCEPT ![c] = n] /\ state' = [state EXCEPT ![n] = "open"]
        /\ net' = net \cup {ConnAck(c, n)} /\ UNCHANGED <<server, run, clientVars, landed>>
    BY SMTT(30), <1>0, <1>2 DEF ServerConnect, NewID, IDs
  <2>2. peerOf[n] = Nobody /\ state[n] = "none"
    BY SMTT(30), <1>0, <2>1 DEF TableInv
  <2>3. byAddr[c] # 0 => state[byAddr[c]] = "dead"
    BY Zenon, <1>2 DEF Known
  <2>. HIDE DEF c, n
  <2>4. ServerTypeOK'
    BY Zenon, <1>0, <2>1 DEF TableInv, ServerTypeOK, clientVars
  <2>5. NetOK'
    BY SMTT(30), <1>0, <2>1 DEF TableInv, NetOK, ConnAck
  <2>6. OneConnPerAddr'
    <3>0. \A d \in Clients : byAddr[d] \in 0 .. MaxIDs /\ (byAddr[d] # 0 => byAddr[d] \in IDs)
      BY SMTT(30), <1>0 DEF TableInv, ServerTypeOK, IDs
    <3>1. ASSUME NEW d \in Clients, byAddr'[d] # 0  PROVE peerOf'[byAddr'[d]] = d
      <4>1. CASE d = c
        BY Zenon, <1>0, <2>1, <4>1 DEF TableInv, ServerTypeOK
      <4>2. CASE d # c
        <5>1. byAddr'[d] = byAddr[d] /\ byAddr[d] \in IDs /\ peerOf[byAddr[d]] = d
          BY Zenon, <2>1, <3>0, <3>1, <4>2 DEF TableInv, OneConnPerAddr, ServerTypeOK
        <5>2. byAddr[d] # n
          BY Zenon, <1>0, <2>2, <5>1
        <5>3. byAddr[d] # byAddr[c]
          BY SMTT(30), <1>0, <3>0, <4>2, <5>1 DEF TableInv, OneConnPerAddr, IDs
        <5>. QED  BY Zenon, <2>1, <5>1, <5>2, <5>3
      <4>. QED  BY Zenon, <4>1, <4>2
    <3>2. ASSUME NEW i \in IDs, peerOf'[i] # Nobody  PROVE byAddr'[peerOf'[i]] = i
      <4>1. CASE i = n
        BY Zenon, <1>0, <2>1, <4>1 DEF TableInv, ServerTypeOK
      <4>2. CASE i # n
        <5>1. i # byAddr[c] /\ peerOf'[i] = peerOf[i]
          BY Zenon, <2>1, <3>2, <4>2
        <5>2. byAddr[peerOf[i]] = i /\ peerOf[i] \in Clients /\ peerOf[i] # c
          BY Zenon, <3>2, <5>1 DEF TableInv, OneConnPerAddr, ServerTypeOK
        <5>. QED  BY Zenon, <2>1, <5>1, <5>2 DEF TableInv, ServerTypeOK
      <4>. QED  BY Zenon, <4>1, <4>2
    <3>3. ASSUME NEW i \in IDs, state'[i] \in {"open", "flush"}  PROVE peerOf'[i] # Nobody
      <4>1. CASE i = n
        BY Zenon, <1>0, <2>1, <4>1
      <4>2. CASE i # n
        <5>1. state[i] \in {"open", "flush"} /\ peerOf[i] # Nobody
          BY Zenon, <2>1, <3>3, <4>2 DEF TableInv, ServerTypeOK, OneConnPerAddr
        <5>2. i # byAddr[c]
          BY SMTT(30), <2>3, <5>1 DEF IDs
        <5>. QED  BY Zenon, <2>1, <4>2, <5>1, <5>2
      <4>. QED  BY Zenon, <4>1, <4>2
    <3>. QED  BY Zenon, <3>1, <3>2, <3>3 DEF OneConnPerAddr
  <2>7. OnlyFromPeer'
    BY Zenon, <2>1 DEF TableInv, OnlyFromPeer
  <2>8. ASSUME NEW i \in IDs, i > nextID'  PROVE peerOf'[i] = Nobody /\ state'[i] = "none"
    <3>1. i > nextID /\ i # n
      BY SMTT(30), <1>0, <2>1, <2>8 DEF n, IDs
    <3>. QED  BY Zenon, <2>1, <3>1 DEF TableInv, ServerTypeOK
  <2>. QED  BY Zenon, <2>4, <2>5, <2>6, <2>7, <2>8 DEF TableInv
<1>. QED  BY Zenon, <1>1, <1>2 DEF ServerConnect

\* A packet for a connection reaches it only from its peer.
LEMMA RouteStep ==
  ASSUME TableInv, NEW p \in net, ServerRoute(p)
  PROVE  TableInv'
<1>0. UNCHANGED <<state, nextID, server, run, clientVars, net>> /\ NetOK'
  BY Zenon DEF ServerRoute, TableInv, NetOK
<1>1. CASE FromPeer(p) /\ state[p.id] = "dead" /\ Forget({p.id}) /\ UNCHANGED landed
  <2>1. {p.id} \in SUBSET IDs
    BY Zenon, <1>1 DEF FromPeer
  <2>2. /\ OneConnPerAddr'
        /\ peerOf' \in [IDs -> Clients \cup {Nobody}] /\ byAddr' \in [Clients -> 0 .. MaxIDs]
        /\ \A i \in IDs : peerOf[i] = Nobody => peerOf'[i] = Nobody
    BY Zenon, <1>0, <1>1, <2>1, ForgetKeeps
  <2>. QED  BY Zenon, <1>0, <1>1, <2>2 DEF TableInv, ServerTypeOK, OnlyFromPeer, clientVars
<1>2. CASE FromPeer(p) /\ landed' = landed \cup {<<peerOf[p.id], p.from>>} /\ UNCHANGED <<peerOf, byAddr>>
  <2>1. OnlyFromPeer'
    BY SMTT(30), <1>2 DEF FromPeer, OnlyFromPeer, TableInv
  <2>. QED  BY Zenon, <1>0, <1>2, <2>1 DEF TableInv, ServerTypeOK, OneConnPerAddr, clientVars
<1>3. CASE UNCHANGED <<peerOf, byAddr, landed>>
  BY Zenon, <1>0, <1>3 DEF TableInv, ServerTypeOK, OneConnPerAddr, OnlyFromPeer, clientVars
<1>. QED  BY Zenon, <1>1, <1>2, <1>3 DEF ServerRoute

\* The epoch's sweep, the shutdown, the end of a connection and a restart.
LEMMA TableStep ==
  ASSUME TableInv,
         Sweep \/ BeginShutdown \/ ShutdownDone \/ Restart \/ \E i \in IDs : ConnEnds(i)
  PROVE  TableInv'
<1>1. CASE Sweep
  <2>. DEFINE S == {i \in IDs : state[i] = "dead"}
  <2>1. S \in SUBSET IDs /\ (\A i \in S : state[i] = "dead") /\ Forget(S)
        /\ UNCHANGED <<state, nextID, server, run, clientVars, net, landed>>
    BY Zenon, <1>1 DEF Sweep
  <2>. HIDE DEF S
  <2>2. /\ OneConnPerAddr'
        /\ peerOf' \in [IDs -> Clients \cup {Nobody}] /\ byAddr' \in [Clients -> 0 .. MaxIDs]
        /\ \A i \in IDs : peerOf[i] = Nobody => peerOf'[i] = Nobody
    BY Zenon, <2>1, ForgetKeeps
  <2>. QED  BY Zenon, <2>1, <2>2 DEF TableInv, ServerTypeOK, NetOK, OnlyFromPeer, clientVars
<1>2. ASSUME UNCHANGED <<peerOf, byAddr, nextID, run, clientVars, net, landed>>,
             server' \in {"up", "closing", "done"},
             state' \in [IDs -> {"none", "open", "flush", "dead"}],
             \A i \in IDs : /\ state[i] = "none" => state'[i] = "none"
                            /\ state'[i] \in {"open", "flush"} => state[i] \in {"open", "flush"}
      PROVE  TableInv'
  BY Zenon, <1>2 DEF TableInv, ServerTypeOK, NetOK, OneConnPerAddr, OnlyFromPeer, clientVars
<1>3. CASE BeginShutdown
  BY Zenon, <1>2, <1>3 DEF BeginShutdown, TableInv, ServerTypeOK
<1>4. CASE ShutdownDone
  BY Zenon, <1>2, <1>4 DEF ShutdownDone, TableInv, ServerTypeOK, tableVars
<1>5. ASSUME NEW i \in IDs, ConnEnds(i)  PROVE TableInv'
  BY Zenon, <1>2, <1>5 DEF ConnEnds, TableInv, ServerTypeOK
<1>6. CASE Restart
  <2>1. /\ run' \in 1 .. MaxRuns /\ server' = "up" /\ UNCHANGED <<clientVars, net>>
    BY SMTT(30), <1>6, ServerConstantsOK DEF Restart, TableInv, ServerTypeOK
  <2>2. /\ peerOf' \in [IDs -> Clients \cup {Nobody}] /\ byAddr' \in [Clients -> 0 .. MaxIDs]
        /\ state' \in [IDs -> {"none", "open", "flush", "dead"}] /\ nextID' \in 0 .. MaxIDs
        /\ OneConnPerAddr' /\ OnlyFromPeer'
        /\ \A i \in IDs : peerOf'[i] = Nobody /\ state'[i] = "none"
    BY Zenon, <1>6, FreshIsOK DEF Restart
  <2>. QED  BY Zenon, <2>1, <2>2 DEF TableInv, ServerTypeOK, NetOK, clientVars
<1>. QED  BY Zenon, <1>1, <1>3, <1>4, <1>5, <1>6

\* Every step preserves the invariant.
LEMMA TableNext ==
  ASSUME TableInv, [ServerNext]_allServerVars
  PROVE  TableInv'
<1>1. CASE ServerNext
  BY Zenon, <1>1, ClientStep, ConnectStep, RouteStep, TableStep DEF ServerNext, Deliver
<1>2. CASE UNCHANGED allServerVars
  BY Zenon, <1>2 DEF allServerVars, tableVars, clientVars, TableInv, ServerTypeOK, NetOK, OneConnPerAddr, OnlyFromPeer
<1>. QED  BY Zenon, <1>1, <1>2

\* However often a Connect is retried, repeated or delayed, also across restarts of
\* the server, an address has at most one running connection and conns and byAddr
\* agree (server.go:86-98, 149-170).
THEOREM TablesAgree == ServerSpec => []OneConnPerAddr
<1>1. TableInv => OneConnPerAddr
  BY Zenon DEF TableInv
<1>. QED  BY <1>1, TableInit, TableNext, PTL DEF ServerSpec

\* No connection gets a packet of another client, whatever IDs a restarted server
\* gives again (server.go:172-176).
THEOREM NoStrangers == ServerSpec => []OnlyFromPeer
<1>1. TableInv => OnlyFromPeer
  BY Zenon DEF TableInv
<1>. QED  BY <1>1, TableInit, TableNext, PTL DEF ServerSpec

-----------------------------------------------------------------------------
(* What readAll finds. *)

Frames == Records \cup {Torn}
EndsTorn(f) == f # <<>> /\ f[Len(f)] = Torn
Whole(f) == f \in Seq(Frames) /\ \A n \in 1 .. Len(f) - 1 : f[n] # Torn

\* A file of whole frames, with nothing torn before its last frame, is read up to
\* that frame.
LEMMA IntactIs ==
  ASSUME NEW f, Whole(f)
  PROVE  Intact(f) = SubSeq(f, 1, IF EndsTorn(f) THEN Len(f) - 1 ELSE Len(f))
<1>. DEFINE P(n) == /\ \A i \in 1 .. n : f[i] # Torn
                    /\ n < Len(f) => f[n + 1] = Torn
            m == IF EndsTorn(f) THEN Len(f) - 1 ELSE Len(f)
<1>1. Len(f) \in Nat /\ (f # <<>> => Len(f) > 0)
  BY SMTT(30), EmptySeq, LenProperties DEF Whole
<1>2. m \in 0 .. Len(f) /\ P(m)
  BY SMTT(30), <1>1 DEF Whole, EndsTorn
<1>3. \A n \in 0 .. Len(f) : P(n) => n = m
  BY SMTT(30), <1>1 DEF Whole, EndsTorn
<1>4. (CHOOSE n \in 0 .. Len(f) : P(n)) = m
  <2>. HIDE DEF P, m
  <2>. QED  BY Zenon, <1>2, <1>3
<1>. QED  BY Zenon, <1>4 DEF Intact

\* A prefix of a sequence: its length, its elements, and prefixes of prefixes.
LEMMA PrefixIs ==
  ASSUME NEW S, NEW f \in Seq(S), NEW n \in 0 .. Len(f)
  PROVE  /\ SubSeq(f, 1, n) \in Seq(S) /\ Len(SubSeq(f, 1, n)) = n
         /\ \A i \in 1 .. n : SubSeq(f, 1, n)[i] = f[i]
         /\ n = Len(f) => SubSeq(f, 1, n) = f
<1>1. \A i \in 1 .. n : f[i] \in S
  BY SMTT(30), ElementOfSeq, LenProperties
<1>. QED  BY SMTT(30), <1>1, SubSeqProperties, LenProperties

\* Reading a file without torn frames, and one with a torn frame behind them.
LEMMA IntactRecords ==
  ASSUME NEW f \in Seq(Records)
  PROVE  /\ Intact(f) = f /\ Whole(f) /\ ~EndsTorn(f)
         /\ Intact(Append(f, Torn)) = f /\ Whole(Append(f, Torn)) /\ EndsTorn(Append(f, Torn))
         /\ Len(Append(f, Torn)) = Len(f) + 1
         /\ SubSeq(Append(f, Torn), 1, Len(f)) = f
<1>. DEFINE g == Append(f, Torn)
<1>1. Len(f) \in Nat /\ f \in Seq(Frames) /\ \A n \in 1 .. Len(f) : f[n] # Torn
  <2>1. \A n \in 1 .. Len(f) : f[n] \in Records
    BY Zenon, ElementOfSeq
  <2>. QED  BY Zenon, <2>1, WalConstantsOK, LenProperties, SeqMonotonic DEF Frames
<1>2. Whole(f) /\ ~EndsTorn(f)
  BY SMTT(30), <1>1, EmptySeq DEF Whole, EndsTorn
<1>3. g \in Seq(Frames) /\ Len(g) = Len(f) + 1 /\ g[Len(f) + 1] = Torn
      /\ \A n \in 1 .. Len(f) : g[n] = f[n]
  BY SMTT(30), <1>1, AppendProperties DEF Frames
<1>. HIDE DEF g
<1>4. Whole(g) /\ EndsTorn(g)
  <2>1. g # <<>>
    BY SMTT(30), <1>1, <1>3, EmptySeq
  <2>. QED  BY SMTT(30), <1>1, <1>3, <2>1 DEF Whole, EndsTorn
<1>5. Intact(f) = f
  BY SMTT(30), <1>1, <1>2, IntactIs, PrefixIs
<1>6. Intact(g) = SubSeq(g, 1, Len(f))
  BY SMTT(30), <1>1, <1>3, <1>4, IntactIs
<1>7. SubSeq(g, 1, Len(f)) = f
  <2>1. SubSeq(g, 1, Len(f)) \in Seq(Frames) /\ Len(SubSeq(g, 1, Len(f))) = Len(f)
        /\ \A i \in 1 .. Len(f) : SubSeq(g, 1, Len(f))[i] = g[i]
    BY SMTT(30), <1>1, <1>3, PrefixIs
  <2>. DEFINE h == SubSeq(g, 1, Len(f))
  <2>. HIDE DEF h
  <2>2. h \in Seq(Frames) /\ Len(h) = Len(f) /\ \A i \in 1 .. Len(f) : h[i] = f[i]
    BY Zenon, <1>3, <2>1 DEF h
  <2>. QED  BY Zenon, <1>1, <2>2, SeqEqual DEF h
<1>. QED  BY Zenon, <1>2, <1>3, <1>4, <1>5, <1>6, <1>7 DEF g

-----------------------------------------------------------------------------
(* The inductive invariant. *)

\* The file holds records and perhaps one torn frame behind them; while the log is
\* in use that frame is there exactly when a record of the buffer is partly written.
\* What is stable is intact, and a Rewrite past its Sync has a stable new file.
FileInv ==
  /\ Intact(file) \in Seq(Records) /\ buf \in Seq(Records)
  /\ file \in {Intact(file), Append(Intact(file), Torn)}
  /\ stable \in 0 .. Len(Intact(file))
  /\ cut \in BOOLEAN /\ werr \in BOOLEAN
  /\ call \in {"down", "ready", "write", "synced", "renamed"}
  /\ call # "down" => file = IF cut THEN Append(Intact(file), Torn) ELSE Intact(file)
  /\ call = "down" => buf = <<>> /\ ~cut
  /\ call \in {"write", "synced", "renamed"} => tmp \in Snapshots
  /\ call \in {"synced", "renamed"} => tmpSynced = TRUE

\* The empty log.
LEMMA FileInvInit == WalInit => FileInv /\ Contract!Init
<1>. SUFFICES ASSUME WalInit  PROVE FileInv /\ Contract!Init
  BY Zenon
<1>1. <<>> \in Seq(Records) /\ Len(<<>>) = 0
  BY Zenon, EmptySeq
<1>2. file = <<>> /\ Intact(file) = <<>>
  BY Zenon, <1>1, IntactRecords DEF WalInit
<1>3. Contents = <<>>
  BY Zenon, <1>1, <1>2, ConcatEmptySeq DEF Contents, WalInit
<1>4. FileInv
  <2>1. Len(Intact(file)) = 0 /\ stable \in 0 .. Len(Intact(file))
    BY SMTT(30), <1>1, <1>2 DEF WalInit
  <2>2. file \in {Intact(file), Append(Intact(file), Torn)}
    BY <1>2, Zenon
  <2>. QED  BY Zenon, <1>1, <1>2, <2>1, <2>2 DEF WalInit, FileInv
<1>5. Contract!Init
  BY Zenon, <1>3 DEF WalInit, Contract!Init, Target
<1>. QED  BY Zenon, <1>4, <1>5

\* Flushing n records of the buffer, and a part of the next one.
LEMMA WrittenIs ==
  ASSUME FileInv, call # "down", NEW n \in 0 .. Len(buf), NEW torn \in BOOLEAN,
         file' = Written(n, torn)
  PROVE  /\ Intact(file') = Intact(file) \o SubSeq(buf, 1, n)
         /\ Intact(file') \in Seq(Records)
         /\ Len(Intact(file')) = Len(Intact(file)) + n
         /\ file' = IF torn THEN Append(Intact(file'), Torn) ELSE Intact(file')
<1>. DEFINE g == Intact(file)
            h == g \o SubSeq(buf, 1, n)
<1>1. g \in Seq(Records) /\ buf \in Seq(Records) /\ Len(g) \in Nat /\ cut \in BOOLEAN
  BY Zenon, LenProperties DEF FileInv
<1>2. (IF cut THEN SubSeq(file, 1, Len(file) - 1) ELSE file) = g
  <2>1. file = IF cut THEN Append(g, Torn) ELSE g
    BY Zenon DEF FileInv
  <2>. HIDE DEF g
  <2>2. Len(Append(g, Torn)) - 1 = Len(g) /\ SubSeq(Append(g, Torn), 1, Len(g)) = g
    BY SMTT(30), <1>1, IntactRecords
  <2>. QED  BY Zenon, <1>1, <2>1, <2>2
<1>3. h \in Seq(Records) /\ Len(h) = Len(g) + n
  <2>. HIDE DEF g
  <2>1. SubSeq(buf, 1, n) \in Seq(Records) /\ Len(SubSeq(buf, 1, n)) = n
    BY Zenon, <1>1, PrefixIs
  <2>. QED  BY Zenon, <1>1, <2>1, ConcatProperties
<1>4. file' = h \o (IF torn THEN <<Torn>> ELSE <<>>)
  BY Zenon, <1>2 DEF Written
<1>. HIDE DEF h, g
<1>5. file' = IF torn THEN Append(h, Torn) ELSE h
  <2>1. h \in Seq(Frames) /\ Torn \in Frames
    BY Zenon, <1>3, SeqMonotonic DEF Frames
  <2>. QED  BY Zenon, <1>4, <2>1, ConcatEmptySeq, AppendIsConcat
<1>6. Intact(file') = h
  BY Zenon, <1>3, <1>5, IntactRecords
<1>. QED  BY Zenon, <1>3, <1>5, <1>6 DEF g, h

\* Concatenation of records is associative.
LEMMA RecordsAssociative ==
  ASSUME NEW s \in Seq(Records), NEW t \in Seq(Records), NEW u \in Seq(Records)
  PROVE  (s \o t) \o u = s \o (t \o u)
BY SMTT(30), ConcatAssociative

\* The log of the contract does not change while records move to the file.
LEMMA FlushKeepsContents ==
  ASSUME FileInv, call # "down", NEW n \in 0 .. Len(buf), NEW torn \in BOOLEAN,
         file' = Written(n, torn), buf' = SubSeq(buf, n + 1, Len(buf))
  PROVE  Contents' = Contents /\ buf' \in Seq(Records)
<1>. DEFINE g == Intact(file)
            b == SubSeq(buf, 1, n)
            d == SubSeq(buf, n + 1, Len(buf))
<1>1. g \in Seq(Records) /\ buf \in Seq(Records) /\ Len(buf) \in Nat
  BY Zenon, LenProperties DEF FileInv
<1>2. b \in Seq(Records)
  BY Zenon, <1>1, PrefixIs
<1>3. d \in Seq(Records)
  <2>1. \A i \in n + 1 .. Len(buf) : buf[i] \in Records
    BY SMTT(30), <1>1, ElementOfSeq
  <2>. QED  BY SMTT(30), <1>1, <2>1, SubSeqProperties
<1>4. b \o d = buf
  <2>1. /\ 1 \in 1 .. Len(buf) + 1 /\ n \in 1 - 1 .. Len(buf) /\ Len(buf) \in n .. Len(buf)
    BY SMTT(30), <1>1
  <2>2. b \o d = SubSeq(buf, 1, Len(buf))
    BY <1>1, <2>1, ConcatAdjacentSubSeq, Zenon
  <2>. QED  BY Zenon, <1>1, <2>2, SubSeqFull
<1>5. Intact(file') = g \o b
  BY Zenon, WrittenIs
<1>6. g \o (b \o d) = (g \o b) \o d
  <2>. HIDE DEF g, b, d
  <2>. QED  BY SMTT(30), <1>1, <1>2, <1>3, RecordsAssociative
<1>. QED  BY Zenon, <1>3, <1>4, <1>5, <1>6 DEF Contents

\* A step of the owner within the log: Append, a flush, Sync and Close.
LEMMA WriteStep ==
  ASSUME FileInv,
         \/ \E r \in Records : Append1(r)
         \/ \E n \in 0 .. Len(buf), torn \in BOOLEAN : FlushSome(n, torn)
         \/ Sync \/ CloseLog
  PROVE  FileInv' /\ [Contract!Next]_(Contract!vars)
<1>. DEFINE g == Intact(file)
<1>0. /\ g \in Seq(Records) /\ buf \in Seq(Records) /\ Len(g) \in Nat /\ Len(buf) \in Nat
      /\ stable \in 0 .. Len(g) /\ Contents \in Seq(Records) /\ Len(Contents) = Len(g) + Len(buf)
  BY Zenon, LenProperties, ConcatProperties DEF FileInv, Contents
<1>1. ASSUME NEW r \in Records, Append1(r)  PROVE FileInv' /\ [Contract!Next]_(Contract!vars)
  <2>1. buf' = Append(buf, r) /\ buf' \in Seq(Records) /\ UNCHANGED <<file, stable, cut, werr, tmp, tmpSynced, call>>
    BY Zenon, <1>0, <1>1, AppendProperties DEF Append1
  <2>2. Contents' = Append(Contents, r)
    <3>1. Contents' = g \o (buf \o <<r>>)
      BY Zenon, <1>0, <2>1, AppendIsConcat DEF Contents
    <3>2. <<r>> \in Seq(Records)
      BY SMTT(30)
    <3>3. g \o (buf \o <<r>>) = (g \o buf) \o <<r>>
      BY SMTT(30), <1>0, <3>2, RecordsAssociative
    <3>4. Append(Contents, r) = Contents \o <<r>>
      BY Zenon, <1>0, AppendIsConcat
    <3>. QED  BY Zenon, <3>1, <3>3, <3>4 DEF Contents
  <2>3. FileInv'
    BY SMTT(30), <1>1, <2>1 DEF FileInv, Append1
  <2>4. Target' = Contents' /\ stable' = stable
    BY Zenon, <1>1, <2>1 DEF Append1, Target
  <2>. QED  BY Zenon, <2>2, <2>3, <2>4 DEF Contract!Next, Contract!Append1
<1>2. ASSUME NEW n \in 0 .. Len(buf), NEW torn \in BOOLEAN, FlushSome(n, torn)
      PROVE  FileInv' /\ [Contract!Next]_(Contract!vars)
  <2>1. /\ call = "ready" /\ call' = "ready" /\ stable' = stable /\ cut' = torn
        /\ werr' \in BOOLEAN /\ file' = Written(n, torn)
        /\ buf' = SubSeq(buf, n + 1, Len(buf))
    BY Zenon, <1>2 DEF FlushSome
  <2>2. Contents' = Contents /\ buf' \in Seq(Records)
    BY Zenon, <2>1, FlushKeepsContents
  <2>3. /\ Intact(file') \in Seq(Records) /\ Len(Intact(file')) = Len(g) + n
        /\ file' = IF torn THEN Append(Intact(file'), Torn) ELSE Intact(file')
    BY Zenon, <2>1, WrittenIs
  <2>4. stable' \in 0 .. Len(Intact(file'))
    BY SMTT(30), <1>0, <2>1, <2>3
  <2>5. FileInv'
    BY Zenon, <2>1, <2>2, <2>3, <2>4 DEF FileInv
  <2>6. Target' = Contents' /\ Target = Contents
    BY Zenon, <2>1 DEF Target
  <2>. QED  BY Zenon, <2>1, <2>2, <2>5, <2>6 DEF Contract!vars
<1>3. ASSUME call = "ready", call' \in {"ready", "down"}, file' = Written(Len(buf), FALSE),
             buf' = <<>>, cut' = FALSE, werr' \in BOOLEAN, stable' = Len(file')
      PROVE  FileInv' /\ [Contract!Next]_(Contract!vars)
  <2>1. /\ Intact(file') \in Seq(Records) /\ Len(Intact(file')) = Len(g) + Len(buf)
        /\ file' = Intact(file')
    <3>1. Len(buf) \in 0 .. Len(buf) /\ call # "down"
      BY SMTT(30), <1>0, <1>3
    <3>. QED  BY Zenon, <1>3, <3>1, WrittenIs
  <2>2. buf' = SubSeq(buf, Len(buf) + 1, Len(buf))
    BY SMTT(30), <1>0, <1>3, SubSeqEmpty
  <2>3. Contents' = Contents /\ buf' \in Seq(Records)
    <3>1. Len(buf) \in 0 .. Len(buf) /\ call # "down"
      BY SMTT(30), <1>0, <1>3
    <3>. QED  BY Zenon, <1>3, <2>2, <3>1, FlushKeepsContents
  <2>4. stable' \in 0 .. Len(Intact(file')) /\ stable' = Len(Contents)
    <3>1. stable' = Len(g) + Len(buf)
      BY Zenon, <1>3, <2>1
    <3>. HIDE DEF g
    <3>. QED  BY SMTT(30), <1>0, <2>1, <3>1
  <2>5. FileInv'
    BY Zenon, <1>3, <2>1, <2>3, <2>4 DEF FileInv
  <2>6. Target' = Contents' /\ Target = Contents
    BY Zenon, <1>3 DEF Target
  <2>. QED  BY Zenon, <2>3, <2>4, <2>5, <2>6 DEF Contract!Next, Contract!Sync
<1>4. CASE Sync
  BY Zenon, <1>3, <1>4 DEF Sync, FileInv
<1>5. CASE CloseLog /\ ~werr
  BY Zenon, <1>3, <1>5 DEF CloseLog, FileInv
<1>6. CASE CloseLog /\ werr
  <2>1. /\ UNCHANGED <<file, stable>> /\ buf' = <<>> /\ cut' = FALSE /\ werr' = FALSE
        /\ call = "ready" /\ call' = "down"
    BY Zenon, <1>6 DEF CloseLog
  <2>2. Contents' = g /\ buf' \in Seq(Records)
    BY Zenon, <1>0, <2>1, ConcatEmptySeq, EmptySeq DEF Contents
  <2>3. g = SubSeq(Contents, 1, Len(g))
    <3>1. Len(g) \in 0 .. Len(Contents)
      BY SMTT(30), <1>0
    <3>2. /\ SubSeq(Contents, 1, Len(g)) \in Seq(Records) /\ Len(SubSeq(Contents, 1, Len(g))) = Len(g)
          /\ \A i \in 1 .. Len(g) : SubSeq(Contents, 1, Len(g))[i] = Contents[i]
      BY Zenon, <1>0, <3>1, PrefixIs
    <3>3. \A i \in 1 .. Len(g) : Contents[i] = g[i]
      BY SMTT(30), <1>0, ConcatProperties DEF Contents
    <3>. DEFINE h == SubSeq(Contents, 1, Len(g))
    <3>. HIDE DEF h, g
    <3>4. h \in Seq(Records) /\ Len(h) = Len(g) /\ \A i \in 1 .. Len(h) : h[i] = g[i]
      BY Zenon, <3>2, <3>3 DEF h
    <3>. QED  BY Zenon, <1>0, <3>4, SeqEqual DEF h
  <2>4. FileInv'
    BY Zenon, <2>1, <2>2 DEF FileInv
  <2>5. Target' = Contents'
    BY Zenon, <2>1 DEF Target
  <2>6. Len(g) \in stable .. Len(Contents) /\ stable' \in stable .. Len(g)
    BY SMTT(30), <1>0, <2>1
  <2>. HIDE DEF g
  <2>. QED  BY Zenon, <2>2, <2>3, <2>4, <2>5, <2>6 DEF Contract!Next, Contract!Crash
<1>. QED  BY Zenon, <1>1, <1>2, <1>4, <1>5, <1>6

\* A file of which nothing is torn after the torn tail has been cut off.
LEMMA OpenStep ==
  ASSUME FileInv, Open
  PROVE  FileInv' /\ [Contract!Next]_(Contract!vars)
<1>1. /\ file' = Intact(file) /\ call = "down" /\ call' = "ready" /\ buf = <<>> /\ ~cut
      /\ UNCHANGED <<stable, buf, cut, werr, tmp, tmpSynced>>
  BY Zenon DEF Open, FileInv
<1>2. Intact(file') = Intact(file)
  BY Zenon, <1>1, IntactRecords DEF FileInv
<1>3. FileInv'
  BY Zenon, <1>1, <1>2 DEF FileInv
<1>4. Contents' = Contents /\ Target' = Contents' /\ Target = Contents
  BY Zenon, <1>1, <1>2 DEF Contents, Target
<1>. QED  BY Zenon, <1>1, <1>3, <1>4 DEF Contract!vars

\* The steps of Rewrite: the contract's log changes only in the last one, and to
\* the new records, all of them stable.
LEMMA RewriteStep ==
  ASSUME FileInv,
         \/ \E recs \in Snapshots : RewriteStart(recs)
         \/ RewriteSync \/ RewriteRename \/ RewriteEnd \/ RewriteFails
  PROVE  FileInv' /\ [Contract!Next]_(Contract!vars)
<1>1. ASSUME UNCHANGED <<file, stable, buf, cut, werr>>, call # "down",
             call' \in {"ready", "write", "synced"}, call # "renamed",
             call' # "ready" => tmp' \in Snapshots,
             call' = "synced" => tmpSynced' = TRUE
      PROVE  FileInv' /\ [Contract!Next]_(Contract!vars)
  <2>1. FileInv'
    BY Zenon, <1>1 DEF FileInv
  <2>2. Contents' = Contents /\ Target' = Contents' /\ Target = Contents
    BY Zenon, <1>1 DEF Contents, Target
  <2>. QED  BY Zenon, <1>1, <2>1, <2>2 DEF Contract!vars
<1>2. ASSUME NEW recs \in Snapshots, RewriteStart(recs)
      PROVE  FileInv' /\ [Contract!Next]_(Contract!vars)
  BY Zenon, <1>1, <1>2 DEF RewriteStart
<1>3. CASE RewriteSync
  BY Zenon, <1>1, <1>3 DEF RewriteSync, FileInv
<1>4. CASE RewriteFails
  BY Zenon, <1>1, <1>4 DEF RewriteFails
<1>5. CASE RewriteRename
  <2>1. FileInv'
    BY Zenon, <1>5 DEF FileInv, RewriteRename
  <2>2. Contents' = Contents /\ Target' = tmp /\ tmp \in Snapshots /\ stable' = stable
    BY Zenon, <1>5 DEF Contents, Target, FileInv, RewriteRename
  <2>. QED  BY Zenon, <2>1, <2>2 DEF Contract!Next, Contract!Begin
<1>6. CASE RewriteEnd
  <2>1. /\ call = "renamed" /\ tmp \in Seq(Records) /\ file' = tmp /\ stable' = Len(tmp)
        /\ buf' = <<>> /\ cut' = FALSE /\ werr' = FALSE /\ call' = "ready"
    BY Zenon, <1>6, WalConstantsOK DEF RewriteEnd, FileInv
  <2>2. Intact(file') = tmp /\ Len(tmp) \in Nat /\ <<>> \in Seq(Records)
    BY Zenon, <2>1, IntactRecords, LenProperties, EmptySeq
  <2>3. FileInv'
    <3>1. stable' \in 0 .. Len(Intact(file'))
      BY SMTT(30), <2>1, <2>2
    <3>. QED  BY Zenon, <2>1, <2>2, <3>1 DEF FileInv
  <2>4. Contents' = tmp
    BY Zenon, <2>1, <2>2, ConcatEmptySeq DEF Contents
  <2>5. Target = tmp /\ Target' = tmp
    BY Zenon, <2>1, <2>4 DEF Target
  <2>. QED  BY Zenon, <2>1, <2>3, <2>4, <2>5 DEF Contract!Next, Contract!Commit
<1>. QED  BY Zenon, <1>2, <1>3, <1>4, <1>5, <1>6

\* What readAll finds of a file g, perhaps with a torn frame behind it, after a
\* crash: the first records of g, not fewer than were stable.
LEMMA CrashLeavesPrefix ==
  ASSUME NEW g \in Seq(Records), NEW f \in {g, Append(g, Torn)}, NEW s \in 0 .. Len(g),
         CrashLeaves(f, s)
  PROVE  \E k \in s .. Len(g) :
           /\ Intact(file') = SubSeq(g, 1, k)
           /\ file' \in {SubSeq(g, 1, k), Append(SubSeq(g, 1, k), Torn)}
           /\ stable' \in s .. k
<1>0. Len(g) \in Nat /\ f \in Seq(Frames) /\ Len(f) \in {Len(g), Len(g) + 1}
      /\ g \in Seq(Frames)
  BY SMTT(30), IntactRecords, LenProperties, SeqMonotonic DEF Whole, Frames
<1>1. PICK n \in s .. Len(f) : \/ file' = SubSeq(f, 1, n)
                               \/ n < Len(f) /\ file' = Append(SubSeq(f, 1, n), Torn)
  BY Zenon DEF CrashLeaves
<1>2. stable' \in s .. Len(Intact(file'))
  BY Zenon DEF CrashLeaves
<1>3. ASSUME NEW k \in s .. Len(g),
             file' \in {SubSeq(g, 1, k), Append(SubSeq(g, 1, k), Torn)}
      PROVE  Intact(file') = SubSeq(g, 1, k) /\ stable' \in s .. k
  <2>1. k \in 0 .. Len(g)
    BY SMTT(30), <1>0
  <2>2. SubSeq(g, 1, k) \in Seq(Records) /\ Len(SubSeq(g, 1, k)) = k
    BY Zenon, <2>1, PrefixIs
  <2>3. Intact(file') = SubSeq(g, 1, k)
    BY Zenon, <1>3, <2>2, IntactRecords
  <2>. QED  BY Zenon, <1>2, <2>2, <2>3
<1>4. ASSUME n <= Len(g)  PROVE SubSeq(f, 1, n) = SubSeq(g, 1, n)
  <2>1. n \in 0 .. Len(g) /\ n \in 0 .. Len(f)
    BY SMTT(30), <1>0, <1>4
  <2>2. \A i \in 1 .. Len(g) : f[i] = g[i]
    BY SMTT(30), <1>0, AppendProperties DEF Frames
  <2>. DEFINE x == SubSeq(f, 1, n)
              y == SubSeq(g, 1, n)
  <2>3. x \in Seq(Frames) /\ Len(x) = n /\ \A i \in 1 .. n : x[i] = f[i]
    BY Zenon, <1>0, <2>1, PrefixIs
  <2>4. y \in Seq(Frames) /\ Len(y) = n /\ \A i \in 1 .. n : y[i] = g[i]
    BY Zenon, <1>0, <2>1, PrefixIs
  <2>. HIDE DEF x, y
  <2>5. \A i \in 1 .. n : x[i] = y[i]
    BY SMTT(30), <2>1, <2>2, <2>3, <2>4
  <2>. QED  BY Zenon, <2>3, <2>4, <2>5, SeqEqual DEF x, y
<1>5. CASE n <= Len(g)
  <2>1. n \in s .. Len(g) /\ file' \in {SubSeq(g, 1, n), Append(SubSeq(g, 1, n), Torn)}
    BY SMTT(30), <1>0, <1>1, <1>4, <1>5
  <2>. QED  BY Zenon, <1>3, <2>1
<1>6. CASE n > Len(g)
  <2>1. n = Len(f) /\ f = Append(g, Torn)
    BY SMTT(30), <1>0, <1>1, <1>6
  <2>2. file' = Append(g, Torn) /\ g = SubSeq(g, 1, Len(g)) /\ Len(g) \in s .. Len(g)
    BY SMTT(30), <1>0, <1>1, <2>1, PrefixIs
  <2>. QED  BY Zenon, <1>3, <2>2
<1>. QED  BY SMTT(30), <1>0, <1>5, <1>6

\* A crash loses at most what was not stable; inside Rewrite it may instead leave
\* the new file, complete.
LEMMA CrashStep ==
  ASSUME FileInv, Crash
  PROVE  FileInv' /\ [Contract!Next]_(Contract!vars)
<1>. DEFINE g == Intact(file)
<1>0. /\ g \in Seq(Records) /\ buf \in Seq(Records) /\ Len(g) \in Nat /\ Len(buf) \in Nat
      /\ stable \in 0 .. Len(g) /\ Contents \in Seq(Records) /\ Len(Contents) = Len(g) + Len(buf)
      /\ \A i \in 1 .. Len(g) : Contents[i] = g[i]
  BY SMTT(30), LenProperties, ConcatProperties DEF FileInv, Contents
<1>1. /\ call' = "down" /\ buf' = <<>> /\ cut' = FALSE /\ werr' = FALSE
      /\ buf' \in Seq(Records)
  BY Zenon, EmptySeq DEF Crash
<1>2. ASSUME NEW h \in Seq(Records), NEW s \in 0 .. Len(h), NEW k \in s .. Len(h),
             Intact(file') = SubSeq(h, 1, k),
             file' \in {SubSeq(h, 1, k), Append(SubSeq(h, 1, k), Torn)},
             stable' \in s .. k
      PROVE  FileInv' /\ Contents' = SubSeq(h, 1, k) /\ Target' = Contents'
  <2>1. k \in 0 .. Len(h)
    BY SMTT(30), <1>2
  <2>2. SubSeq(h, 1, k) \in Seq(Records) /\ Len(SubSeq(h, 1, k)) = k
    BY Zenon, <2>1, PrefixIs
  <2>3. stable' \in 0 .. Len(Intact(file'))
    BY SMTT(30), <1>2, <2>1, <2>2
  <2>4. FileInv'
    BY Zenon, <1>1, <1>2, <2>2, <2>3 DEF FileInv
  <2>5. Contents' = SubSeq(h, 1, k)
    BY Zenon, <1>1, <1>2, <2>2, ConcatEmptySeq DEF Contents
  <2>. QED  BY Zenon, <1>1, <2>4, <2>5 DEF Target
<1>3. CASE CrashLeaves(file, stable)
  <2>1. PICK k \in stable .. Len(g) :
               /\ Intact(file') = SubSeq(g, 1, k)
               /\ file' \in {SubSeq(g, 1, k), Append(SubSeq(g, 1, k), Torn)}
               /\ stable' \in stable .. k
    <3>1. file \in {g, Append(g, Torn)}
      BY Zenon DEF FileInv
    <3>. HIDE DEF g
    <3>. QED  BY Zenon, <1>0, <1>3, <3>1, CrashLeavesPrefix
  <2>. HIDE DEF g
  <2>2. FileInv' /\ Contents' = SubSeq(g, 1, k) /\ Target' = Contents'
    BY Zenon, <1>0, <1>2, <2>1
  <2>3. SubSeq(g, 1, k) = SubSeq(Contents, 1, k)
    <3>1. k \in 0 .. Len(g) /\ k \in 0 .. Len(Contents)
      BY SMTT(30), <1>0
    <3>. DEFINE x == SubSeq(g, 1, k)
                y == SubSeq(Contents, 1, k)
    <3>2. x \in Seq(Records) /\ Len(x) = k /\ \A i \in 1 .. k : x[i] = g[i]
      BY Zenon, <1>0, <3>1, PrefixIs
    <3>3. y \in Seq(Records) /\ Len(y) = k /\ \A i \in 1 .. k : y[i] = Contents[i]
      BY Zenon, <1>0, <3>1, PrefixIs
    <3>. HIDE DEF x, y
    <3>4. \A i \in 1 .. k : x[i] = y[i]
      BY SMTT(30), <1>0, <3>1, <3>2, <3>3
    <3>. QED  BY Zenon, <3>2, <3>3, <3>4, SeqEqual DEF x, y
  <2>4. k \in stable .. Len(Contents) /\ stable' \in stable .. k
    BY SMTT(30), <1>0, <2>1
  <2>5. Contract!Crash
    BY Zenon, <2>2, <2>3, <2>4 DEF Contract!Crash
  <2>. QED  BY Zenon, <2>2, <2>5 DEF Contract!Next
<1>4. CASE call = "renamed" /\ CrashLeaves(tmp, IF tmpSynced THEN Len(tmp) ELSE 0)
  <2>1. tmp \in Seq(Records) /\ Len(tmp) \in Nat /\ CrashLeaves(tmp, Len(tmp)) /\ Target = tmp
    BY Zenon, <1>4, WalConstantsOK, LenProperties DEF FileInv, Target
  <2>2. Len(tmp) \in 0 .. Len(tmp)
    BY SMTT(30), <2>1
  <2>3. PICK k \in Len(tmp) .. Len(tmp) :
               /\ Intact(file') = SubSeq(tmp, 1, k)
               /\ file' \in {SubSeq(tmp, 1, k), Append(SubSeq(tmp, 1, k), Torn)}
               /\ stable' \in Len(tmp) .. k
    BY Zenon, <2>1, <2>2, CrashLeavesPrefix
  <2>4. FileInv' /\ Contents' = SubSeq(tmp, 1, k) /\ Target' = Contents'
    BY Zenon, <1>2, <2>1, <2>2, <2>3
  <2>5. k = Len(tmp) /\ stable' = Len(tmp) /\ SubSeq(tmp, 1, k) = tmp
    BY SMTT(30), <2>1, <2>2, <2>3, PrefixIs
  <2>. QED  BY Zenon, <2>1, <2>4, <2>5 DEF Contract!Next, Contract!Commit
<1>. QED  BY Zenon, <1>3, <1>4 DEF Crash

\* Every step of the file is a step of the contract, or leaves its log alone.
LEMMA FileStep ==
  ASSUME FileInv, [WalNext]_fileVars
  PROVE  FileInv' /\ [Contract!Next]_(Contract!vars)
<1>1. CASE WalNext
  BY Zenon, <1>1, WriteStep, OpenStep, RewriteStep, CrashStep DEF WalNext
<1>2. CASE UNCHANGED fileVars
  <2>1. Contents' = Contents /\ Target' = Target
    BY Zenon, <1>2 DEF fileVars, Contents, Target
  <2>. QED  BY Zenon, <1>2, <2>1 DEF fileVars, FileInv, Contract!vars
<1>. QED  BY Zenon, <1>1, <1>2

\* The file implements the log the aggregator relies on, whatever the records and
\* snapshots are and however long the log is: a crash at any point of Append, Sync,
\* Close and Rewrite loses at most an unsynced suffix, and leaves the old log or the
\* new one and never a mixture (wal.go:75-79, 157-163).
THEOREM LogImplemented == WalSpec => ImplementsLog
<1>1. WalInit => FileInv /\ Contract!Init
  BY Zenon, FileInvInit
<1>2. FileInv /\ [WalNext]_fileVars => FileInv' /\ [Contract!Next]_(Contract!vars)
  BY Zenon, FileStep
<1>. QED  BY <1>1, <1>2, PTL DEF WalSpec, ImplementsLog, Contract!Spec
=============================================================================
