------------------------------- MODULE RudpConn -------------------------------
(***************************************************************************)
(* One established connection of package rudp: the mainLoop of both ends,  *)
(* and the UDP path between them, which loses, repeats and reorders.       *)
(*                                                                         *)
(* The k-th Write of an end carries message k.  Round-trip estimates and   *)
(* timeouts are left out: which unacknowledged messages an epoch tick      *)
(* finds expired is a free choice.  The read loops and the channel inCh    *)
(* only pass packets on and are part of the network.                       *)
(***************************************************************************)
EXTENDS Integers, FiniteSets, Sequences, Functions

CONSTANTS
  Ends,        \* the two ends of the connection
  Window,      \* Params.Window
  EpochLimit,  \* Params.EpochLimit
  SeqSpace,      \* sequence numbers are modulo SeqSpace (2^32 in the code)
  Modes,       \* values of Params.OrderedDelivery to start with
  MaxWrites,   \* MaxWrites[e]: bound on the Writes of end e
  MaxBacklog,  \* bound on deliverQ: Read keeps up
  MaxDups      \* bound on the packets the network repeats

ASSUME ConnConstantsOK ==
  /\ \E a, b \in Ends : a # b /\ Ends = {a, b}
  /\ {Window, EpochLimit, SeqSpace, MaxBacklog} \subseteq Nat \ {0} /\ MaxDups \in Nat
  /\ Modes \subseteq BOOLEAN /\ MaxWrites \in [Ends -> Nat]

Peer(e) == CHOOSE f \in Ends : f # e

VARIABLES
  ordered,    \* OrderedDelivery
  st,         \* "open", "flush" (flushThenExit), "drain" (drainAndExit), "ended"
  err,        \* what ended it: "none", "closed" (Close received), "lost"
  written,    \* number of Writes taken
  pending,    \* pendingWrites
  sendBuf,    \* sendBuffer: sequence number -> message
  nextSeq,
  silent,     \* epochsSilent
  sentThis,   \* sentThisEpoch
  deliverQ,   \* messages for Read
  next, held, \* the closure of installOrderedDelivery: sequence number -> message
  got,        \* messages Read has returned, without repetition unless ordered
  told,       \* the error Read has returned: "none", "closed", "lost"
  net,        \* packets on their way
  dups

sendVars == <<written, pending, sendBuf, nextSeq>>
recvVars == <<deliverQ, next, held>>
appVars == <<got, told>>
vars == <<ordered, st, err, sendVars, silent, sentThis, recvVars, appVars, net, dups>>

Data(e, n, m) == [to |-> e, typ |-> "Data", seq |-> n, msg |-> m]
Ack(e, n) == [to |-> e, typ |-> "Ack", seq |-> n]
CloseTo(e) == [to |-> e, typ |-> "Close"]

Empty == [n \in {} |-> 0]
Put(f, n, m) == [k \in DOMAIN f \cup {n} |-> IF k = n THEN m ELSE f[k]]
Without(f, S) == [k \in DOMAIN f \ S |-> f[k]]
Expect(x) == [e \in Ends |-> x]

Init ==
  /\ ordered \in Modes
  /\ st = Expect("open") /\ err = Expect("none")
  /\ written = Expect(0) /\ pending = Expect(<<>>) /\ sendBuf = Expect(Empty)
  /\ nextSeq = Expect(0) /\ silent = Expect(0) /\ sentThis = Expect(FALSE)
  /\ deliverQ = Expect(<<>>) /\ next = Expect(1) /\ held = Expect(Empty)
  /\ got = Expect(<<>>) /\ told = Expect("none")
  /\ net = {} /\ dups = 0

-----------------------------------------------------------------------------
(* The send side. *)

\* (mutant) off by one
FullLate(sb) == Cardinality(DOMAIN sb) > Window
Full(sb) == Cardinality(DOMAIN sb) >= Window

\* fillWindow, for the send buffer sb and the backlog pd of e.  The loop runs
\* at most once: a backlog waits only while the window is full, and a step
\* takes at most one message out of the window (see BacklogOnlyWhenFull).
\* sent is what goes out besides, keep what is left of the network.
FillWindow(e, sb, pd, keep, sent) ==
  LET n == (nextSeq[e] + 1) % SeqSpace
      move == pd # <<>> /\ ~Full(sb)
      out == sent \cup (IF move THEN {Data(Peer(e), n, Head(pd))} ELSE {})
  IN
  /\ pending' = [pending EXCEPT ![e] = IF move THEN Tail(pd) ELSE pd]
  /\ sendBuf' = [sendBuf EXCEPT ![e] = IF move THEN Put(sb, n, Head(pd)) ELSE sb]
  /\ nextSeq' = [nextSeq EXCEPT ![e] = IF move THEN n ELSE @]
  /\ net' = keep \cup out
  /\ sentThis' = [sentThis EXCEPT ![e] = @ \/ out # {}]

\* (mutant) Close does not wait for acknowledgements
FlushedAtOnce(e, s, sb, pd) == IF s = "flush" THEN "ended" ELSE s
\* The loop of flushThenExit, for an end whose state becomes s: it goes on while
\* something is left to be acknowledged, then says Close and ends.
FlushedTo(e, s, sb, pd) ==
  IF s = "flush" /\ DOMAIN sb = {} /\ pd = <<>> THEN "ended" ELSE s
Farewell(e, s, sb, pd) ==
  IF FlushedTo(e, s, sb, pd) # s THEN {CloseTo(Peer(e))} ELSE {}

\* case data := <-c.writeReqCh.  After Close, data is discarded.
Write(e) ==
  /\ st[e] = "open" /\ written[e] < MaxWrites[e]
  /\ written' = [written EXCEPT ![e] = @ + 1]
  /\ FillWindow(e, sendBuf[e], Append(pending[e], written[e] + 1), net, {})
  /\ UNCHANGED <<ordered, st, err, silent, recvVars, appVars, dups>>

\* case <-c.closeCh
Close(e) ==
  /\ st[e] = "open"
  /\ st' = [st EXCEPT ![e] = FlushedTo(e, "flush", sendBuf[e], pending[e])]
  /\ FillWindow(e, sendBuf[e], pending[e], net, Farewell(e, "flush", sendBuf[e], pending[e]))
  /\ UNCHANGED <<ordered, err, written, silent, recvVars, appVars, dups>>

\* (mutant) nothing is retransmitted
ResentNothing(e, expired) == {}
\* retransmitExpired, for the messages whose RTO has run out.
Resent(e, expired) == {Data(Peer(e), n, sendBuf[e][n]) : n \in expired}

\* heartbeat: an Ack with the reserved sequence number 0 if nothing was sent during
\* the epoch, nor just now.
Heartbeat(e, again) == IF sentThis[e] \/ again # {} THEN {} ELSE {Ack(Peer(e), 0)}

\* (mutant) silent epochs are not counted
SilenceUncounted(e) == silent[e]
\* epochsSilent++
Silence(e) == silent[e] + 1

\* The peer is taken to be gone.
GivesUp(e) == Silence(e) >= EpochLimit

\* case <-ticker.C, of mainLoop and of flushThenExit.
Tick(e, expired) ==
  LET again == Resent(e, expired) IN
  /\ st[e] \in {"open", "flush"} /\ expired \subseteq DOMAIN sendBuf[e]
  /\ net' = net \cup again \cup Heartbeat(e, again)
  /\ sentThis' = [sentThis EXCEPT ![e] = FALSE]
  /\ silent' = [silent EXCEPT ![e] = Silence(e)]
  /\ st' = [st EXCEPT ![e] = IF ~GivesUp(e) THEN @ ELSE IF @ = "open" THEN "drain" ELSE "ended"]
  /\ err' = [err EXCEPT ![e] = IF GivesUp(e) /\ st[e] = "open" THEN "lost" ELSE @]
  /\ UNCHANGED <<ordered, sendVars, recvVars, appVars, dups>>

-----------------------------------------------------------------------------
(* The receive side.  The network may keep a copy of what it delivers. *)

Arrives(e, p, keep) ==
  /\ p \in net /\ p.to = e
  /\ \/ keep = net \ {p} /\ UNCHANGED dups
     \/ keep = net /\ dups < MaxDups /\ dups' = dups + 1

\* (mutant) a flushing end does not process acknowledgements
ReceiveAckOpenOnly(e, p, keep) ==
  LET sb == Without(sendBuf[e], {p.seq})
      known == p.seq \in DOMAIN sendBuf[e] /\ st[e] = "open" IN
  /\ p.typ = "Ack" /\ st[e] \in {"open", "flush"}
  /\ silent' = [silent EXCEPT ![e] = 0]
  /\ IF known
     THEN /\ FillWindow(e, sb, pending[e], keep, Farewell(e, st[e], sb, pending[e]))
          /\ st' = [st EXCEPT ![e] = FlushedTo(e, @, sb, pending[e])]
     ELSE net' = keep /\ UNCHANGED <<pending, sendBuf, nextSeq, sentThis, st>>
  /\ UNCHANGED <<ordered, err, written, recvVars, appVars>>

\* onAck.  A sequence number that is not in the send buffer changes nothing.
ReceiveAck(e, p, keep) ==
  LET sb == Without(sendBuf[e], {p.seq})
      known == p.seq \in DOMAIN sendBuf[e] IN
  /\ p.typ = "Ack" /\ st[e] \in {"open", "flush"}
  /\ silent' = [silent EXCEPT ![e] = 0]
  /\ IF known
     THEN /\ FillWindow(e, sb, pending[e], keep, Farewell(e, st[e], sb, pending[e]))
          /\ st' = [st EXCEPT ![e] = FlushedTo(e, @, sb, pending[e])]
     ELSE net' = keep /\ UNCHANGED <<pending, sendBuf, nextSeq, sentThis, st>>
  /\ UNCHANGED <<ordered, err, written, recvVars, appVars>>

\* The loop of the ordered accept: the sequence numbers from n on that h holds
\* without a gap.
Run(h, n) ==
  {(n + i) % SeqSpace : i \in {i \in 0 .. Cardinality(DOMAIN h) - 1 :
                                 \A k \in 0 .. i : (n + k) % SeqSpace \in DOMAIN h}}
\* (mutant) in-order mode does not hold what arrives early
AcceptNextOnly(e, n, m) ==
  IF ordered /\ n # next[e] THEN UNCHANGED recvVars
  ELSE /\ deliverQ' = [deliverQ EXCEPT ![e] = Append(@, m)]
       /\ next' = [next EXCEPT ![e] = @ + 1] /\ UNCHANGED held
\* deliverOnArrival: the default receive path.
DeliverOnArrival(e, n, m) ==
  /\ deliverQ' = [deliverQ EXCEPT ![e] = Append(@, m)]
  /\ UNCHANGED <<next, held>>
\* conn.accept: the default, or what installOrderedDelivery puts in its place.
Accept(e, n, m) ==
  IF ~ordered THEN DeliverOnArrival(e, n, m)
  ELSE IF n < next[e] \/ n \in DOMAIN held[e] THEN UNCHANGED recvVars
  ELSE LET h == Put(held[e], n, m)
           run == Run(h, next[e])
           k == Cardinality(run) IN
       /\ deliverQ' = [deliverQ EXCEPT ![e] = @ \o [i \in 1 .. k |-> h[(next[e] + i - 1) % SeqSpace]]]
       /\ held' = [held EXCEPT ![e] = Without(h, run)]
       /\ next' = [next EXCEPT ![e] = (@ + k) % SeqSpace]

\* Data is delivered and acknowledged, by a flushing end only acknowledged.
\* Sequence number 0 is reserved; an open end ignores it.
ReceiveData(e, p, keep) ==
  /\ p.typ = "Data" /\ st[e] \in {"open", "flush"}
  /\ st[e] = "open" => Len(deliverQ[e]) < MaxBacklog
  /\ silent' = [silent EXCEPT ![e] = 0]
  /\ IF st[e] = "open" /\ p.seq = 0
     THEN net' = keep /\ UNCHANGED <<sentThis, recvVars>>
     ELSE /\ net' = keep \cup {Ack(Peer(e), p.seq)}
          /\ sentThis' = [sentThis EXCEPT ![e] = TRUE]
          /\ IF st[e] = "open" THEN Accept(e, p.seq, p.msg) ELSE UNCHANGED recvVars
  /\ UNCHANGED <<ordered, st, err, sendVars, appVars>>

ReceiveClose(e, p, keep) ==
  /\ p.typ = "Close" /\ st[e] \in {"open", "flush"}
  /\ silent' = [silent EXCEPT ![e] = 0]
  /\ st' = [st EXCEPT ![e] = IF @ = "open" THEN "drain" ELSE "ended"]
  /\ err' = [err EXCEPT ![e] = IF st[e] = "open" THEN "closed" ELSE @]
  /\ net' = keep
  /\ UNCHANGED <<ordered, sendVars, sentThis, recvVars, appVars>>

Receive(e, p) ==
  \E keep \in {net, net \ {p}} :
    /\ Arrives(e, p, keep)
    /\ ReceiveAck(e, p, keep) \/ ReceiveData(e, p, keep) \/ ReceiveClose(e, p, keep)

\* The network loses a packet, or it finds nobody: the end is dead.
Lose(p) ==
  /\ p \in net /\ net' = net \ {p}
  /\ UNCHANGED <<ordered, st, err, sendVars, silent, sentThis, recvVars, appVars, dups>>

-----------------------------------------------------------------------------
(* The application. *)

\* Read takes a message, or the final error once the backlog is drained.
Returned(q, m) == IF ordered \/ m \notin Range(q) THEN Append(q, m) ELSE q
ReadMsg(e) ==
  /\ st[e] \in {"open", "drain"} /\ deliverQ[e] # <<>>
  /\ got' = [got EXCEPT ![e] = Returned(@, Head(deliverQ[e]))]
  /\ deliverQ' = [deliverQ EXCEPT ![e] = Tail(@)]
  /\ UNCHANGED <<ordered, st, err, sendVars, silent, sentThis, next, held, told, net, dups>>

ReadErr(e) ==
  /\ st[e] = "drain" /\ deliverQ[e] = <<>>
  /\ told' = [told EXCEPT ![e] = err[e]]
  /\ st' = [st EXCEPT ![e] = "ended"]
  /\ UNCHANGED <<ordered, err, sendVars, silent, sentThis, recvVars, got, net, dups>>

\* Close while draining, or the endpoint shuts down: nobody will Read.
StopDraining(e) ==
  /\ st[e] = "drain"
  /\ st' = [st EXCEPT ![e] = "ended"]
  /\ UNCHANGED <<ordered, err, sendVars, silent, sentThis, recvVars, appVars, net, dups>>

-----------------------------------------------------------------------------
Next ==
  \/ \E e \in Ends : \/ Write(e) \/ Close(e) \/ ReadMsg(e) \/ ReadErr(e) \/ StopDraining(e)
                     \/ \E expired \in SUBSET DOMAIN sendBuf[e] : Tick(e, expired)
  \/ \E p \in net : Lose(p) \/ Receive(p.to, p)

Spec == Init /\ [][Next]_vars
-----------------------------------------------------------------------------
(* Properties. *)

\* The send window is never exceeded, and a write waits only while it is full:
\* no wake-up of fillWindow is missing (conn.go:167-169, 204-215).
BacklogOnlyWhenFull ==
  \A e \in Ends :
    /\ Cardinality(DOMAIN sendBuf[e]) <= Window
    /\ pending[e] # <<>> => Cardinality(DOMAIN sendBuf[e]) = Window

InBuf(e, m) == \E n \in DOMAIN sendBuf[e] : sendBuf[e][n] = m
Delivered(e, m) == m \in Range(deliverQ[e]) \/ m \in Range(got[e])
Held(e, m) == \E n \in DOMAIN held[e] : held[e][n] = m

\* The contract of the package (params.go:3-13): while both ends are up, a
\* message given to Write is delivered to the peer or still owed to it; it is
\* never forgotten on the strength of an acknowledgement that was not for it.
AtLeastOnce ==
  \A e \in Ends :
    st[e] = "open" /\ st[Peer(e)] = "open" =>
      \A m \in 1 .. written[e] :
        m \in Range(pending[e]) \/ InBuf(e, m) \/ Delivered(Peer(e), m) \/ Held(Peer(e), m)

\* In-order mode (ordered.go): Read returns the messages of the peer in the
\* order they were written, each exactly once.
InOrder ==
  ordered => \A e \in Ends : \A i \in 1 .. Len(got[e]) : got[e][i] = i

\* The connection implements its contract (see ConnContract): in particular
\* Close flushes (client.go:77-79), so that Read reports ErrConnClosed only
\* after every message the peer wrote before closing.
Contract == INSTANCE ConnContract WITH
  up <- [e \in Ends |-> st[e] = "open"], sent <- written,
  rcvd <- [e \in Ends |-> Range(got[e])]
ImplementsContract == Contract!Spec

\* The scheduling the code provides: the ticker of a running end fires, and the
\* timeout of an unacknowledged message, capped at MaxBackoff epochs, runs out;
\* the application keeps calling Read.  And what UDP has to provide: of data, or
\* acknowledgements, sent over and over some arrive.
Expire(e) ==
  \E expired \in SUBSET DOMAIN sendBuf[e] :
    (DOMAIN sendBuf[e] # {} => expired # {}) /\ Tick(e, expired)
DataArrives(e) == \E p \in net : p.to = e /\ p.typ = "Data" /\ Receive(e, p)
AckArrives(e) == \E p \in net : p.to = e /\ p.typ = "Ack" /\ p.seq # 0 /\ Receive(e, p)
Writers == {e \in Ends : MaxWrites[e] > 0}
Fairness ==
  /\ \A e \in Ends : WF_vars(Expire(e)) /\ WF_vars(ReadMsg(e) \/ ReadErr(e))
  /\ \A e \in Writers : SF_vars(AckArrives(e)) /\ SF_vars(DataArrives(Peer(e)))
FairSpec == Spec /\ Fairness

\* Retransmission works: a message written is returned by the peer's Read, unless
\* one of the two ends stops.
EventuallyRead ==
  \A e \in Writers : \A m \in 1 .. MaxWrites[e] :
    written[e] >= m ~> m \in Range(got[Peer(e)]) \/ st[e] # "open" \/ st[Peer(e)] # "open"

\* No end is left behind: when one end has gone, by Close or by silence, even if
\* its Close packet is lost, the other ends too (conn.go:178-183, 343).
NoHalfOpen == \A e \in Ends : st[e] = "ended" ~> st[Peer(e)] = "ended"

\* Close returns: the flush ends (conn.go:316-344).
CloseEnds == \A e \in Ends : st[e] = "flush" ~> st[e] = "ended"
=============================================================================
