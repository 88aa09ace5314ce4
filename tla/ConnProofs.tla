------------------------------ MODULE ConnProofs ------------------------------
(***************************************************************************)
(* One rudp connection: what it delivers through a network that loses,     *)
(* repeats and reorders, and its contract, for any window and any number   *)
(* of messages that does not exhaust the sequence numbers.                 *)
(***************************************************************************)
EXTENDS RudpConn, FiniteSetTheorems, TLAPS

-----------------------------------------------------------------------------
(* The inductive invariant. *)

\* No sequence number is used twice.
NoWrap == \A e \in Ends : MaxWrites[e] + 1 < SeqSpace

\* An end that still takes what arrives, or did until it heard or found that the
\* peer is gone: it has accepted everything it acknowledged.
Hears(e) == st[e] = "open" \/ err[e] # "none"
\* Message n has reached end e.
Accepted(e, n) ==
  \/ ordered /\ (n < next[e] \/ n \in DOMAIN held[e])
  \/ ~ordered /\ n \in Range(deliverQ[e]) \cup Range(got[e])
\* Everything end e wrote was acknowledged before it ended.
Flushed(e) == st[e] = "ended" /\ pending[e] = <<>> /\ DOMAIN sendBuf[e] = {}

ShapeInv ==
  /\ ordered \in BOOLEAN
  /\ st \in [Ends -> {"open", "flush", "drain", "ended"}]
  /\ err \in [Ends -> {"none", "closed", "lost"}]
  /\ told \in [Ends -> {"none", "closed", "lost"}]
  /\ written \in [Ends -> Nat] /\ nextSeq \in [Ends -> Nat] /\ next \in [Ends -> Nat]
  /\ pending \in [Ends -> Seq(Nat)] /\ deliverQ \in [Ends -> Seq(Nat)] /\ got \in [Ends -> Seq(Nat)]
  /\ sendBuf = [e \in Ends |-> sendBuf[e]] /\ held = [e \in Ends |-> held[e]]

\* The messages after number s, in order.
InLine(s, q) == \A i \in 1 .. Len(q) : q[i] = s + i
\* Messages between numbers lo and hi, each under its number.
Numbered(b, lo, hi) == DOMAIN b \subseteq lo .. hi /\ \A n \in DOMAIN b : b[n] = n

\* The k-th message has sequence number k; those sent are the ones up to nextSeq,
\* and those after it wait in order.
SendInv(e) ==
  /\ written[e] <= MaxWrites[e] /\ written[e] = nextSeq[e] + Len(pending[e])
  /\ InLine(nextSeq[e], pending[e]) /\ Numbered(sendBuf[e], 1, nextSeq[e])
  /\ Cardinality(DOMAIN sendBuf[e]) <= Window
  /\ pending[e] # <<>> => Cardinality(DOMAIN sendBuf[e]) = Window

RecvInv(e) ==
  /\ next[e] \in 1 .. nextSeq[Peer(e)] + 1
  /\ IF ordered
     THEN /\ Len(got[e]) + Len(deliverQ[e]) = next[e] - 1
          /\ InLine(0, got[e]) /\ InLine(Len(got[e]), deliverQ[e])
          /\ Numbered(held[e], next[e] + 1, nextSeq[Peer(e)])
     ELSE Range(deliverQ[e]) \cup Range(got[e]) \subseteq 1 .. nextSeq[Peer(e)]

EndInv(e) ==
  /\ st[e] \in {"open", "flush"} => err[e] = "none"
  /\ st[e] = "drain" => err[e] # "none"
  /\ st[e] # "ended" => told[e] = "none"
  /\ err[e] = "closed" => Flushed(Peer(e))

AckInv(e) ==
  Hears(Peer(e)) => \A n \in (1 .. nextSeq[e]) \ DOMAIN sendBuf[e] : Accepted(Peer(e), n)

PacketOK(p) ==
  /\ p.to \in Ends
  /\ p.typ = "Data" => p.seq \in 1 .. nextSeq[Peer(p.to)] /\ p.msg = p.seq
  /\ p.typ = "Ack" => p.seq \in Nat /\ (p.seq # 0 /\ Hears(Peer(p.to)) => Accepted(Peer(p.to), p.seq))
  /\ p.typ = "Close" => Flushed(Peer(p.to))

ConnInv ==
  /\ ShapeInv /\ \A p \in net : PacketOK(p)
  /\ \A e \in Ends : SendInv(e) /\ RecvInv(e) /\ EndInv(e) /\ AckInv(e)

-----------------------------------------------------------------------------
(* Sequences. *)

\* A sequence is a function on an interval.
LEMMA SeqLen ==
  ASSUME NEW S, NEW q \in Seq(S)
  PROVE  Len(q) \in Nat /\ DOMAIN q = 1 .. Len(q) /\ q \in [1 .. Len(q) -> S]
BY SMTT(30)

\* A function on an interval is a sequence.
LEMMA SeqOf ==
  ASSUME NEW S, NEW n \in Nat, NEW q \in [1 .. n -> S]
  PROVE  q \in Seq(S) /\ Len(q) = n
BY SMTT(30)

\* The empty sequence, and the length of any other.
LEMMA SeqEmpty ==
  ASSUME NEW S
  PROVE  <<>> \in Seq(S) /\ Len(<<>>) = 0 /\ \A q \in Seq(S) : q # <<>> => Len(q) \in Nat \ {0}
BY SMTT(30)

\* The type, length and elements of a concatenation.
LEMMA SeqConcat ==
  ASSUME NEW S, NEW p \in Seq(S), NEW q \in Seq(S)
  PROVE  /\ p \o q \in Seq(S) /\ Len(p \o q) = Len(p) + Len(q)
         /\ \A i \in 1 .. Len(p) + Len(q) : (p \o q)[i] = IF i <= Len(p) THEN p[i] ELSE q[i - Len(p)]
BY SMTT(30)

\* The type, length and elements of an appended sequence.
LEMMA SeqAppend ==
  ASSUME NEW S, NEW q \in Seq(S), NEW x \in S
  PROVE  /\ Append(q, x) \in Seq(S) /\ Append(q, x) # <<>> /\ Len(Append(q, x)) = Len(q) + 1
         /\ \A i \in 1 .. Len(q) : Append(q, x)[i] = q[i]
         /\ Append(q, x)[Len(q) + 1] = x
BY SMTT(30)

\* The types and elements of head and tail.
LEMMA SeqHeadTail ==
  ASSUME NEW S, NEW q \in Seq(S), q # <<>>
  PROVE  /\ Head(q) \in S /\ Tail(q) \in Seq(S) /\ Len(Tail(q)) = Len(q) - 1
         /\ \A i \in 1 .. Len(Tail(q)) : Tail(q)[i] = q[i + 1]
BY SMTT(30)

-----------------------------------------------------------------------------
(* Operators. *)

\* The two ends are each other's peer.
LEMMA PeerIs ==
  ASSUME NEW e \in Ends
  PROVE  Peer(e) \in Ends /\ Peer(e) # e /\ Peer(Peer(e)) = e /\ Ends = {e, Peer(e)}
<1>1. PICK a \in Ends, b \in Ends : a # b /\ Ends = {a, b}
  BY Zenon, ConnConstantsOK
<1>2. \E f \in Ends : f # e
  BY SMTT(30), <1>1
<1>3. Peer(e) \in Ends /\ Peer(e) # e
  BY Zenon, <1>2 DEF Peer
<1>4. Ends = {e, Peer(e)}
  BY SMTT(30), <1>1, <1>3
<1>5. \E f \in Ends : f # Peer(e)
  BY Zenon, <1>3
<1>6. Peer(Peer(e)) \in Ends /\ Peer(Peer(e)) # Peer(e)
  BY Zenon, <1>5 DEF Peer
<1>. QED  BY Zenon, <1>3, <1>4, <1>6

\* Sequence numbers below the limit are not reduced.
LEMMA Small ==
  ASSUME NEW n \in Nat, n < SeqSpace
  PROVE  n % SeqSpace = n
BY SMTT(30), ConnConstantsOK

\* The set of naturals below which h has no gap is an interval.
LEMMA InitialSegment ==
  ASSUME NEW S, NEW m \in Nat, S \subseteq 0 .. m, \A i \in S : \A k \in 0 .. i : k \in S
  PROVE  IsFiniteSet(S) /\ Cardinality(S) \in Nat /\ S = 0 .. Cardinality(S) - 1
<1>. DEFINE c == Cardinality(S)
<1>1. IsFiniteSet(S) /\ c \in Nat
  <2>1. IsFiniteSet(0 .. m)
    BY SMTT(30), FS_Interval
  <2>2. IsFiniteSet(S)
    BY Zenon, <2>1, FS_Subset
  <2>. QED  BY Zenon, <2>2, FS_CardinalityType
<1>2. ASSUME NEW i \in S PROVE i < c
  <2>1. 0 .. i \subseteq S /\ i \in Nat
    BY SMTT(30)
  <2>2. Cardinality(0 .. i) <= c /\ Cardinality(0 .. i) = i + 1
    BY SMTT(30), <1>1, <2>1, FS_Subset, FS_Interval
  <2>. QED  BY SMTT(30), <1>1, <2>1, <2>2
<1>3. S \subseteq 0 .. c - 1
  BY SMTT(30), <1>1, <1>2
<1>. HIDE DEF c
<1>4. IsFiniteSet(0 .. c - 1) /\ Cardinality(0 .. c - 1) = c
  BY SMTT(30), <1>1, FS_Interval
<1>5. S = 0 .. c - 1
  BY Zenon, <1>3, <1>4, FS_Subset DEF c
<1>. QED  BY Zenon, <1>1, <1>5 DEF c

\* What Run collects: the longest interval from n on that h holds, when no
\* sequence number that h holds wraps.
LEMMA RunIs ==
  ASSUME NEW h, NEW n \in Nat, NEW m \in Nat, DOMAIN h \subseteq n .. m, m < SeqSpace
  PROVE  \E k \in Nat :
           /\ Run(h, n) = n .. n + k - 1 /\ Cardinality(Run(h, n)) = k
           /\ n .. n + k - 1 \subseteq DOMAIN h /\ n + k \notin DOMAIN h
           /\ k > 0 => n + k - 1 <= m
<1>. DEFINE D == DOMAIN h
            N == Cardinality(D)
            S == {i \in 0 .. N - 1 : \A k \in 0 .. i : (n + k) % SeqSpace \in D}
<1>0. Run(h, n) = {(n + i) % SeqSpace : i \in S}
  BY Zenon DEF Run
<1>. HIDE DEF D
<1>1. IsFiniteSet(D) /\ N \in Nat /\ (N > 0 => n + N - 1 <= m)
  <2>1. IsFiniteSet(n .. m) /\ Cardinality(n .. m) = IF n > m THEN 0 ELSE m - n + 1
    BY SMTT(30), FS_Interval
  <2>2. D \subseteq n .. m
    BY Zenon DEF D
  <2>3. IsFiniteSet(D) /\ Cardinality(D) \in Nat /\ Cardinality(D) <= Cardinality(n .. m)
    BY Zenon, <2>1, <2>2, FS_Subset, FS_CardinalityType
  <2>. QED  BY SMTT(30), <2>1, <2>3
<1>. HIDE DEF N
<1>2. \A i : i \in S <=> i \in 0 .. N - 1 /\ \A k \in 0 .. i : (n + k) % SeqSpace \in D
  BY Zenon
<1>. HIDE DEF S
<1>3. ASSUME NEW k \in 0 .. N - 1
      PROVE  (n + k) % SeqSpace = n + k
  <2>1. n + k \in Nat /\ n + k < SeqSpace
    BY SMTT(30), <1>1, ConnConstantsOK
  <2>. QED  BY Zenon, <2>1, Small
<1>4. PICK c \in Nat : S = 0 .. c - 1
  <2>1. S \subseteq 0 .. N /\ \A i \in S : \A k \in 0 .. i : k \in S
    BY SMTT(30), <1>1, <1>2
  <2>. QED  BY Zenon, <1>1, <2>1, InitialSegment
<1>5. \A i \in S : i \in 0 .. N - 1 /\ n + i \in D
  <2>. SUFFICES ASSUME NEW i \in S PROVE i \in 0 .. N - 1 /\ n + i \in D
    BY Zenon
  <2>1. i \in 0 .. N - 1 /\ (n + i) % SeqSpace \in D
    BY SMTT(30), <1>2
  <2>. QED  BY Zenon, <1>3, <2>1
<1>6. \A x \in n .. n + c - 1 : x - n \in S /\ n + (x - n) = x
  BY SMTT(30), <1>4
<1>7. n .. n + c - 1 \subseteq D
  BY Zenon, <1>5, <1>6
<1>8. n + c \notin D
  <2>. SUFFICES ASSUME n + c \in D PROVE FALSE
    BY Zenon
  <2>1. n .. n + c \subseteq D
    <3>1. \A x \in n .. n + c : x = n + c \/ x \in n .. n + c - 1
      BY SMTT(30)
    <3>. QED  BY Zenon, <1>7, <3>1
  <2>2. Cardinality(n .. n + c) = c + 1
    <3>1. n \in Int /\ n + c \in Int /\ n <= n + c /\ (n + c) - n + 1 = c + 1
      BY SMTT(30)
    <3>. QED  BY SMTT(30), <3>1, FS_Interval
  <2>3. c + 1 <= N
    BY SMTT(30), <1>1, <2>1, <2>2, FS_Subset DEF N
  <2>4. \A k \in 0 .. c : k \in 0 .. N - 1 /\ n + k \in n .. n + c
    BY SMTT(30), <1>1, <2>3
  <2>5. \A k \in 0 .. c : (n + k) % SeqSpace \in D
    BY Zenon, <1>3, <2>1, <2>4
  <2>6. c \in S
    BY SMTT(30), <1>2, <2>4, <2>5
  <2>. QED  BY SMTT(30), <1>4, <2>6
<1>9. Run(h, n) = n .. n + c - 1
  <2>1. \A i \in S : (n + i) % SeqSpace = n + i
    BY Zenon, <1>3, <1>5
  <2>2. \A i \in S : n + i \in n .. n + c - 1
    BY SMTT(30), <1>4
  <2>3. Run(h, n) \subseteq n .. n + c - 1
    BY Zenon, <1>0, <2>1, <2>2
  <2>4. ASSUME NEW x \in n .. n + c - 1 PROVE x \in Run(h, n)
    <3>1. x - n \in S /\ (n + (x - n)) % SeqSpace = x
      BY Zenon, <1>6, <2>1
    <3>. QED  BY Zenon, <1>0, <3>1
  <2>. QED  BY Zenon, <2>3, <2>4
<1>10. Cardinality(n .. n + c - 1) = c
  <2>1. n \in Int /\ n + c - 1 \in Int /\ (IF n > n + c - 1 THEN 0 ELSE (n + c - 1) - n + 1) = c
    BY SMTT(30)
  <2>. QED  BY Zenon, <2>1, FS_Interval
<1>11. c > 0 => n + c - 1 <= m
  <2>1. c > 0 => n + c - 1 \in D
    BY SMTT(30), <1>7
  <2>. QED  BY SMTT(30), <2>1 DEF D
<1>. QED  BY Zenon, <1>7, <1>8, <1>9, <1>10, <1>11 DEF D

-----------------------------------------------------------------------------
(* What no step takes back. *)

Forward ==
  \A f \in Ends :
    /\ nextSeq[f] <= nextSeq'[f]
    /\ Hears(f)' => Hears(f)
    /\ Flushed(f) => Flushed(f)'
    /\ \A n \in Nat : Accepted(f, n) => Accepted(f, n)'

\* What is said of a packet on its way stays true.
LEMMA PacketStays ==
  ASSUME ShapeInv, ShapeInv', Forward, NEW p, PacketOK(p)
  PROVE  PacketOK(p)'
<1>. DEFINE f == Peer(p.to)
<1>1. p.to \in Ends /\ f \in Ends
  BY Zenon, PeerIs DEF PacketOK
<1>2. nextSeq[f] \in Nat /\ nextSeq'[f] \in Nat
  BY Zenon, <1>1 DEF ShapeInv
<1>. HIDE DEF f
<1>3. p.typ = "Data" => p.seq \in 1 .. nextSeq'[f] /\ p.msg = p.seq
  BY <1>1, <1>2, SMTT(30) DEF f, PacketOK, Forward
<1>4. p.typ = "Ack" => p.seq \in Nat /\ (p.seq # 0 /\ Hears(f)' => Accepted(f, p.seq)')
  BY <1>1, Zenon DEF f, PacketOK, Forward
<1>5. p.typ = "Close" => Flushed(f)'
  BY <1>1, Zenon DEF f, PacketOK, Forward
<1>. QED  BY <1>1, <1>3, <1>4, <1>5, Zenon DEF f, PacketOK

\* A buffer that gets a new sequence number holds one message more.
LEMMA PutIs ==
  ASSUME NEW sb, IsFiniteSet(DOMAIN sb), NEW n, n \notin DOMAIN sb, NEW m
  PROVE  /\ DOMAIN Put(sb, n, m) = DOMAIN sb \cup {n} /\ Put(sb, n, m)[n] = m
         /\ \A i \in DOMAIN sb : Put(sb, n, m)[i] = sb[i]
         /\ Cardinality(DOMAIN sb) \in Nat
         /\ Cardinality(DOMAIN Put(sb, n, m)) = Cardinality(DOMAIN sb) + 1
<1>1. DOMAIN Put(sb, n, m) = DOMAIN sb \cup {n} /\ Put(sb, n, m)[n] = m
      /\ \A i \in DOMAIN sb : Put(sb, n, m)[i] = sb[i]
  BY Zenon DEF Put
<1>. QED  BY Zenon, <1>1, FS_AddElement, FS_CardinalityType

\* A buffer of numbered messages is finite.
LEMMA NumberedFinite ==
  ASSUME NEW b, NEW lo \in Int, NEW hi \in Int, Numbered(b, lo, hi)
  PROVE  IsFiniteSet(DOMAIN b) /\ Cardinality(DOMAIN b) \in Nat
<1>1. IsFiniteSet(lo .. hi)
  BY Zenon, FS_Interval
<1>2. IsFiniteSet(DOMAIN b)
  BY Zenon, <1>1, FS_Subset DEF Numbered
<1>. QED  BY Zenon, <1>2, FS_CardinalityType

\* The message at the head of a backlog moves into a send buffer that has room.
LEMMA MoveIs ==
  ASSUME NEW s \in Nat, NEW sb, NEW pd \in Seq(Nat), pd # <<>>,
         InLine(s, pd), Numbered(sb, 1, s), ~Full(sb),
         Len(pd) > 1 => Cardinality(DOMAIN sb) >= Window - 1
  PROVE  LET b == Put(sb, s + 1, s + 1)
             q == Tail(pd) IN
         /\ Head(pd) = s + 1 /\ q \in Seq(Nat) /\ Len(pd) = 1 + Len(q)
         /\ InLine(s + 1, q) /\ Numbered(b, 1, s + 1)
         /\ Cardinality(DOMAIN b) <= Window
         /\ q # <<>> => Cardinality(DOMAIN b) = Window
         /\ (1 .. s + 1) \ DOMAIN b = (1 .. s) \ DOMAIN sb
<1>. DEFINE D == DOMAIN sb
            b == Put(sb, s + 1, s + 1)
            q == Tail(pd)
<1>1. Len(pd) \in Nat /\ Len(pd) > 0
  <2>1. Len(pd) \in Nat /\ Len(pd) # 0
    BY Zenon, SeqEmpty, SeqLen
  <2>. QED  BY SMTT(30), <2>1
<1>2. Head(pd) = pd[1] /\ pd[1] = s + 1
  BY SMTT(30), <1>1 DEF InLine
<1>3. q \in Seq(Nat) /\ Len(q) = Len(pd) - 1 /\ \A i \in 1 .. Len(q) : q[i] = pd[i + 1]
  BY Zenon, SeqHeadTail
<1>4. Len(q) \in Nat /\ (q # <<>> => Len(q) # 0)
  BY Zenon, <1>3, SeqEmpty, SeqLen
<1>. HIDE DEF q
<1>5. Len(pd) = 1 + Len(q) /\ \A i \in 1 .. Len(q) : q[i] = (s + 1) + i
  <2>1. \A i \in 1 .. Len(q) : i + 1 \in 1 .. Len(pd) /\ s + (i + 1) = (s + 1) + i
    BY SMTT(30), <1>1, <1>3
  <2>. QED  BY SMTT(30), <1>1, <1>3, <2>1 DEF InLine
<1>6. s + 1 \notin D /\ s + 1 \in 1 .. s + 1 /\ 1 .. s \subseteq 1 .. s + 1
  BY SMTT(30) DEF Numbered
<1>7. /\ DOMAIN b = D \cup {s + 1} /\ b[s + 1] = s + 1 /\ \A i \in D : b[i] = sb[i]
      /\ Cardinality(D) \in Nat /\ Cardinality(DOMAIN b) = Cardinality(D) + 1
  <2>1. IsFiniteSet(D)
    BY SMTT(30), NumberedFinite
  <2>. DEFINE x == s + 1
  <2>2. x \notin D
    BY Zenon, <1>6
  <2>. HIDE DEF x, D
  <2>3. /\ DOMAIN Put(sb, x, x) = D \cup {x} /\ Put(sb, x, x)[x] = x
        /\ \A i \in D : Put(sb, x, x)[i] = sb[i]
        /\ Cardinality(D) \in Nat /\ Cardinality(DOMAIN Put(sb, x, x)) = Cardinality(D) + 1
    BY Zenon, <2>1, <2>2, PutIs DEF D
  <2>. QED  BY <2>3, Zenon DEF x
<1>. HIDE DEF b
<1>8. DOMAIN b \subseteq 1 .. s + 1 /\ \A i \in DOMAIN b : b[i] = i
  BY Zenon, <1>6, <1>7 DEF Numbered
<1>9. Window \in Nat /\ ~(Cardinality(D) >= Window)
  BY Zenon, ConnConstantsOK DEF Full
<1>10. Len(q) # 0 => Cardinality(D) >= Window - 1
  BY SMTT(30), <1>1, <1>3, <1>4
<1>11. Cardinality(DOMAIN b) <= Window /\ (q # <<>> => Cardinality(DOMAIN b) = Window)
  <2>. HIDE DEF D
  <2>. QED  BY SMTT(30), <1>4, <1>7, <1>9, <1>10
<1>12. (1 .. s + 1) \ DOMAIN b = (1 .. s) \ D
  <2>1. \A i : i \in 1 .. s + 1 /\ i # s + 1 <=> i \in 1 .. s
    BY SMTT(30)
  <2>. QED  BY <1>7, <2>1, Zenon
<1>. QED  BY Zenon, <1>2, <1>3, <1>5, <1>8, <1>11, <1>12 DEF InLine, Numbered, b, q

\* What fillWindow finds, at an end with w messages written: pd waits, and sb is
\* not acknowledged; and what it leaves behind: at most one message is on its
\* way for the first time, and only what sb did not hold counts as acknowledged.
Fillable(e, w, sb, pd) ==
  /\ w \in Nat /\ w <= MaxWrites[e] /\ pd \in Seq(Nat) /\ w = nextSeq[e] + Len(pd)
  /\ InLine(nextSeq[e], pd) /\ Numbered(sb, 1, nextSeq[e])
  /\ Cardinality(DOMAIN sb) <= Window
  /\ Len(pd) > 1 => Cardinality(DOMAIN sb) >= Window - 1
Filled(e, sb, pd, keep, sent) ==
  /\ SendInv(e)' /\ nextSeq'[e] \in Nat /\ nextSeq[e] <= nextSeq'[e]
  /\ pending' \in [Ends -> Seq(Nat)] /\ nextSeq' \in [Ends -> Nat]
  /\ written' \in [Ends -> Nat] /\ sendBuf' = [f \in Ends |-> sendBuf'[f]]
  /\ \A f \in Ends \ {e} : /\ pending'[f] = pending[f] /\ sendBuf'[f] = sendBuf[f]
                           /\ nextSeq'[f] = nextSeq[f] /\ written'[f] = written[f]
  /\ (1 .. nextSeq'[e]) \ DOMAIN sendBuf'[e] = (1 .. nextSeq[e]) \ DOMAIN sb
  /\ pd = <<>> => pending'[e] = <<>> /\ sendBuf'[e] = sb
  /\ \A p \in net' : \/ p \in keep \cup sent
                     \/ /\ p = Data(Peer(e), nextSeq'[e], nextSeq'[e])
                        /\ nextSeq'[e] \in 1 .. nextSeq'[e]

\* fillWindow sends the next messages in order and within the window.
LEMMA FillStep ==
  ASSUME NoWrap, ShapeInv, NEW e \in Ends, NEW w, NEW sb, NEW pd, NEW keep, NEW sent,
         Fillable(e, w, sb, pd), written' = [written EXCEPT ![e] = w],
         FillWindow(e, sb, pd, keep, sent)
  PROVE  Filled(e, sb, pd, keep, sent)
<1>0. /\ w \in Nat /\ w <= MaxWrites[e] /\ pd \in Seq(Nat) /\ w = nextSeq[e] + Len(pd)
      /\ InLine(nextSeq[e], pd) /\ Numbered(sb, 1, nextSeq[e])
      /\ Cardinality(DOMAIN sb) <= Window
      /\ Len(pd) > 1 => Cardinality(DOMAIN sb) >= Window - 1
  BY Zenon DEF Fillable
<1>. DEFINE s == nextSeq[e]
            n == (s + 1) % SeqSpace
            D == DOMAIN sb
            move == pd # <<>> /\ ~Full(sb)
<1>1. s \in Nat /\ Len(pd) \in Nat /\ IsFiniteSet(D) /\ Cardinality(D) \in Nat
  <2>1. s \in Nat /\ Len(pd) \in Nat
    BY Zenon, <1>0, SeqLen DEF ShapeInv
  <2>. QED  BY SMTT(30), <1>0, <2>1, NumberedFinite
<1>2. /\ pending' = [pending EXCEPT ![e] = IF move THEN Tail(pd) ELSE pd]
      /\ sendBuf' = [sendBuf EXCEPT ![e] = IF move THEN Put(sb, n, Head(pd)) ELSE sb]
      /\ nextSeq' = [nextSeq EXCEPT ![e] = IF move THEN n ELSE @]
      /\ net' = keep \cup (sent \cup (IF move THEN {Data(Peer(e), n, Head(pd))} ELSE {}))
  BY Zenon DEF FillWindow
<1>3. /\ DOMAIN pending = Ends /\ DOMAIN sendBuf = Ends /\ DOMAIN nextSeq = Ends
      /\ DOMAIN written = Ends
  BY Zenon DEF ShapeInv
<1>4. /\ pending'[e] = (IF move THEN Tail(pd) ELSE pd)
      /\ sendBuf'[e] = (IF move THEN Put(sb, n, Head(pd)) ELSE sb)
      /\ nextSeq'[e] = (IF move THEN n ELSE s)
      /\ written'[e] = w
  BY <1>2, <1>3, Zenon
<1>5. /\ written' \in [Ends -> Nat] /\ sendBuf' = [f \in Ends |-> sendBuf'[f]]
      /\ \A f \in Ends \ {e} : /\ pending'[f] = pending[f] /\ sendBuf'[f] = sendBuf[f]
                               /\ nextSeq'[f] = nextSeq[f] /\ written'[f] = written[f]
  <2>1. written' \in [Ends -> Nat]
    BY Zenon, <1>0 DEF ShapeInv
  <2>2. sendBuf' = [f \in Ends |-> sendBuf'[f]]
    BY <1>2, <1>3, Zenon
  <2>3. \A f \in Ends \ {e} : /\ pending'[f] = pending[f] /\ sendBuf'[f] = sendBuf[f]
                              /\ nextSeq'[f] = nextSeq[f] /\ written'[f] = written[f]
    BY <1>2, <1>3, Zenon
  <2>. QED  BY Zenon, <2>1, <2>2, <2>3
<1>6. Window \in Nat \ {0} /\ (Full(sb) <=> Cardinality(D) >= Window)
  BY Zenon, ConnConstantsOK DEF Full
<1>7. CASE move
  <2>1. n = s + 1
    <3>1. Len(pd) \in Nat /\ Len(pd) # 0
      BY Zenon, <1>0, <1>1, <1>7, SeqEmpty
    <3>2. MaxWrites[e] \in Nat /\ MaxWrites[e] + 1 < SeqSpace /\ SeqSpace \in Nat
      BY Zenon, ConnConstantsOK DEF NoWrap
    <3>3. s + 1 \in Nat /\ s + 1 < SeqSpace
      <4>. HIDE DEF s, n
      <4>1. w = s + Len(pd)
        BY Zenon, <1>0 DEF s
      <4>. QED  BY SMTT(30), <1>0, <1>1, <3>1, <3>2, <4>1
    <3>. QED  BY Zenon, <3>3, Small
  <2>. DEFINE b == Put(sb, s + 1, s + 1)
              q == Tail(pd)
  <2>2. /\ Head(pd) = s + 1 /\ q \in Seq(Nat) /\ Len(pd) = 1 + Len(q)
        /\ InLine(s + 1, q) /\ Numbered(b, 1, s + 1)
        /\ Cardinality(DOMAIN b) <= Window
        /\ q # <<>> => Cardinality(DOMAIN b) = Window
        /\ (1 .. s + 1) \ DOMAIN b = (1 .. s) \ DOMAIN sb
    BY Zenon, <1>0, <1>1, <1>7, MoveIs
  <2>3. pending'[e] = q /\ sendBuf'[e] = b /\ nextSeq'[e] = s + 1 /\ written'[e] = w
    BY <1>4, <1>7, <2>1, <2>2, Zenon
  <2>4. \A p \in net' : p \in keep \/ p \in sent \/ p = Data(Peer(e), s + 1, s + 1)
    BY <1>2, <1>7, <2>1, <2>2, Zenon
  <2>5. pending' \in [Ends -> Seq(Nat)] /\ nextSeq' \in [Ends -> Nat]
    <3>1. n \in Nat
      BY SMTT(30), <1>1, <2>1
    <3>. HIDE DEF n, q
    <3>2. nextSeq' = [nextSeq EXCEPT ![e] = n] /\ pending' = [pending EXCEPT ![e] = q]
      BY <1>2, <1>7, Zenon DEF q
    <3>. QED  BY Zenon, <2>2, <3>1, <3>2 DEF ShapeInv
  <2>. HIDE DEF b, q, n, s
  <2>6. w = (s + 1) + Len(q)
    <3>1. w = s + Len(pd) /\ Len(q) \in Nat
      BY Zenon, <1>0, <2>2, SeqLen DEF s
    <3>. QED  BY SMTT(30), <1>1, <2>2, <3>1
  <2>7. SendInv(e)'
    BY <1>0, <2>2, <2>3, <2>6, Zenon DEF SendInv
  <2>8. s + 1 \in 1 .. s + 1 /\ s + 1 \in Nat /\ s <= s + 1
    BY SMTT(30), <1>1
  <2>9. pd # <<>>
    BY Zenon, <1>7
  <2>. QED  BY <1>5, <2>2, <2>3, <2>4, <2>5, <2>7, <2>8, <2>9, Zenon DEF Filled, s
<1>8. CASE ~move
  <2>1. pending'[e] = pd /\ sendBuf'[e] = sb /\ nextSeq'[e] = s /\ written'[e] = w
    BY <1>4, <1>8, Zenon
  <2>2. \A p \in net' : p \in keep \/ p \in sent
    BY <1>2, <1>8, Zenon
  <2>3. pd # <<>> => Cardinality(D) = Window
    BY SMTT(30), <1>0, <1>1, <1>6, <1>8
  <2>4. SendInv(e)'
    BY <1>0, <2>1, <2>3, Zenon DEF SendInv
  <2>5. pending' \in [Ends -> Seq(Nat)] /\ nextSeq' \in [Ends -> Nat]
    BY Zenon, <1>0, <1>1, <1>2, <1>8 DEF ShapeInv
  <2>6. s <= s
    BY SMTT(30), <1>1
  <2>7. (1 .. nextSeq'[e]) \ DOMAIN sendBuf'[e] = (1 .. nextSeq[e]) \ DOMAIN sb
    BY <2>1, Zenon
  <2>8. nextSeq'[e] \in Nat /\ nextSeq[e] <= nextSeq'[e]
    BY <1>1, <2>1, <2>6, Zenon
  <2>. QED  BY <1>5, <2>1, <2>2, <2>4, <2>5, <2>7, <2>8, Zenon DEF Filled
<1>. QED  BY Zenon, <1>7, <1>8

-----------------------------------------------------------------------------
(* What a step leaves alone. *)

\* A message stays accepted while the receiver's state does not change.
LEMMA AcceptedStays ==
  ASSUME NEW f \in Ends, ordered' = ordered, next'[f] = next[f], held'[f] = held[f],
         deliverQ'[f] = deliverQ[f], got'[f] = got[f], NEW n, Accepted(f, n)
  PROVE  Accepted(f, n)'
BY Zenon DEF Accepted, Range

\* An untouched sender keeps SendInv.
LEMMA SendStays ==
  ASSUME NEW f \in Ends, SendInv(f), written'[f] = written[f], pending'[f] = pending[f],
         sendBuf'[f] = sendBuf[f], nextSeq'[f] = nextSeq[f]
  PROVE  SendInv(f)'
BY Zenon DEF SendInv

\* An untouched receiver keeps RecvInv while its peer sends more.
LEMMA RecvStays ==
  ASSUME NEW f \in Ends, ShapeInv, ShapeInv', RecvInv(f), ordered' = ordered, next'[f] = next[f],
         held'[f] = held[f], deliverQ'[f] = deliverQ[f], got'[f] = got[f],
         nextSeq[Peer(f)] <= nextSeq'[Peer(f)]
  PROVE  RecvInv(f)'
<1>. DEFINE a == nextSeq[Peer(f)]
            b == nextSeq'[Peer(f)]
<1>1. a \in Nat /\ b \in Nat /\ a <= b /\ next[f] \in Nat
  BY Zenon, PeerIs DEF ShapeInv
<1>. HIDE DEF a, b
<1>2. 1 .. a + 1 \subseteq 1 .. b + 1 /\ 1 .. a \subseteq 1 .. b
      /\ next[f] + 1 .. a \subseteq next[f] + 1 .. b
  BY SMTT(30), <1>1
<1>3. Numbered(held[f], next[f] + 1, a) => Numbered(held[f], next[f] + 1, b)
  BY <1>2, Zenon DEF Numbered
<1>4. next'[f] \in 1 .. b + 1
  BY <1>2, Zenon DEF RecvInv, a
<1>5. CASE ordered
  BY <1>3, <1>4, <1>5, Zenon DEF RecvInv, a, b
<1>6. CASE ~ordered
  BY <1>2, <1>4, <1>6, Zenon DEF RecvInv, a, b
<1>. QED  BY <1>5, <1>6, Zenon

\* An untouched end keeps EndInv while both ends move forward.
LEMMA EndStays ==
  ASSUME NEW f \in Ends, Forward, EndInv(f), st'[f] = st[f], err'[f] = err[f], told'[f] = told[f]
  PROVE  EndInv(f)'
BY PeerIs, Zenon DEF EndInv, Forward

\* An untouched sender keeps AckInv while both ends move forward.
LEMMA AckStays ==
  ASSUME NEW f \in Ends, ShapeInv, Forward, AckInv(f), sendBuf'[f] = sendBuf[f],
         nextSeq'[f] = nextSeq[f]
  PROVE  AckInv(f)'
<1>1. Peer(f) \in Ends /\ \A n \in 1 .. nextSeq[f] : n \in Nat
  BY SMTT(30), PeerIs DEF ShapeInv
<1>. QED  BY <1>1, Zenon DEF AckInv, Forward

-----------------------------------------------------------------------------
(* The send side. *)

\* A step of the send side: w messages are written, of which pd wait before
\* fillWindow and the others that sb does not hold are acknowledged; the end goes
\* on, or has nothing left and says Close.
SendMove(e, w, sb, pd, keep, sent, s) ==
  /\ Fillable(e, w, sb, pd) /\ written' = [written EXCEPT ![e] = w]
  /\ FillWindow(e, sb, pd, keep, sent)
  /\ st[e] \in {"open", "flush"} /\ st' = [st EXCEPT ![e] = s]
  /\ s \in {"open", "flush", "ended"}
  /\ s = "open" => st[e] = "open"
  /\ s = "ended" => pd = <<>> /\ DOMAIN sb = {}
  /\ \A p \in sent : s = "ended" /\ p = CloseTo(Peer(e))
  /\ keep \subseteq net
  /\ Hears(Peer(e)) => \A n \in DOMAIN sendBuf[e] \ DOMAIN sb : Accepted(Peer(e), n)
  /\ UNCHANGED <<ordered, err, recvVars, appVars>>

\* A step that only sends keeps ConnInv.
LEMMA SendStep ==
  ASSUME NoWrap, ConnInv, NEW e \in Ends, NEW w, NEW sb, NEW pd, NEW keep, NEW sent, NEW s,
         SendMove(e, w, sb, pd, keep, sent, s)
  PROVE  ConnInv'
<1>. USE DEF SendMove
<1>1. /\ ShapeInv /\ \A p \in net : PacketOK(p)
      /\ \A f \in Ends : SendInv(f) /\ RecvInv(f) /\ EndInv(f) /\ AckInv(f)
  BY Zenon DEF ConnInv
<1>2. Filled(e, sb, pd, keep, sent)
  BY Zenon, <1>1, FillStep
<1>3. /\ ordered' = ordered /\ err' = err /\ deliverQ' = deliverQ /\ next' = next
      /\ held' = held /\ got' = got /\ told' = told
  BY Zenon DEF recvVars, appVars
<1>4. st'[e] = s /\ (\A f \in Ends \ {e} : st'[f] = st[f])
      /\ st' \in [Ends -> {"open", "flush", "drain", "ended"}]
  BY Zenon, <1>1 DEF ShapeInv
<1>5. ShapeInv'
  BY <1>1, <1>2, <1>3, <1>4, Zenon DEF ShapeInv, Filled
<1>6. Forward
  <2>. SUFFICES ASSUME NEW f \in Ends
                PROVE  /\ nextSeq[f] <= nextSeq'[f] /\ (Hears(f)' => Hears(f))
                       /\ Flushed(f) => Flushed(f)'
                       /\ \A n \in Nat : Accepted(f, n) => Accepted(f, n)'
    BY Zenon DEF Forward
  <2>1. nextSeq[f] <= nextSeq'[f]
    <3>1. CASE f = e
      BY Zenon, <1>2, <3>1 DEF Filled
    <3>2. CASE f # e
      <4>1. nextSeq'[f] = nextSeq[f] /\ nextSeq[f] \in Nat
        BY Zenon, <1>1, <1>2, <3>2 DEF ShapeInv, Filled
      <4>. QED  BY SMTT(30), <4>1
    <3>. QED  BY Zenon, <3>1, <3>2
  <2>2. Hears(f)' => Hears(f)
    BY <1>3, <1>4, Zenon DEF Hears
  <2>3. Flushed(f) => Flushed(f)'
    <3>1. CASE f = e
      BY Zenon, <3>1 DEF Flushed
    <3>2. CASE f # e
      BY <1>2, <1>4, <3>2, Zenon DEF Flushed, Filled
    <3>. QED  BY Zenon, <3>1, <3>2
  <2>4. \A n \in Nat : Accepted(f, n) => Accepted(f, n)'
    BY <1>3, AcceptedStays, Zenon
  <2>. QED  BY Zenon, <2>1, <2>2, <2>3, <2>4
<1>7. ASSUME NEW p \in net' PROVE PacketOK(p)'
  <2>1. CASE p \in keep
    BY Zenon, <1>1, <1>5, <1>6, <2>1, PacketStays
  <2>2. CASE p \in sent
    <3>1. p = CloseTo(Peer(e)) /\ s = "ended" /\ pd = <<>> /\ DOMAIN sb = {}
      BY Zenon, <2>2
    <3>2. Flushed(e)'
      BY <1>2, <1>4, <3>1, Zenon DEF Flushed, Filled
    <3>3. p.to = Peer(e) /\ p.typ = "Close" /\ Peer(e) \in Ends /\ Peer(Peer(e)) = e
      BY Zenon, <3>1, PeerIs DEF CloseTo
    <3>. QED  BY Zenon, <3>2, <3>3 DEF PacketOK
  <2>3. CASE p = Data(Peer(e), nextSeq'[e], nextSeq'[e]) /\ nextSeq'[e] \in 1 .. nextSeq'[e]
    <3>1. p.to = Peer(e) /\ p.typ = "Data" /\ Peer(e) \in Ends /\ Peer(Peer(e)) = e
          /\ p.seq = nextSeq'[e] /\ p.msg = nextSeq'[e]
      BY Zenon, <2>3, PeerIs DEF Data
    <3>. QED  BY Zenon, <2>3, <3>1 DEF PacketOK
  <2>. QED  BY Zenon, <1>2, <2>1, <2>2, <2>3 DEF Filled
<1>8. ASSUME NEW f \in Ends PROVE SendInv(f)' /\ RecvInv(f)' /\ EndInv(f)' /\ AckInv(f)'
  <2>1. SendInv(f)'
    BY <1>1, <1>2, SendStays, Zenon DEF Filled
  <2>2. RecvInv(f)'
    <3>1. nextSeq[Peer(f)] <= nextSeq'[Peer(f)]
      BY <1>6, PeerIs, Zenon DEF Forward
    <3>. QED  BY <1>1, <1>3, <1>5, <3>1, RecvStays, Zenon
  <2>3. EndInv(f)'
    <3>1. CASE f = e
      <4>1. err[e] = "none" /\ told[e] = "none"
        BY Zenon, <1>1 DEF EndInv
      <4>. QED  BY Zenon, <1>3, <1>4, <3>1, <4>1 DEF EndInv
    <3>2. CASE f # e
      BY <1>1, <1>3, <1>4, <1>6, <3>2, EndStays, Zenon
    <3>. QED  BY Zenon, <3>1, <3>2
  <2>4. AckInv(f)'
    <3>1. CASE f = e
      <4>1. SUFFICES ASSUME Hears(Peer(e))', NEW n \in (1 .. nextSeq'[e]) \ DOMAIN sendBuf'[e]
                     PROVE  Accepted(Peer(e), n)'
        BY <3>1, Zenon DEF AckInv
      <4>2. Hears(Peer(e)) /\ n \in Nat /\ n \in (1 .. nextSeq[e]) \ DOMAIN sb /\ Peer(e) \in Ends
        <5>1. n \in (1 .. nextSeq[e]) \ DOMAIN sb
          BY <1>2, <4>1, Zenon DEF Filled
        <5>2. n \in Nat
          BY SMTT(30), <1>1, <5>1 DEF ShapeInv
        <5>. QED  BY <1>6, <4>1, <5>1, <5>2, PeerIs, Zenon DEF Forward
      <4>3. Accepted(Peer(e), n)
        BY <1>1, <4>2, Zenon DEF AckInv
      <4>. QED  BY <1>6, <4>2, <4>3, Zenon DEF Forward
    <3>2. CASE f # e
      BY <1>1, <1>2, <1>6, <3>2, AckStays, Zenon DEF Filled
    <3>. QED  BY Zenon, <3>1, <3>2
  <2>. QED  BY Zenon, <2>1, <2>2, <2>3, <2>4
<1>. QED  BY <1>5, <1>7, <1>8, Zenon DEF ConnInv

\* A message number appended to a backlog in order.
LEMMA AppendInLine ==
  ASSUME NEW s \in Nat, NEW q \in Seq(Nat), InLine(s, q), NEW m, m = s + Len(q) + 1
  PROVE  /\ Append(q, m) \in Seq(Nat) /\ Len(Append(q, m)) = Len(q) + 1
         /\ InLine(s, Append(q, m))
<1>1. Len(q) \in Nat /\ m \in Nat
  BY SMTT(30), SeqLen
<1>2. /\ Append(q, m) \in Seq(Nat) /\ Len(Append(q, m)) = Len(q) + 1
      /\ \A i \in 1 .. Len(q) : Append(q, m)[i] = q[i]
      /\ Append(q, m)[Len(q) + 1] = m
  BY SMTT(30), <1>1, SeqAppend
<1>3. \A i \in 1 .. Len(q) + 1 : i \in 1 .. Len(q) \/ i = Len(q) + 1
  BY SMTT(30), <1>1
<1>4. s + (Len(q) + 1) = m
  BY SMTT(30), <1>1
<1>. QED  BY <1>2, <1>3, <1>4, Zenon DEF InLine

\* In every state the send side is one that fillWindow may find.
LEMMA AlwaysFillable ==
  ASSUME ConnInv, NEW e \in Ends
  PROVE  Fillable(e, written[e], sendBuf[e], pending[e])
<1>1. /\ SendInv(e) /\ written[e] \in Nat /\ nextSeq[e] \in Nat /\ pending[e] \in Seq(Nat)
      /\ Window \in Nat
  BY Zenon, ConnConstantsOK DEF ConnInv, ShapeInv
<1>2. Len(pending[e]) > 1 => pending[e] # <<>>
  <2>1. pending[e] = <<>> => Len(pending[e]) = 0
    BY Zenon, <1>1, SeqEmpty
  <2>. QED  BY SMTT(30), <2>1
<1>3. pending[e] # <<>> => Cardinality(DOMAIN sendBuf[e]) = Window
  BY Zenon, <1>1 DEF SendInv
<1>4. Len(pending[e]) > 1 => Cardinality(DOMAIN sendBuf[e]) >= Window - 1
  BY SMTT(30), <1>1, <1>2, <1>3
<1>. QED  BY <1>1, <1>4, Zenon DEF SendInv, Fillable

\* Write keeps ConnInv.
LEMMA WriteStep ==
  ASSUME NoWrap, ConnInv, NEW e \in Ends, Write(e)
  PROVE  ConnInv'
<1>. DEFINE w == written[e] + 1
            pd == Append(pending[e], w)
<1>1. /\ SendInv(e) /\ written[e] \in Nat /\ nextSeq[e] \in Nat /\ pending[e] \in Seq(Nat)
      /\ Window \in Nat /\ MaxWrites[e] \in Nat /\ st \in [Ends -> {"open", "flush", "drain", "ended"}]
  BY Zenon, ConnConstantsOK DEF ConnInv, ShapeInv
<1>2. w \in Nat /\ w <= MaxWrites[e] /\ Len(pending[e]) \in Nat /\ w = nextSeq[e] + Len(pending[e]) + 1
  <2>1. Len(pending[e]) \in Nat
    BY Zenon, <1>1, SeqLen
  <2>. QED  BY SMTT(30), <1>1, <2>1 DEF Write, SendInv
<1>. HIDE DEF w
<1>3. pd \in Seq(Nat) /\ Len(pd) = Len(pending[e]) + 1 /\ InLine(nextSeq[e], pd)
  BY Zenon, <1>1, <1>2, AppendInLine DEF SendInv
<1>. HIDE DEF pd
<1>4. Len(pd) > 1 => Cardinality(DOMAIN sendBuf[e]) >= Window - 1
  <2>1. Len(pd) > 1 => pending[e] # <<>>
    <3>1. pending[e] = <<>> => Len(pending[e]) = 0
      BY Zenon, <1>1, SeqEmpty
    <3>. QED  BY SMTT(30), <1>2, <1>3, <3>1
  <2>2. pending[e] # <<>> => Cardinality(DOMAIN sendBuf[e]) = Window
    BY Zenon, <1>1 DEF SendInv
  <2>. QED  BY SMTT(30), <1>1, <2>1, <2>2
<1>5. w = nextSeq[e] + Len(pd)
  BY SMTT(30), <1>1, <1>2, <1>3
<1>6. Fillable(e, w, sendBuf[e], pd)
  BY <1>1, <1>2, <1>3, <1>4, <1>5, Zenon DEF Fillable, SendInv
<1>7. /\ FillWindow(e, sendBuf[e], pd, net, {}) /\ written' = [written EXCEPT ![e] = w]
      /\ st[e] = "open" /\ st' = st /\ UNCHANGED <<ordered, err, recvVars, appVars>>
  BY Zenon DEF Write, w, pd
<1>8. st' = [st EXCEPT ![e] = "open"]
  BY Zenon, <1>1, <1>7
<1>9. SendMove(e, w, sendBuf[e], pd, net, {}, "open")
  BY <1>6, <1>7, <1>8, Zenon DEF SendMove
<1>. QED  BY Zenon, <1>9, SendStep

\* Close keeps ConnInv.
LEMMA CloseStep ==
  ASSUME NoWrap, ConnInv, NEW e \in Ends, Close(e)
  PROVE  ConnInv'
<1>. DEFINE s == FlushedTo(e, "flush", sendBuf[e], pending[e])
            sent == Farewell(e, "flush", sendBuf[e], pending[e])
<1>1. /\ FillWindow(e, sendBuf[e], pending[e], net, sent) /\ written' = written
      /\ st[e] = "open" /\ st' = [st EXCEPT ![e] = s]
      /\ UNCHANGED <<ordered, err, recvVars, appVars>>
  BY Zenon DEF Close
<1>2. written' = [written EXCEPT ![e] = written[e]]
  BY Zenon, <1>1 DEF ConnInv, ShapeInv
<1>3. /\ s \in {"flush", "ended"}
      /\ s = "ended" => pending[e] = <<>> /\ DOMAIN sendBuf[e] = {}
      /\ \A p \in sent : s = "ended" /\ p = CloseTo(Peer(e))
  BY Zenon DEF FlushedTo, Farewell
<1>. HIDE DEF s, sent
<1>4. Fillable(e, written[e], sendBuf[e], pending[e])
  BY Zenon, AlwaysFillable
<1>5. SendMove(e, written[e], sendBuf[e], pending[e], net, sent, s)
  BY <1>1, <1>2, <1>3, <1>4, Zenon DEF SendMove
<1>. QED  BY Zenon, <1>5, SendStep

\* An acknowledgement of sequence number n.
LEMMA AckedStep ==
  ASSUME NoWrap, ConnInv, NEW e \in Ends, NEW p \in net, NEW keep, keep \subseteq net, p.to = e,
         ReceiveAck(e, p, keep), p.seq \in DOMAIN sendBuf[e]
  PROVE  ConnInv'
<1>. DEFINE n == p.seq
            sb == Without(sendBuf[e], {n})
            s == FlushedTo(e, st[e], sb, pending[e])
            sent == Farewell(e, st[e], sb, pending[e])
<1>1. /\ FillWindow(e, sb, pending[e], keep, sent) /\ written' = written /\ p.typ = "Ack"
      /\ st[e] \in {"open", "flush"} /\ st' = [st EXCEPT ![e] = s]
      /\ UNCHANGED <<ordered, err, recvVars, appVars>>
  BY Zenon DEF ReceiveAck, ConnInv, ShapeInv
<1>2. written' = [written EXCEPT ![e] = written[e]]
  BY Zenon, <1>1 DEF ConnInv, ShapeInv
<1>3. /\ s \in {"open", "flush", "ended"}
      /\ s = "open" => st[e] = "open"
      /\ s = "ended" => pending[e] = <<>> /\ DOMAIN sb = {}
      /\ \A q \in sent : s = "ended" /\ q = CloseTo(Peer(e))
  BY Zenon, <1>1 DEF FlushedTo, Farewell
<1>4. DOMAIN sb = DOMAIN sendBuf[e] \ {n} /\ \A i \in DOMAIN sb : sb[i] = sendBuf[e][i]
  BY Zenon DEF Without
<1>. HIDE DEF s, sent, sb
<1>5. Fillable(e, written[e], sendBuf[e], pending[e])
  BY Zenon, AlwaysFillable
<1>6. /\ SendInv(e) /\ nextSeq[e] \in Nat /\ Window \in Nat /\ PacketOK(p)
  BY Zenon, ConnConstantsOK DEF ConnInv, ShapeInv
<1>7. IsFiniteSet(DOMAIN sendBuf[e]) /\ Cardinality(DOMAIN sendBuf[e]) \in Nat
  BY SMTT(30), <1>5, <1>6, NumberedFinite DEF Fillable
<1>8. Cardinality(DOMAIN sb) = Cardinality(DOMAIN sendBuf[e]) - 1
  BY Zenon, <1>4, <1>7, FS_RemoveElement
<1>9. Cardinality(DOMAIN sb) <= Window
  BY SMTT(30), <1>6, <1>7, <1>8 DEF SendInv
<1>10. Len(pending[e]) > 1 => Cardinality(DOMAIN sb) >= Window - 1
  <2>1. Len(pending[e]) > 1 => pending[e] # <<>>
    <3>1. pending[e] = <<>> => Len(pending[e]) = 0
      BY Zenon, <1>5, SeqEmpty DEF Fillable
    <3>. QED  BY SMTT(30), <3>1
  <2>2. pending[e] # <<>> => Cardinality(DOMAIN sendBuf[e]) = Window
    BY Zenon, <1>6 DEF SendInv
  <2>. QED  BY SMTT(30), <1>6, <1>8, <2>1, <2>2
<1>11. Numbered(sb, 1, nextSeq[e])
  BY <1>4, <1>5, Zenon DEF Numbered, Fillable
<1>12. Fillable(e, written[e], sb, pending[e])
  BY <1>5, <1>9, <1>10, <1>11, Zenon DEF Fillable
<1>13. n # 0
  BY SMTT(30), <1>5, <1>6 DEF Fillable, Numbered
<1>14. Hears(Peer(e)) => Accepted(Peer(e), n)
  BY <1>1, <1>6, <1>13, Zenon DEF PacketOK
<1>15. Hears(Peer(e)) => \A i \in DOMAIN sendBuf[e] \ DOMAIN sb : Accepted(Peer(e), i)
  BY <1>4, <1>14, Zenon
<1>16. SendMove(e, written[e], sb, pending[e], keep, sent, s)
  BY <1>1, <1>2, <1>3, <1>12, <1>15, Zenon DEF SendMove
<1>. QED  BY Zenon, <1>16, SendStep

-----------------------------------------------------------------------------
(* An end notices that the connection is over, or the network moves. *)

EndMove(e) ==
  /\ UNCHANGED <<ordered, sendVars, recvVars, got>>
  /\ st' \in [Ends -> {"open", "flush", "drain", "ended"}]
  /\ err' \in [Ends -> {"none", "closed", "lost"}] /\ told' \in [Ends -> {"none", "closed", "lost"}]
  /\ \A f \in Ends \ {e} : st'[f] = st[f] /\ err'[f] = err[f] /\ told'[f] = told[f]
  /\ st[e] = "ended" => st'[e] = "ended"
  /\ Hears(e)' => Hears(e)
  /\ st'[e] \in {"open", "flush"} => err'[e] = "none"
  /\ st'[e] = "drain" => err'[e] # "none"
  /\ st'[e] # "ended" => told'[e] = "none"
  /\ err'[e] = "closed" => Flushed(Peer(e))
  /\ \A p \in net' : p \in net \/ PacketOK(p)

\* A step that only ends a connection keeps ConnInv.
LEMMA EndStep ==
  ASSUME ConnInv, NEW e \in Ends, EndMove(e)
  PROVE  ConnInv'
<1>1. /\ ShapeInv /\ \A p \in net : PacketOK(p)
      /\ \A f \in Ends : SendInv(f) /\ RecvInv(f) /\ EndInv(f) /\ AckInv(f)
  BY Zenon DEF ConnInv
<1>2. /\ ordered' = ordered /\ deliverQ' = deliverQ /\ next' = next /\ held' = held /\ got' = got
      /\ written' = written /\ pending' = pending /\ sendBuf' = sendBuf /\ nextSeq' = nextSeq
  BY Zenon DEF EndMove, sendVars, recvVars
<1>3. ShapeInv'
  BY <1>1, <1>2, Zenon DEF ShapeInv, EndMove
<1>4. Forward
  <2>. SUFFICES ASSUME NEW f \in Ends
                PROVE  /\ nextSeq[f] <= nextSeq'[f] /\ (Hears(f)' => Hears(f))
                       /\ Flushed(f) => Flushed(f)'
                       /\ \A n \in Nat : Accepted(f, n) => Accepted(f, n)'
    BY Zenon DEF Forward
  <2>1. nextSeq[f] <= nextSeq'[f]
    <3>1. nextSeq[f] \in Nat /\ nextSeq'[f] = nextSeq[f]
      BY Zenon, <1>1, <1>2 DEF ShapeInv
    <3>. QED  BY SMTT(30), <3>1
  <2>2. Hears(f)' => Hears(f)
    BY Zenon DEF Hears, EndMove
  <2>3. Flushed(f) => Flushed(f)'
    BY <1>2, Zenon DEF Flushed, EndMove
  <2>4. \A n \in Nat : Accepted(f, n) => Accepted(f, n)'
    BY <1>2, AcceptedStays, Zenon
  <2>. QED  BY Zenon, <2>1, <2>2, <2>3, <2>4
<1>5. ASSUME NEW p \in net' PROVE PacketOK(p)'
  <2>1. PacketOK(p)
    BY Zenon, <1>1 DEF EndMove
  <2>. QED  BY Zenon, <1>1, <1>3, <1>4, <2>1, PacketStays
<1>6. ASSUME NEW f \in Ends PROVE SendInv(f)' /\ RecvInv(f)' /\ EndInv(f)' /\ AckInv(f)'
  <2>1. SendInv(f)'
    BY <1>1, <1>2, SendStays, Zenon
  <2>2. RecvInv(f)'
    <3>1. nextSeq[Peer(f)] <= nextSeq'[Peer(f)]
      BY <1>4, PeerIs, Zenon DEF Forward
    <3>. QED  BY <1>1, <1>2, <1>3, <3>1, RecvStays, Zenon
  <2>3. EndInv(f)'
    <3>1. CASE f = e
      BY <1>4, <3>1, PeerIs, Zenon DEF EndInv, EndMove, Forward
    <3>2. CASE f # e
      BY <1>1, <1>4, <3>2, EndStays, Zenon DEF EndMove
    <3>. QED  BY Zenon, <3>1, <3>2
  <2>4. AckInv(f)'
    BY <1>1, <1>2, <1>4, AckStays, Zenon
  <2>. QED  BY Zenon, <2>1, <2>2, <2>3, <2>4
<1>. QED  BY <1>3, <1>5, <1>6, Zenon DEF ConnInv

\* A step that changes nothing but the packets on their way.
LEMMA NetStep ==
  ASSUME ConnInv, UNCHANGED <<ordered, st, err, sendVars, recvVars, appVars>>,
         \A p \in net' : p \in net \/ PacketOK(p)
  PROVE  ConnInv'
<1>1. PICK e \in Ends : TRUE
  BY Zenon, ConnConstantsOK
<1>2. st' = st /\ err' = err /\ told' = told /\ got' = got
  BY Zenon DEF appVars
<1>3. ShapeInv /\ EndInv(e)
  BY Zenon DEF ConnInv
<1>4. EndMove(e)
  BY <1>2, <1>3, Zenon DEF EndMove, EndInv, ShapeInv, Hears
<1>. QED  BY Zenon, <1>4, EndStep

\* An epoch tick, with its retransmissions, keeps ConnInv.
LEMMA TickStep ==
  ASSUME ConnInv, NEW e \in Ends, NEW expired, Tick(e, expired)
  PROVE  ConnInv'
<1>1. /\ ShapeInv /\ EndInv(e) /\ SendInv(e) /\ st[e] \in {"open", "flush"}
      /\ expired \subseteq DOMAIN sendBuf[e]
  BY Zenon DEF ConnInv, Tick
<1>2. /\ UNCHANGED <<ordered, sendVars, recvVars, got, told>>
      /\ st' = [st EXCEPT ![e] = IF ~GivesUp(e) THEN st[e] ELSE IF st[e] = "open" THEN "drain" ELSE "ended"]
      /\ err' = [err EXCEPT ![e] = IF GivesUp(e) /\ st[e] = "open" THEN "lost" ELSE err[e]]
  BY Zenon DEF Tick, appVars
<1>3. /\ st' \in [Ends -> {"open", "flush", "drain", "ended"}]
      /\ err' \in [Ends -> {"none", "closed", "lost"}] /\ told' \in [Ends -> {"none", "closed", "lost"}]
      /\ \A f \in Ends \ {e} : st'[f] = st[f] /\ err'[f] = err[f] /\ told'[f] = told[f]
      /\ st'[e] = IF ~GivesUp(e) THEN st[e] ELSE IF st[e] = "open" THEN "drain" ELSE "ended"
      /\ err'[e] = IF GivesUp(e) /\ st[e] = "open" THEN "lost" ELSE err[e]
  BY Zenon, <1>1, <1>2 DEF ShapeInv
<1>4. ASSUME NEW p \in net' PROVE p \in net \/ PacketOK(p)
  <2>1. p \in net \/ p \in Resent(e, expired) \/ p = Ack(Peer(e), 0)
    BY Zenon DEF Tick, Heartbeat
  <2>2. CASE p \in Resent(e, expired)
    <3>1. PICK n \in expired : p = Data(Peer(e), n, sendBuf[e][n])
      BY Zenon, <2>2 DEF Resent
    <3>2. n \in 1 .. nextSeq[e] /\ sendBuf[e][n] = n
      BY <1>1, <3>1, Zenon DEF SendInv, Numbered
    <3>3. p.to = Peer(e) /\ p.typ = "Data" /\ p.seq = n /\ p.msg = n /\ Peer(e) \in Ends
          /\ Peer(Peer(e)) = e
      BY Zenon, <3>1, <3>2, PeerIs DEF Data
    <3>. QED  BY Zenon, <3>2, <3>3 DEF PacketOK
  <2>3. CASE p = Ack(Peer(e), 0)
    <3>1. p.to = Peer(e) /\ p.typ = "Ack" /\ p.seq = 0 /\ Peer(e) \in Ends
      BY Zenon, <2>3, PeerIs DEF Ack
    <3>. QED  BY SMTT(30), <3>1 DEF PacketOK
  <2>. QED  BY Zenon, <2>1, <2>2, <2>3
<1>5. /\ Hears(e)' => Hears(e)
      /\ st'[e] \in {"open", "flush"} => err'[e] = "none"
      /\ st'[e] = "drain" => err'[e] # "none"
      /\ st'[e] # "ended" => told'[e] = "none"
      /\ err'[e] = "closed" => Flushed(Peer(e))
  <2>1. err[e] = "none" /\ told[e] = "none" /\ told'[e] = told[e]
    BY Zenon, <1>1, <1>2 DEF EndInv
  <2>. QED  BY Zenon, <1>1, <1>3, <2>1 DEF Hears
<1>6. EndMove(e)
  BY Zenon, <1>1, <1>2, <1>3, <1>4, <1>5 DEF EndMove
<1>. QED  BY Zenon, <1>6, EndStep

\* A received Close keeps ConnInv.
LEMMA ReceiveCloseStep ==
  ASSUME ConnInv, NEW e \in Ends, NEW p \in net, NEW keep, keep \subseteq net, p.to = e,
         ReceiveClose(e, p, keep)
  PROVE  ConnInv'
<1>1. /\ ShapeInv /\ EndInv(e) /\ PacketOK(p) /\ st[e] \in {"open", "flush"} /\ p.typ = "Close"
  BY Zenon DEF ConnInv, ReceiveClose
<1>2. /\ UNCHANGED <<ordered, sendVars, recvVars, got, told>> /\ net' = keep
      /\ st' = [st EXCEPT ![e] = IF st[e] = "open" THEN "drain" ELSE "ended"]
      /\ err' = [err EXCEPT ![e] = IF st[e] = "open" THEN "closed" ELSE err[e]]
  BY Zenon DEF ReceiveClose, appVars
<1>3. /\ st' \in [Ends -> {"open", "flush", "drain", "ended"}]
      /\ err' \in [Ends -> {"none", "closed", "lost"}] /\ told' \in [Ends -> {"none", "closed", "lost"}]
      /\ \A f \in Ends \ {e} : st'[f] = st[f] /\ err'[f] = err[f] /\ told'[f] = told[f]
      /\ st'[e] = IF st[e] = "open" THEN "drain" ELSE "ended"
      /\ err'[e] = IF st[e] = "open" THEN "closed" ELSE err[e]
  BY Zenon, <1>1, <1>2 DEF ShapeInv
<1>4. Flushed(Peer(e))
  BY <1>1, Zenon DEF PacketOK
<1>5. /\ Hears(e)' => Hears(e)
      /\ st'[e] \in {"open", "flush"} => err'[e] = "none"
      /\ st'[e] = "drain" => err'[e] # "none"
      /\ st'[e] # "ended" => told'[e] = "none"
  <2>1. err[e] = "none" /\ told[e] = "none" /\ told'[e] = told[e]
    BY Zenon, <1>1, <1>2 DEF EndInv
  <2>. QED  BY Zenon, <1>1, <1>3, <2>1 DEF Hears
<1>6. EndMove(e)
  BY Zenon, <1>1, <1>2, <1>3, <1>4, <1>5 DEF EndMove
<1>. QED  BY Zenon, <1>6, EndStep

\* The end of draining keeps ConnInv.
LEMMA DrainedStep ==
  ASSUME ConnInv, NEW e \in Ends, ReadErr(e) \/ StopDraining(e)
  PROVE  ConnInv'
<1>1. ShapeInv /\ EndInv(e) /\ st[e] = "drain"
  BY Zenon DEF ConnInv, ReadErr, StopDraining
<1>2. /\ UNCHANGED <<ordered, sendVars, recvVars, got>> /\ net' = net /\ err' = err
      /\ st' = [st EXCEPT ![e] = "ended"]
      /\ told' = told \/ told' = [told EXCEPT ![e] = err[e]]
  BY Zenon DEF ReadErr, StopDraining, appVars
<1>3. /\ st' \in [Ends -> {"open", "flush", "drain", "ended"}]
      /\ err' \in [Ends -> {"none", "closed", "lost"}] /\ told' \in [Ends -> {"none", "closed", "lost"}]
      /\ \A f \in Ends \ {e} : st'[f] = st[f] /\ err'[f] = err[f] /\ told'[f] = told[f]
      /\ st'[e] = "ended" /\ err'[e] = err[e]
  BY Zenon, <1>1, <1>2 DEF ShapeInv
<1>4. Hears(e) /\ (err'[e] = "closed" => Flushed(Peer(e)))
  BY Zenon, <1>1, <1>3 DEF Hears, EndInv
<1>5. EndMove(e)
  BY Zenon, <1>2, <1>3, <1>4 DEF EndMove
<1>. QED  BY Zenon, <1>5, EndStep

-----------------------------------------------------------------------------
(* The receive side. *)

RecvMove(e) ==
  /\ UNCHANGED <<ordered, st, err, sendVars, told>>
  /\ next' \in [Ends -> Nat] /\ held' = [f \in Ends |-> held'[f]]
  /\ deliverQ' \in [Ends -> Seq(Nat)] /\ got' \in [Ends -> Seq(Nat)]
  /\ \A f \in Ends \ {e} : /\ next'[f] = next[f] /\ held'[f] = held[f]
                           /\ deliverQ'[f] = deliverQ[f] /\ got'[f] = got[f]
  /\ RecvInv(e)'
  /\ \A n \in Nat : Accepted(e, n) => Accepted(e, n)'
  /\ \A p \in net' : p \in net \/ PacketOK(p)'

\* A step that only moves received messages keeps ConnInv.
LEMMA RecvStep ==
  ASSUME ConnInv, NEW e \in Ends, RecvMove(e)
  PROVE  ConnInv'
<1>1. /\ ShapeInv /\ \A p \in net : PacketOK(p)
      /\ \A f \in Ends : SendInv(f) /\ RecvInv(f) /\ EndInv(f) /\ AckInv(f)
  BY Zenon DEF ConnInv
<1>2. /\ ordered' = ordered /\ st' = st /\ err' = err /\ told' = told
      /\ written' = written /\ pending' = pending /\ sendBuf' = sendBuf /\ nextSeq' = nextSeq
  BY Zenon DEF RecvMove, sendVars
<1>3. ShapeInv'
  BY <1>1, <1>2, Zenon DEF ShapeInv, RecvMove
<1>4. Forward
  <2>. SUFFICES ASSUME NEW f \in Ends
                PROVE  /\ nextSeq[f] <= nextSeq'[f] /\ (Hears(f)' => Hears(f))
                       /\ Flushed(f) => Flushed(f)'
                       /\ \A n \in Nat : Accepted(f, n) => Accepted(f, n)'
    BY Zenon DEF Forward
  <2>1. nextSeq[f] <= nextSeq'[f]
    <3>1. nextSeq[f] \in Nat /\ nextSeq'[f] = nextSeq[f]
      BY Zenon, <1>1, <1>2 DEF ShapeInv
    <3>. QED  BY SMTT(30), <3>1
  <2>2. (Hears(f)' => Hears(f)) /\ (Flushed(f) => Flushed(f)')
    BY <1>2, Zenon DEF Hears, Flushed
  <2>3. \A n \in Nat : Accepted(f, n) => Accepted(f, n)'
    <3>1. CASE f = e
      BY Zenon, <3>1 DEF RecvMove
    <3>2. CASE f # e
      BY <1>2, <3>2, AcceptedStays, Zenon DEF RecvMove
    <3>. QED  BY Zenon, <3>1, <3>2
  <2>. QED  BY Zenon, <2>1, <2>2, <2>3
<1>5. ASSUME NEW p \in net' PROVE PacketOK(p)'
  <2>1. CASE p \in net
    BY Zenon, <1>1, <1>3, <1>4, <2>1, PacketStays
  <2>. QED  BY Zenon, <2>1 DEF RecvMove
<1>6. ASSUME NEW f \in Ends PROVE SendInv(f)' /\ RecvInv(f)' /\ EndInv(f)' /\ AckInv(f)'
  <2>1. SendInv(f)'
    BY <1>1, <1>2, SendStays, Zenon
  <2>2. RecvInv(f)'
    <3>1. nextSeq[Peer(f)] <= nextSeq'[Peer(f)]
      BY <1>4, PeerIs, Zenon DEF Forward
    <3>. QED  BY <1>1, <1>2, <1>3, <3>1, RecvStays, Zenon DEF RecvMove
  <2>3. EndInv(f)'
    BY <1>1, <1>2, <1>4, EndStays, Zenon
  <2>4. AckInv(f)'
    BY <1>1, <1>2, <1>4, AckStays, Zenon
  <2>. QED  BY Zenon, <2>1, <2>2, <2>3, <2>4
<1>. QED  BY <1>3, <1>5, <1>6, Zenon DEF ConnInv

\* What is in a sequence after Append, and before Tail.
LEMMA RangeIs ==
  ASSUME NEW q \in Seq(Nat)
  PROVE  /\ \A m \in Nat : Range(Append(q, m)) = Range(q) \cup {m}
         /\ q # <<>> => Range(q) = {Head(q)} \cup Range(Tail(q))
<1>1. Len(q) \in Nat /\ DOMAIN q = 1 .. Len(q) /\ (q # <<>> => Len(q) # 0)
  BY Zenon, SeqEmpty, SeqLen
<1>2. ASSUME NEW m \in Nat PROVE Range(Append(q, m)) = Range(q) \cup {m}
  <2>. DEFINE a == Append(q, m)
  <2>1. /\ a \in Seq(Nat) /\ Len(a) = Len(q) + 1 /\ a[Len(q) + 1] = m
        /\ \A i \in 1 .. Len(q) : a[i] = q[i]
    BY SMTT(30), SeqAppend
  <2>2. DOMAIN a = 1 .. Len(q) + 1
    BY Zenon, <2>1, SeqLen
  <2>. HIDE DEF a
  <2>3. \A i : i \in 1 .. Len(q) + 1 <=> i \in 1 .. Len(q) \/ i = Len(q) + 1
    BY SMTT(30), <1>1
  <2>. QED  BY <1>1, <2>1, <2>2, <2>3, Zenon DEF Range, a
<1>3. ASSUME q # <<>> PROVE Range(q) = {Head(q)} \cup Range(Tail(q))
  <2>. DEFINE t == Tail(q)
  <2>1. t \in Seq(Nat) /\ Len(t) = Len(q) - 1 /\ \A i \in 1 .. Len(t) : t[i] = q[i + 1]
    BY Zenon, <1>3, SeqHeadTail
  <2>2. DOMAIN t = 1 .. Len(t) /\ Head(q) = q[1]
    BY SMTT(30), <2>1, SeqLen
  <2>. HIDE DEF t
  <2>3. 1 \in DOMAIN q /\ \A i \in DOMAIN t : i + 1 \in DOMAIN q
    BY SMTT(30), <1>1, <1>3, <2>1, <2>2
  <2>4. \A i \in DOMAIN q : i = 1 \/ (i - 1 \in DOMAIN t /\ (i - 1) + 1 = i)
    BY SMTT(30), <1>1, <1>3, <2>1, <2>2
  <2>5. \A i \in DOMAIN q : i = 1 \/ (i - 1 \in DOMAIN t /\ t[i - 1] = q[i])
    BY Zenon, <2>1, <2>2, <2>4
  <2>6. Range(q) \subseteq {Head(q)} \cup Range(t)
    BY <2>2, <2>5, Zenon DEF Range
  <2>7. \A i \in DOMAIN t : t[i] \in Range(q)
    BY <2>1, <2>2, <2>3, Zenon DEF Range
  <2>8. Head(q) \in Range(q)
    BY <2>2, <2>3, Zenon DEF Range
  <2>9. {Head(q)} \cup Range(t) \subseteq Range(q)
    BY <2>7, <2>8, Zenon DEF Range
  <2>. QED  BY Zenon, <2>6, <2>9 DEF t
<1>. QED  BY Zenon, <1>2, <1>3

\* Read keeps ConnInv.
LEMMA ReadMsgStep ==
  ASSUME ConnInv, NEW e \in Ends, ReadMsg(e)
  PROVE  ConnInv'
<1>. DEFINE q == deliverQ[e]
            g == got[e]
            m == Head(q)
            n == nextSeq[Peer(e)]
<1>1. /\ ShapeInv /\ RecvInv(e) /\ q \in Seq(Nat) /\ g \in Seq(Nat) /\ q # <<>>
      /\ next[e] \in Nat
  BY Zenon DEF ConnInv, ShapeInv, ReadMsg
<1>2. /\ UNCHANGED <<ordered, st, err, sendVars, told, next, held, net>>
      /\ got' = [got EXCEPT ![e] = Returned(g, m)] /\ deliverQ' = [deliverQ EXCEPT ![e] = Tail(q)]
  BY Zenon DEF ReadMsg
<1>3. /\ Len(q) \in Nat /\ Len(q) # 0 /\ Len(g) \in Nat /\ m \in Nat /\ m = q[1]
      /\ Tail(q) \in Seq(Nat) /\ Len(Tail(q)) = Len(q) - 1
      /\ \A i \in 1 .. Len(Tail(q)) : Tail(q)[i] = q[i + 1]
  <2>1. Len(q) \in Nat /\ Len(q) # 0 /\ Len(g) \in Nat
    BY Zenon, <1>1, SeqEmpty, SeqLen
  <2>2. m = q[1]
    BY SMTT(30), <1>1
  <2>. QED  BY Zenon, <1>1, <2>1, <2>2, SeqHeadTail
<1>4. Returned(g, m) \in Seq(Nat)
  BY Zenon, <1>1, <1>3, SeqAppend DEF Returned
<1>5. /\ deliverQ' \in [Ends -> Seq(Nat)] /\ got' \in [Ends -> Seq(Nat)]
      /\ deliverQ'[e] = Tail(q) /\ got'[e] = Returned(g, m)
      /\ \A f \in Ends \ {e} : deliverQ'[f] = deliverQ[f] /\ got'[f] = got[f]
  <2>. HIDE DEF q, g, m
  <2>. QED  BY Zenon, <1>1, <1>2, <1>3, <1>4 DEF ShapeInv
<1>6. next' = next /\ held' = held /\ nextSeq' = nextSeq /\ ordered' = ordered /\ net' = net
  BY Zenon, <1>2 DEF sendVars
<1>7. RecvInv(e)' /\ \A i \in Nat : Accepted(e, i) => Accepted(e, i)'
  <2>1. CASE ordered
    <3>. DEFINE a == Append(g, m)
                t == Tail(q)
    <3>1. Len(g) + Len(q) = next[e] - 1 /\ InLine(0, g) /\ InLine(Len(g), q)
      BY Zenon, <1>1, <2>1 DEF RecvInv
    <3>2. m = 0 + Len(g) + 1
      BY SMTT(30), <1>3, <3>1 DEF InLine
    <3>3. Len(a) = Len(g) + 1 /\ InLine(0, a)
      BY Zenon, <1>1, <3>1, <3>2, AppendInLine
    <3>4. InLine(Len(a), t)
      <4>. HIDE DEF t, a, q, g, m
      <4>0. Len(t) = Len(q) - 1
        BY Zenon, <1>3 DEF t
      <4>1. \A i \in 1 .. Len(t) : q[i + 1] = Len(g) + (i + 1)
        <5>1. \A i \in 1 .. Len(t) : i + 1 \in 1 .. Len(q)
          BY SMTT(30), <1>3, <4>0
        <5>. QED  BY <3>1, <5>1, Zenon DEF InLine
      <4>2. \A i \in 1 .. Len(t) : Len(g) + (i + 1) = Len(a) + i
        BY SMTT(30), <1>3, <3>3
      <4>. QED  BY Zenon, <1>3, <4>1, <4>2 DEF InLine, t
    <3>5. Len(a) + Len(t) = next[e] - 1
      <4>. HIDE DEF a, t, q, g
      <4>. QED  BY SMTT(30), <1>1, <1>3, <3>1, <3>3 DEF t
    <3>6. got'[e] = a /\ deliverQ'[e] = t
      BY Zenon, <1>5, <2>1 DEF Returned
    <3>. HIDE DEF a, t, q, g, m
    <3>7. RecvInv(e)'
      BY <1>1, <1>6, <2>1, <3>3, <3>4, <3>5, <3>6, Zenon DEF RecvInv
    <3>8. \A i \in Nat : Accepted(e, i) => Accepted(e, i)'
      BY <1>6, <2>1, Zenon DEF Accepted
    <3>. QED  BY Zenon, <3>7, <3>8
  <2>2. CASE ~ordered
    <3>1. Range(q) = {m} \cup Range(Tail(q)) /\ Range(Append(g, m)) = Range(g) \cup {m}
      BY Zenon, <1>1, <1>3, RangeIs
    <3>2. Range(Returned(g, m)) = Range(g) \cup {m}
      BY Zenon, <2>2, <3>1 DEF Returned
    <3>. DEFINE r == Returned(g, m)
                t == Tail(q)
    <3>. HIDE DEF q, g, m, r, t
    <3>3. Range(t) \cup Range(r) = Range(q) \cup Range(g)
      BY Zenon, <3>1, <3>2 DEF r, t
    <3>4. deliverQ'[e] = t /\ got'[e] = r /\ deliverQ[e] = q /\ got[e] = g
      BY Zenon, <1>5 DEF t, r, q, g
    <3>5. Range(deliverQ'[e]) \cup Range(got'[e]) = Range(deliverQ[e]) \cup Range(got[e])
      BY <3>3, <3>4, Zenon
    <3>6. RecvInv(e)'
      BY <1>1, <1>6, <2>2, <3>5, Zenon DEF RecvInv, Range
    <3>7. \A i \in Nat : Accepted(e, i) => Accepted(e, i)'
      BY <1>6, <2>2, <3>5, Zenon DEF Accepted, Range
    <3>. QED  BY Zenon, <3>6, <3>7
  <2>. QED  BY Zenon, <2>1, <2>2
<1>8. RecvMove(e)
  <2>1. next' \in [Ends -> Nat] /\ held' = [f \in Ends |-> held'[f]]
    BY <1>1, <1>6, Zenon DEF ShapeInv
  <2>2. UNCHANGED <<ordered, st, err, sendVars, told>>
    BY Zenon, <1>2
  <2>. QED  BY <1>5, <1>6, <1>7, <2>1, <2>2, Zenon DEF RecvMove
<1>. QED  BY Zenon, <1>8, RecvStep


\* An end that waits for message x holds the messages h, n among them, and the
\* peer has sent m messages.
Holding(x, m, hd, n, h) ==
  /\ x \in Nat /\ m \in Nat /\ x \in 1 .. m + 1 /\ m + 1 < SeqSpace
  /\ Numbered(hd, x + 1, m) /\ n \in x .. m
  /\ DOMAIN h = DOMAIN hd \cup {n} /\ \A i \in DOMAIN h : h[i] = i
\* The k messages x, x + 1, ... are deliverable, and h2 is what stays held.
Deliverable(x, m, h, k, h2) ==
  /\ k \in Nat /\ x + k \in 1 .. m + 1 /\ (x + k) % SeqSpace = x + k
  /\ Numbered(h2, x + k + 1, m)
  /\ \A i \in DOMAIN h : i < x + k \/ i \in DOMAIN h2
  /\ \A i \in 1 .. k : h[(x + i - 1) % SeqSpace] = x + i - 1

\* What the delivery loop takes from the held messages.
LEMMA RunTaken ==
  ASSUME NEW x, NEW m, NEW hd, NEW n, NEW h, Holding(x, m, hd, n, h)
  PROVE  Deliverable(x, m, h, Cardinality(Run(h, x)), Without(h, Run(h, x)))
<1>. USE DEF Holding
<1>1. DOMAIN h \subseteq x .. m /\ SeqSpace \in Nat /\ m < SeqSpace
  BY SMTT(30), ConnConstantsOK DEF Numbered
<1>2. PICK k \in Nat :
           /\ Run(h, x) = x .. x + k - 1 /\ Cardinality(Run(h, x)) = k
           /\ x .. x + k - 1 \subseteq DOMAIN h /\ x + k \notin DOMAIN h
           /\ k > 0 => x + k - 1 <= m
  BY Zenon, <1>1, RunIs
<1>3. x + k \in Nat /\ x + k \in 1 .. m + 1 /\ x + k < SeqSpace
  BY SMTT(30), <1>1, <1>2
<1>4. (x + k) % SeqSpace = x + k
  BY Zenon, <1>3, Small
<1>5. ASSUME NEW i \in 1 .. k PROVE h[(x + i - 1) % SeqSpace] = x + i - 1
  <2>1. x + i - 1 \in x .. x + k - 1 /\ x + i - 1 \in Nat /\ x + i - 1 < SeqSpace
    BY SMTT(30), <1>1, <1>3
  <2>2. (x + i - 1) % SeqSpace = x + i - 1
    BY Zenon, <2>1, Small
  <2>3. x + i - 1 \in DOMAIN h
    BY Zenon, <1>2, <2>1
  <2>. QED  BY <2>2, <2>3, Zenon
<1>. DEFINE h2 == Without(h, Run(h, x))
<1>6. DOMAIN h2 = DOMAIN h \ (x .. x + k - 1) /\ \A i \in DOMAIN h2 : h2[i] = h[i]
  BY Zenon, <1>2 DEF Without
<1>. HIDE DEF h2
<1>7. Numbered(h2, x + k + 1, m)
  <2>1. \A i \in x .. m : i # x + k /\ ~(i \in x .. x + k - 1) => i \in x + k + 1 .. m
    BY SMTT(30)
  <2>2. \A i \in DOMAIN h2 : i \in x .. m /\ i # x + k /\ ~(i \in x .. x + k - 1) /\ h2[i] = i
    BY Zenon, <1>1, <1>2, <1>6
  <2>. QED  BY <2>1, <2>2, Zenon DEF Numbered
<1>8. \A i \in DOMAIN h : i < x + k \/ i \in DOMAIN h2
  <2>1. \A i \in x .. x + k - 1 : i < x + k
    BY SMTT(30)
  <2>. QED  BY Zenon, <1>6, <2>1
<1>9. Cardinality(Run(h, x)) = k
  BY Zenon, <1>2
<1>. QED  BY Zenon, <1>3, <1>4, <1>5, <1>7, <1>8, <1>9 DEF h2, Deliverable

\* The k messages after those of q, appended to q.
LEMMA LineUp ==
  ASSUME NEW g \in Nat, NEW q \in Seq(Nat), InLine(g, q), NEW k \in Nat,
         NEW r, r \in [1 .. k -> Nat], \A i \in 1 .. k : r[i] = g + Len(q) + i
  PROVE  q \o r \in Seq(Nat) /\ Len(q \o r) = Len(q) + k /\ InLine(g, q \o r)
<1>1. Len(q) \in Nat
  BY Zenon, SeqLen
<1>2. r \in Seq(Nat) /\ Len(r) = k
  BY SMTT(30), SeqOf, SeqLen
<1>. DEFINE c == q \o r
<1>3. /\ c \in Seq(Nat) /\ Len(c) = Len(q) + k
      /\ \A i \in 1 .. Len(q) + k : c[i] = IF i <= Len(q) THEN q[i] ELSE r[i - Len(q)]
  BY Zenon, <1>2, SeqConcat
<1>. HIDE DEF c
<1>4. ASSUME NEW i \in 1 .. Len(q) + k PROVE c[i] = g + i
  <2>1. CASE i <= Len(q)
    <3>1. i \in 1 .. Len(q) /\ c[i] = q[i]
      BY SMTT(30), <1>1, <1>3, <2>1
    <3>. QED  BY Zenon, <3>1 DEF InLine
  <2>2. CASE ~(i <= Len(q))
    <3>1. i - Len(q) \in 1 .. k
      BY SMTT(30), <1>1, <2>2
    <3>2. c[i] = r[i - Len(q)]
      BY Zenon, <1>3, <2>2
    <3>3. c[i] = g + Len(q) + (i - Len(q))
      BY Zenon, <3>1, <3>2
    <3>. QED  BY SMTT(30), <1>1, <3>3
  <2>. QED  BY Zenon, <2>1, <2>2
<1>. QED  BY Zenon, <1>3, <1>4 DEF InLine, c

\* Accepting one data packet, whether new, held or a duplicate, keeps ConnInv.
LEMMA AcceptStep ==
  ASSUME NoWrap, ConnInv, NEW e \in Ends, NEW n \in 1 .. nextSeq[Peer(e)], Accept(e, n, n),
         UNCHANGED <<ordered, st, err, sendVars, appVars>>,
         \A p \in net' : p \in net \/ p = Ack(Peer(e), n)
  PROVE  ConnInv'
<1>. DEFINE m == nextSeq[Peer(e)]
            q == deliverQ[e]
<1>1. /\ ShapeInv /\ RecvInv(e) /\ Peer(e) \in Ends /\ Peer(Peer(e)) = e /\ SendInv(Peer(e))
      /\ q \in Seq(Nat) /\ got[e] \in Seq(Nat) /\ next[e] \in Nat /\ m \in Nat
      /\ written[Peer(e)] \in Nat /\ MaxWrites[Peer(e)] \in Nat
      /\ pending[Peer(e)] \in Seq(Nat) /\ SeqSpace \in Nat
  BY Zenon, PeerIs, ConnConstantsOK DEF ConnInv, ShapeInv
<1>2. m + 1 < SeqSpace
  <2>1. Len(pending[Peer(e)]) \in Nat /\ MaxWrites[Peer(e)] + 1 < SeqSpace
    BY Zenon, <1>1, SeqLen DEF NoWrap
  <2>2. written[Peer(e)] = m + Len(pending[Peer(e)]) /\ written[Peer(e)] <= MaxWrites[Peer(e)]
    BY Zenon, <1>1 DEF SendInv
  <2>. HIDE DEF m
  <2>. QED  BY SMTT(30), <1>1, <2>1, <2>2
<1>3. /\ ordered' = ordered /\ got' = got /\ nextSeq' = nextSeq /\ st' = st /\ err' = err
      /\ UNCHANGED <<ordered, st, err, sendVars, told>> /\ n \in Nat
  BY SMTT(30), <1>1 DEF sendVars, appVars
<1>4. ASSUME Accepted(e, n)', NEW p, p = Ack(Peer(e), n)
      PROVE  PacketOK(p)'
  <2>1. p.to = Peer(e) /\ p.typ = "Ack" /\ p.seq = n
    BY Zenon, <1>4 DEF Ack
  <2>. QED  BY Zenon, <1>1, <1>3, <1>4, <2>1 DEF PacketOK
<1>5. CASE ~ordered
  <2>1. deliverQ' = [deliverQ EXCEPT ![e] = Append(q, n)] /\ next' = next /\ held' = held
    BY Zenon, <1>5 DEF Accept, DeliverOnArrival
  <2>2. Append(q, n) \in Seq(Nat) /\ Range(Append(q, n)) = Range(q) \cup {n}
    BY Zenon, <1>1, <1>3, SeqAppend, RangeIs
  <2>3. /\ deliverQ' \in [Ends -> Seq(Nat)] /\ deliverQ'[e] = Append(q, n)
        /\ \A f \in Ends \ {e} : deliverQ'[f] = deliverQ[f]
    BY Zenon, <1>1, <2>1, <2>2 DEF ShapeInv
  <2>4. Range(deliverQ'[e]) = Range(deliverQ[e]) \cup {n}
    BY <2>2, <2>3, Zenon
  <2>5. RecvInv(e)'
    <3>1. Range(deliverQ[e]) \cup Range(got[e]) \subseteq 1 .. m /\ next[e] \in 1 .. m + 1
      BY Zenon, <1>1, <1>5 DEF RecvInv
    <3>2. Range(deliverQ'[e]) \cup Range(got'[e]) \subseteq 1 .. nextSeq'[Peer(e)]
      BY <1>3, <2>4, <3>1, Zenon
    <3>. QED  BY SMTT(30), <1>3, <1>5, <2>1, <3>1, <3>2 DEF RecvInv, Range
  <2>6. Accepted(e, n)' /\ \A i \in Nat : Accepted(e, i) => Accepted(e, i)'
    <3>1. \A i : i \in Range(deliverQ'[e]) \cup Range(got'[e])
                 <=> i = n \/ i \in Range(deliverQ[e]) \cup Range(got[e])
      BY <1>3, <2>4, Zenon
    <3>2. ~ordered' /\ n \in Range(deliverQ'[e]) \cup Range(got'[e])
      <4>1. ~ordered'
        BY SMTT(30), <1>3, <1>5
      <4>. QED  BY <3>1, <4>1, Zenon
    <3>3. ASSUME NEW i, i \in Range(deliverQ'[e]) \cup Range(got'[e])
          PROVE  Accepted(e, i)'
      BY Zenon, <3>2, <3>3 DEF Accepted, Range
    <3>4. \A i \in Nat : Accepted(e, i) => i \in Range(deliverQ'[e]) \cup Range(got'[e])
      BY <1>5, <3>1, Zenon DEF Accepted
    <3>. QED  BY <3>2, <3>3, <3>4, Zenon
  <2>7. next' \in [Ends -> Nat] /\ held' = [f \in Ends |-> held'[f]] /\ got' \in [Ends -> Seq(Nat)]
    BY <1>1, <1>3, <2>1, Zenon DEF ShapeInv
  <2>8. RecvMove(e)
    BY <1>3, <1>4, <2>1, <2>3, <2>5, <2>6, <2>7, Zenon DEF RecvMove
  <2>. QED  BY Zenon, <2>8, RecvStep
<1>6. CASE ordered /\ (n < next[e] \/ n \in DOMAIN held[e])
  <2>1. UNCHANGED recvVars
    BY Zenon, <1>6 DEF Accept
  <2>2. Accepted(e, n)
    BY Zenon, <1>6 DEF Accepted
  <2>3. ASSUME NEW p, p = Ack(Peer(e), n) PROVE PacketOK(p)
    <3>1. p.to = Peer(e) /\ p.typ = "Ack" /\ p.seq = n
      BY Zenon, <2>3 DEF Ack
    <3>. QED  BY Zenon, <1>1, <1>3, <2>2, <3>1 DEF PacketOK
  <2>. QED  BY Zenon, <2>1, <2>3, NetStep
<1>7. CASE ordered /\ ~(n < next[e] \/ n \in DOMAIN held[e])
  <2>. DEFINE x == next[e]
              hd == held[e]
              h == Put(hd, n, n)
              k == Cardinality(Run(h, x))
              q2 == q \o [i \in 1 .. k |-> h[(x + i - 1) % SeqSpace]]
              x2 == (x + k) % SeqSpace
              h2 == Without(h, Run(h, x))
  <2>1. /\ deliverQ' = [deliverQ EXCEPT ![e] = q2] /\ held' = [held EXCEPT ![e] = h2]
        /\ next' = [next EXCEPT ![e] = x2]
    BY Zenon, <1>7 DEF Accept
  <2>2. /\ x \in 1 .. m + 1 /\ Numbered(hd, x + 1, m) /\ Len(got[e]) + Len(q) = x - 1
        /\ InLine(0, got[e]) /\ InLine(Len(got[e]), q) /\ Len(got[e]) \in Nat
    BY Zenon, <1>1, <1>7, SeqLen DEF RecvInv
  <2>3. n \in x .. m /\ x \in Nat
    BY SMTT(30), <1>1, <1>3, <1>7
  <2>. HIDE DEF x, hd, q, m
  <2>4. /\ x2 \in 1 .. m + 1 /\ q2 \in Seq(Nat) /\ Len(got[e]) + Len(q2) = x2 - 1
        /\ InLine(Len(got[e]), q2) /\ Numbered(h2, x2 + 1, m) /\ x <= x2
        /\ \A i \in DOMAIN hd \cup {n} : i < x2 \/ i \in DOMAIN h2
    <3>1. DOMAIN h = DOMAIN hd \cup {n} /\ \A i \in DOMAIN h : h[i] = i
      BY Zenon, <2>2 DEF Put, Numbered
    <3>. HIDE DEF h
    <3>2. /\ k \in Nat /\ x + k \in 1 .. m + 1 /\ x2 = x + k /\ Numbered(h2, x + k + 1, m)
          /\ \A i \in DOMAIN h : i < x + k \/ i \in DOMAIN h2
          /\ \A i \in 1 .. k : h[(x + i - 1) % SeqSpace] = x + i - 1
      <4>1. Holding(x, m, hd, n, h)
        BY <1>1, <1>2, <2>2, <2>3, <3>1, Zenon DEF Holding
      <4>2. Deliverable(x, m, h, k, h2)
        BY <4>1, RunTaken, Zenon
      <4>. HIDE DEF k, h2
      <4>. QED  BY <4>2, Zenon DEF Deliverable
    <3>. DEFINE r == [i \in 1 .. k |-> h[(x + i - 1) % SeqSpace]]
    <3>. HIDE DEF k, x2, h2
    <3>3. Len(q) \in Nat /\ \A i \in 1 .. k : x + i - 1 \in Nat /\ x + i - 1 = Len(got[e]) + Len(q) + i
      <4>1. Len(q) \in Nat
        BY Zenon, <1>1, SeqLen
      <4>. QED  BY SMTT(30), <2>2, <2>3, <3>2, <4>1
    <3>4. r \in [1 .. k -> Nat] /\ \A i \in 1 .. k : r[i] = Len(got[e]) + Len(q) + i
      <4>1. \A i \in 1 .. k : r[i] = x + i - 1
        BY <3>2, Zenon
      <4>2. \A i \in 1 .. k : r[i] \in Nat
        BY <3>3, <4>1, Zenon
      <4>3. r \in [1 .. k -> Nat]
        BY <4>2, Zenon
      <4>. QED  BY <3>3, <4>1, <4>3, Zenon
    <3>5. q2 = q \o r
      BY Zenon
    <3>. HIDE DEF r, q2
    <3>6. q \o r \in Seq(Nat) /\ Len(q \o r) = Len(q) + k /\ InLine(Len(got[e]), q \o r)
      BY Zenon, <1>1, <2>2, <3>2, <3>4, LineUp
    <3>7. Len(got[e]) + Len(q2) = x2 - 1 /\ x <= x2
      <4>1. x2 = x + k /\ k \in Nat /\ Len(q2) = Len(q) + k
        BY <3>2, <3>5, <3>6, Zenon
      <4>2. Len(q) \in Nat
        BY Zenon, <3>3
      <4>3. \A a, b, c, y \in Nat : a + b = y - 1 => a + (b + c) = (y + c) - 1 /\ y <= y + c
        BY SMTT(30)
      <4>4. Len(got[e]) + (Len(q) + k) = (x + k) - 1 /\ x <= x + k
        BY <2>2, <2>3, <4>1, <4>2, <4>3, Zenon
      <4>. QED  BY <4>1, <4>4, Zenon
    <3>. QED  BY <3>1, <3>2, <3>5, <3>6, <3>7, Zenon
  <2>. HIDE DEF h, k, q2, x2, h2
  <2>5. x2 \in Nat /\ x \in Nat
    BY SMTT(30), <1>1, <2>4 DEF x
  <2>6. /\ deliverQ' \in [Ends -> Seq(Nat)] /\ next' \in [Ends -> Nat]
        /\ deliverQ'[e] = q2 /\ next'[e] = x2 /\ held'[e] = h2
        /\ \A f \in Ends \ {e} : deliverQ'[f] = deliverQ[f] /\ next'[f] = next[f] /\ held'[f] = held[f]
    <3>1. deliverQ' \in [Ends -> Seq(Nat)] /\ next' \in [Ends -> Nat]
      BY Zenon, <1>1, <2>1, <2>4, <2>5 DEF ShapeInv
    <3>2. DOMAIN deliverQ = Ends /\ DOMAIN next = Ends /\ DOMAIN held = Ends
      BY Zenon, <1>1 DEF ShapeInv
    <3>. QED  BY <2>1, <3>1, <3>2, Zenon
  <2>7. held' = [f \in Ends |-> held'[f]] /\ got' \in [Ends -> Seq(Nat)]
    <3>1. DOMAIN held = Ends /\ got \in [Ends -> Seq(Nat)]
      BY Zenon, <1>1 DEF ShapeInv
    <3>. QED  BY <1>3, <2>1, <3>1, Zenon
  <2>8. RecvInv(e)'
    <3>1. /\ next'[e] \in 1 .. nextSeq'[Peer(e)] + 1
          /\ Len(got'[e]) + Len(deliverQ'[e]) = next'[e] - 1
          /\ InLine(0, got'[e]) /\ InLine(Len(got'[e]), deliverQ'[e])
          /\ Numbered(held'[e], next'[e] + 1, nextSeq'[Peer(e)])
      BY <1>3, <2>2, <2>4, <2>6, Zenon DEF m
    <3>2. ordered'
      BY SMTT(30), <1>3, <1>7
    <3>. QED  BY <3>1, <3>2, Zenon DEF RecvInv
  <2>9. \A i \in Nat : (i < x => i < x2)
    BY SMTT(30), <2>4, <2>5
  <2>10. Accepted(e, n)' /\ \A i \in Nat : Accepted(e, i) => Accepted(e, i)'
    <3>1. \A i : i = n \/ i \in DOMAIN hd => i < next'[e] \/ i \in DOMAIN held'[e]
      BY <2>4, <2>6, Zenon
    <3>2. \A i \in Nat : i < x => i < next'[e]
      BY <2>6, <2>9, Zenon
    <3>. QED  BY SMTT(30), <1>3, <1>7, <3>1, <3>2 DEF Accepted, x, hd
  <2>11. RecvMove(e)
    BY <1>3, <1>4, <2>6, <2>7, <2>8, <2>10, Zenon DEF RecvMove
  <2>. QED  BY Zenon, <2>11, RecvStep
<1>. QED  BY Zenon, <1>1, <1>5, <1>6, <1>7 DEF ShapeInv

\* A received data packet keeps ConnInv.
LEMMA ReceiveDataStep ==
  ASSUME NoWrap, ConnInv, NEW e \in Ends, NEW p \in net, NEW keep, keep \subseteq net, p.to = e,
         ReceiveData(e, p, keep)
  PROVE  ConnInv'
<1>1. /\ ShapeInv /\ EndInv(e) /\ st[e] \in {"open", "flush"} /\ Peer(e) \in Ends
      /\ Peer(Peer(e)) = e /\ nextSeq[Peer(e)] \in Nat
      /\ UNCHANGED <<ordered, st, err, sendVars, appVars>>
  BY Zenon, PeerIs DEF ConnInv, ShapeInv, ReceiveData
<1>2. p.seq \in 1 .. nextSeq[Peer(e)] /\ p.msg = p.seq
  BY Zenon DEF ConnInv, PacketOK, ReceiveData
<1>3. p.seq # 0 /\ p.seq \in Nat
  BY SMTT(30), <1>1, <1>2
<1>4. net' = keep \cup {Ack(Peer(e), p.seq)}
      /\ IF st[e] = "open" THEN Accept(e, p.seq, p.msg) ELSE UNCHANGED recvVars
  BY Zenon, <1>3 DEF ReceiveData
<1>5. CASE st[e] = "open"
  BY Zenon, <1>1, <1>2, <1>4, <1>5, AcceptStep
<1>6. CASE st[e] = "flush"
  <2>1. ~Hears(e)
    BY Zenon, <1>1, <1>6 DEF Hears, EndInv
  <2>2. ASSUME NEW a, a = Ack(Peer(e), p.seq) PROVE PacketOK(a)
    <3>1. a.to = Peer(e) /\ a.typ = "Ack" /\ a.seq = p.seq
      BY Zenon, <2>2 DEF Ack
    <3>. QED  BY Zenon, <1>1, <1>3, <2>1, <3>1 DEF PacketOK
  <2>3. UNCHANGED recvVars /\ \A a \in net' : a \in net \/ PacketOK(a)
    BY Zenon, <1>4, <1>6, <2>2
  <2>. QED  BY Zenon, <1>1, <2>3, NetStep
<1>. QED  BY Zenon, <1>1, <1>5, <1>6

\* A packet arrives, with a copy left behind or not.
LEMMA ReceiveStep ==
  ASSUME NoWrap, ConnInv, NEW p \in net, Receive(p.to, p)
  PROVE  ConnInv'
<1>. DEFINE e == p.to
<1>1. e \in Ends
  BY Zenon DEF ConnInv, PacketOK
<1>2. PICK keep \in {net, net \ {p}} :
        ReceiveAck(e, p, keep) \/ ReceiveData(e, p, keep) \/ ReceiveClose(e, p, keep)
  BY Zenon DEF Receive
<1>3. keep \subseteq net
  BY Zenon
<1>4. CASE ReceiveAck(e, p, keep)
  <2>1. CASE p.seq \in DOMAIN sendBuf[e]
    BY Zenon, <1>1, <1>3, <1>4, <2>1, AckedStep
  <2>2. CASE p.seq \notin DOMAIN sendBuf[e]
    <3>1. UNCHANGED <<ordered, st, err, sendVars, recvVars, appVars>> /\ net' = keep
      BY Zenon, <1>4, <2>2 DEF ReceiveAck, sendVars
    <3>. QED  BY Zenon, <1>3, <3>1, NetStep
  <2>. QED  BY Zenon, <2>1, <2>2
<1>5. CASE ReceiveData(e, p, keep)
  BY Zenon, <1>1, <1>3, <1>5, ReceiveDataStep
<1>6. CASE ReceiveClose(e, p, keep)
  BY Zenon, <1>1, <1>3, <1>6, ReceiveCloseStep
<1>. QED  BY Zenon, <1>2, <1>4, <1>5, <1>6

-----------------------------------------------------------------------------
(* The invariant. *)

\* ConnInv holds initially.
LEMMA ConnInvInit ==
  ASSUME Init
  PROVE  ConnInv
<1>1. /\ Cardinality({}) = 0 /\ DOMAIN Empty = {} /\ Window \in Nat \ {0} /\ MaxWrites \in [Ends -> Nat]
      /\ <<>> \in Seq(Nat) /\ Len(<<>>) = 0
  BY SMTT(30), FS_EmptySet, ConnConstantsOK DEF Empty
<1>2. /\ \A e \in Ends : /\ st[e] = "open" /\ err[e] = "none" /\ told[e] = "none"
                         /\ written[e] = 0 /\ nextSeq[e] = 0 /\ next[e] = 1
                         /\ pending[e] = <<>> /\ deliverQ[e] = <<>> /\ got[e] = <<>>
                         /\ sendBuf[e] = Empty /\ held[e] = Empty
      /\ ordered \in BOOLEAN /\ net = {}
  BY Zenon, ConnConstantsOK DEF Init, Expect
<1>3. ShapeInv
  <2>1. sendBuf = [e \in Ends |-> sendBuf[e]] /\ held = [e \in Ends |-> held[e]]
    BY Zenon DEF Init, Expect
  <2>. QED  BY Zenon, <1>1, <1>2, <2>1 DEF ShapeInv, Init, Expect
<1>4. ASSUME NEW e \in Ends PROVE SendInv(e) /\ RecvInv(e) /\ EndInv(e) /\ AckInv(e)
  <2>1. Peer(e) \in Ends
    BY Zenon, PeerIs
  <2>2. Numbered(Empty, 1, 0) /\ Numbered(Empty, 2, 0) /\ InLine(0, <<>>) /\ Range(<<>>) = {}
    BY SMTT(30), <1>1 DEF Numbered, InLine, Range
  <2>3. SendInv(e)
    BY SMTT(30), <1>1, <1>2, <2>2 DEF SendInv
  <2>4. RecvInv(e)
    <3>1. next[e] \in 1 .. nextSeq[Peer(e)] + 1 /\ Len(got[e]) + Len(deliverQ[e]) = next[e] - 1
      <4>1. next[e] = 1 /\ nextSeq[Peer(e)] = 0 /\ Len(got[e]) = 0 /\ Len(deliverQ[e]) = 0
        BY <1>1, <1>2, <2>1, Zenon
      <4>. QED  BY SMTT(30), <4>1
    <3>2. InLine(0, got[e]) /\ InLine(Len(got[e]), deliverQ[e])
      BY Zenon, <1>1, <1>2, <2>2
    <3>3. Numbered(held[e], next[e] + 1, nextSeq[Peer(e)])
      BY SMTT(30), <1>2, <2>1, <2>2
    <3>4. Range(deliverQ[e]) \cup Range(got[e]) \subseteq 1 .. nextSeq[Peer(e)]
      BY Zenon, <1>2, <2>2
    <3>. QED  BY <3>1, <3>2, <3>3, <3>4, Zenon DEF RecvInv
  <2>5. EndInv(e)
    BY Zenon, <1>2 DEF EndInv
  <2>6. AckInv(e)
    BY SMTT(30), <1>2 DEF AckInv
  <2>. QED  BY Zenon, <2>3, <2>4, <2>5, <2>6
<1>. QED  BY <1>2, <1>3, <1>4, Zenon DEF ConnInv

\* Every step keeps ConnInv.
LEMMA ConnInvNext ==
  ASSUME NoWrap, ConnInv, [Next]_vars
  PROVE  ConnInv'
<1>1. ASSUME NEW e \in Ends, Write(e) PROVE ConnInv'
  BY Zenon, <1>1, WriteStep
<1>2. ASSUME NEW e \in Ends, Close(e) PROVE ConnInv'
  BY Zenon, <1>2, CloseStep
<1>3. ASSUME NEW e \in Ends, ReadMsg(e) PROVE ConnInv'
  BY Zenon, <1>3, ReadMsgStep
<1>4. ASSUME NEW e \in Ends, ReadErr(e) \/ StopDraining(e) PROVE ConnInv'
  BY Zenon, <1>4, DrainedStep
<1>5. ASSUME NEW e \in Ends, NEW expired, Tick(e, expired) PROVE ConnInv'
  BY Zenon, <1>5, TickStep
<1>6. ASSUME NEW p \in net, Lose(p) PROVE ConnInv'
  BY Zenon, <1>6, NetStep DEF Lose
<1>7. ASSUME NEW p \in net, Receive(p.to, p) PROVE ConnInv'
  BY Zenon, <1>7, ReceiveStep
<1>8. CASE UNCHANGED vars
  BY Zenon, <1>8, NetStep DEF vars
<1>. QED  BY <1>1, <1>2, <1>3, <1>4, <1>5, <1>6, <1>7, <1>8, Zenon DEF Next

\* ConnInv always holds while no number wraps.
LEMMA ConnInvAlways ==
  ASSUME NoWrap
  PROVE  Spec => []ConnInv
<1>1. Init => ConnInv
  BY Zenon, ConnInvInit
<1>2. ConnInv /\ [Next]_vars => ConnInv'
  BY Zenon, ConnInvNext
<1>. QED  BY <1>1, <1>2, PTL DEF Spec

-----------------------------------------------------------------------------
(* What follows from it. *)

\* An end in in-order mode has for Read, or has given to Read, everything before
\* the message it waits for.
LEMMA BeforeNext ==
  ASSUME ShapeInv, NEW e \in Ends, RecvInv(e), ordered, NEW m \in Nat \ {0}, m < next[e]
  PROVE  m \in Range(deliverQ[e]) \cup Range(got[e])
<1>. DEFINE g == got[e]
            q == deliverQ[e]
<1>1. Len(g) + Len(q) = next[e] - 1 /\ InLine(0, g) /\ InLine(Len(g), q)
  BY Zenon DEF RecvInv
<1>2. Len(g) \in Nat /\ Len(q) \in Nat /\ DOMAIN g = 1 .. Len(g) /\ DOMAIN q = 1 .. Len(q) /\ next[e] \in Nat
  BY Zenon, SeqLen DEF ShapeInv
<1>. HIDE DEF g, q
<1>3. CASE m <= Len(g)
  <2>1. m \in DOMAIN g /\ g[m] = 0 + m
    BY SMTT(30), <1>1, <1>2, <1>3 DEF InLine
  <2>2. m \in Range(g)
    BY SMTT(30), <2>1 DEF Range
  <2>. QED  BY Zenon, <2>2 DEF g
<1>4. CASE ~(m <= Len(g))
  <2>. DEFINE i == m - Len(g)
  <2>1. i \in 1 .. Len(q) /\ Len(g) + i = m
    BY SMTT(30), <1>1, <1>2, <1>4
  <2>. HIDE DEF i
  <2>2. i \in DOMAIN q /\ q[i] = m
    BY Zenon, <1>1, <1>2, <2>1 DEF InLine
  <2>3. m \in Range(q)
    BY Zenon, <2>2 DEF Range
  <2>. QED  BY Zenon, <2>3 DEF q
<1>. QED  BY Zenon, <1>3, <1>4

\* While an end is up or knows that its peer has gone, everything that the peer
\* has sent and no longer holds back has reached it.
LEMMA SentIsAccepted ==
  ASSUME ConnInv, NEW e \in Ends, Hears(Peer(e)),
         NEW m \in 1 .. nextSeq[e], m \notin DOMAIN sendBuf[e]
  PROVE  \/ m \in Range(deliverQ[Peer(e)]) \cup Range(got[Peer(e)])
         \/ ordered /\ m \in DOMAIN held[Peer(e)] /\ held[Peer(e)][m] = m
<1>1. Peer(e) \in Ends /\ ShapeInv /\ RecvInv(Peer(e)) /\ Accepted(Peer(e), m) /\ nextSeq[e] \in Nat
  BY Zenon, PeerIs DEF ConnInv, AckInv, ShapeInv
<1>2. m \in Nat \ {0}
  BY SMTT(30), <1>1
<1>3. CASE ordered /\ m < next[Peer(e)]
  BY Zenon, <1>1, <1>2, <1>3, BeforeNext
<1>4. CASE ordered /\ m \in DOMAIN held[Peer(e)]
  BY Zenon, <1>1, <1>4 DEF RecvInv, Numbered
<1>5. CASE ~ordered
  BY Zenon, <1>1, <1>5 DEF Accepted
<1>. QED  BY <1>1, <1>3, <1>4, <1>5, Zenon DEF Accepted

\* For a window of any size and any number of messages that does not exhaust the
\* sequence numbers: the send window is never exceeded, and no message waits in
\* pendingWrites while there is room (conn.go:204-215).
THEOREM WindowIsFilled ==
  ASSUME NoWrap
  PROVE  Spec => []BacklogOnlyWhenFull
<1>1. ConnInv => BacklogOnlyWhenFull
  BY Zenon DEF ConnInv, SendInv, BacklogOnlyWhenFull
<1>. QED  BY <1>1, ConnInvAlways, PTL

\* In in-order mode Read returns the k-th message the peer wrote as its k-th
\* result, whatever the network loses, repeats and reorders (ordered.go).
THEOREM ReadInOrder ==
  ASSUME NoWrap
  PROVE  Spec => []InOrder
<1>1. ConnInv => InOrder
  <2>. SUFFICES ASSUME ConnInv, ordered, NEW e \in Ends, NEW i \in 1 .. Len(got[e])
                PROVE  got[e][i] = i
    BY Zenon DEF InOrder
  <2>1. got[e] \in Seq(Nat) /\ InLine(0, got[e])
    BY Zenon DEF ConnInv, ShapeInv, RecvInv
  <2>2. got[e][i] = 0 + i /\ Len(got[e]) \in Nat
    BY Zenon, <2>1, SeqLen DEF InLine
  <2>. QED  BY SMTT(30), <2>2
<1>. QED  BY <1>1, ConnInvAlways, PTL

\* While both ends are up, every message written is queued, unacknowledged, or
\* has reached the peer: an acknowledgement never stands for a message that the
\* peer has not taken (conn.go, params.go:3-13).
THEOREM NothingIsLost ==
  ASSUME NoWrap
  PROVE  Spec => []AtLeastOnce
<1>1. ConnInv => AtLeastOnce
  <2>. SUFFICES ASSUME ConnInv, NEW e \in Ends, st[Peer(e)] = "open", NEW m \in 1 .. written[e]
                PROVE  m \in Range(pending[e]) \/ InBuf(e, m) \/ Delivered(Peer(e), m) \/ Held(Peer(e), m)
    BY Zenon DEF AtLeastOnce
  <2>1. /\ pending[e] \in Seq(Nat) /\ written[e] = nextSeq[e] + Len(pending[e])
        /\ InLine(nextSeq[e], pending[e]) /\ Numbered(sendBuf[e], 1, nextSeq[e])
        /\ nextSeq[e] \in Nat /\ Hears(Peer(e))
    BY Zenon DEF ConnInv, ShapeInv, SendInv, Hears
  <2>2. Len(pending[e]) \in Nat /\ DOMAIN pending[e] = 1 .. Len(pending[e])
    BY Zenon, <2>1, SeqLen
  <2>3. CASE m > nextSeq[e]
    <3>. DEFINE i == m - nextSeq[e]
    <3>1. i \in 1 .. Len(pending[e]) /\ nextSeq[e] + i = m
      BY SMTT(30), <2>1, <2>2, <2>3
    <3>. HIDE DEF i
    <3>2. i \in DOMAIN pending[e] /\ pending[e][i] = m
      BY Zenon, <2>1, <2>2, <3>1 DEF InLine
    <3>. QED  BY Zenon, <3>2 DEF Range
  <2>4. CASE m \in DOMAIN sendBuf[e]
    BY Zenon, <2>1, <2>4 DEF Numbered, InBuf
  <2>5. CASE ~(m > nextSeq[e]) /\ m \notin DOMAIN sendBuf[e]
    <3>1. m \in 1 .. nextSeq[e]
      BY SMTT(30), <2>1, <2>2, <2>5
    <3>. QED  BY <2>1, <2>5, <3>1, SentIsAccepted, Zenon DEF Delivered, Held
  <2>. QED  BY Zenon, <2>3, <2>4, <2>5
<1>. QED  BY <1>1, ConnInvAlways, PTL

-----------------------------------------------------------------------------
(* The contract. *)

\* Nothing that the contract speaks of changes.
LEMMA ContractStutter ==
  ASSUME UNCHANGED <<st, written, got, told>>
  PROVE  UNCHANGED Contract!vars
BY Zenon DEF Contract!vars, Range

\* An end stops, or one that had stopped goes on to stop.
LEMMA ContractLeave ==
  ASSUME ShapeInv, NEW e \in Ends, NEW s, s # "open", st' = [st EXCEPT ![e] = s],
         UNCHANGED <<written, got, told>>
  PROVE  [Contract!Next]_(Contract!vars)
<1>. DEFINE u == [f \in Ends |-> st[f] = "open"]
<1>1. DOMAIN st = Ends /\ st'[e] = s /\ \A f \in Ends \ {e} : st'[f] = st[f]
  BY Zenon DEF ShapeInv
<1>2. [f \in Ends |-> Range(got[f])]' = [f \in Ends |-> Range(got[f])]
  BY Zenon DEF Range
<1>3. CASE st[e] = "open"
  <2>1. u' = [u EXCEPT ![e] = FALSE]
    BY Zenon, <1>1
  <2>2. Contract!Leave(e)
    BY Zenon, <1>2, <1>3, <2>1 DEF Contract!Leave
  <2>. QED  BY Zenon, <2>2 DEF Contract!Next
<1>4. CASE st[e] # "open"
  <2>1. u' = u
    BY Zenon, <1>1, <1>4
  <2>. QED  BY Zenon, <1>2, <2>1 DEF Contract!vars
<1>. QED  BY Zenon, <1>3, <1>4

\* Write is a Write of the contract.
LEMMA ContractWrite ==
  ASSUME ShapeInv, NEW e \in Ends, Write(e)
  PROVE  [Contract!Next]_(Contract!vars)
<1>1. st' = st /\ got' = got /\ told' = told /\ written' = [written EXCEPT ![e] = @ + 1] /\ st[e] = "open"
  BY Zenon DEF Write, appVars
<1>2. [f \in Ends |-> Range(got[f])]' = [f \in Ends |-> Range(got[f])]
  BY Zenon, <1>1 DEF Range
<1>3. [f \in Ends |-> st[f] = "open"]' = [f \in Ends |-> st[f] = "open"]
  BY Zenon, <1>1
<1>4. Contract!Write(e)
  BY Zenon, <1>1, <1>2, <1>3 DEF Contract!Write
<1>. QED  BY Zenon, <1>4 DEF Contract!Next

\* Read returns a message that the peer wrote.
LEMMA ContractReadMsg ==
  ASSUME ConnInv, NEW e \in Ends, ReadMsg(e)
  PROVE  [Contract!Next]_(Contract!vars)
<1>. DEFINE q == deliverQ[e]
            g == got[e]
            m == Head(q)
            n == nextSeq[Peer(e)]
            u == [f \in Ends |-> st[f] = "open"]
            c == [f \in Ends |-> Range(got[f])]
<1>1. /\ st' = st /\ written' = written /\ told' = told /\ told[e] = "none" /\ q # <<>>
      /\ got' = [got EXCEPT ![e] = Returned(g, m)]
  BY Zenon DEF ConnInv, EndInv, ReadMsg, sendVars
<1>2. /\ ShapeInv /\ RecvInv(e) /\ q \in Seq(Nat) /\ g \in Seq(Nat) /\ DOMAIN got = Ends
      /\ Peer(e) \in Ends /\ n \in Nat /\ written[Peer(e)] \in Nat /\ next[e] \in Nat
      /\ SendInv(Peer(e)) /\ pending[Peer(e)] \in Seq(Nat)
  BY Zenon, PeerIs DEF ConnInv, ShapeInv
<1>3. m \in Nat /\ m \in Range(q) /\ Len(q) \in Nat \ {0} /\ m = q[1] /\ Len(g) \in Nat
  BY SMTT(30), <1>1, <1>2, RangeIs, SeqHeadTail, SeqEmpty, SeqLen
<1>4. n <= written[Peer(e)]
  <2>1. Len(pending[Peer(e)]) \in Nat /\ written[Peer(e)] = n + Len(pending[Peer(e)])
    BY Zenon, <1>2, SeqLen DEF SendInv
  <2>. HIDE DEF n
  <2>. QED  BY SMTT(30), <1>2, <2>1
<1>. HIDE DEF q, g, m, n
<1>5. m \in 1 .. n
  <2>1. CASE ordered
    <3>1. Len(g) + Len(q) = next[e] - 1 /\ InLine(Len(g), q) /\ next[e] \in 1 .. n + 1
      BY Zenon, <1>2, <2>1 DEF RecvInv, g, q, n
    <3>2. m = Len(g) + 1
      BY SMTT(30), <1>3, <3>1 DEF InLine
    <3>. QED  BY SMTT(30), <1>2, <1>3, <3>1, <3>2
  <2>2. CASE ~ordered
    <3>1. Range(q) \subseteq 1 .. n
      BY Zenon, <1>2, <2>2 DEF RecvInv, q, n
    <3>. QED  BY Zenon, <1>3, <3>1
  <2>. QED  BY Zenon, <2>1, <2>2
<1>6. m \in 1 .. written[Peer(e)]
  BY SMTT(30), <1>2, <1>4, <1>5
<1>7. Range(Returned(g, m)) = Range(g) \cup {m}
  <2>1. Range(Append(g, m)) = Range(g) \cup {m}
    BY Zenon, <1>2, <1>3, RangeIs
  <2>. QED  BY Zenon, <2>1 DEF Returned
<1>8. c' = [c EXCEPT ![e] = @ \cup {m}]
  <2>1. got'[e] = Returned(g, m) /\ \A f \in Ends \ {e} : got'[f] = got[f]
    BY Zenon, <1>1, <1>2
  <2>2. \A f \in Ends : Range(got'[f]) = IF f = e THEN Range(g) \cup {m} ELSE Range(got[f])
    BY <1>7, <2>1, Zenon
  <2>3. c' = [f \in Ends |-> Range(got'[f])]
    BY Zenon DEF Range
  <2>4. c[e] = Range(g) /\ DOMAIN c = Ends
    BY Zenon DEF g
  <2>. QED  BY <2>2, <2>3, <2>4, Zenon
<1>9. u' = u
  BY Zenon, <1>1
<1>. HIDE DEF u, c
<1>10. Contract!Peer(e) = Peer(e)
  BY Zenon DEF Contract!Peer, Peer
<1>11. Contract!Return(e)
  BY <1>1, <1>6, <1>8, <1>9, <1>10, Zenon DEF Contract!Return, u, c
<1>. QED  BY Zenon, <1>11 DEF Contract!Next

\* Read reports the end of the connection, "closed" only when it has returned
\* everything.
LEMMA ContractReadErr ==
  ASSUME ConnInv, NEW e \in Ends, ReadErr(e)
  PROVE  [Contract!Next]_(Contract!vars)
<1>. DEFINE f == Peer(e)
            u == [d \in Ends |-> st[d] = "open"]
            c == [d \in Ends |-> Range(got[d])]
<1>1. /\ st[e] = "drain" /\ deliverQ[e] = <<>> /\ written' = written /\ got' = got
      /\ told' = [told EXCEPT ![e] = err[e]] /\ st' = [st EXCEPT ![e] = "ended"]
      /\ told[e] = "none" /\ err[e] \in {"closed", "lost"} /\ DOMAIN st = Ends
  BY Zenon DEF ConnInv, ShapeInv, EndInv, ReadErr, sendVars
<1>2. c' = c
  BY Zenon, <1>1 DEF Range
<1>3. u' = u /\ ~u[e]
  BY Zenon, <1>1
<1>4. Contract!Peer(e) = f
  BY Zenon DEF Contract!Peer, Peer
<1>5. CASE err[e] = "lost"
  <2>. HIDE DEF u, c
  <2>1. Contract!Report(e)
    BY <1>1, <1>2, <1>3, <1>5, Zenon DEF Contract!Report, u, c
  <2>. QED  BY Zenon, <2>1 DEF Contract!Next
<1>6. CASE err[e] = "closed"
  <2>1. /\ ShapeInv /\ RecvInv(e) /\ SendInv(f) /\ Flushed(f) /\ f \in Ends /\ Peer(f) = e
        /\ nextSeq[f] \in Nat /\ written[f] \in Nat /\ next[e] \in Nat /\ got[e] \in Seq(Nat)
        /\ Hears(Peer(f)) /\ ordered \in BOOLEAN
    BY Zenon, <1>6, PeerIs DEF ConnInv, ShapeInv, EndInv, Hears
  <2>2. written[f] = nextSeq[f] /\ DOMAIN sendBuf[f] = {} /\ st[f] = "ended"
    <3>1. Len(pending[f]) = 0 /\ written[f] = nextSeq[f] + Len(pending[f])
      BY Zenon, <2>1 DEF Flushed, SendInv
    <3>. QED  BY SMTT(30), <2>1, <3>1 DEF Flushed
  <2>. HIDE DEF f
  <2>3. Range(deliverQ[e]) = {} /\ Len(deliverQ[e]) = 0
    BY SMTT(30), <1>1 DEF Range
  <2>4. \A m \in 1 .. nextSeq[f] : m \in Range(got[e]) \/ (ordered /\ m \in DOMAIN held[e])
    BY Zenon, <2>1, <2>2, <2>3, SentIsAccepted
  <2>5. \A m \in 1 .. nextSeq[f] : m \in Range(got[e])
    <3>1. CASE ordered
      <4>1. /\ Len(got[e]) = next[e] - 1 /\ InLine(0, got[e]) /\ Len(got[e]) \in Nat
            /\ next[e] \in 1 .. nextSeq[f] + 1 /\ next[e] \notin DOMAIN held[e]
        BY SMTT(30), <2>1, <2>3, <3>1, SeqLen DEF RecvInv, Numbered, f
      <4>2. next[e] \notin Range(got[e])
        BY SMTT(30), <2>1, <4>1, SeqLen DEF Range, InLine
      <4>3. next[e] = nextSeq[f] + 1
        BY SMTT(30), <2>1, <2>4, <4>1, <4>2
      <4>4. ASSUME NEW m \in 1 .. nextSeq[f] PROVE m \in Range(got[e])
        <5>1. m \in Nat \ {0} /\ m < next[e]
          BY SMTT(30), <2>1, <4>3
        <5>. QED  BY Zenon, <2>1, <2>3, <3>1, <5>1, BeforeNext
      <4>. QED  BY Zenon, <4>4
    <3>2. CASE ~ordered
      BY Zenon, <2>4, <3>2
    <3>. QED  BY Zenon, <3>1, <3>2
  <2>6. Range(got[e]) \subseteq 1 .. nextSeq[f]
    <3>1. CASE ordered
      <4>1. /\ InLine(0, got[e]) /\ Len(got[e]) = next[e] - 1 /\ Len(got[e]) \in Nat
            /\ DOMAIN got[e] = 1 .. Len(got[e]) /\ next[e] \in 1 .. nextSeq[f] + 1
        BY SMTT(30), <2>1, <2>3, <3>1, SeqLen DEF RecvInv, f
      <4>. QED  BY SMTT(30), <2>1, <4>1 DEF InLine, Range
    <3>2. CASE ~ordered
      BY Zenon, <2>1, <3>2 DEF RecvInv, f
    <3>. QED  BY Zenon, <3>1, <3>2
  <2>7. Range(got[e]) = 1 .. written[f]
    BY <2>2, <2>5, <2>6, Zenon
  <2>8. c[e] = 1 .. written[f] /\ ~u[f]
    BY Zenon, <2>1, <2>2, <2>7
  <2>. HIDE DEF u, c
  <2>9. Contract!Report(e)
    BY <1>1, <1>2, <1>3, <1>4, <1>6, <2>8, Zenon DEF Contract!Report, u, c
  <2>. QED  BY Zenon, <2>9 DEF Contract!Next
<1>. QED  BY Zenon, <1>1, <1>5, <1>6

\* A packet arrives.
LEMMA ContractReceive ==
  ASSUME ConnInv, NEW p \in net, Receive(p.to, p)
  PROVE  [Contract!Next]_(Contract!vars)
<1>. DEFINE e == p.to
<1>1. e \in Ends /\ ShapeInv /\ st[e] \in {"open", "flush", "drain", "ended"}
  BY Zenon DEF ConnInv, PacketOK, ShapeInv
<1>2. PICK keep \in {net, net \ {p}} :
        ReceiveAck(e, p, keep) \/ ReceiveData(e, p, keep) \/ ReceiveClose(e, p, keep)
  BY Zenon DEF Receive
<1>3. UNCHANGED <<written, got, told>>
  BY Zenon, <1>2 DEF ReceiveAck, ReceiveData, ReceiveClose, sendVars, appVars
<1>4. \/ st' = st
      \/ \E s : s # "open" /\ st' = [st EXCEPT ![e] = s]
  <2>1. CASE ReceiveAck(e, p, keep)
    <3>. DEFINE sb == Without(sendBuf[e], {p.seq})
                s == FlushedTo(e, st[e], sb, pending[e])
    <3>1. st' = st \/ st' = [st EXCEPT ![e] = s]
      BY Zenon, <2>1 DEF ReceiveAck
    <3>2. s = st[e] \/ s = "ended"
      BY Zenon DEF FlushedTo
    <3>3. [st EXCEPT ![e] = st[e]] = st
      BY Zenon, <1>1 DEF ShapeInv
    <3>. HIDE DEF s, e
    <3>4. "ended" # "open"
      BY Zenon
    <3>. QED  BY <3>1, <3>2, <3>3, <3>4, Zenon
  <2>2. CASE ReceiveData(e, p, keep)
    BY Zenon, <2>2 DEF ReceiveData
  <2>3. CASE ReceiveClose(e, p, keep)
    <3>. DEFINE s == IF st[e] = "open" THEN "drain" ELSE "ended"
    <3>1. st' = [st EXCEPT ![e] = s] /\ s # "open"
      BY Zenon, <2>3 DEF ReceiveClose
    <3>. QED  BY Zenon, <3>1
  <2>. QED  BY Zenon, <1>2, <2>1, <2>2, <2>3
<1>5. CASE st' = st
  BY Zenon, <1>3, <1>5, ContractStutter
<1>6. CASE \E s : s # "open" /\ st' = [st EXCEPT ![e] = s]
  <2>. HIDE DEF e
  <2>. QED  BY Zenon, <1>1, <1>3, <1>6, ContractLeave
<1>. QED  BY Zenon, <1>4, <1>5, <1>6

\* Every step of the connection is a step of its contract, or changes nothing
\* that the contract speaks of.
LEMMA ContractNext ==
  ASSUME ConnInv, [Next]_vars
  PROVE  [Contract!Next]_(Contract!vars)
<1>0. ShapeInv
  BY Zenon DEF ConnInv
<1>1. ASSUME NEW e \in Ends, Write(e) PROVE [Contract!Next]_(Contract!vars)
  BY Zenon, <1>0, <1>1, ContractWrite
<1>2. ASSUME NEW e \in Ends, Close(e) PROVE [Contract!Next]_(Contract!vars)
  <2>. DEFINE s == FlushedTo(e, "flush", sendBuf[e], pending[e])
  <2>1. st' = [st EXCEPT ![e] = s] /\ UNCHANGED <<written, got, told>> /\ s # "open"
    BY Zenon, <1>2 DEF Close, FlushedTo, appVars
  <2>. HIDE DEF s
  <2>. QED  BY Zenon, <1>0, <1>2, <2>1, ContractLeave
<1>3. ASSUME NEW e \in Ends, ReadMsg(e) PROVE [Contract!Next]_(Contract!vars)
  BY Zenon, <1>3, ContractReadMsg
<1>4. ASSUME NEW e \in Ends, ReadErr(e) PROVE [Contract!Next]_(Contract!vars)
  BY Zenon, <1>4, ContractReadErr
<1>5. ASSUME NEW e \in Ends, StopDraining(e) PROVE [Contract!Next]_(Contract!vars)
  <2>1. st' = [st EXCEPT ![e] = "ended"] /\ UNCHANGED <<written, got, told>> /\ "ended" # "open"
    BY Zenon, <1>5 DEF StopDraining, sendVars, appVars
  <2>. QED  BY Zenon, <1>0, <1>5, <2>1, ContractLeave
<1>6. ASSUME NEW e \in Ends, NEW expired, Tick(e, expired) PROVE [Contract!Next]_(Contract!vars)
  <2>. DEFINE s == IF st[e] = "open" THEN "drain" ELSE "ended"
  <2>1. UNCHANGED <<written, got, told>> /\ s # "open"
    BY Zenon, <1>6 DEF Tick, sendVars, appVars
  <2>2. CASE GivesUp(e)
    <3>1. st' = [st EXCEPT ![e] = s]
      BY Zenon, <1>6, <2>2 DEF Tick
    <3>. HIDE DEF s
    <3>. QED  BY Zenon, <1>0, <1>6, <2>1, <3>1, ContractLeave
  <2>3. CASE ~GivesUp(e)
    <3>1. st' = st
      BY Zenon, <1>0, <1>6, <2>3 DEF Tick, ShapeInv
    <3>. QED  BY Zenon, <2>1, <3>1, ContractStutter
  <2>. QED  BY Zenon, <2>2, <2>3
<1>7. ASSUME NEW p \in net, Lose(p) PROVE [Contract!Next]_(Contract!vars)
  BY Zenon, <1>7, ContractStutter DEF Lose, sendVars, appVars
<1>8. ASSUME NEW p \in net, Receive(p.to, p) PROVE [Contract!Next]_(Contract!vars)
  BY Zenon, <1>8, ContractReceive
<1>9. CASE UNCHANGED vars
  BY Zenon, <1>9, ContractStutter DEF vars, sendVars, appVars
<1>. QED
  BY <1>1, <1>2, <1>3, <1>4, <1>5, <1>6, <1>7, <1>8, <1>9, Zenon DEF Next

\* Both ends and the network between them implement the contract of the package,
\* for any window, any number of messages that does not exhaust the sequence
\* numbers, and any losses, repetitions and reorderings: Read returns only what
\* the peer wrote, and reports ErrConnClosed only after it has returned all of it
\* (conn.go, client.go:77-79).
THEOREM ContractImplemented ==
  ASSUME NoWrap
  PROVE  Spec => ImplementsContract
<1>1. Init => Contract!Init
  <2>1. ASSUME Init PROVE \A e \in Ends : st[e] = "open" /\ Range(got[e]) = {}
    BY SMTT(30), <2>1 DEF Init, Expect, Range
  <2>. QED  BY Zenon, <2>1 DEF Init, Expect, Contract!Init
<1>2. ConnInv /\ [Next]_vars => [Contract!Next]_(Contract!vars)
  BY Zenon, ContractNext
<1>. QED  BY <1>1, <1>2, ConnInvAlways, PTL DEF Spec, ImplementsContract, Contract!Spec
=============================================================================
