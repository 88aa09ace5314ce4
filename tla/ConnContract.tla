----------------------------- MODULE ConnContract -----------------------------
(***************************************************************************)
(* What package rudp promises its users (params.go:3-13 and the comments   *)
(* of Read, Write and Close): a message may be returned by Read in any     *)
(* order and more than once, but only if the peer wrote it, and Read       *)
(* reports that the peer closed the connection only after it has returned  *)
(* everything the peer wrote.  Nothing is promised of a connection that is *)
(* reported lost.                                                          *)
(***************************************************************************)
EXTENDS Integers

CONSTANT Ends

VARIABLES
  up,    \* the end takes Writes
  sent,  \* number of messages written
  rcvd,  \* set of messages returned by Read
  told   \* error returned by Read

vars == <<up, sent, rcvd, told>>

Peer(e) == CHOOSE f \in Ends : f # e

Init ==
  /\ up = [e \in Ends |-> TRUE] /\ sent = [e \in Ends |-> 0]
  /\ rcvd = [e \in Ends |-> {}] /\ told = [e \in Ends |-> "none"]

Write(e) ==
  /\ up[e] /\ sent' = [sent EXCEPT ![e] = @ + 1]
  /\ UNCHANGED <<up, rcvd, told>>

Return(e) ==
  /\ told[e] = "none"
  /\ \E m \in 1 .. sent[Peer(e)] : rcvd' = [rcvd EXCEPT ![e] = @ \cup {m}]
  /\ UNCHANGED <<up, sent, told>>

Leave(e) ==
  /\ up[e] /\ up' = [up EXCEPT ![e] = FALSE]
  /\ UNCHANGED <<sent, rcvd, told>>

Report(e) ==
  /\ ~up[e] /\ told[e] = "none"
  /\ \/ told' = [told EXCEPT ![e] = "lost"]
     \/ /\ ~up[Peer(e)] /\ rcvd[e] = 1 .. sent[Peer(e)]
        /\ told' = [told EXCEPT ![e] = "closed"]
  /\ UNCHANGED <<up, sent, rcvd>>

Next == \E e \in Ends : Write(e) \/ Return(e) \/ Leave(e) \/ Report(e)

Spec == Init /\ [][Next]_vars
=============================================================================
