---------------------------- MODULE LossyStream ----------------------------
(***************************************************************************)
(* What the servers promise of the stream they hand to several clients:    *)
(* one source produces bytes, each attached client has a buffer in which   *)
(* the newest bytes survive, and is given what is in it from the oldest    *)
(* on, in any portions and at any pace.  A slow client loses bytes, and    *)
(* only its own; no client holds up the source or another client.          *)
(*                                                                         *)
(* There are no slots, loops, sockets or system calls here.  A byte is its *)
(* position in the stream, and a buffer the set of the bytes in it.        *)
(***************************************************************************)
EXTENDS Integers, FiniteSets

CONSTANTS
  Client,    \* the clients there may ever be
  Capacity,  \* how many bytes a buffer holds
  Length     \* how many bytes the source produces at most

VARIABLES
  produced,  \* how many bytes the source has produced
  att,       \* "no" before a client is attached, "yes", and "gone" after it
  pend,      \* the bytes that wait for a client
  got        \* the last byte a client was given

vars == <<produced, att, pend, got>>

Attached(k) == att[k] = "yes"

\* Of the bytes in S, those that fit, the oldest given up first.
Newest(S) == {b \in S : Cardinality({c \in S : c > b}) < Capacity}

Init ==
  /\ produced = 0
  /\ att = [k \in Client |-> "no"]
  /\ pend = [k \in Client |-> {}]
  /\ got = [k \in Client |-> 0]

\* New bytes reach the buffers of all clients at once.
Produce(n) ==
  /\ produced + n <= Length
  /\ produced' = produced + n
  /\ pend' = [k \in Client |->
                IF Attached(k) THEN Newest(pend[k] \cup produced + 1 .. produced + n)
                               ELSE pend[k]]
  /\ UNCHANGED <<att, got>>

\* A client is given all that waits for it up to b.
Deliver(k, b) ==
  /\ Attached(k) /\ b \in pend[k]
  /\ got' = [got EXCEPT ![k] = b]
  /\ pend' = [pend EXCEPT ![k] = {c \in @ : c > b}]
  /\ UNCHANGED <<produced, att>>

\* A client may be given a part of the past first.
Attach(k) ==
  /\ att[k] = "no"
  /\ att' = [att EXCEPT ![k] = "yes"]
  /\ \E past \in SUBSET (1 .. produced) : pend' = [pend EXCEPT ![k] = past]
  /\ UNCHANGED <<produced, got>>

\* A client is turned away or hangs up, or the source leaves them all.
Leave(K) ==
  /\ UNCHANGED produced
  /\ att' = [k \in Client |-> IF k \in K THEN "gone" ELSE att[k]]
  /\ pend' = [k \in Client |-> IF k \in K THEN {} ELSE pend[k]]
  /\ got' = [k \in Client |-> IF k \in K THEN 0 ELSE got[k]]

\* Most steps of an implementation are of no account here.
Idle == UNCHANGED vars

Next ==
  \/ Idle
  \/ \E n \in 1 .. Length : Produce(n)
  \/ \E k \in Client : Attach(k) \/ Leave({k}) \/ \E b \in pend[k] : Deliver(k, b)
  \/ Leave({k \in Client : Attached(k)})

Spec == Init /\ [][Next]_vars
=============================================================================
