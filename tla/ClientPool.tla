----------------------------- MODULE ClientPool -----------------------------
(***************************************************************************)
(* The client pool of the ROS TCP/IP servers: the child process that       *)
(* rtserver forks to copy one stream of bytes, read from a pipe, to every  *)
(* attached client (src.bin/os/rtserver.1.5/{socket,connect,msgmem}.c; the *)
(* same three files are repeated in ipserver, rtmultiplex, fitacfserver    *)
(* and the real-time converters).                                          *)
(*                                                                         *)
(* One process runs the loop of procsocket(): select, accept, read the     *)
(* pipe into every output buffer, write the buffers, read the clients.     *)
(* Clients, the parent that feeds the pipe and SIGUSR1 act at any moment   *)
(* between two system calls of that loop.                                  *)
(*                                                                         *)
(* A byte is named by its position in the stream, so "which byte, after    *)
(* which" is all the model keeps of the data.  Input from a client is only *)
(* the fact that it is there: in_buf is filled and never read.  It is      *)
(* assumed that the connections of a slot send no more than BUF_SIZE bytes *)
(* between them (a client there is sends one byte at most): in_sze is not  *)
(* set back, and what msgmem.c:72-79 does beyond that is undefined.        *)
(***************************************************************************)
EXTENDS Integers, Sequences, FiniteSets

CONSTANTS
  ClientMax,  \* CLIENT_MAX, the length of client[]
  BufSize,    \* BUF_SIZE, the capacity of an output buffer
  Conn,       \* the connections clients may ever make
  NoSock,     \* the value -1 of client[i].sock
  MaxByte     \* bound: how many bytes the parent feeds in a behaviour

ASSUME ClientPoolAssumption ==
  /\ ClientMax \in Nat \ {0}
  /\ BufSize \in Nat \ {0}
  /\ MaxByte \in Nat
  /\ NoSock \notin Conn

Slot == 0 .. ClientMax - 1
Byte == 1 .. MaxByte

VARIABLES
  sock,     \* client[i].sock: the connection held by a slot, or NoSock
  outbuf,   \* client[i].out_buf, the out_sze bytes waiting to be written
  msgmax,   \* every loop over client[] runs to msgmax
  fd,       \* a connection as the kernel of the server sees it
  hup,      \* the connections whose client has closed its end
  talk,     \* the connections with unread input from the client
  written,  \* bytes the parent has put into the pipe
  taken,    \* bytes the loop has read from the pipe
  eof,      \* the parent has closed its end of the pipe
  pc, idx,  \* where the loop of procsocket() is, and in which slot
  fdset,    \* what select() found readable
  poll,     \* poll # 0: do not block in select()
  cnt,      \* the counter of writesock()
  runloop,  \* cleared by SIGUSR1
  last,     \* history: the last byte written to a connection
  acc,      \* history: the value of taken when a connection was accepted
  over      \* history: the connections whose buffer has overflowed

poolVars == <<sock, outbuf, msgmax>>
loopVars == <<pc, idx, fdset, poll, cnt>>
feedVars == <<written, taken, eof>>
peerVars == <<fd, hup, talk>>
histVars == <<last, acc, over>>
vars == <<poolVars, loopVars, feedVars, peerVars, histVars, runloop>>

FdState == {"idle", "queued", "open", "closed"}
PC == {"select", "open", "pipe", "write", "read", "closing", "done"}
-----------------------------------------------------------------------------
(* Helpers                                                                 *)

Occupied(i) == sock[i] # NoSock

\* A byte range read from the pipe: the n bytes after position a.
Chunk(a, n) == [j \in 1 .. n |-> a + j]

SmallerOf(a, b) == IF a < b THEN a ELSE b

\* writeraw(): how many of the oldest bytes must go before n fit.
Excess(buf, n) == IF n + Len(buf) > BufSize THEN n + Len(buf) - BufSize ELSE 0

\* Mutant: the overflow branch of writeraw() is missing.
PushWithoutDropping(buf, chunk) == buf \o chunk

\* Mutant: what goes is the newest of the old bytes.
PushKeepingOldest(buf, chunk) ==
  SubSeq(buf, 1, Len(buf) - Excess(buf, Len(chunk))) \o chunk

Push(buf, chunk) ==
  SubSeq(buf, Excess(buf, Len(chunk)) + 1, Len(buf)) \o chunk

\* FD_ZERO
NoneSet == [listen |-> FALSE, pipe |-> FALSE, conn |-> {}]

\* opensock(): its search for a closed slot stops at i, which may be msgmax.
SearchStopsAt(i) ==
  /\ i < msgmax => ~Occupied(i)
  /\ \A j \in 0 .. i - 1 : Occupied(j)

Readable ==
  [listen |-> \E k \in Conn : fd[k] = "queued",
   pipe   |-> eof \/ taken < written,
   conn   |-> {k \in hup \cup talk : \E i \in Slot : i < msgmax /\ sock[i] = k}]

AnyReadable == Readable.listen \/ Readable.pipe \/ Readable.conn # {}
-----------------------------------------------------------------------------
Init ==
  /\ sock = [i \in Slot |-> NoSock]
  /\ outbuf = [i \in Slot |-> <<>>]
  /\ msgmax = 0
  /\ fd = [k \in Conn |-> "idle"]
  /\ hup = {} /\ talk = {}
  /\ written = 0 /\ taken = 0 /\ eof = FALSE
  /\ pc = "select" /\ idx = 0 /\ cnt = 0
  /\ fdset = NoneSet
  /\ poll = FALSE /\ runloop = TRUE
  /\ last = [k \in Conn |-> 0]
  /\ acc = [k \in Conn |-> 0]
  /\ over = {}
-----------------------------------------------------------------------------
(* The environment: clients, the parent process, the signal.               *)

Connect(k) ==
  /\ fd[k] = "idle"
  /\ fd' = [fd EXCEPT ![k] = "queued"]
  /\ UNCHANGED <<poolVars, loopVars, feedVars, hup, talk, histVars, runloop>>

\* Hanging up while queued shows no earlier than just after accept().
HangUp(k) ==
  /\ fd[k] = "open" /\ k \notin hup
  /\ hup' = hup \cup {k}
  /\ UNCHANGED <<poolVars, loopVars, feedVars, fd, talk, histVars, runloop>>

\* Bound: at most one client has unread input at a time.
Talk(k) ==
  /\ fd[k] = "open" /\ k \notin hup /\ talk = {}
  /\ talk' = talk \cup {k}
  /\ UNCHANGED <<poolVars, loopVars, feedVars, fd, hup, histVars, runloop>>

\* The parent writes to the pipe (ConnexWriteIP on forkinet()'s pipeid[1]).
Feed ==
  /\ ~eof /\ written < MaxByte
  /\ written' = written + 1
  /\ UNCHANGED <<poolVars, loopVars, taken, eof, peerVars, histVars, runloop>>

ParentExit ==
  /\ ~eof
  /\ eof' = TRUE
  /\ UNCHANGED <<poolVars, loopVars, written, taken, peerVars, histVars, runloop>>

\* trap_reset(), the handler of SIGUSR1.  The flag it clears is looked at
\* after readsock(): a signal that comes earlier in the loop has the same
\* effect here, and one that interrupts select() is SelectInterrupted.
TrapReset ==
  /\ runloop /\ pc = "read"
  /\ runloop' = FALSE
  /\ UNCHANGED <<poolVars, loopVars, feedVars, peerVars, histVars>>
-----------------------------------------------------------------------------
(* The loop of procsocket().                                               *)

\* pollsock(): blocks for something to read, or only looks when poll is set.
Select ==
  /\ pc = "select"
  /\ poll \/ AnyReadable
  /\ fdset' = Readable
  /\ pc' = "open"
  /\ UNCHANGED <<poolVars, idx, poll, cnt, feedVars, peerVars, histVars, runloop>>

\* The signal comes while select() blocks: it fails with EINTR, and
\* "continue" goes to the test of runloop.
SelectInterrupted ==
  /\ pc = "select" /\ ~poll
  /\ runloop' = FALSE
  /\ pc' = "closing"
  /\ UNCHANGED <<poolVars, idx, fdset, poll, cnt, feedVars, peerVars, histVars>>

\* close() of a connection: nothing more is of interest about it.
Forget(k) ==
  /\ fd' = [fd EXCEPT ![k] = "closed"]
  /\ hup' = hup \ {k} /\ talk' = talk \ {k} /\ over' = over \ {k}
  /\ last' = [last EXCEPT ![k] = 0]
  /\ acc' = [acc EXCEPT ![k] = 0]

\* poll=0 follows opensock() whatever it did.  The three parts of fdset are each
\* looked at once, and not kept after that.
AfterOpen ==
  /\ pc' = "pipe"
  /\ poll' = FALSE
  /\ fdset' = [fdset EXCEPT !.listen = FALSE]
  /\ UNCHANGED <<idx, cnt, feedVars, runloop>>

NothingToOpen ==
  /\ pc = "open" /\ ~fdset.listen
  /\ AfterOpen
  /\ UNCHANGED <<poolVars, peerVars, histVars>>

\* The listening socket is readable and the search for a slot ends at i.
Opening(k, i) ==
  /\ pc = "open" /\ fdset.listen /\ fd[k] = "queued"
  /\ SearchStopsAt(i)
  /\ AfterOpen

Accept(k, i) ==
  /\ Opening(k, i) /\ i < ClientMax
  /\ sock' = [sock EXCEPT ![i] = k]
  /\ msgmax' = IF i = msgmax THEN msgmax + 1 ELSE msgmax
  /\ fd' = [fd EXCEPT ![k] = "open"]
  /\ acc' = [acc EXCEPT ![k] = taken]
  /\ UNCHANGED <<outbuf, hup, talk, last, over>>

\* accept() fails and leaves the request in the queue or loses it, or a
\* fcntl() fails and the new socket is closed at once.
AcceptFails(k, i) ==
  /\ Opening(k, i) /\ i < ClientMax
  /\ sock' = [sock EXCEPT ![i] = NoSock]
  /\ Forget(k) \/ UNCHANGED <<peerVars, histVars>>
  /\ UNCHANGED <<outbuf, msgmax>>

Refuse(k, i) ==
  /\ Opening(k, i) /\ i >= ClientMax
  /\ Forget(k) \/ UNCHANGED <<peerVars, histVars>>
  /\ UNCHANGED poolVars

\* Mutant: the loop of writeraw() ends one slot early.
WriteRawShort(chunk) ==
  /\ outbuf' = [i \in Slot |-> IF i < msgmax - 1 THEN Push(outbuf[i], chunk)
                                                 ELSE outbuf[i]]
  /\ over' = over

\* writeraw(): the test "sock !=0" is true of every slot, closed ones (-1)
\* included, so each slot below msgmax takes the chunk.
WriteRaw(chunk) ==
  /\ outbuf' = [i \in Slot |-> IF i < msgmax THEN Push(outbuf[i], chunk)
                                             ELSE outbuf[i]]
  /\ over' = over \cup {k \in Conn :
                 \E i \in Slot : /\ i < msgmax /\ sock[i] = k
                                 /\ Excess(outbuf[i], Len(chunk)) > 0}

StartWrite ==
  /\ pc' = "write" /\ idx' = 0 /\ cnt' = 0
  /\ fdset' = [fdset EXCEPT !.pipe = FALSE]

NothingInPipe ==
  /\ pc = "pipe" /\ ~fdset.pipe
  /\ StartWrite
  /\ UNCHANGED <<poolVars, poll, feedVars, peerVars, histVars, runloop>>

ReadPipe ==
  LET n == SmallerOf(written - taken, BufSize) IN
  /\ pc = "pipe" /\ fdset.pipe /\ n > 0
  /\ WriteRaw(Chunk(taken, n))
  /\ taken' = taken + n
  /\ StartWrite
  /\ UNCHANGED <<sock, msgmax, poll, written, eof, peerVars, last, acc, runloop>>

\* read() returned 0: the parent is gone, leave the loop.
PipeClosed ==
  /\ pc = "pipe" /\ fdset.pipe /\ written = taken
  /\ pc' = "closing"
  /\ UNCHANGED <<poolVars, idx, fdset, poll, cnt, feedVars, peerVars, histVars, runloop>>

\* Mutant: msgmax-- whichever slot is closed.
CloseSockShrinks(i) ==
  /\ Forget(sock[i])
  /\ sock' = [sock EXCEPT ![i] = NoSock]
  /\ msgmax' = msgmax - 1

CloseSock(i) ==
  /\ Forget(sock[i])
  /\ sock' = [sock EXCEPT ![i] = NoSock]
  /\ msgmax' = IF i = msgmax - 1 THEN msgmax - 1 ELSE msgmax

HasOutput(i) == Occupied(i) /\ outbuf[i] # <<>>

\* The loop of writesock() has come to slot i.
WriteTurn(i) ==
  /\ pc = "write" /\ idx <= i /\ i < msgmax /\ HasOutput(i)
  /\ \A j \in idx .. i - 1 : ~HasOutput(j)
  /\ idx' = i + 1
  /\ UNCHANGED <<pc, fdset, poll, feedVars, runloop>>

\* The socket buffer is full: "continue", and the client is not counted.
WriteWouldBlock(i) ==
  /\ WriteTurn(i)
  /\ UNCHANGED <<poolVars, cnt, peerVars, histVars>>

\* Mutant: the memmove() after write() is off by one.
WriteSomeOffByOne(i, n) ==
  /\ WriteTurn(i)
  /\ n <= Len(outbuf[i])
  /\ outbuf' = [outbuf EXCEPT ![i] = SubSeq(@, n, Len(@))]
  /\ last' = [last EXCEPT ![sock[i]] = outbuf[i][n]]
  /\ cnt' = cnt + 1
  /\ UNCHANGED <<sock, msgmax, peerVars, acc, over>>

WriteSome(i, n) ==
  /\ WriteTurn(i)
  /\ n <= Len(outbuf[i])
  /\ outbuf' = [outbuf EXCEPT ![i] = SubSeq(@, n + 1, Len(@))]
  /\ last' = [last EXCEPT ![sock[i]] = outbuf[i][n]]
  /\ cnt' = IF n < Len(outbuf[i]) THEN cnt + 1 ELSE cnt
  /\ UNCHANGED <<sock, msgmax, peerVars, acc, over>>

WriteFails(i) ==
  /\ WriteTurn(i)
  /\ sock[i] \in hup
  /\ CloseSock(i)
  /\ UNCHANGED <<outbuf, cnt>>

WriteScanned == pc = "write" /\ \A j \in Slot : idx <= j /\ j < msgmax => ~HasOutput(j)

WriteDone ==
  /\ WriteScanned
  /\ pc' = "read" /\ idx' = 0
  /\ poll' = (cnt # 0) /\ cnt' = 0
  /\ UNCHANGED <<poolVars, fdset, feedVars, peerVars, histVars, runloop>>

IsSet(i) == Occupied(i) /\ sock[i] \in fdset.conn

\* The loop of readsock() has come to slot i.
ReadTurn(i) ==
  /\ pc = "read" /\ idx <= i /\ i < msgmax /\ IsSet(i)
  /\ \A j \in idx .. i - 1 : ~IsSet(j)
  /\ idx' = i + 1
  /\ UNCHANGED <<pc, fdset, poll, cnt, feedVars, runloop>>

\* What there is goes to in_buf, where it fits by assumption.
ReadInput(i) ==
  /\ ReadTurn(i)
  /\ sock[i] \in talk
  /\ talk' = talk \ {sock[i]}
  /\ UNCHANGED <<poolVars, fd, hup, histVars>>

\* Mutant: the end of file on a client is not acted on.
ReadIgnoresEof(i) ==
  /\ ReadTurn(i)
  /\ sock[i] \in hup
  /\ UNCHANGED <<poolVars, peerVars, histVars>>

\* read() returned 0, or failed with another error than EAGAIN.
ReadClosed(i) ==
  /\ ReadTurn(i)
  /\ sock[i] \in hup
  /\ CloseSock(i)
  /\ UNCHANGED outbuf

ReadDone ==
  /\ pc = "read" /\ \A j \in Slot : idx <= j /\ j < msgmax => ~IsSet(j)
  /\ pc' = IF runloop THEN "select" ELSE "closing"
  /\ idx' = 0 /\ fdset' = NoneSet
  /\ UNCHANGED <<poolVars, poll, cnt, feedVars, peerVars, histVars, runloop>>

\* Mutant: the closing loop skips the last slot.
CloseAllButLast ==
  /\ pc = "closing"
  /\ fd' = [k \in Conn |->
              IF \E i \in Slot : i < msgmax - 1 /\ sock[i] = k THEN "closed" ELSE fd[k]]
  /\ pc' = "done"
  /\ UNCHANGED <<poolVars, idx, fdset, poll, cnt, feedVars, hup, talk, histVars, runloop>>

\* The end of procsocket(): close what the slots below msgmax hold, exit.
CloseAll ==
  /\ pc = "closing"
  /\ fd' = [k \in Conn |->
              IF \E i \in Slot : i < msgmax /\ sock[i] = k THEN "closed" ELSE fd[k]]
  /\ pc' = "done"
  /\ UNCHANGED <<poolVars, idx, fdset, poll, cnt, feedVars, hup, talk, histVars, runloop>>
-----------------------------------------------------------------------------
Environment ==
  \/ \E k \in Conn : Connect(k) \/ HangUp(k) \/ Talk(k)
  \/ Feed \/ ParentExit \/ TrapReset \/ SelectInterrupted

OpenSock ==
  \/ NothingToOpen
  \/ \E k \in Conn, i \in 0 .. msgmax :
       Accept(k, i) \/ AcceptFails(k, i) \/ Refuse(k, i)
PipeStep == NothingInPipe \/ ReadPipe \/ PipeClosed
WriteSock ==
  \/ \E i \in Slot : \/ WriteWouldBlock(i) \/ WriteFails(i)
                   \/ \E n \in 1 .. BufSize : WriteSome(i, n)
  \/ WriteDone
ReadSock == (\E i \in Slot : ReadInput(i) \/ ReadClosed(i)) \/ ReadDone

ProcSocket ==
  \/ Select \/ OpenSock \/ PipeStep
  \/ WriteSock \/ ReadSock \/ CloseAll

Exited == pc = "done" /\ UNCHANGED vars

Next == (pc # "done" /\ Environment) \/ ProcSocket \/ Exited

Spec == Init /\ [][Next]_vars

\* The operating system keeps running the child; nothing is assumed of the
\* clients, of the parent, of signals (a select() that blocks is not interrupted
\* unless one comes) or of the outcome of a system call.
FairSpec == Spec /\ WF_vars(ProcSocket)
-----------------------------------------------------------------------------
TypeOK ==
  /\ sock \in [Slot -> Conn \cup {NoSock}]
  /\ outbuf \in [Slot -> Seq(Byte)]
  /\ \A i \in Slot : Len(outbuf[i]) <= BufSize
  /\ msgmax \in 0 .. ClientMax
  /\ fd \in [Conn -> FdState]
  /\ hup \subseteq Conn /\ talk \subseteq Conn
  /\ written \in 0 .. MaxByte /\ taken \in 0 .. written /\ eof \in BOOLEAN
  /\ pc \in PC /\ idx \in 0 .. ClientMax /\ cnt \in 0 .. ClientMax
  /\ fdset \in [listen : BOOLEAN, pipe : BOOLEAN, conn : SUBSET Conn]
  /\ poll \in BOOLEAN /\ runloop \in BOOLEAN
  /\ last \in [Conn -> 0 .. MaxByte]
  /\ acc \in [Conn -> 0 .. MaxByte]
  /\ over \subseteq Conn

NoneBeyondMsgmax == \A i \in Slot : i >= msgmax => ~Occupied(i)

OneSlotEach == \A i, j \in Slot : Occupied(i) /\ sock[i] = sock[j] => i = j

OpenIffHeld == \A k \in Conn : fd[k] = "open" <=> \E i \in Slot : sock[i] = k

(***************************************************************************)
(* The loops over client[] stop at msgmax, and slots are reused from the   *)
(* bottom and given back only from the top.  No order of connections and   *)
(* hang-ups leaves a connection beyond msgmax, in two slots, or open in    *)
(* the kernel with no slot (connect.c:39-106).                             *)
(***************************************************************************)
SlotsTrackConnections ==
  /\ NoneBeyondMsgmax
  /\ OneSlotEach
  /\ pc # "done" => OpenIffHeld

\* A buffer holds bytes after lo, up to hi, in the order of the stream.
Ascending(buf, lo, hi) ==
  /\ \A m, n \in 1 .. Len(buf) : m < n => buf[m] < buf[n]
  /\ \A n \in 1 .. Len(buf) : lo < buf[n] /\ buf[n] <= hi

\* The last byte the client of slot i has been sent.
SentUpTo(i) == IF Occupied(i) THEN last[sock[i]] ELSE 0

(***************************************************************************)
(* Partial writes, overflows and reuse of a slot with what an earlier      *)
(* client left in it never make a connection receive a byte twice or after *)
(* a later one: a buffer is in stream order and lies beyond everything its *)
(* connection has been sent (msgmem.c:42-58 and 85-103).                   *)
(***************************************************************************)
StreamOrder == \A i \in Slot : Ascending(outbuf[i], SentUpTo(i), taken)

Holds(buf, b) == \E n \in 1 .. Len(buf) : buf[n] = b

(***************************************************************************)
(* A connection whose buffer never overflowed has lost nothing that came   *)
(* out of the pipe after it was accepted: the missing bytes are exactly    *)
(* those still in its buffer (msgmem.c:42-58 against connect.c:104).       *)
(***************************************************************************)
NoLossUnlessOverflow ==
  \A i \in Slot :
    Occupied(i) /\ sock[i] \notin over =>
      \A b \in Byte :
        acc[sock[i]] < b /\ last[sock[i]] < b /\ b <= taken => Holds(outbuf[i], b)

(***************************************************************************)
(* When the loop ends, for whatever reason and wherever the slots are, no  *)
(* accepted connection is left open (socket.c:166-168).                    *)
(***************************************************************************)
AllClosedAtExit == pc = "done" => \A k \in Conn : fd[k] # "open"

(***************************************************************************)
(* A client that hangs up is given up in the end, so that its slot can be  *)
(* used again: the loop never sleeps through the end of file of a client   *)
(* (socket.c:129-162, msgmem.c:66-70).                                     *)
(***************************************************************************)
HangUpReaped ==
  \A k \in Conn : (fd[k] = "open" /\ k \in hup) ~> (fd[k] = "closed")
-----------------------------------------------------------------------------
(* What the pool promises, without slots, loops and system calls.          *)

Elements(buf) == {buf[n] : n \in 1 .. Len(buf)}

\* The bytes that wait for a connection: the buffer of its slot.
Waiting(k) == UNION {Elements(outbuf[i]) : i \in {j \in Slot : sock[j] = k}}

Attachment ==
  [k \in Conn |-> CASE fd[k] = "open"   -> "yes"
                    [] fd[k] = "closed" -> "gone"
                    [] OTHER            -> "no"]
Pending == [k \in Conn |-> IF fd[k] = "open" THEN Waiting(k) ELSE {}]
Given == [k \in Conn |-> IF fd[k] = "open" THEN last[k] ELSE 0]

Stream == INSTANCE LossyStream WITH
  Client   <- Conn,
  Capacity <- BufSize,
  Length   <- MaxByte,
  produced <- taken,
  att      <- Attachment,
  pend     <- Pending,
  got      <- Given

(***************************************************************************)
(* The pool implements LossyStream: whatever the slots, the order of the   *)
(* loops and the results of the system calls, a client is given the newest *)
(* bytes that fit its buffer, each once and in order, from the chunk that  *)
(* comes next after it was accepted, and no other client has a part in it  *)
(* (socket.c:113-171, connect.c, msgmem.c).                                *)
(***************************************************************************)
RefinesLossyStream == Stream!Spec
=============================================================================
