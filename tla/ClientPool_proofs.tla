-------------------------- MODULE ClientPool_proofs --------------------------
(***************************************************************************)
(* What holds of the client pool for every number of slots, every buffer   *)
(* size, every set of connections and every length of the stream.          *)
(***************************************************************************)
EXTENDS ClientPool, SequenceTheorems, TLAPS

\* The counter of writesock() counts slots its loop has passed.
CountBound == pc = "write" => cnt <= idx

TypeInv == TypeOK /\ CountBound
-----------------------------------------------------------------------------
(* Buffers.                                                                *)

(***************************************************************************)
(* A chunk read from the pipe is a sequence of bytes (socket.c:148).       *)
(***************************************************************************)
LEMMA ChunkType ==
  ASSUME NEW a \in Nat, NEW n \in Nat, a + n <= MaxByte
  PROVE  /\ Chunk(a, n) \in Seq(Byte)
         /\ Len(Chunk(a, n)) = n
         /\ \A j \in 1 .. n : Chunk(a, n)[j] = a + j
<1>1. Chunk(a, n) = [j \in 1 .. n |-> a + j]
  BY DEF Chunk
<1>2. \A j \in 1 .. n : a + j \in Byte
  BY ClientPoolAssumption DEF ClientPoolAssumption, Byte
<1> QED
  BY <1>1, <1>2, IsASeq

(***************************************************************************)
(* Pushing a chunk keeps a buffer within its capacity: it drops as many of *)
(* the oldest bytes as it must and no more (msgmem.c:47-55).               *)
(***************************************************************************)
LEMMA PushProperties ==
  ASSUME NEW buf \in Seq(Byte), NEW chunk \in Seq(Byte),
         Len(buf) <= BufSize, Len(chunk) <= BufSize
  PROVE  LET kept == Len(buf) - Excess(buf, Len(chunk)) IN
         /\ Push(buf, chunk) \in Seq(Byte)
         /\ kept \in 0 .. Len(buf)
         /\ Len(Push(buf, chunk)) = kept + Len(chunk)
         /\ Len(Push(buf, chunk)) <= BufSize
         /\ \A j \in 1 .. kept :
              Push(buf, chunk)[j] = buf[j + Excess(buf, Len(chunk))]
         /\ \A j \in 1 .. Len(chunk) : Push(buf, chunk)[kept + j] = chunk[j]
<1> DEFINE e == Excess(buf, Len(chunk))
           keep == SubSeq(buf, e + 1, Len(buf))
<1>1. /\ Len(buf) \in Nat /\ Len(chunk) \in Nat /\ BufSize \in Nat
  BY ClientPoolAssumption, LenProperties DEF ClientPoolAssumption
<1>2. /\ e \in 0 .. Len(buf)
      /\ Len(buf) - e + Len(chunk) <= BufSize
  BY <1>1 DEF Excess
<1> HIDE DEF e
<1>3. /\ keep \in Seq(Byte)
      /\ Len(keep) = Len(buf) - e
      /\ \A j \in 1 .. Len(buf) - e : keep[j] = buf[j + e]
  <2>1. e + 1 \in 1 .. Len(buf) + 1 /\ Len(buf) \in e .. Len(buf)
    BY <1>1, <1>2
  <2>2. /\ keep \in Seq(Byte)
        /\ Len(keep) = IF e + 1 <= Len(buf) THEN Len(buf) - (e + 1) + 1 ELSE 0
        /\ \A j \in 1 .. Len(buf) - (e + 1) + 1 : keep[j] = buf[e + 1 + j - 1]
    BY <2>1, SubSeqProperties
  <2> HIDE DEF keep
  <2>3. Len(keep) = Len(buf) - e
    BY <2>2, <1>1, <1>2
  <2>4. ASSUME NEW j \in 1 .. Len(buf) - e
        PROVE  keep[j] = buf[j + e]
    <3>1. e + 1 + j - 1 = j + e /\ j \in 1 .. Len(buf) - (e + 1) + 1
      BY <1>1, <1>2
    <3> QED
      BY <2>2, <3>1
  <2> QED
    BY <2>2, <2>3, <2>4
<1> HIDE DEF keep
<1>4. Push(buf, chunk) = keep \o chunk
  BY DEF Push, keep, e
<1>5. /\ keep \o chunk \in Seq(Byte)
      /\ Len(keep \o chunk) = Len(keep) + Len(chunk)
      /\ \A j \in 1 .. Len(keep) + Len(chunk) :
           (keep \o chunk)[j] = IF j <= Len(keep) THEN keep[j] ELSE chunk[j - Len(keep)]
  BY <1>3, ConcatProperties
<1>6. /\ Push(buf, chunk) \in Seq(Byte)
      /\ Len(buf) - e \in 0 .. Len(buf)
      /\ Len(Push(buf, chunk)) = Len(buf) - e + Len(chunk)
      /\ Len(Push(buf, chunk)) <= BufSize
  BY <1>1, <1>2, <1>3, <1>4, <1>5
<1>7. ASSUME NEW j \in 1 .. Len(buf) - e
      PROVE  Push(buf, chunk)[j] = buf[j + e]
  <2>1. j \in 1 .. Len(keep) + Len(chunk) /\ j <= Len(keep)
    BY <1>1, <1>2, <1>3
  <2> QED
    BY <1>3, <1>4, <1>5, <2>1
<1>8. ASSUME NEW j \in 1 .. Len(chunk)
      PROVE  Push(buf, chunk)[Len(buf) - e + j] = chunk[j]
  <2> DEFINE cat == keep \o chunk
             at == Len(keep) + j
  <2>1. \A i \in 1 .. Len(keep) + Len(chunk) :
          cat[i] = IF i <= Len(keep) THEN keep[i] ELSE chunk[i - Len(keep)]
    BY <1>5
  <2>2. at \in 1 .. Len(keep) + Len(chunk) /\ ~(at <= Len(keep)) /\ at - Len(keep) = j
    BY <1>1, <1>2, <1>3
  <2>3. Push(buf, chunk) = cat /\ Len(buf) - e + j = at
    BY <1>3, <1>4, Zenon
  <2> HIDE DEF cat, at
  <2>4. cat[at] = chunk[j]
    BY <2>1, <2>2
  <2> QED
    BY <2>3, <2>4, Zenon
<1> QED
  BY <1>6, <1>7, <1>8, Zenon DEF e

(***************************************************************************)
(* Removing the n bytes a write() has taken (msgmem.c:96-98).              *)
(***************************************************************************)
LEMMA DropProperties ==
  ASSUME NEW buf \in Seq(Byte), NEW n \in 1 .. Len(buf)
  PROVE  LET rest == SubSeq(buf, n + 1, Len(buf)) IN
         /\ rest \in Seq(Byte)
         /\ Len(rest) = Len(buf) - n
         /\ \A j \in 1 .. Len(buf) - n : rest[j] = buf[j + n]
<1> DEFINE rest == SubSeq(buf, n + 1, Len(buf))
<1>1. n + 1 \in 1 .. Len(buf) + 1 /\ Len(buf) \in n .. Len(buf) /\ Len(buf) \in Nat
  BY LenProperties
<1>2. /\ rest \in Seq(Byte)
      /\ Len(rest) = IF n + 1 <= Len(buf) THEN Len(buf) - (n + 1) + 1 ELSE 0
      /\ \A j \in 1 .. Len(buf) - (n + 1) + 1 : rest[j] = buf[n + 1 + j - 1]
  BY <1>1, SubSeqProperties
<1> HIDE DEF rest
<1> SUFFICES /\ rest \in Seq(Byte)
             /\ Len(rest) = Len(buf) - n
             /\ \A j \in 1 .. Len(buf) - n : rest[j] = buf[j + n]
  BY DEF rest
<1> QED
  BY <1>1, <1>2
-----------------------------------------------------------------------------
(* Types.                                                                  *)

\* The steps that only move the loop on or change the environment.
LEMMA SimpleStepsKeepTypes ==
  ASSUME TypeInv,
         \/ \E k \in Conn : Connect(k) \/ HangUp(k) \/ Talk(k)
         \/ Feed \/ ParentExit \/ TrapReset
         \/ Select \/ SelectInterrupted \/ NothingToOpen
         \/ NothingInPipe \/ PipeClosed \/ WriteDone \/ ReadDone \/ CloseAll
  PROVE  TypeInv'
<1> USE ClientPoolAssumption DEF ClientPoolAssumption, TypeInv, TypeOK, CountBound,
      Slot, Byte, FdState, PC, poolVars, loopVars, feedVars, peerVars, histVars
<1>1. CASE \E k \in Conn : Connect(k)
  BY <1>1 DEF Connect
<1>2. CASE \E k \in Conn : HangUp(k)
  BY <1>2 DEF HangUp
<1>3. CASE \E k \in Conn : Talk(k)
  BY <1>3 DEF Talk
<1>4. CASE Feed
  BY <1>4 DEF Feed
<1>5. CASE ParentExit
  BY <1>5 DEF ParentExit
<1>6. CASE TrapReset
  BY <1>6 DEF TrapReset
<1>7. CASE Select
  <2>1. Readable \in [listen : BOOLEAN, pipe : BOOLEAN, conn : SUBSET Conn]
    BY DEF Readable
  <2> QED
    BY <1>7, <2>1 DEF Select
<1>8. CASE SelectInterrupted
  BY <1>8 DEF SelectInterrupted
<1>9. CASE NothingToOpen
  BY <1>9 DEF NothingToOpen, AfterOpen
<1>10. CASE NothingInPipe
  <2>1. /\ pc' = "write" /\ idx' = 0 /\ cnt' = 0
        /\ fdset' = [fdset EXCEPT !.pipe = FALSE]
        /\ UNCHANGED <<poolVars, poll, feedVars, peerVars, histVars, runloop>>
    BY <1>10 DEF NothingInPipe, StartWrite
  <2>2. fdset' \in [listen : BOOLEAN, pipe : BOOLEAN, conn : SUBSET Conn]
    BY <2>1
  <2>3. CountBound'
    BY <2>1
  <2>4. 0 \in 0 .. ClientMax
    OBVIOUS
  <2>5. pc' \in PC /\ idx' \in 0 .. ClientMax /\ cnt' \in 0 .. ClientMax
    BY <2>1, <2>4
  <2>6. taken' \in 0 .. written' /\ \A i \in Slot : Len(outbuf'[i]) <= BufSize
    BY <2>1
  <2>7. /\ sock' = sock /\ outbuf' = outbuf /\ msgmax' = msgmax /\ poll' = poll
        /\ written' = written /\ eof' = eof /\ fd' = fd /\ hup' = hup
        /\ talk' = talk /\ last' = last /\ acc' = acc /\ over' = over
        /\ runloop' = runloop
    BY <2>1
  <2> HIDE DEF PC, Slot, Byte, FdState
  <2>8. TypeOK'
    BY <2>2, <2>5, <2>6, <2>7
  <2> QED
    BY <2>3, <2>8
<1>11. CASE PipeClosed
  BY <1>11 DEF PipeClosed
<1>12. CASE WriteDone
  BY <1>12 DEF WriteDone
<1>13. CASE ReadDone
  BY <1>13 DEF ReadDone, NoneSet
<1>14. CASE CloseAll
  BY <1>14 DEF CloseAll
<1> QED
  BY <1>1, <1>2, <1>3, <1>4, <1>5, <1>6, <1>7, <1>8, <1>9, <1>10, <1>11,
     <1>12, <1>13, <1>14

\* close() of a connection keeps the types of what the server knows of it.
LEMMA ForgetKeepsTypes ==
  ASSUME TypeOK, NEW k \in Conn, Forget(k)
  PROVE  /\ fd' \in [Conn -> FdState]
         /\ hup' \subseteq Conn /\ talk' \subseteq Conn /\ over' \subseteq Conn
         /\ last' \in [Conn -> 0 .. MaxByte]
         /\ acc' \in [Conn -> 0 .. MaxByte]
  BY ClientPoolAssumption
  DEF ClientPoolAssumption, TypeOK, Forget, FdState

LEMMA OpenSockKeepsTypes ==
  ASSUME TypeInv, NEW k \in Conn, NEW i \in 0 .. msgmax,
         Accept(k, i) \/ AcceptFails(k, i) \/ Refuse(k, i)
  PROVE  TypeInv'
<1> USE ClientPoolAssumption DEF ClientPoolAssumption, TypeInv, TypeOK, CountBound,
      Slot, FdState, PC, Opening, AfterOpen, poolVars, feedVars, peerVars, histVars
<1>1. CASE Accept(k, i)
  <2>1. i \in Slot /\ msgmax' \in 0 .. ClientMax
    BY <1>1 DEF Accept
  <2>2. sock' \in [Slot -> Conn \cup {NoSock}] /\ fd' \in [Conn -> FdState]
    BY <1>1, <2>1 DEF Accept
  <2>3. taken \in 0 .. MaxByte /\ acc' \in [Conn -> 0 .. MaxByte]
    BY <1>1 DEF Accept
  <2> QED
    BY <1>1, <2>1, <2>2, <2>3 DEF Accept
<1>2. CASE AcceptFails(k, i)
  BY <1>2, ForgetKeepsTypes DEF AcceptFails
<1>3. CASE Refuse(k, i)
  BY <1>3, ForgetKeepsTypes DEF Refuse
<1> QED
  BY <1>1, <1>2, <1>3

\* What ReadPipe adds to the buffers is a chunk no larger than a buffer.
LEMMA ReadPipeChunk ==
  ASSUME TypeOK, ReadPipe
  PROVE  \E n \in 1 .. BufSize :
           /\ WriteRaw(Chunk(taken, n)) /\ taken' = taken + n
           /\ taken + n <= written
           /\ Chunk(taken, n) \in Seq(Byte) /\ Len(Chunk(taken, n)) = n
           /\ \A j \in 1 .. n : Chunk(taken, n)[j] = taken + j
<1> DEFINE n == SmallerOf(written - taken, BufSize)
<1>1. /\ n \in 1 .. BufSize /\ taken + n <= written
      /\ taken \in Nat /\ n \in Nat /\ taken + n <= MaxByte
  BY ClientPoolAssumption DEF ClientPoolAssumption, TypeOK, ReadPipe, SmallerOf
<1>2. WriteRaw(Chunk(taken, n)) /\ taken' = taken + n
  BY DEF ReadPipe
<1> HIDE DEF n
<1> QED
  BY <1>1, <1>2, ChunkType

LEMMA ReadPipeKeepsTypes ==
  ASSUME TypeInv, ReadPipe
  PROVE  TypeInv'
<1> USE ClientPoolAssumption DEF ClientPoolAssumption, TypeInv, CountBound
<1>1. PICK n \in 1 .. BufSize :
        /\ WriteRaw(Chunk(taken, n)) /\ taken' = taken + n
        /\ taken + n <= written
        /\ Chunk(taken, n) \in Seq(Byte) /\ Len(Chunk(taken, n)) = n
  BY ReadPipeChunk
<1>2. /\ outbuf' \in [Slot -> Seq(Byte)]
      /\ \A i \in Slot : Len(outbuf'[i]) <= BufSize
  <2>1. \A i \in Slot :
          /\ Push(outbuf[i], Chunk(taken, n)) \in Seq(Byte)
          /\ Len(Push(outbuf[i], Chunk(taken, n))) <= BufSize
    BY <1>1, PushProperties DEF TypeOK
  <2> QED
    BY <1>1, <2>1 DEF WriteRaw, TypeOK
<1>3. over' \subseteq Conn
  BY <1>1 DEF WriteRaw, TypeOK
<1>4. /\ taken' \in 0 .. written /\ written' = written
      /\ pc' = "write" /\ idx' = 0 /\ cnt' = 0
      /\ UNCHANGED <<sock, msgmax, poll, eof, fd, hup, talk, last, acc, runloop>>
  BY <1>1 DEF ReadPipe, StartWrite, TypeOK, peerVars
<1>5. fdset' = [fdset EXCEPT !.pipe = FALSE]
  BY DEF ReadPipe, StartWrite
<1>6. fdset' \in [listen : BOOLEAN, pipe : BOOLEAN, conn : SUBSET Conn]
  BY <1>5 DEF TypeOK
<1> QED
  BY <1>2, <1>3, <1>4, <1>6 DEF TypeOK, PC

LEMMA CloseSockKeepsTypes ==
  ASSUME TypeOK, NEW i \in Slot, Occupied(i), i < msgmax, CloseSock(i)
  PROVE  /\ sock' \in [Slot -> Conn \cup {NoSock}]
         /\ msgmax' \in 0 .. ClientMax
         /\ fd' \in [Conn -> FdState]
         /\ hup' \subseteq Conn /\ talk' \subseteq Conn /\ over' \subseteq Conn
         /\ last' \in [Conn -> 0 .. MaxByte]
         /\ acc' \in [Conn -> 0 .. MaxByte]
<1>1. sock[i] \in Conn /\ Forget(sock[i])
  BY DEF TypeOK, Occupied, CloseSock
<1>2. msgmax' \in 0 .. ClientMax /\ sock' \in [Slot -> Conn \cup {NoSock}]
  BY ClientPoolAssumption DEF ClientPoolAssumption, TypeOK, CloseSock, Slot
<1> QED
  BY <1>1, <1>2, ForgetKeepsTypes

LEMMA WriteSockKeepsTypes ==
  ASSUME TypeInv, NEW i \in Slot,
         \/ WriteWouldBlock(i) \/ WriteFails(i)
         \/ \E n \in 1 .. BufSize : WriteSome(i, n)
  PROVE  TypeInv'
<1>1. /\ WriteTurn(i) /\ Occupied(i)
      /\ pc = "write" /\ pc' = pc /\ i < msgmax
      /\ UNCHANGED <<fdset, poll, written, taken, eof, runloop>>
  BY DEF WriteWouldBlock, WriteFails, WriteSome, WriteTurn, HasOutput, feedVars
<1>2. idx' \in 0 .. ClientMax /\ idx' > idx /\ cnt <= idx /\ idx \in Nat
  BY <1>1, ClientPoolAssumption
  DEF ClientPoolAssumption, TypeInv, TypeOK, CountBound, WriteTurn, Slot
<1>3. CASE WriteWouldBlock(i)
  BY <1>1, <1>2, <1>3
  DEF WriteWouldBlock, TypeInv, TypeOK, CountBound, poolVars, peerVars, histVars
<1>4. CASE WriteFails(i)
  <2>1. CloseSock(i) /\ UNCHANGED <<outbuf, cnt>>
    BY <1>4 DEF WriteFails
  <2> QED
    BY <1>1, <1>2, <2>1, CloseSockKeepsTypes DEF TypeInv, TypeOK, CountBound
<1>5. CASE \E n \in 1 .. BufSize : WriteSome(i, n)
  <2>1. PICK n \in 1 .. BufSize : WriteSome(i, n)
    BY <1>5
  <2>2. /\ sock[i] \in Conn
        /\ outbuf[i] \in Seq(Byte) /\ Len(outbuf[i]) \in Nat
        /\ n \in 1 .. Len(outbuf[i]) /\ outbuf[i][n] \in Byte
    BY <1>1, <2>1, LenProperties, ElementOfSeq, ClientPoolAssumption
    DEF ClientPoolAssumption, WriteSome, TypeInv, TypeOK, Occupied
  <2>3. /\ outbuf' = [outbuf EXCEPT ![i] = SubSeq(@, n + 1, Len(@))]
        /\ SubSeq(outbuf[i], n + 1, Len(outbuf[i])) \in Seq(Byte)
        /\ Len(SubSeq(outbuf[i], n + 1, Len(outbuf[i]))) = Len(outbuf[i]) - n
    BY <2>1, <2>2, DropProperties DEF WriteSome
  <2>4. /\ outbuf' \in [Slot -> Seq(Byte)]
        /\ \A j \in Slot : Len(outbuf'[j]) <= BufSize
    BY <2>2, <2>3, ClientPoolAssumption DEF ClientPoolAssumption, TypeInv, TypeOK
  <2>5. last' \in [Conn -> 0 .. MaxByte]
    BY <2>1, <2>2 DEF WriteSome, TypeInv, TypeOK, Byte
  <2>6. cnt' \in 0 .. ClientMax /\ cnt' <= idx'
    <3>1. cnt' = cnt \/ cnt' = cnt + 1
      BY <2>1 DEF WriteSome
    <3>2. cnt \in Nat /\ ClientMax \in Nat
      BY ClientPoolAssumption DEF ClientPoolAssumption, TypeInv, TypeOK
    <3> QED
      BY <1>2, <3>1, <3>2
  <2>7. UNCHANGED <<sock, msgmax, fd, hup, talk, acc, over>>
    BY <2>1 DEF WriteSome, peerVars
  <2> QED
    BY <1>1, <1>2, <2>4, <2>5, <2>6, <2>7 DEF TypeInv, TypeOK, CountBound
<1> QED
  BY <1>3, <1>4, <1>5

LEMMA ReadSockKeepsTypes ==
  ASSUME TypeInv, NEW i \in Slot, ReadInput(i) \/ ReadClosed(i)
  PROVE  TypeInv'
<1>1. /\ ReadTurn(i) /\ Occupied(i) /\ i < msgmax
      /\ UNCHANGED <<pc, fdset, poll, cnt, written, taken, eof, runloop>>
  BY DEF ReadInput, ReadClosed, ReadTurn, IsSet, feedVars
<1>2. idx' \in 0 .. ClientMax /\ pc # "write"
  BY <1>1, ClientPoolAssumption
  DEF ClientPoolAssumption, TypeInv, TypeOK, ReadTurn, Slot
<1>3. CASE ReadInput(i)
  BY <1>1, <1>2, <1>3 DEF ReadInput, TypeInv, TypeOK, CountBound, poolVars, histVars
<1>4. CASE ReadClosed(i)
  <2>1. CloseSock(i) /\ UNCHANGED outbuf
    BY <1>4 DEF ReadClosed
  <2> QED
    BY <1>1, <1>2, <2>1, CloseSockKeepsTypes DEF TypeInv, TypeOK, CountBound
<1> QED
  BY <1>3, <1>4

\* The steps of Next, one line for each lemma above.
LEMMA StepCases ==
  ASSUME Next
  PROVE  \/ \/ \E k \in Conn : Connect(k) \/ HangUp(k) \/ Talk(k)
            \/ Feed \/ ParentExit \/ TrapReset
            \/ Select \/ SelectInterrupted \/ NothingToOpen
            \/ NothingInPipe \/ PipeClosed \/ WriteDone \/ ReadDone \/ CloseAll
         \/ \E k \in Conn, i \in 0 .. msgmax :
              Accept(k, i) \/ AcceptFails(k, i) \/ Refuse(k, i)
         \/ ReadPipe
         \/ \E i \in Slot : \/ WriteWouldBlock(i) \/ WriteFails(i)
                            \/ \E n \in 1 .. BufSize : WriteSome(i, n)
         \/ \E i \in Slot : ReadInput(i) \/ ReadClosed(i)
         \/ UNCHANGED vars
<1>1. CASE pc # "done" /\ Environment
  BY <1>1 DEF Environment
<1>2. CASE ProcSocket
  <2>1. CASE OpenSock
    BY <2>1 DEF OpenSock
  <2>2. CASE PipeStep
    BY <2>2 DEF PipeStep
  <2>3. CASE WriteSock
    BY <2>3 DEF WriteSock
  <2>4. CASE ReadSock
    BY <2>4 DEF ReadSock
  <2> QED
    BY <1>2, <2>1, <2>2, <2>3, <2>4 DEF ProcSocket
<1>3. CASE Exited
  BY <1>3 DEF Exited
<1> QED
  BY <1>1, <1>2, <1>3 DEF Next

LEMMA InitTypes == Init => TypeInv
<1> SUFFICES ASSUME Init PROVE TypeInv
  OBVIOUS
<1>1. outbuf \in [Slot -> Seq(Byte)] /\ \A i \in Slot : Len(outbuf[i]) <= BufSize
  BY EmptySeq, ClientPoolAssumption DEF ClientPoolAssumption, Init
<1>2. /\ sock \in [Slot -> Conn \cup {NoSock}] /\ msgmax \in 0 .. ClientMax
      /\ idx \in 0 .. ClientMax /\ cnt \in 0 .. ClientMax
      /\ written \in 0 .. MaxByte /\ taken \in 0 .. written
      /\ last \in [Conn -> 0 .. MaxByte] /\ acc \in [Conn -> 0 .. MaxByte]
  BY ClientPoolAssumption DEF ClientPoolAssumption, Init
<1>3. /\ fd \in [Conn -> FdState] /\ hup \subseteq Conn /\ talk \subseteq Conn
      /\ over \subseteq Conn /\ eof \in BOOLEAN /\ pc \in PC
      /\ poll \in BOOLEAN /\ runloop \in BOOLEAN
      /\ fdset \in [listen : BOOLEAN, pipe : BOOLEAN, conn : SUBSET Conn]
      /\ pc # "write"
  BY DEF Init, FdState, PC, NoneSet
<1> QED
  BY <1>1, <1>2, <1>3 DEF TypeInv, TypeOK, CountBound

LEMMA NextTypes == TypeInv /\ [Next]_vars => TypeInv'
<1> SUFFICES ASSUME TypeInv, [Next]_vars PROVE TypeInv'
  OBVIOUS
<1>1. CASE UNCHANGED vars
  BY <1>1 DEF vars, poolVars, loopVars, feedVars, peerVars, histVars,
     TypeInv, TypeOK, CountBound
<1>2. CASE Next
  BY <1>1, <1>2, StepCases, SimpleStepsKeepTypes, OpenSockKeepsTypes,
     ReadPipeKeepsTypes, WriteSockKeepsTypes, ReadSockKeepsTypes
<1> QED
  BY <1>1, <1>2

(***************************************************************************)
(* Every variable keeps its type: no slot is taken beyond client[], no     *)
(* buffer holds more than BUF_SIZE bytes, the counter of writesock() is at *)
(* most the number of slots (socket.h:14-24, msgmem.c:85-103).             *)
(***************************************************************************)
THEOREM TypeCorrect == Spec => []TypeOK
<1>1. TypeInv => TypeOK
  BY DEF TypeInv
<1> QED
  BY <1>1, InitTypes, NextTypes, PTL DEF Spec
-----------------------------------------------------------------------------
(* Slots.                                                                  *)

\* The steps that change no slot and neither open nor close a connection.
LEMMA SlotFrame ==
  ASSUME SlotsTrackConnections, UNCHANGED <<sock, msgmax>>,
         pc' # "done" => /\ pc # "done"
                         /\ \A k \in Conn : fd'[k] = "open" <=> fd[k] = "open"
  PROVE  SlotsTrackConnections'
  BY DEF SlotsTrackConnections, NoneBeyondMsgmax, OneSlotEach, OpenIffHeld, Occupied

LEMMA SimpleStepsKeepSlots ==
  ASSUME TypeInv, SlotsTrackConnections, pc # "done",
         \/ \E k \in Conn : Connect(k) \/ HangUp(k) \/ Talk(k)
         \/ Feed \/ ParentExit \/ TrapReset
         \/ Select \/ SelectInterrupted \/ NothingToOpen
         \/ NothingInPipe \/ PipeClosed \/ WriteDone \/ ReadDone \/ CloseAll
         \/ ReadPipe
         \/ \E i \in Slot : WriteWouldBlock(i) \/ ReadInput(i)
         \/ \E i \in Slot : \E n \in 1 .. BufSize : WriteSome(i, n)
  PROVE  SlotsTrackConnections'
<1>1. CASE \E k \in Conn : Connect(k)
  BY <1>1, SlotFrame DEF Connect, poolVars, loopVars, TypeInv, TypeOK
<1>2. CASE CloseAll
  BY <1>2, SlotFrame DEF CloseAll, poolVars
<1>3. CASE /\ ~ \E k \in Conn : Connect(k)
           /\ ~ CloseAll
  <2>1. UNCHANGED <<sock, msgmax, fd>>
    BY <1>3 DEF HangUp, Talk, Feed, ParentExit, TrapReset, Select,
       SelectInterrupted, NothingToOpen, NothingInPipe, PipeClosed, WriteDone,
       ReadDone, ReadPipe, WriteWouldBlock, ReadInput, WriteSome, poolVars, peerVars
  <2> QED
    BY <2>1, SlotFrame
<1> QED
  BY <1>1, <1>2, <1>3

LEMMA OpenSockKeepsSlots ==
  ASSUME TypeInv, SlotsTrackConnections, NEW k \in Conn, NEW i \in 0 .. msgmax,
         Accept(k, i) \/ AcceptFails(k, i) \/ Refuse(k, i)
  PROVE  SlotsTrackConnections'
<1>1. /\ pc = "open" /\ pc' = "pipe" /\ fd[k] = "queued"
      /\ SearchStopsAt(i) /\ msgmax \in 0 .. ClientMax /\ ClientMax \in Nat
      /\ OpenIffHeld
  BY ClientPoolAssumption
  DEF ClientPoolAssumption, Accept, AcceptFails, Refuse, Opening, AfterOpen,
      SlotsTrackConnections, TypeInv, TypeOK
<1>2. \A j \in Slot : sock[j] # k
  BY <1>1 DEF OpenIffHeld
<1>3. k # NoSock
  BY ClientPoolAssumption DEF ClientPoolAssumption
<1>4. CASE Accept(k, i)
  <2>1. /\ i \in Slot
        /\ sock' = [sock EXCEPT ![i] = k] /\ sock \in [Slot -> Conn \cup {NoSock}]
        /\ fd' = [fd EXCEPT ![k] = "open"] /\ fd \in [Conn -> FdState]
        /\ msgmax' = IF i = msgmax THEN msgmax + 1 ELSE msgmax
        /\ ~Occupied(i)
    BY <1>1, <1>4 DEF Accept, Slot, TypeInv, TypeOK, SearchStopsAt,
       SlotsTrackConnections, NoneBeyondMsgmax
  <2>2. NoneBeyondMsgmax'
    BY <1>1, <2>1 DEF SlotsTrackConnections, NoneBeyondMsgmax, Occupied, Slot
  <2>3. OneSlotEach'
    BY <1>2, <2>1 DEF SlotsTrackConnections, OneSlotEach, Occupied
  <2>4. OpenIffHeld'
    <3>1. ASSUME NEW c \in Conn
          PROVE  fd'[c] = "open" <=> \E j \in Slot : sock'[j] = c
      <4>1. CASE c = k
        BY <2>1, <4>1
      <4>2. CASE c # k
        <5>1. c # NoSock
          BY ClientPoolAssumption DEF ClientPoolAssumption
        <5>2. fd'[c] = fd[c] /\ \A j \in Slot : sock'[j] = c <=> sock[j] = c
          BY <2>1, <4>2, <5>1 DEF Occupied
        <5> QED
          BY <1>1, <5>2 DEF OpenIffHeld
      <4> QED
        BY <4>1, <4>2
    <3> QED
      BY <3>1 DEF OpenIffHeld
  <2> QED
    BY <2>2, <2>3, <2>4 DEF SlotsTrackConnections
<1>5. CASE AcceptFails(k, i) \/ Refuse(k, i)
  <2>1. sock' = sock /\ msgmax' = msgmax
    <3>1. CASE AcceptFails(k, i)
      <4>1. /\ i \in Slot /\ sock \in [Slot -> Conn \cup {NoSock}]
            /\ sock' = [sock EXCEPT ![i] = NoSock] /\ msgmax' = msgmax
        BY <1>1, <3>1 DEF AcceptFails, Slot, TypeInv, TypeOK
      <4>2. sock[i] = NoSock
        BY <1>1, <4>1 DEF SearchStopsAt, Occupied, SlotsTrackConnections, NoneBeyondMsgmax
      <4> QED
        BY <4>1, <4>2
    <3>2. CASE Refuse(k, i)
      BY <3>2 DEF Refuse, poolVars
    <3> QED
      BY <1>5, <3>1, <3>2
  <2>2. \A c \in Conn : fd'[c] = "open" <=> fd[c] = "open"
    BY <1>1, <1>5 DEF AcceptFails, Refuse, Forget, peerVars, TypeInv, TypeOK
  <2> QED
    BY <1>1, <2>1, <2>2, SlotFrame
<1> QED
  BY <1>4, <1>5

\* msgmax-- only when the top slot is given back leaves none beyond it.
LEMMA CloseSockKeepsSlots ==
  ASSUME TypeInv, SlotsTrackConnections, pc' = pc, pc # "done",
         NEW i \in Slot, Occupied(i), i < msgmax, CloseSock(i)
  PROVE  SlotsTrackConnections'
<1>1. /\ sock[i] \in Conn
      /\ sock' = [sock EXCEPT ![i] = NoSock] /\ sock \in [Slot -> Conn \cup {NoSock}]
      /\ fd' = [fd EXCEPT ![sock[i]] = "closed"] /\ fd \in [Conn -> FdState]
      /\ msgmax' = IF i = msgmax - 1 THEN msgmax - 1 ELSE msgmax
      /\ msgmax \in 0 .. ClientMax /\ ClientMax \in Nat /\ NoSock \notin Conn
  BY ClientPoolAssumption
  DEF ClientPoolAssumption, CloseSock, Forget, TypeInv, TypeOK, Occupied
<1>2. NoneBeyondMsgmax'
  BY <1>1 DEF SlotsTrackConnections, NoneBeyondMsgmax, Occupied, Slot
<1>3. OneSlotEach'
  BY <1>1 DEF SlotsTrackConnections, OneSlotEach, Occupied
<1>4. OpenIffHeld'
  <2>1. OpenIffHeld /\ OneSlotEach
    BY DEF SlotsTrackConnections
  <2>2. ASSUME NEW k \in Conn
        PROVE  fd'[k] = "open" <=> \E j \in Slot : sock'[j] = k
    <3>1. CASE k = sock[i]
      BY <1>1, <2>1, <3>1 DEF OneSlotEach, Occupied
    <3>2. CASE k # sock[i]
      BY <1>1, <2>1, <3>2 DEF OpenIffHeld
    <3> QED
      BY <3>1, <3>2
  <2> QED
    BY <2>2 DEF OpenIffHeld
<1> QED
  BY <1>2, <1>3, <1>4 DEF SlotsTrackConnections

\* A child that has exited does nothing more.
LEMMA DoneIsFinal ==
  ASSUME pc = "done", Next
  PROVE  UNCHANGED vars
  BY DEF Next, ProcSocket, OpenSock, PipeStep, WriteSock, ReadSock,
     Select, NothingToOpen, Accept, AcceptFails, Refuse,
     Opening, NothingInPipe, ReadPipe, PipeClosed, WriteWouldBlock, WriteFails,
     WriteSome, WriteTurn, WriteDone, WriteScanned, ReadInput, ReadClosed,
     ReadTurn, ReadDone, CloseAll, Exited

LEMMA NextSlots ==
  TypeInv /\ SlotsTrackConnections /\ [Next]_vars => SlotsTrackConnections'
<1> SUFFICES ASSUME TypeInv, SlotsTrackConnections, [Next]_vars
             PROVE  SlotsTrackConnections'
  OBVIOUS
<1>1. CASE UNCHANGED vars
  BY <1>1, SlotFrame DEF vars, poolVars, loopVars, peerVars
<1>2. ASSUME NEW i \in Slot, WriteFails(i) \/ ReadClosed(i)
      PROVE  SlotsTrackConnections'
  BY <1>2, CloseSockKeepsSlots
  DEF WriteFails, WriteTurn, HasOutput, ReadClosed, ReadTurn, IsSet
<1>3. CASE pc # "done" /\ Next
  BY <1>1, <1>2, <1>3, StepCases, SimpleStepsKeepSlots, OpenSockKeepsSlots
<1>4. CASE pc = "done" /\ Next
  BY <1>1, <1>4, DoneIsFinal
<1> QED
  BY <1>1, <1>3, <1>4

LEMMA InitSlots == Init => SlotsTrackConnections
  BY ClientPoolAssumption
  DEF ClientPoolAssumption, Init, SlotsTrackConnections, NoneBeyondMsgmax,
      OneSlotEach, OpenIffHeld, Occupied, Slot

(***************************************************************************)
(* For every number of slots and of clients, in every order of             *)
(* connections, hang-ups and failed calls: no slot at or beyond msgmax is  *)
(* held, no connection is held twice, and a connection is open in the      *)
(* kernel exactly when a slot holds it (connect.c:39-106).                 *)
(***************************************************************************)
THEOREM SlotsCorrect == Spec => []SlotsTrackConnections
<1>1. TypeInv /\ SlotsTrackConnections => SlotsTrackConnections
  OBVIOUS
<1> QED
  BY <1>1, InitTypes, NextTypes, InitSlots, NextSlots, PTL DEF Spec
-----------------------------------------------------------------------------
(* The stream.                                                             *)

\* A connection that is not open has been sent nothing (a slot may hand it
\* what an earlier client left), and nobody is sent what was not read.
SentSoFar ==
  /\ \A k \in Conn : last[k] <= taken
  /\ pc # "done" => \A k \in Conn : fd[k] # "open" => last[k] = 0

StreamInv == StreamOrder /\ SentSoFar

\* writeraw() appends what is later than all a buffer holds.
LEMMA PushAscends ==
  ASSUME NEW buf \in Seq(Byte), NEW lo \in Nat, NEW t \in Nat, NEW n \in 1 .. BufSize,
         Len(buf) <= BufSize, lo <= t, Ascending(buf, lo, t),
         Chunk(t, n) \in Seq(Byte), Len(Chunk(t, n)) = n,
         \A j \in 1 .. n : Chunk(t, n)[j] = t + j
  PROVE  Ascending(Push(buf, Chunk(t, n)), lo, t + n)
<1> DEFINE e == Excess(buf, n)
           kept == Len(buf) - e
           new == Push(buf, Chunk(t, n))
<1>1. /\ kept \in 0 .. Len(buf) /\ Len(new) = kept + n
      /\ \A j \in 1 .. kept : new[j] = buf[j + e]
      /\ \A j \in 1 .. n : new[kept + j] = Chunk(t, n)[j]
  <2>1. Len(Chunk(t, n)) <= BufSize
    BY ClientPoolAssumption DEF ClientPoolAssumption
  <2> DEFINE chunk == Chunk(t, n)
  <2>2. LET left == Len(buf) - Excess(buf, Len(chunk)) IN
        /\ left \in 0 .. Len(buf)
        /\ Len(Push(buf, chunk)) = left + Len(chunk)
        /\ \A j \in 1 .. left : Push(buf, chunk)[j] = buf[j + Excess(buf, Len(chunk))]
        /\ \A j \in 1 .. Len(chunk) : Push(buf, chunk)[left + j] = chunk[j]
    BY <2>1, PushProperties, Zenon
  <2> QED
    BY <2>2
<1>2. Len(buf) \in Nat /\ e \in Int /\ n \in Nat
  BY LenProperties, ClientPoolAssumption DEF ClientPoolAssumption, Excess
<1> HIDE DEF e, new
<1>3. \A j \in 1 .. Len(new) : \/ j \in 1 .. kept
                               \/ j - kept \in 1 .. n /\ new[j] = t + (j - kept)
  <2> TAKE j \in 1 .. Len(new)
  <2>1. CASE j <= kept
    BY <1>1, <1>2, <2>1
  <2>2. CASE j > kept
    <3>1. j - kept \in 1 .. n /\ kept + (j - kept) = j
      BY <1>1, <1>2, <2>2
    <3> QED
      BY <1>1, <3>1
  <2> QED
    BY <1>1, <1>2, <2>1, <2>2
<1>4. \A j \in 1 .. kept : j + e \in 1 .. Len(buf)
  <2>1. e >= 0 /\ kept + e = Len(buf)
    BY <1>1, <1>2
  <2> HIDE DEF kept
  <2> QED
    BY <1>1, <1>2, <2>1
<1>5. \A j \in 1 .. kept : new[j] \in Nat /\ lo < new[j] /\ new[j] <= t
  <2>1. \A m \in 1 .. Len(buf) : buf[m] \in Nat
    <3>1. \A m \in 1 .. Len(buf) : buf[m] \in Byte
      BY ElementOfSeq
    <3>2. Byte \subseteq Nat
      BY DEF Byte
    <3> QED
      BY <3>1, <3>2
  <2> QED
    BY <1>1, <1>4, <2>1 DEF Ascending
<1>6. ASSUME NEW j \in 1 .. Len(new)
      PROVE  lo < new[j] /\ new[j] <= t + n
  <2>1. CASE j \in 1 .. kept
    BY <1>2, <1>5, <2>1
  <2>2. CASE j - kept \in 1 .. n /\ new[j] = t + (j - kept)
    <3> HIDE DEF kept
    <3> QED
      BY <2>2
  <2> QED
    BY <1>3, <2>1, <2>2
<1>7. \A i, j \in 1 .. Len(new) : i < j => new[i] < new[j]
  <2> TAKE i, j \in 1 .. Len(new)
  <2> HAVE i < j
  <2>1. CASE i \in 1 .. kept /\ j \in 1 .. kept
    <3>1. /\ i + e \in 1 .. Len(buf) /\ j + e \in 1 .. Len(buf)
          /\ i + e < j + e
      BY <1>2, <1>4, <2>1
    <3> QED
      BY <1>1, <2>1, <3>1 DEF Ascending
  <2>2. CASE i \in 1 .. kept /\ j \notin 1 .. kept
    <3>1. new[i] \in Nat /\ new[i] <= t
      BY <1>5, <2>2
    <3>2. j - kept \in 1 .. n /\ new[j] = t + (j - kept)
      BY <1>3, <2>2
    <3>3. j - kept > 0
      BY <3>2
    <3> HIDE DEF kept
    <3>4. j - kept \in Int
      BY <3>2
    <3> QED
      BY <3>1, <3>2, <3>3, <3>4
  <2>3. CASE i \notin 1 .. kept
    <3>1. j \notin 1 .. kept /\ i \in Int /\ j \in Int
      BY <1>1, <1>2, <2>3
    <3>2. new[i] = t + (i - kept) /\ new[j] = t + (j - kept)
      BY <1>3, <2>3, <3>1
    <3> QED
      BY <1>2, <3>1, <3>2
  <2> QED
    BY <2>1, <2>2, <2>3
<1> QED
  BY <1>6, <1>7 DEF Ascending, new

\* writesock() leaves what is later than all it has written.
LEMMA DropAscends ==
  ASSUME NEW buf \in Seq(Byte), NEW n \in 1 .. Len(buf), NEW lo, NEW hi,
         Ascending(buf, lo, hi)
  PROVE  Ascending(SubSeq(buf, n + 1, Len(buf)), buf[n], hi)
<1> DEFINE rest == SubSeq(buf, n + 1, Len(buf))
<1>1. Len(buf) \in Nat
  BY LenProperties
<1>2. /\ Len(rest) = Len(buf) - n
      /\ \A j \in 1 .. Len(buf) - n : rest[j] = buf[j + n]
  BY DropProperties
<1> HIDE DEF rest
<1>3. \A j \in 1 .. Len(buf) - n : j + n \in 1 .. Len(buf) /\ n < j + n
  BY <1>1
<1> QED
  BY <1>1, <1>2, <1>3 DEF Ascending, rest

\* The steps that move no byte and forget no connection.
LEMMA StreamFrame ==
  ASSUME StreamInv, UNCHANGED <<sock, outbuf, taken, last>>,
         pc' # "done" => /\ pc # "done"
                         /\ \A k \in Conn : fd'[k] = "open" <=> fd[k] = "open"
  PROVE  StreamInv'
  BY DEF StreamInv, StreamOrder, SentSoFar, Ascending, SentUpTo, Occupied

LEMMA SimpleStepsKeepStream ==
  ASSUME TypeInv, StreamInv, pc # "done",
         \/ \E k \in Conn : Connect(k) \/ HangUp(k) \/ Talk(k)
         \/ Feed \/ ParentExit \/ TrapReset
         \/ Select \/ SelectInterrupted \/ NothingToOpen
         \/ NothingInPipe \/ PipeClosed \/ WriteDone \/ ReadDone \/ CloseAll
         \/ \E i \in Slot : WriteWouldBlock(i) \/ ReadInput(i)
  PROVE  StreamInv'
<1>1. CASE \E k \in Conn : Connect(k)
  BY <1>1, StreamFrame
  DEF Connect, poolVars, loopVars, feedVars, histVars, TypeInv, TypeOK
<1>2. CASE CloseAll
  BY <1>2, StreamFrame DEF CloseAll, poolVars, feedVars, histVars
<1>3. CASE /\ ~ \E k \in Conn : Connect(k)
           /\ ~ CloseAll
  <2>1. UNCHANGED <<sock, outbuf, taken, last, fd>>
    BY <1>3 DEF HangUp, Talk, Feed, ParentExit, TrapReset, Select,
       SelectInterrupted, NothingToOpen, AfterOpen, NothingInPipe, PipeClosed,
       WriteDone, ReadDone, WriteWouldBlock, WriteTurn, ReadInput, ReadTurn,
       poolVars, peerVars, feedVars, histVars
  <2> QED
    BY <2>1, StreamFrame
<1> QED
  BY <1>1, <1>2, <1>3

\* A connection is forgotten or accepted: nothing was sent to it, or nothing
\* is kept of it, and every other slot is as it was.
LEMMA SlotChangeKeepsStream ==
  ASSUME TypeInv, StreamInv, pc # "done", pc' # "done",
         NEW i \in Slot, NEW k \in Conn, last'[k] = 0,
         \A c \in Conn \ {k} : last'[c] = last[c] /\ (fd'[c] = "open" <=> fd[c] = "open"),
         UNCHANGED <<outbuf, taken>>,
         \A j \in Slot \ {i} : sock'[j] = sock[j],
         sock'[i] \in {k, NoSock} \/ sock'[i] = sock[i]
  PROVE  StreamInv'
<1> USE ClientPoolAssumption DEF ClientPoolAssumption
<1>1. taken \in Nat /\ \A c \in Conn : last[c] \in Nat /\ last[c] <= taken
  BY DEF TypeInv, TypeOK, StreamInv, SentSoFar
<1>2. SentSoFar'
  BY <1>1 DEF StreamInv, SentSoFar
<1>3. ASSUME NEW j \in Slot
      PROVE  Ascending(outbuf'[j], SentUpTo(j)', taken')
  <2>1. /\ outbuf'[j] = outbuf[j] /\ taken' = taken
        /\ Ascending(outbuf[j], SentUpTo(j), taken)
    BY DEF StreamInv, StreamOrder
  <2>2. \A n \in 1 .. Len(outbuf[j]) : outbuf[j][n] \in Nat /\ 0 < outbuf[j][n]
    <3>1. \A n \in 1 .. Len(outbuf[j]) : outbuf[j][n] \in Byte
      BY ElementOfSeq DEF TypeInv, TypeOK
    <3>2. \A b \in Byte : b \in Nat /\ 0 < b
      BY DEF Byte
    <3> QED
      BY <3>1, <3>2
  <2>3. SentUpTo(j)' = 0 \/ SentUpTo(j)' = SentUpTo(j)
    BY DEF SentUpTo, Occupied, TypeInv, TypeOK
  <2> QED
    BY <2>1, <2>2, <2>3 DEF Ascending
<1> QED
  BY <1>2, <1>3 DEF StreamInv, StreamOrder

LEMMA OpenSockKeepsStream ==
  ASSUME TypeInv, SlotsTrackConnections, StreamInv,
         NEW k \in Conn, NEW i \in 0 .. msgmax,
         Accept(k, i) \/ AcceptFails(k, i) \/ Refuse(k, i)
  PROVE  StreamInv'
<1> USE ClientPoolAssumption
    DEF ClientPoolAssumption, Opening, AfterOpen, poolVars, feedVars, peerVars, histVars
<1>1. /\ pc = "open" /\ pc' = "pipe" /\ UNCHANGED <<outbuf, taken>>
      /\ fd[k] = "queued" /\ last[k] = 0
      /\ last \in [Conn -> 0 .. MaxByte] /\ fd \in [Conn -> FdState]
      /\ sock \in [Slot -> Conn \cup {NoSock}]
  BY DEF Accept, AcceptFails, Refuse, StreamInv, SentSoFar, TypeInv, TypeOK
<1>2. 0 \in Slot
  BY DEF Slot
<1>3. CASE Accept(k, i)
  <2>1. /\ i \in Slot /\ sock' = [sock EXCEPT ![i] = k]
        /\ fd' = [fd EXCEPT ![k] = "open"] /\ last' = last
    BY <1>3 DEF Accept, Slot, TypeInv, TypeOK
  <2> QED
    BY <1>1, <2>1, SlotChangeKeepsStream
<1>4. CASE AcceptFails(k, i)
  <2>1. i \in Slot /\ sock' = [sock EXCEPT ![i] = NoSock]
    BY <1>4 DEF AcceptFails, Slot, TypeInv, TypeOK
  <2>2. /\ last'[k] = 0
        /\ \A c \in Conn \ {k} : last'[c] = last[c] /\ fd'[c] = fd[c]
    BY <1>1, <1>4 DEF AcceptFails, Forget
  <2> QED
    BY <1>1, <2>1, <2>2, SlotChangeKeepsStream
<1>5. CASE Refuse(k, i)
  <2>1. sock' = sock
    BY <1>5 DEF Refuse
  <2>2. /\ last'[k] = 0
        /\ \A c \in Conn \ {k} : last'[c] = last[c] /\ fd'[c] = fd[c]
    BY <1>1, <1>5 DEF Refuse, Forget
  <2> QED
    BY <1>1, <1>2, <2>1, <2>2, SlotChangeKeepsStream
<1> QED
  BY <1>3, <1>4, <1>5

LEMMA CloseSockKeepsStream ==
  ASSUME TypeInv, StreamInv, NEW i \in Slot, WriteFails(i) \/ ReadClosed(i)
  PROVE  StreamInv'
<1>1. /\ Occupied(i) /\ CloseSock(i) /\ pc # "done" /\ pc' # "done"
      /\ UNCHANGED <<outbuf, taken>>
  BY DEF WriteFails, WriteTurn, HasOutput, ReadClosed, ReadTurn, IsSet, feedVars
<1>2. /\ sock[i] \in Conn
      /\ sock' = [sock EXCEPT ![i] = NoSock]
      /\ fd' = [fd EXCEPT ![sock[i]] = "closed"]
      /\ last' = [last EXCEPT ![sock[i]] = 0]
      /\ sock \in [Slot -> Conn \cup {NoSock}]
      /\ fd \in [Conn -> FdState] /\ last \in [Conn -> 0 .. MaxByte]
  BY <1>1 DEF CloseSock, Forget, Occupied, TypeInv, TypeOK
<1> QED
  BY <1>1, <1>2, SlotChangeKeepsStream

LEMMA WriteSomeKeepsStream ==
  ASSUME TypeInv, SlotsTrackConnections, StreamInv,
         NEW i \in Slot, NEW n \in 1 .. BufSize, WriteSome(i, n)
  PROVE  StreamInv'
<1>1. /\ Occupied(i) /\ pc = "write" /\ pc' = pc
      /\ UNCHANGED <<sock, fd, taken>>
      /\ n <= Len(outbuf[i])
      /\ outbuf' = [outbuf EXCEPT ![i] = SubSeq(outbuf[i], n + 1, Len(outbuf[i]))]
      /\ last' = [last EXCEPT ![sock[i]] = outbuf[i][n]]
  BY DEF WriteSome, WriteTurn, HasOutput, feedVars, peerVars
<1>2. /\ outbuf \in [Slot -> Seq(Byte)] /\ outbuf[i] \in Seq(Byte)
      /\ last \in [Conn -> 0 .. MaxByte]
      /\ sock[i] \in Conn /\ \A j \in Slot : Occupied(j) => sock[j] \in Conn
  BY <1>1 DEF TypeInv, TypeOK, Occupied
<1>3. n \in 1 .. Len(outbuf[i])
  BY <1>1, <1>2, LenProperties, ClientPoolAssumption DEF ClientPoolAssumption
<1>4. /\ Ascending(outbuf[i], SentUpTo(i), taken)
      /\ outbuf[i][n] <= taken
  BY <1>3 DEF StreamInv, StreamOrder, Ascending
<1>5. /\ fd[sock[i]] = "open"
      /\ \A j \in Slot \ {i} : Occupied(j) => sock[j] # sock[i]
  BY <1>1, <1>2 DEF SlotsTrackConnections, OneSlotEach, OpenIffHeld
<1>6. SentSoFar'
  BY <1>1, <1>2, <1>4, <1>5 DEF StreamInv, SentSoFar
<1>7. Ascending(outbuf'[i], SentUpTo(i)', taken')
  <2>1. SentUpTo(i)' = outbuf[i][n]
    BY <1>1, <1>2 DEF SentUpTo, Occupied
  <2>2. Ascending(SubSeq(outbuf[i], n + 1, Len(outbuf[i])), outbuf[i][n], taken)
    BY <1>2, <1>3, <1>4, DropAscends
  <2> QED
    BY <1>1, <1>2, <2>1, <2>2
<1>8. ASSUME NEW j \in Slot \ {i}
      PROVE  Ascending(outbuf'[j], SentUpTo(j)', taken')
  <2>1. outbuf'[j] = outbuf[j] /\ SentUpTo(j)' = SentUpTo(j) /\ taken' = taken
    BY <1>1, <1>2, <1>5 DEF SentUpTo, Occupied
  <2> QED
    BY <2>1 DEF StreamInv, StreamOrder
<1> QED
  BY <1>6, <1>7, <1>8 DEF StreamInv, StreamOrder

LEMMA ReadPipeKeepsStream ==
  ASSUME TypeInv, StreamInv, ReadPipe
  PROVE  StreamInv'
<1>1. PICK n \in 1 .. BufSize :
        /\ WriteRaw(Chunk(taken, n)) /\ taken' = taken + n
        /\ Chunk(taken, n) \in Seq(Byte) /\ Len(Chunk(taken, n)) = n
        /\ \A j \in 1 .. n : Chunk(taken, n)[j] = taken + j
  BY ReadPipeChunk DEF TypeInv
<1>2. /\ UNCHANGED <<sock, fd, last>> /\ pc = "pipe" /\ pc' = "write"
      /\ taken \in Nat /\ n \in Nat
      /\ last \in [Conn -> 0 .. MaxByte]
  BY ClientPoolAssumption
  DEF ClientPoolAssumption, ReadPipe, StartWrite, peerVars, TypeInv, TypeOK
<1>3. SentSoFar'
  BY <1>1, <1>2 DEF StreamInv, SentSoFar
<1>4. ASSUME NEW i \in Slot
      PROVE  Ascending(outbuf'[i], SentUpTo(i)', taken')
  <2>1. /\ outbuf[i] \in Seq(Byte) /\ Len(outbuf[i]) <= BufSize
        /\ Len(outbuf[i]) \in Nat
        /\ Ascending(outbuf[i], SentUpTo(i), taken)
    BY LenProperties DEF TypeInv, TypeOK, StreamInv, StreamOrder
  <2>2. /\ SentUpTo(i) \in Nat /\ SentUpTo(i) <= taken
        /\ SentUpTo(i)' = SentUpTo(i)
    BY <1>2 DEF SentUpTo, Occupied, StreamInv, SentSoFar, TypeInv, TypeOK
  <2>3. CASE outbuf'[i] = Push(outbuf[i], Chunk(taken, n))
    BY <1>1, <1>2, <2>1, <2>2, <2>3, PushAscends
  <2>4. CASE outbuf'[i] = outbuf[i]
    <3>1. \A m \in 1 .. Len(outbuf[i]) : outbuf[i][m] \in Nat
      <4>1. \A m \in 1 .. Len(outbuf[i]) : outbuf[i][m] \in Byte
        BY <2>1, ElementOfSeq
      <4> QED
        BY <4>1 DEF Byte
    <3> QED
      BY <1>1, <1>2, <2>1, <2>2, <2>4, <3>1 DEF Ascending
  <2> QED
    BY <1>1, <2>3, <2>4 DEF WriteRaw
<1> QED
  BY <1>3, <1>4 DEF StreamInv, StreamOrder

LEMMA NextStream ==
  TypeInv /\ SlotsTrackConnections /\ StreamInv /\ [Next]_vars => StreamInv'
<1> SUFFICES ASSUME TypeInv, SlotsTrackConnections, StreamInv, [Next]_vars
             PROVE  StreamInv'
  OBVIOUS
<1>1. CASE UNCHANGED vars
  BY <1>1, StreamFrame DEF vars, poolVars, loopVars, peerVars, feedVars, histVars
<1>2. CASE pc # "done" /\ Next
  BY <1>1, <1>2, StepCases, SimpleStepsKeepStream, OpenSockKeepsStream,
     CloseSockKeepsStream, WriteSomeKeepsStream, ReadPipeKeepsStream
<1>3. CASE pc = "done" /\ Next
  BY <1>1, <1>3, DoneIsFinal
<1> QED
  BY <1>1, <1>2, <1>3

LEMMA InitStream == Init => StreamInv
<1> SUFFICES ASSUME Init PROVE StreamInv
  OBVIOUS
<1>1. \A i \in Slot : outbuf[i] = <<>> /\ Len(outbuf[i]) = 0
  BY DEF Init
<1> QED
  BY <1>1 DEF Init, StreamInv, StreamOrder, SentSoFar, Ascending

(***************************************************************************)
(* For every buffer size and every number of slots, whatever is written    *)
(* partially, dropped on overflow or left behind in a reused slot: no      *)
(* client receives a byte twice, or after a byte that is later in the      *)
(* stream (msgmem.c:42-58, msgmem.c:85-103).                               *)
(***************************************************************************)
THEOREM StreamCorrect == Spec => []StreamOrder
<1>1. StreamInv => StreamOrder
  BY DEF StreamInv
<1> QED
  BY <1>1, InitTypes, NextTypes, InitSlots, NextSlots, InitStream, NextStream,
     PTL DEF Spec
-----------------------------------------------------------------------------
(* The end of the loop.                                                    *)

\* Closing the slots below msgmax closes every open connection.
LEMMA CloseAllClosesAll ==
  ASSUME SlotsTrackConnections, TypeInv, CloseAll
  PROVE  AllClosedAtExit'
<1>1. /\ pc # "done"
      /\ fd' = [k \in Conn |-> IF \E i \in Slot : i < msgmax /\ sock[i] = k
                              THEN "closed" ELSE fd[k]]
  BY DEF CloseAll
<1>2. ASSUME NEW k \in Conn, fd[k] = "open"
      PROVE  \E i \in Slot : i < msgmax /\ sock[i] = k
  <2>1. PICK i \in Slot : sock[i] = k
    BY <1>1, <1>2 DEF SlotsTrackConnections, OpenIffHeld
  <2>2. Occupied(i) /\ i \in Int /\ msgmax \in Int
    BY <2>1, ClientPoolAssumption
    DEF ClientPoolAssumption, Occupied, Slot, TypeInv, TypeOK
  <2>3. i < msgmax
    BY <2>2 DEF SlotsTrackConnections, NoneBeyondMsgmax
  <2> QED
    BY <2>1, <2>3
<1> QED
  BY <1>1, <1>2 DEF AllClosedAtExit

LEMMA NextExit ==
  TypeInv /\ SlotsTrackConnections /\ AllClosedAtExit /\ [Next]_vars => AllClosedAtExit'
<1> SUFFICES ASSUME TypeInv, SlotsTrackConnections, AllClosedAtExit, [Next]_vars
             PROVE  AllClosedAtExit'
  OBVIOUS
<1>1. CASE UNCHANGED vars
  BY <1>1 DEF vars, loopVars, peerVars, AllClosedAtExit
<1>2. CASE CloseAll
  BY <1>2, CloseAllClosesAll
<1>3. CASE pc # "done" /\ Next /\ ~CloseAll
  <2>1. pc' # "done"
    BY <1>3 DEF Next, Environment, Connect, HangUp, Talk, Feed, ParentExit,
       TrapReset, ProcSocket, OpenSock, PipeStep, WriteSock, ReadSock,
       Select, SelectInterrupted, NothingToOpen, AfterOpen, Accept, AcceptFails,
       Refuse, Opening, NothingInPipe, StartWrite, ReadPipe, PipeClosed,
       WriteWouldBlock, WriteFails, WriteSome, WriteTurn, WriteDone, ReadInput,
       ReadClosed, ReadTurn, ReadDone, Exited, loopVars
  <2> QED
    BY <2>1 DEF AllClosedAtExit
<1>4. CASE pc = "done" /\ Next
  BY <1>1, <1>4, DoneIsFinal
<1> QED
  BY <1>1, <1>2, <1>3, <1>4

(***************************************************************************)
(* Whatever ends the loop, a signal or the end of the pipe, and whatever   *)
(* slots are in use, the server leaves no accepted connection open: no     *)
(* connection hides above msgmax (socket.c:166-168, connect.c:39-50).      *)
(***************************************************************************)
THEOREM ExitCorrect == Spec => []AllClosedAtExit
<1>1. Init => AllClosedAtExit
  BY DEF Init, AllClosedAtExit
<1> QED
  BY <1>1, InitTypes, NextTypes, InitSlots, NextSlots, NextExit, PTL DEF Spec
=============================================================================
