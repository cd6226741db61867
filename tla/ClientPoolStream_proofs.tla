----------------------- MODULE ClientPoolStream_proofs -----------------------
(***************************************************************************)
(* The pool of clients implements LossyStream, for every number of slots,  *)
(* every buffer size, every set of connections and every length of the     *)
(* stream, and loses nothing but by overflow.                              *)
(***************************************************************************)
EXTENDS ClientPool_proofs, FiniteSetTheorems, FunctionTheorems

\* What is used of the pool in each step.
PoolInv == TypeInv /\ SlotsTrackConnections /\ StreamInv
-----------------------------------------------------------------------------
(* Buffers as sets.                                                        *)

Strict(s) == \A m, n \in 1 .. Len(s) : m < n => s[m] < s[n]

(***************************************************************************)
(* In a buffer in the order of the stream as many bytes are later than the *)
(* j-th as there are behind it.                                            *)
(***************************************************************************)
LEMMA LaterCount ==
  ASSUME NEW s \in Seq(Byte), Strict(s), NEW j \in 1 .. Len(s)
  PROVE  Cardinality({c \in Elements(s) : c > s[j]}) = Len(s) - j
<1> DEFINE T == {c \in Elements(s) : c > s[j]}
           n == Len(s) - j
           f == [m \in 1 .. n |-> s[j + m]]
<1>1. Len(s) \in Nat /\ n \in Nat /\ \A m \in 1 .. Len(s) : s[m] \in Nat
  <2>1. \A m \in 1 .. Len(s) : s[m] \in Byte
    BY ElementOfSeq
  <2> QED
    BY <2>1, LenProperties DEF Byte
<1>2. \A m \in 1 .. n : j + m \in 1 .. Len(s) /\ j < j + m
  BY <1>1
<1>3. f \in [1 .. n -> T]
  BY <1>2 DEF Elements, Strict
<1>4. \A a, b \in 1 .. n : f[a] = f[b] => a = b
  <2> TAKE a, b \in 1 .. n
  <2>1. /\ j + a \in 1 .. Len(s) /\ j + b \in 1 .. Len(s)
        /\ f[a] = s[j + a] /\ f[b] = s[j + b]
    BY <1>2
  <2>2. s[j + a] \in Nat /\ s[j + b] \in Nat
    BY <1>1, <2>1
  <2>3. CASE a < b
    <3>1. j + a < j + b
      BY <2>3
    <3> QED
      BY <2>1, <2>2, <3>1 DEF Strict
  <2>4. CASE b < a
    <3>1. j + b < j + a
      BY <2>4
    <3> QED
      BY <2>1, <2>2, <3>1 DEF Strict
  <2> QED
    BY <2>3, <2>4
<1>5. \A t \in T : \E a \in 1 .. n : f[a] = t
  <2> TAKE t \in T
  <2>1. PICK m \in 1 .. Len(s) : t = s[m]
    BY DEF Elements
  <2>2. s[m] > s[j] /\ s[m] \in Nat /\ s[j] \in Nat
    BY <1>1, <2>1
  <2>3. j < m
    <3>1. CASE m < j
      BY <2>2, <3>1 DEF Strict
    <3>2. CASE m = j
      BY <2>2, <3>2
    <3> QED
      BY <1>1, <3>1, <3>2
  <2>4. m - j \in 1 .. n /\ j + (m - j) = m
    BY <1>1, <2>3
  <2> QED
    BY <2>1, <2>4
<1> HIDE DEF T, n, f
<1>6. f \in Bijection(1 .. n, T)
  BY <1>3, <1>4, <1>5, Fun_IsBij
<1>7. ExistsBijection(1 .. n, T)
  BY <1>6, Fun_ExistsBij
<1>8. Cardinality(T) = n
  BY <1>1, <1>7, FS_CountingElements
<1> QED
  BY <1>8 DEF T, n

(***************************************************************************)
(* The newest of the bytes in a buffer are those at its end, as many as    *)
(* fit (LossyStream against msgmem.c:47-55).                               *)
(***************************************************************************)
LEMMA NewestIsEnd ==
  ASSUME NEW s \in Seq(Byte), Strict(s)
  PROVE  Stream!Newest(Elements(s)) = {s[j] : j \in {m \in 1 .. Len(s) : Len(s) - m < BufSize}}
<1>1. \A j \in 1 .. Len(s) : s[j] \in Elements(s)
  BY DEF Elements
<1>2. \A j \in 1 .. Len(s) : Cardinality({c \in Elements(s) : c > s[j]}) = Len(s) - j
  BY LaterCount
<1>3. \A b \in Elements(s) : \E j \in 1 .. Len(s) : b = s[j]
  BY DEF Elements
<1>4. \A S : Stream!Cardinality(S) = Cardinality(S)
  BY DEF Stream!Cardinality, Cardinality
<1> QED
  BY <1>1, <1>2, <1>3, <1>4 DEF Stream!Newest

(***************************************************************************)
(* writeraw() leaves of a buffer and a chunk the newest bytes that fit     *)
(* (msgmem.c:47-55).                                                       *)
(***************************************************************************)
LEMMA PushIsNewest ==
  ASSUME NEW buf \in Seq(Byte), NEW t \in Nat, NEW n \in 1 .. BufSize, NEW lo \in Nat,
         Len(buf) <= BufSize, lo <= t, Ascending(buf, lo, t),
         Chunk(t, n) \in Seq(Byte), Len(Chunk(t, n)) = n,
         \A j \in 1 .. n : Chunk(t, n)[j] = t + j
  PROVE  Elements(Push(buf, Chunk(t, n))) = Stream!Newest(Elements(buf) \cup t + 1 .. t + n)
<1> DEFINE chunk == Chunk(t, n)
           full == buf \o chunk
           e == Excess(buf, n)
           M == Len(buf) + n
<1>1. /\ Len(buf) \in Nat /\ BufSize \in Nat /\ n \in Nat /\ Len(chunk) = n
      /\ e = (IF M > BufSize THEN M - BufSize ELSE 0)
      /\ e \in 0 .. Len(buf) /\ M \in Nat /\ Len(chunk) <= BufSize
  BY LenProperties, ClientPoolAssumption DEF ClientPoolAssumption, Excess
<1>2. /\ \A m \in 1 .. Len(buf) : buf[m] \in Nat /\ buf[m] <= t
      /\ \A m \in 1 .. n : chunk[m] \in Nat /\ chunk[m] = t + m
      /\ Byte \subseteq Nat
  <2>1. \A m \in 1 .. Len(buf) : buf[m] \in Byte
    BY ElementOfSeq
  <2> QED
    BY <2>1 DEF Byte, Ascending
<1>3. /\ full \in Seq(Byte) /\ Len(full) = M
      /\ \A m \in 1 .. M : full[m] = IF m <= Len(buf) THEN buf[m] ELSE chunk[m - Len(buf)]
  <2> HIDE DEF chunk
  <2>1. /\ buf \o chunk \in Seq(Byte) /\ Len(buf \o chunk) = Len(buf) + Len(chunk)
        /\ \A m \in 1 .. Len(buf) + Len(chunk) :
             (buf \o chunk)[m] = IF m <= Len(buf) THEN buf[m] ELSE chunk[m - Len(buf)]
    <3>1. chunk \in Seq(Byte)
      BY DEF chunk
    <3> QED
      BY <3>1, ConcatProperties
  <2> QED
    BY <1>1, <2>1
<1>4. /\ Len(Push(buf, chunk)) = M - e
      /\ \A j \in 1 .. Len(buf) - e : Push(buf, chunk)[j] = buf[j + e]
      /\ \A j \in 1 .. n : Push(buf, chunk)[Len(buf) - e + j] = chunk[j]
  <2> HIDE DEF chunk
  <2>1. chunk \in Seq(Byte) /\ Excess(buf, Len(chunk)) = e
    BY <1>1 DEF chunk
  <2> HIDE DEF e, M
  <2>2. LET kept == Len(buf) - Excess(buf, Len(chunk)) IN
        /\ Len(Push(buf, chunk)) = kept + Len(chunk)
        /\ \A j \in 1 .. kept : Push(buf, chunk)[j] = buf[j + Excess(buf, Len(chunk))]
        /\ \A j \in 1 .. Len(chunk) : Push(buf, chunk)[kept + j] = chunk[j]
    BY <1>1, <2>1, PushProperties, Zenon
  <2>3. /\ Len(Push(buf, chunk)) = Len(buf) - e + n
        /\ \A j \in 1 .. Len(buf) - e : Push(buf, chunk)[j] = buf[j + e]
        /\ \A j \in 1 .. n : Push(buf, chunk)[Len(buf) - e + j] = chunk[j]
    BY <1>1, <2>1, <2>2, Zenon
  <2>4. Len(buf) - e + n = M - e
    <3>1. Len(buf) \in Nat /\ n \in Nat /\ e \in Nat
      BY <1>1
    <3> QED
      BY <3>1 DEF M
  <2> QED
    BY <2>3, <2>4
<1> HIDE DEF chunk, full, e, M
<1>5. M = Len(buf) + n
  BY DEF M
<1>5a. Len(buf) \in Nat /\ e \in Nat /\ M \in Nat /\ n \in Nat /\ t \in Nat
  BY <1>1
<1>6. \A m \in 1 .. n : Len(buf) + m \in 1 .. M /\ full[Len(buf) + m] = t + m
  <2> TAKE m \in 1 .. n
  <2>1. PICK q : q = Len(buf) + m
    OBVIOUS
  <2>2. q \in 1 .. M /\ ~(q <= Len(buf)) /\ q - Len(buf) = m
    BY <1>5a, <1>5, <2>1
  <2>3. full[q] = chunk[m] /\ chunk[m] = t + m
    BY <1>2, <1>3, <2>2
  <2> QED
    BY <2>1, <2>2, <2>3
<1>7. \A m \in 1 .. Len(buf) : m \in 1 .. M /\ full[m] = buf[m]
  BY <1>1, <1>3, <1>5
<1>8. \A m \in 1 .. M : m \in 1 .. Len(buf) \/ m - Len(buf) \in 1 .. n
  BY <1>1, <1>5
<1>9. \A m \in 1 .. M : m \in Int /\ Len(buf) + (m - Len(buf)) = m
  BY <1>1
<1>10. Elements(full) = Elements(buf) \cup t + 1 .. t + n
  <2>1. Elements(full) \subseteq Elements(buf) \cup t + 1 .. t + n
    <3> SUFFICES ASSUME NEW m \in 1 .. M
                 PROVE  full[m] \in Elements(buf) \cup t + 1 .. t + n
      BY <1>3 DEF Elements
    <3>1. CASE m \in 1 .. Len(buf)
      BY <1>7, <3>1 DEF Elements
    <3>2. CASE m - Len(buf) \in 1 .. n
      <4>1. full[m] = t + (m - Len(buf))
        BY <1>6, <1>9, <3>2
      <4>2. \A i \in 1 .. n : t + i \in t + 1 .. t + n
        BY <1>1
      <4> QED
        BY <3>2, <4>1, <4>2
    <3> QED
      BY <1>8, <3>1, <3>2
  <2>2. Elements(buf) \subseteq Elements(full)
    BY <1>3, <1>7 DEF Elements
  <2>3. t + 1 .. t + n \subseteq Elements(full)
    <3> SUFFICES ASSUME NEW b \in t + 1 .. t + n
                 PROVE  b \in Elements(full)
      OBVIOUS
    <3>1. PICK m \in 1 .. n : t + m = b
      <4>1. b - t \in 1 .. n /\ t + (b - t) = b
        BY <1>5a
      <4> QED
        BY <4>1
    <3>2. Len(buf) + m \in 1 .. M /\ full[Len(buf) + m] = b
      BY <1>6, <3>1
    <3> QED
      BY <1>3, <3>2 DEF Elements
  <2> QED
    BY <2>1, <2>2, <2>3
<1>11. Strict(full)
  <2>1. ASSUME NEW a \in 1 .. M, NEW b \in 1 .. M, a < b
        PROVE  full[a] < full[b]
    <3>1. CASE a \in 1 .. Len(buf) /\ b \in 1 .. Len(buf)
      BY <1>7, <2>1, <3>1 DEF Ascending
    <3>2. CASE a \in 1 .. Len(buf) /\ b - Len(buf) \in 1 .. n
      <4>1. full[a] \in Nat /\ full[a] <= t
        BY <1>2, <1>7, <3>2
      <4>2. PICK m \in 1 .. n : Len(buf) + m = b
        BY <1>9, <3>2
      <4>3. full[b] = t + m
        BY <1>6, <4>2
      <4> QED
        BY <1>5a, <4>1, <4>3
    <3>3. CASE a - Len(buf) \in 1 .. n /\ b - Len(buf) \in 1 .. n
      <4>1. full[a] = t + (a - Len(buf)) /\ full[b] = t + (b - Len(buf))
        BY <1>6, <1>9, <3>3
      <4> QED
        BY <1>1, <2>1, <4>1
    <3>4. ~(a - Len(buf) \in 1 .. n /\ b \in 1 .. Len(buf))
      BY <1>1, <2>1
    <3> QED
      BY <1>8, <3>1, <3>2, <3>3, <3>4
  <2> QED
    BY <1>3, <2>1 DEF Strict
<1>12. \A m \in 1 .. M - e : /\ m + e \in 1 .. M
                             /\ Push(buf, chunk)[m] = full[m + e]
  <2> TAKE m \in 1 .. M - e
  <2>1. m + e \in 1 .. M
    BY <1>1
  <2>2. CASE m + e \in 1 .. Len(buf)
    <3>1. m \in 1 .. Len(buf) - e
      BY <1>1, <2>2
    <3> QED
      BY <1>4, <1>7, <2>1, <2>2, <3>1
  <2>3. CASE m + e - Len(buf) \in 1 .. n
    <3>1. PICK d \in 1 .. n : d = m + e - Len(buf)
      BY <2>3
    <3>2. Len(buf) - e + d = m /\ Len(buf) + d = m + e
      BY <1>5a, <3>1
    <3>3. Push(buf, chunk)[m] = chunk[d] /\ full[m + e] = t + d /\ chunk[d] = t + d
      BY <1>2, <1>4, <1>6, <3>2
    <3> QED
      BY <2>1, <3>3
  <2>4. m + e \in 1 .. Len(buf) \/ m + e - Len(buf) \in 1 .. n
    BY <1>5a, <1>5, <2>1
  <2> QED
    BY <2>2, <2>3, <2>4
<1>13. Elements(Push(buf, chunk)) = {full[j] : j \in {m \in 1 .. M : M - m < BufSize}}
  <2>1. \A m \in 1 .. M : M - m < BufSize => m - e \in 1 .. M - e /\ (m - e) + e = m
    BY <1>1
  <2>2. \A m \in 1 .. M - e : M - (m + e) < BufSize
    BY <1>1
  <2>3. Elements(Push(buf, chunk)) = {Push(buf, chunk)[m] : m \in 1 .. M - e}
    BY <1>4 DEF Elements
  <2>4. {Push(buf, chunk)[m] : m \in 1 .. M - e}
           \subseteq {full[j] : j \in {m \in 1 .. M : M - m < BufSize}}
    BY <1>12, <2>2
  <2>5. {full[j] : j \in {m \in 1 .. M : M - m < BufSize}}
           \subseteq {Push(buf, chunk)[m] : m \in 1 .. M - e}
    <3> SUFFICES ASSUME NEW j \in 1 .. M, M - j < BufSize
                 PROVE  \E m \in 1 .. M - e : full[j] = Push(buf, chunk)[m]
      OBVIOUS
    <3>1. j - e \in 1 .. M - e /\ (j - e) + e = j
      BY <2>1
    <3> QED
      BY <1>12, <3>1
  <2> QED
    BY <2>3, <2>4, <2>5
<1>14. Stream!Newest(Elements(full)) = {full[j] : j \in {m \in 1 .. M : M - m < BufSize}}
  BY <1>3, <1>11, NewestIsEnd
<1> QED
  BY <1>10, <1>13, <1>14 DEF chunk

(***************************************************************************)
(* What is left of a buffer after a write() of n bytes are the bytes later *)
(* than the last of them (msgmem.c:95-98).                                 *)
(***************************************************************************)
LEMMA DropIsLater ==
  ASSUME NEW buf \in Seq(Byte), NEW n \in 1 .. Len(buf), Strict(buf)
  PROVE  Elements(SubSeq(buf, n + 1, Len(buf))) = {c \in Elements(buf) : c > buf[n]}
<1> DEFINE rest == SubSeq(buf, n + 1, Len(buf))
<1>1. /\ Len(rest) = Len(buf) - n
      /\ \A j \in 1 .. Len(buf) - n : rest[j] = buf[j + n]
  BY DropProperties
<1>2. Len(buf) \in Nat /\ \A m \in 1 .. Len(buf) : buf[m] \in Nat
  <2>1. \A m \in 1 .. Len(buf) : buf[m] \in Byte
    BY ElementOfSeq
  <2> QED
    BY <2>1, LenProperties DEF Byte
<1> HIDE DEF rest
<1>3. \A j \in 1 .. Len(buf) - n : j + n \in 1 .. Len(buf) /\ n < j + n
  BY <1>2
<1>4. Elements(rest) \subseteq {c \in Elements(buf) : c > buf[n]}
  BY <1>1, <1>2, <1>3 DEF Elements, Strict
<1>5. ASSUME NEW m \in 1 .. Len(buf), buf[m] > buf[n]
      PROVE  buf[m] \in Elements(rest)
  <2>1. n < m
    <3>1. CASE m < n
      BY <1>2, <1>5, <3>1 DEF Strict
    <3>2. CASE m = n
      BY <1>2, <1>5, <3>2
    <3> QED
      BY <1>2, <3>1, <3>2
  <2>2. m - n \in 1 .. Len(buf) - n /\ (m - n) + n = m
    BY <1>2, <2>1
  <2> QED
    BY <1>1, <2>2 DEF Elements
<1> QED
  BY <1>4, <1>5 DEF Elements, rest
-----------------------------------------------------------------------------
(* No loss without overflow.                                               *)

\* The steps that leave to every slot that is held what it has.
LEMMA NoLossFrame ==
  ASSUME TypeInv, NoLossUnlessOverflow, taken' = taken,
         \A i \in Slot : Occupied(i)' =>
           /\ sock'[i] = sock[i] /\ outbuf'[i] = outbuf[i]
           /\ acc'[sock[i]] = acc[sock[i]] /\ last'[sock[i]] = last[sock[i]]
           /\ sock[i] \in over => sock[i] \in over'
  PROVE  NoLossUnlessOverflow'
<1> SUFFICES ASSUME NEW i \in Slot, Occupied(i)', sock'[i] \notin over',
                    NEW b \in Byte,
                    acc'[sock'[i]] < b, last'[sock'[i]] < b, b <= taken'
             PROVE  Holds(outbuf'[i], b)
  BY DEF NoLossUnlessOverflow
<1>1. /\ sock'[i] = sock[i] /\ outbuf'[i] = outbuf[i] /\ Occupied(i)
      /\ sock[i] \notin over /\ acc[sock[i]] < b /\ last[sock[i]] < b /\ b <= taken
  BY DEF Occupied
<1> QED
  BY <1>1 DEF NoLossUnlessOverflow

LEMMA SimpleStepsLoseNothing ==
  ASSUME TypeInv, NoLossUnlessOverflow,
         \/ \/ \E k \in Conn : Connect(k) \/ HangUp(k) \/ Talk(k)
            \/ Feed \/ ParentExit \/ TrapReset
            \/ Select \/ SelectInterrupted \/ NothingToOpen
            \/ NothingInPipe \/ PipeClosed \/ WriteDone \/ ReadDone \/ CloseAll
            \/ \E i \in Slot : WriteWouldBlock(i) \/ ReadInput(i)
         \/ UNCHANGED vars
  PROVE  NoLossUnlessOverflow'
<1>1. UNCHANGED <<sock, outbuf, taken, last, acc, over>>
  BY DEF Connect, HangUp, Talk, Feed, ParentExit, TrapReset, Select, CloseAll,
     SelectInterrupted, NothingToOpen, AfterOpen, NothingInPipe, PipeClosed,
     WriteDone, ReadDone, WriteWouldBlock, WriteTurn, ReadInput, ReadTurn,
     vars, poolVars, peerVars, feedVars, histVars
<1> QED
  BY <1>1, NoLossFrame

\* A connection is accepted with nothing to its credit yet; one that is
\* turned away or closed has no slot any more.
LEMMA OpenSockLosesNothing ==
  ASSUME TypeInv, SlotsTrackConnections, NoLossUnlessOverflow,
         NEW k \in Conn, NEW i \in 0 .. msgmax,
         Accept(k, i) \/ AcceptFails(k, i) \/ Refuse(k, i)
  PROVE  NoLossUnlessOverflow'
<1>1. /\ UNCHANGED <<outbuf, taken>> /\ fd[k] = "queued" /\ pc # "done"
      /\ sock \in [Slot -> Conn \cup {NoSock}] /\ acc \in [Conn -> 0 .. MaxByte]
      /\ last \in [Conn -> 0 .. MaxByte] /\ taken \in Nat
  BY ClientPoolAssumption
  DEF ClientPoolAssumption, Accept, AcceptFails, Refuse, Opening, AfterOpen,
      poolVars, feedVars, TypeInv, TypeOK
<1>2. \A j \in Slot : sock[j] # k
  BY <1>1 DEF SlotsTrackConnections, OpenIffHeld
<1>3. CASE Accept(k, i)
  <2>1. /\ sock' = [sock EXCEPT ![i] = k] /\ acc' = [acc EXCEPT ![k] = taken]
        /\ last' = last /\ over' = over
    BY <1>3 DEF Accept
  <2> SUFFICES ASSUME NEW j \in Slot, Occupied(j)', sock'[j] \notin over',
                      NEW b \in Byte,
                      acc'[sock'[j]] < b, last'[sock'[j]] < b, b <= taken'
               PROVE  Holds(outbuf'[j], b)
    BY DEF NoLossUnlessOverflow
  <2>2. CASE j = i
    <3>1. sock'[j] = k /\ acc'[k] = taken
      BY <1>1, <2>1, <2>2
    <3>2. b \in Nat
      BY DEF Byte
    <3> QED
      BY <1>1, <3>1, <3>2
  <2>3. CASE j # i
    <3>1. sock'[j] = sock[j] /\ Occupied(j) /\ sock[j] \in Conn \ {k}
      BY <1>1, <1>2, <2>1, <2>3 DEF Occupied
    <3>2. acc'[sock[j]] = acc[sock[j]]
      BY <1>1, <2>1, <3>1
    <3> QED
      BY <1>1, <2>1, <3>1, <3>2 DEF NoLossUnlessOverflow
  <2> QED
    BY <2>2, <2>3
<1>4. CASE AcceptFails(k, i) \/ Refuse(k, i)
  <2>1. Forget(k) \/ UNCHANGED <<last, acc, over>>
    BY <1>4 DEF AcceptFails, Refuse, histVars
  <2>2. \A c \in Conn \ {k} : /\ acc'[c] = acc[c] /\ last'[c] = last[c]
                              /\ c \in over => c \in over'
    BY <1>1, <2>1 DEF Forget
  <2>3. sock' = sock \/ sock' = [sock EXCEPT ![i] = NoSock]
    BY <1>4 DEF AcceptFails, Refuse, poolVars
  <2>4. \A j \in Slot : Occupied(j)' => sock'[j] = sock[j] /\ sock[j] \in Conn \ {k}
    BY <1>1, <1>2, <2>3 DEF Occupied
  <2> QED
    BY <1>1, <2>2, <2>4, NoLossFrame
<1> QED
  BY <1>3, <1>4

LEMMA CloseSockLosesNothing ==
  ASSUME TypeInv, SlotsTrackConnections, NoLossUnlessOverflow,
         NEW i \in Slot, WriteFails(i) \/ ReadClosed(i)
  PROVE  NoLossUnlessOverflow'
<1>1. /\ Occupied(i) /\ UNCHANGED <<outbuf, taken>>
      /\ Forget(sock[i]) /\ sock' = [sock EXCEPT ![i] = NoSock]
  BY DEF WriteFails, WriteTurn, HasOutput, ReadClosed, ReadTurn, IsSet,
     CloseSock, feedVars
<1>2. /\ sock[i] \in Conn /\ sock \in [Slot -> Conn \cup {NoSock}]
      /\ acc \in [Conn -> 0 .. MaxByte] /\ last \in [Conn -> 0 .. MaxByte]
  BY <1>1 DEF Occupied, TypeInv, TypeOK
<1>3. \A j \in Slot : Occupied(j)' => /\ j # i /\ sock'[j] = sock[j]
                                     /\ sock[j] \in Conn \ {sock[i]}
  BY <1>1, <1>2 DEF Occupied, SlotsTrackConnections, OneSlotEach
<1>4. \A c \in Conn \ {sock[i]} : /\ acc'[c] = acc[c] /\ last'[c] = last[c]
                                  /\ c \in over => c \in over'
  BY <1>1, <1>2 DEF Forget
<1> QED
  BY <1>1, <1>3, <1>4, NoLossFrame

\* What write() has taken was sent, what it has not is still there.
LEMMA WriteSomeLosesNothing ==
  ASSUME PoolInv, NoLossUnlessOverflow,
         NEW i \in Slot, NEW n \in 1 .. BufSize, WriteSome(i, n)
  PROVE  NoLossUnlessOverflow'
<1>1. /\ Occupied(i) /\ UNCHANGED <<sock, acc, over, taken>>
      /\ n <= Len(outbuf[i])
      /\ outbuf' = [outbuf EXCEPT ![i] = SubSeq(outbuf[i], n + 1, Len(outbuf[i]))]
      /\ last' = [last EXCEPT ![sock[i]] = outbuf[i][n]]
  BY DEF WriteSome, WriteTurn, HasOutput, feedVars, peerVars
<1>2. /\ outbuf \in [Slot -> Seq(Byte)] /\ outbuf[i] \in Seq(Byte)
      /\ last \in [Conn -> 0 .. MaxByte]
      /\ sock[i] \in Conn /\ \A j \in Slot : Occupied(j) => sock[j] \in Conn
  BY <1>1 DEF PoolInv, TypeInv, TypeOK, Occupied
<1>3. n \in 1 .. Len(outbuf[i]) /\ Len(outbuf[i]) \in Nat
  BY <1>1, <1>2, LenProperties, ClientPoolAssumption DEF ClientPoolAssumption
<1>4. \A j \in Slot \ {i} : Occupied(j) => sock[j] # sock[i]
  BY <1>1 DEF PoolInv, SlotsTrackConnections, OneSlotEach
<1> SUFFICES ASSUME NEW j \in Slot, Occupied(j), sock[j] \notin over,
                    NEW b \in Byte,
                    acc[sock[j]] < b, last'[sock[j]] < b, b <= taken
             PROVE  Holds(outbuf'[j], b)
  BY <1>1 DEF NoLossUnlessOverflow, Occupied
<1>5. CASE j # i
  <2>1. outbuf'[j] = outbuf[j] /\ last'[sock[j]] = last[sock[j]]
    BY <1>1, <1>2, <1>4, <1>5
  <2> QED
    BY <2>1 DEF NoLossUnlessOverflow
<1>6. CASE j = i
  <2> DEFINE buf == outbuf[i]
  <2>1. /\ last'[sock[i]] = buf[n] /\ outbuf'[i] = SubSeq(buf, n + 1, Len(buf))
    BY <1>1, <1>2
  <2>2. /\ last[sock[i]] < buf[n] /\ Strict(buf)
        /\ buf[n] \in Nat /\ last[sock[i]] \in Nat /\ b \in Nat
    <3>1. Ascending(buf, last[sock[i]], taken)
      BY <1>1 DEF PoolInv, StreamInv, StreamOrder, SentUpTo
    <3>2. buf[n] \in Byte
      BY <1>2, <1>3, ElementOfSeq
    <3> QED
      BY <1>2, <1>3, <3>1, <3>2 DEF Ascending, Strict, Byte
  <2>3. PICK m \in 1 .. Len(buf) : buf[m] = b
    <3>1. last[sock[i]] < b
      BY <1>6, <2>1, <2>2
    <3> QED
      BY <1>6, <3>1 DEF NoLossUnlessOverflow, Holds
  <2>4. b \in {c \in Elements(buf) : c > buf[n]}
    BY <1>6, <2>1, <2>2, <2>3 DEF Elements
  <2>5. b \in Elements(outbuf'[i])
    BY <1>2, <1>3, <2>1, <2>2, <2>4, DropIsLater
  <2> QED
    BY <1>6, <2>5 DEF Elements, Holds
<1> QED
  BY <1>5, <1>6

\* A buffer that does not overflow keeps all it has and takes all that comes.
LEMMA ReadPipeLosesNothing ==
  ASSUME PoolInv, NoLossUnlessOverflow, ReadPipe
  PROVE  NoLossUnlessOverflow'
<1>1. PICK n \in 1 .. BufSize :
        /\ WriteRaw(Chunk(taken, n)) /\ taken' = taken + n
        /\ Chunk(taken, n) \in Seq(Byte) /\ Len(Chunk(taken, n)) = n
        /\ \A j \in 1 .. n : Chunk(taken, n)[j] = taken + j
  BY ReadPipeChunk DEF PoolInv, TypeInv
<1>2. /\ UNCHANGED <<sock, last, acc>> /\ taken \in Nat /\ n \in Nat /\ BufSize \in Nat
      /\ msgmax \in Nat
  BY ClientPoolAssumption
  DEF ClientPoolAssumption, ReadPipe, PoolInv, TypeInv, TypeOK
<1> SUFFICES ASSUME NEW i \in Slot, Occupied(i), sock[i] \notin over',
                    NEW b \in Byte,
                    acc[sock[i]] < b, last[sock[i]] < b, b <= taken + n
             PROVE  Holds(outbuf'[i], b)
  BY <1>1, <1>2 DEF NoLossUnlessOverflow, Occupied
<1> DEFINE buf == outbuf[i]
           chunk == Chunk(taken, n)
<1>3. /\ buf \in Seq(Byte) /\ Len(buf) <= BufSize /\ Len(buf) \in Nat
      /\ sock[i] \in Conn /\ b \in Nat /\ i \in Nat
  BY LenProperties, ClientPoolAssumption
  DEF ClientPoolAssumption, PoolInv, TypeInv, TypeOK, Occupied, Byte, Slot
<1>4. i < msgmax
  BY <1>2, <1>3 DEF PoolInv, SlotsTrackConnections, NoneBeyondMsgmax
<1>5. /\ outbuf'[i] = Push(buf, chunk)
      /\ sock[i] \notin over /\ ~(Excess(buf, Len(chunk)) > 0)
  BY <1>1, <1>3, <1>4 DEF WriteRaw
<1>6. Excess(buf, Len(chunk)) = 0
  BY <1>1, <1>2, <1>3, <1>5 DEF Excess
<1> HIDE DEF buf, chunk
<1>7. chunk \in Seq(Byte) /\ Len(chunk) = n /\ Len(chunk) <= BufSize
      /\ \A j \in 1 .. n : chunk[j] = taken + j
  BY <1>1, <1>2 DEF chunk
<1>8. /\ Len(Push(buf, chunk)) = Len(buf) + n
      /\ \A j \in 1 .. Len(buf) : Push(buf, chunk)[j] = buf[j]
      /\ \A j \in 1 .. n : Push(buf, chunk)[Len(buf) + j] = chunk[j]
  <2>1. LET kept == Len(buf) - 0 IN
        /\ Len(Push(buf, chunk)) = kept + Len(chunk)
        /\ \A j \in 1 .. kept : Push(buf, chunk)[j] = buf[j + 0]
        /\ \A j \in 1 .. Len(chunk) : Push(buf, chunk)[kept + j] = chunk[j]
    BY <1>3, <1>6, <1>7, PushProperties, Zenon
  <2>2. Len(buf) - 0 = Len(buf) /\ \A j \in 1 .. Len(buf) : j + 0 = j
    BY <1>3
  <2> QED
    BY <1>7, <2>1, <2>2, Zenon
<1>9. CASE b <= taken
  <2>1. PICK m \in 1 .. Len(buf) : buf[m] = b
    BY <1>5, <1>9 DEF NoLossUnlessOverflow, Holds, buf
  <2>2. m \in 1 .. Len(Push(buf, chunk))
    BY <1>2, <1>3, <1>8
  <2> QED
    BY <1>5, <1>8, <2>1, <2>2 DEF Holds
<1>10. CASE b > taken
  <2>1. PICK m \in 1 .. n : taken + m = b
    <3>1. b - taken \in 1 .. n /\ taken + (b - taken) = b
      BY <1>2, <1>3, <1>10
    <3> QED
      BY <3>1
  <2>2. Len(buf) + m \in 1 .. Len(Push(buf, chunk))
    BY <1>2, <1>3, <1>8
  <2> QED
    BY <1>5, <1>7, <1>8, <2>1, <2>2 DEF Holds
<1> QED
  BY <1>2, <1>3, <1>9, <1>10

LEMMA NextLosesNothing ==
  PoolInv /\ NoLossUnlessOverflow /\ [Next]_vars => NoLossUnlessOverflow'
<1> SUFFICES ASSUME PoolInv, NoLossUnlessOverflow, [Next]_vars
             PROVE  NoLossUnlessOverflow'
  OBVIOUS
<1> USE DEF PoolInv
<1>1. CASE UNCHANGED vars
  BY <1>1, SimpleStepsLoseNothing
<1>2. CASE Next
  BY <1>2, StepCases, SimpleStepsLoseNothing, OpenSockLosesNothing,
     CloseSockLosesNothing, WriteSomeLosesNothing, ReadPipeLosesNothing
<1> QED
  BY <1>1, <1>2

LEMMA PoolInvariant == Spec => []PoolInv
<1>1. Init => PoolInv
  BY InitTypes, InitSlots, InitStream DEF PoolInv
<1>2. PoolInv /\ [Next]_vars => PoolInv'
  BY NextTypes, NextSlots, NextStream DEF PoolInv
<1> QED
  BY <1>1, <1>2, PTL DEF Spec

(***************************************************************************)
(* For every buffer size and every number of slots: as long as the buffer  *)
(* of a client has not overflowed, the client has been sent, or its buffer *)
(* still holds, every byte that was read from the pipe after it was        *)
(* accepted (msgmem.c:42-58, msgmem.c:85-103, connect.c:53-106).           *)
(***************************************************************************)
THEOREM LossCorrect == Spec => []NoLossUnlessOverflow
<1>1. Init => NoLossUnlessOverflow
  BY DEF Init, NoLossUnlessOverflow, Occupied
<1> QED
  BY <1>1, PoolInvariant, NextLosesNothing, PTL DEF Spec
-----------------------------------------------------------------------------
(* The pool implements LossyStream.                                        *)

\* Of a connection that a slot holds, the slot's buffer is what waits.
LEMMA OpenSlot ==
  ASSUME TypeOK, SlotsTrackConnections, pc # "done", NEW i \in Slot, Occupied(i)
  PROVE  /\ sock[i] \in Conn /\ fd[sock[i]] = "open"
         /\ Waiting(sock[i]) = Elements(outbuf[i])
<1>1. sock[i] \in Conn
  BY DEF TypeOK, Occupied
<1>2. fd[sock[i]] = "open"
  BY <1>1 DEF SlotsTrackConnections, OpenIffHeld
<1>3. {j \in Slot : sock[j] = sock[i]} = {i}
  BY DEF SlotsTrackConnections, OneSlotEach
<1> QED
  BY <1>1, <1>2, <1>3 DEF Waiting

\* The abstract variables, client by client.
LEMMA Abstract ==
  ASSUME NEW k \in Conn
  PROVE  /\ Attachment[k] = (CASE fd[k] = "open"   -> "yes"
                               [] fd[k] = "closed" -> "gone"
                               [] OTHER            -> "no")
         /\ Pending[k] = (IF fd[k] = "open" THEN Waiting(k) ELSE {})
         /\ Given[k] = (IF fd[k] = "open" THEN last[k] ELSE 0)
         /\ Stream!Attached(k) <=> fd[k] = "open"
  BY DEF Attachment, Pending, Given, Stream!Attached

\* Steps that concern no client, as LossyStream sees it.
LEMMA StutterSteps ==
  ASSUME TypeOK, UNCHANGED <<sock, outbuf, taken, last>>,
         \A k \in Conn : \/ fd'[k] = fd[k]
                         \/ fd[k] = "idle" /\ fd'[k] = "queued"
  PROVE  UNCHANGED Stream!vars
<1>1. \A k \in Conn : Waiting(k)' = Waiting(k)
  BY DEF Waiting, Elements
<1>2. Attachment' = Attachment
  BY DEF Attachment
<1>3. Pending' = Pending
  BY <1>1 DEF Pending
<1>4. Given' = Given
  BY DEF Given
<1> QED
  BY <1>2, <1>3, <1>4 DEF Stream!vars

\* Steps in which the connections of a set are closed and no other changes.
LEMMA LeaveSteps ==
  ASSUME NEW K \in SUBSET Conn, UNCHANGED <<outbuf, taken>>,
         \A k \in K : fd'[k] = "closed",
         \A k \in Conn \ K :
           /\ fd'[k] = fd[k]
           /\ fd[k] = "open" => /\ last'[k] = last[k]
                                /\ \A i \in Slot : sock'[i] = k <=> sock[i] = k
  PROVE  Stream!Leave(K)
<1>1. ASSUME NEW k \in Conn \ K, fd[k] = "open"
      PROVE  Waiting(k)' = Waiting(k)
  BY <1>1 DEF Waiting, Elements
<1>2. Attachment' = [k \in Conn |-> IF k \in K THEN "gone" ELSE Attachment[k]]
  BY DEF Attachment
<1>3. Pending' = [k \in Conn |-> IF k \in K THEN {} ELSE Pending[k]]
  BY <1>1 DEF Pending
<1>4. Given' = [k \in Conn |-> IF k \in K THEN 0 ELSE Given[k]]
  BY DEF Given
<1> QED
  BY <1>2, <1>3, <1>4 DEF Stream!Leave

LEMMA SimpleStepsRefine ==
  ASSUME TypeOK,
         \/ \/ \E k \in Conn : Connect(k) \/ HangUp(k) \/ Talk(k)
            \/ Feed \/ ParentExit \/ TrapReset
            \/ Select \/ SelectInterrupted \/ NothingToOpen
            \/ NothingInPipe \/ PipeClosed \/ WriteDone \/ ReadDone
            \/ \E i \in Slot : WriteWouldBlock(i) \/ ReadInput(i)
         \/ UNCHANGED vars
  PROVE  UNCHANGED Stream!vars
<1>1. CASE \E k \in Conn : Connect(k)
  <2>1. /\ UNCHANGED <<sock, outbuf, taken, last>>
        /\ \A c \in Conn : \/ fd'[c] = fd[c]
                           \/ fd[c] = "idle" /\ fd'[c] = "queued"
    BY <1>1 DEF Connect, poolVars, feedVars, histVars, TypeOK
  <2> QED
    BY <2>1, StutterSteps
<1>2. CASE ~ \E k \in Conn : Connect(k)
  <2>1. UNCHANGED <<sock, outbuf, taken, last, fd>>
    BY <1>2 DEF HangUp, Talk, Feed, ParentExit, TrapReset, Select,
       SelectInterrupted, NothingToOpen, AfterOpen, NothingInPipe, PipeClosed,
       WriteDone, ReadDone, WriteWouldBlock, WriteTurn, ReadInput, ReadTurn,
       vars, poolVars, peerVars, feedVars, histVars
  <2> QED
    BY <2>1, StutterSteps
<1> QED
  BY <1>1, <1>2

\* accept() attaches a client, with what an earlier one left in the slot.
LEMMA AcceptRefines ==
  ASSUME PoolInv, NEW k \in Conn, NEW i \in 0 .. msgmax, Accept(k, i)
  PROVE  Stream!Attach(k)
<1>1. /\ i \in Slot /\ pc = "open" /\ fd[k] = "queued" /\ SearchStopsAt(i)
      /\ sock' = [sock EXCEPT ![i] = k] /\ fd' = [fd EXCEPT ![k] = "open"]
      /\ UNCHANGED <<outbuf, last, taken>>
      /\ sock \in [Slot -> Conn \cup {NoSock}] /\ fd \in [Conn -> FdState]
      /\ outbuf \in [Slot -> Seq(Byte)] /\ taken \in Nat
  BY ClientPoolAssumption
  DEF ClientPoolAssumption, Accept, Opening, AfterOpen, feedVars, Slot,
      PoolInv, TypeInv, TypeOK
<1>2. sock[i] = NoSock /\ last[k] = 0 /\ \A j \in Slot : sock[j] # k
  <2>1. i < msgmax \/ i >= msgmax
    BY <1>1, ClientPoolAssumption
    DEF ClientPoolAssumption, PoolInv, TypeInv, TypeOK, Slot
  <2> QED
    BY <1>1, <2>1
    DEF PoolInv, SlotsTrackConnections, NoneBeyondMsgmax, OpenIffHeld,
        SearchStopsAt, Occupied, StreamInv, SentSoFar
<1>3. {j \in Slot : sock'[j] = k} = {i}
  BY <1>1, <1>2
<1>4. Waiting(k)' = Elements(outbuf[i])
  <2>1. Waiting(k)' = UNION {Elements(outbuf[j]) : j \in {i}}
    BY <1>1, <1>3 DEF Waiting, Elements
  <2> QED
    BY <2>1
<1>5. \A c \in Conn \ {k} : Waiting(c)' = Waiting(c)
  <2> TAKE c \in Conn \ {k}
  <2>1. c # NoSock
    BY ClientPoolAssumption DEF ClientPoolAssumption
  <2>2. \A j \in Slot : sock'[j] = c <=> sock[j] = c
    BY <1>1, <1>2, <2>1
  <2> QED
    BY <1>1, <2>2 DEF Waiting, Elements
<1>6. Elements(outbuf[i]) \in SUBSET (1 .. taken)
  <2>1. \A m \in 1 .. Len(outbuf[i]) : outbuf[i][m] \in Byte /\ outbuf[i][m] <= taken
    BY <1>1, ElementOfSeq DEF PoolInv, StreamInv, StreamOrder, Ascending
  <2> QED
    BY <1>1, <2>1 DEF Elements, Byte
<1>7. Attachment[k] = "no" /\ Attachment' = [Attachment EXCEPT ![k] = "yes"]
  BY <1>1 DEF Attachment
<1>8. Pending' = [Pending EXCEPT ![k] = Elements(outbuf[i])]
  BY <1>1, <1>4, <1>5 DEF Pending
<1>9. Given' = Given
  BY <1>1, <1>2 DEF Given
<1> QED
  BY <1>1, <1>6, <1>7, <1>8, <1>9 DEF Stream!Attach

\* A connection that is not accepted leaves, or goes on waiting.
LEMMA RefuseRefines ==
  ASSUME PoolInv, NEW k \in Conn, NEW i \in 0 .. msgmax,
         AcceptFails(k, i) \/ Refuse(k, i)
  PROVE  Stream!Leave({k}) \/ UNCHANGED Stream!vars
<1>1. /\ fd[k] = "queued" /\ SearchStopsAt(i) /\ UNCHANGED <<outbuf, taken>>
      /\ sock \in [Slot -> Conn \cup {NoSock}] /\ fd \in [Conn -> FdState]
      /\ last \in [Conn -> 0 .. MaxByte]
      /\ Forget(k) \/ UNCHANGED <<fd, last>>
      /\ sock' = sock \/ (i \in Slot /\ sock' = [sock EXCEPT ![i] = NoSock])
  BY ClientPoolAssumption
  DEF ClientPoolAssumption, AcceptFails, Refuse, Opening, AfterOpen, Slot,
      feedVars, poolVars, peerVars, histVars, PoolInv, TypeInv, TypeOK
<1>2. i \in Slot => sock[i] = NoSock
  <2>1. i < msgmax \/ i >= msgmax
    BY ClientPoolAssumption
    DEF ClientPoolAssumption, PoolInv, TypeInv, TypeOK, Slot
  <2> QED
    BY <1>1, <2>1
    DEF PoolInv, SlotsTrackConnections, NoneBeyondMsgmax, SearchStopsAt, Occupied
<1>3. sock' = sock
  BY <1>1, <1>2
<1>4. CASE Forget(k)
  <2>1. /\ fd'[k] = "closed"
        /\ \A c \in Conn \ {k} : fd'[c] = fd[c] /\ last'[c] = last[c]
    BY <1>1, <1>4 DEF Forget
  <2> QED
    BY <1>1, <1>3, <2>1, LeaveSteps
<1>5. CASE UNCHANGED <<fd, last>>
  BY <1>1, <1>3, <1>5, StutterSteps DEF PoolInv, TypeInv
<1> QED
  BY <1>1, <1>4, <1>5

LEMMA CloseSockRefines ==
  ASSUME PoolInv, NEW i \in Slot, WriteFails(i) \/ ReadClosed(i)
  PROVE  sock[i] \in Conn /\ Stream!Leave({sock[i]})
<1>1. /\ Occupied(i) /\ UNCHANGED <<outbuf, taken>>
      /\ Forget(sock[i]) /\ sock' = [sock EXCEPT ![i] = NoSock]
  BY DEF WriteFails, WriteTurn, HasOutput, ReadClosed, ReadTurn, IsSet,
     CloseSock, feedVars
<1>2. /\ sock[i] \in Conn /\ sock \in [Slot -> Conn \cup {NoSock}]
      /\ fd \in [Conn -> FdState] /\ last \in [Conn -> 0 .. MaxByte]
  BY <1>1 DEF Occupied, PoolInv, TypeInv, TypeOK
<1>3. /\ fd'[sock[i]] = "closed"
      /\ \A c \in Conn \ {sock[i]} : /\ fd'[c] = fd[c] /\ last'[c] = last[c]
                                     /\ \A j \in Slot : sock'[j] = c <=> sock[j] = c
  <2>1. \A c \in Conn : c # NoSock
    BY ClientPoolAssumption DEF ClientPoolAssumption
  <2> QED
    BY <1>1, <1>2, <2>1 DEF Forget
<1> QED
  BY <1>1, <1>2, <1>3, LeaveSteps

\* The chunk reaches the buffers of all attached clients.
LEMMA ReadPipeRefines ==
  ASSUME PoolInv, ReadPipe
  PROVE  \E n \in 1 .. MaxByte : Stream!Produce(n)
<1>1. PICK n \in 1 .. BufSize :
        /\ WriteRaw(Chunk(taken, n)) /\ taken' = taken + n
        /\ taken + n <= written
        /\ Chunk(taken, n) \in Seq(Byte) /\ Len(Chunk(taken, n)) = n
        /\ \A j \in 1 .. n : Chunk(taken, n)[j] = taken + j
  BY ReadPipeChunk DEF PoolInv, TypeInv
<1>2. /\ UNCHANGED <<sock, fd, last>> /\ taken \in Nat /\ msgmax \in Nat
      /\ n \in 1 .. MaxByte /\ taken + n <= MaxByte /\ pc # "done"
      /\ last \in [Conn -> 0 .. MaxByte]
  BY <1>1, ClientPoolAssumption
  DEF ClientPoolAssumption, ReadPipe, peerVars, PoolInv, TypeInv, TypeOK
<1>3. ASSUME NEW k \in Conn, fd[k] = "open"
      PROVE  Waiting(k)' = Stream!Newest(Waiting(k) \cup taken + 1 .. taken + n)
  <2>1. PICK i \in Slot : sock[i] = k /\ Occupied(i)
    BY <1>2, <1>3, ClientPoolAssumption
    DEF ClientPoolAssumption, PoolInv, SlotsTrackConnections, OpenIffHeld, Occupied
  <2>2. i < msgmax
    BY <1>2, <2>1 DEF PoolInv, SlotsTrackConnections, NoneBeyondMsgmax, Slot
  <2>3. outbuf'[i] = Push(outbuf[i], Chunk(taken, n))
    BY <1>1, <2>2 DEF WriteRaw
  <2>4. /\ outbuf[i] \in Seq(Byte) /\ Len(outbuf[i]) <= BufSize
        /\ SentUpTo(i) \in Nat /\ SentUpTo(i) <= taken
        /\ Ascending(outbuf[i], SentUpTo(i), taken)
    BY <1>2, <2>1
    DEF PoolInv, TypeInv, TypeOK, StreamInv, StreamOrder, SentSoFar, SentUpTo, Occupied
  <2>5. Elements(outbuf'[i]) = Stream!Newest(Elements(outbuf[i]) \cup taken + 1 .. taken + n)
    <3> DEFINE lo == SentUpTo(i)
               old == outbuf[i]
    <3>1. /\ old \in Seq(Byte) /\ Len(old) <= BufSize
          /\ lo \in Nat /\ lo <= taken /\ Ascending(old, lo, taken)
      BY <2>4
    <3> HIDE DEF lo, old
    <3>2. Elements(Push(old, Chunk(taken, n)))
             = Stream!Newest(Elements(old) \cup taken + 1 .. taken + n)
      BY <1>1, <1>2, <3>1, PushIsNewest, Zenon
    <3> QED
      BY <2>3, <3>2 DEF old
  <2>6. Waiting(k) = Elements(outbuf[i])
    BY <1>2, <2>1, OpenSlot DEF PoolInv, TypeInv
  <2>7. Waiting(k)' = Elements(outbuf'[i])
    <3>1. {j \in Slot : sock'[j] = k} = {i}
      BY <1>2, <2>1 DEF PoolInv, SlotsTrackConnections, OneSlotEach
    <3>2. Waiting(k)' = UNION {Elements(outbuf'[j]) : j \in {i}}
      BY <3>1 DEF Waiting, Elements
    <3> QED
      BY <3>2
  <2> QED
    BY <2>5, <2>6, <2>7
<1>4. UNCHANGED <<Attachment, Given>>
  BY <1>2 DEF Attachment, Given
<1>5. Pending' = [k \in Conn |->
                    IF Stream!Attached(k)
                      THEN Stream!Newest(Pending[k] \cup taken + 1 .. taken + n)
                      ELSE Pending[k]]
  <2>1. \A k \in Conn : Pending[k] = IF fd[k] = "open" THEN Waiting(k) ELSE {}
    BY DEF Pending
  <2>2. \A k \in Conn : Stream!Attached(k) <=> fd[k] = "open"
    BY Abstract
  <2>3. Pending' = [k \in Conn |-> IF fd[k] = "open" THEN Waiting(k)' ELSE {}]
    BY <1>2 DEF Pending
  <2> QED
    BY <1>3, <2>1, <2>2, <2>3
<1> QED
  BY <1>1, <1>2, <1>4, <1>5 DEF Stream!Produce

\* write() gives a client what it takes of its buffer.
LEMMA WriteSomeRefines ==
  ASSUME PoolInv, NEW i \in Slot, NEW n \in 1 .. BufSize, WriteSome(i, n)
  PROVE  \E k \in Conn : \E b \in Pending[k] : Stream!Deliver(k, b)
<1> DEFINE buf == outbuf[i]
<1>0. PICK k : k = sock[i]
  OBVIOUS
<1>1. /\ Occupied(i) /\ pc # "done" /\ UNCHANGED <<sock, fd, taken>>
      /\ n <= Len(buf)
      /\ outbuf' = [outbuf EXCEPT ![i] = SubSeq(buf, n + 1, Len(buf))]
      /\ last' = [last EXCEPT ![k] = buf[n]]
  BY <1>0 DEF WriteSome, WriteTurn, HasOutput, feedVars, peerVars
<1>2. /\ k \in Conn /\ fd[k] = "open" /\ Waiting(k) = Elements(buf)
      /\ \A j \in Slot : sock[j] = k <=> j = i
  BY <1>0, <1>1, OpenSlot DEF PoolInv, TypeInv, SlotsTrackConnections, OneSlotEach
<1>3. /\ outbuf \in [Slot -> Seq(Byte)] /\ buf \in Seq(Byte)
      /\ last \in [Conn -> 0 .. MaxByte]
  BY DEF PoolInv, TypeInv, TypeOK
<1>4. n \in 1 .. Len(buf)
  BY <1>1, <1>3, LenProperties, ClientPoolAssumption DEF ClientPoolAssumption
<1>5. Strict(buf)
  BY DEF PoolInv, StreamInv, StreamOrder, Ascending, Strict
<1>6. /\ Pending[k] = Elements(buf) /\ buf[n] \in Pending[k]
  BY <1>2, <1>4 DEF Pending, Elements
<1>7. Waiting(k)' = {c \in Elements(buf) : c > buf[n]}
  <2>1. outbuf'[i] = SubSeq(buf, n + 1, Len(buf))
    BY <1>1, <1>3
  <2>2. {j \in Slot : sock'[j] = k} = {i}
    BY <1>1, <1>2
  <2>3. UNION {Elements(outbuf'[j]) : j \in {m \in Slot : sock'[m] = k}}
           = Elements(outbuf'[i])
    BY <2>2
  <2>4. Elements(outbuf'[i]) = {c \in Elements(buf) : c > buf[n]}
    BY <1>3, <1>4, <1>5, <2>1, DropIsLater
  <2> QED
    BY <1>1, <2>3, <2>4 DEF Waiting, Elements
<1>8. \A c \in Conn \ {k} : Waiting(c)' = Waiting(c)
  <2> TAKE c \in Conn \ {k}
  <2>1. \A j \in Slot : sock[j] = c => outbuf'[j] = outbuf[j]
    BY <1>1, <1>2, <1>3
  <2>2. \A j \in Slot : sock[j] = c => Elements(outbuf'[j]) = Elements(outbuf[j])
    BY <2>1
  <2>3. Waiting(c)' = UNION {Elements(outbuf'[j]) : j \in {m \in Slot : sock[m] = c}}
    BY <1>1 DEF Waiting, Elements
  <2> QED
    BY <2>2, <2>3 DEF Waiting
<1>9. Attachment' = Attachment
  BY <1>1 DEF Attachment
<1>10. Pending' = [Pending EXCEPT ![k] = {c \in Elements(buf) : c > buf[n]}]
  <2>1. Pending' = [c \in Conn |-> IF fd[c] = "open" THEN Waiting(c)' ELSE {}]
    BY <1>1 DEF Pending
  <2> DEFINE later == {c \in Elements(buf) : c > buf[n]}
  <2>2. Waiting(k)' = later
    BY <1>7
  <2>3. k \in Conn /\ fd[k] = "open" /\ \A c \in Conn \ {k} : Waiting(c)' = Waiting(c)
    BY <1>2, <1>8
  <2> HIDE DEF later
  <2>4. Pending' = [Pending EXCEPT ![k] = later]
    BY <2>1, <2>2, <2>3 DEF Pending
  <2> QED
    BY <2>4 DEF later
<1>11. Given' = [Given EXCEPT ![k] = buf[n]]
  BY <1>1, <1>2, <1>3 DEF Given
<1>12. Stream!Deliver(k, buf[n])
  BY <1>1, <1>2, <1>6, <1>9, <1>10, <1>11, Abstract DEF Stream!Deliver
<1> QED
  BY <1>2, <1>6, <1>12

\* The end of procsocket() parts with all attached clients at once.
LEMMA CloseAllRefines ==
  ASSUME PoolInv, CloseAll
  PROVE  Stream!Leave({k \in Conn : Stream!Attached(k)})
<1>1. /\ pc' = "done" /\ UNCHANGED <<sock, outbuf, taken, last>>
      /\ fd' = [k \in Conn |-> IF \E i \in Slot : i < msgmax /\ sock[i] = k
                               THEN "closed" ELSE fd[k]]
  BY DEF CloseAll, poolVars, feedVars, histVars
<1>2. \A k \in Conn : fd'[k] = "closed" \/ fd'[k] = fd[k]
  BY <1>1
<1>3. \A k \in Conn : fd'[k] # "open"
  BY <1>1, CloseAllClosesAll DEF PoolInv, AllClosedAtExit
<1>4. \A k \in Conn : fd'[k] # fd[k] => fd[k] = "open"
  BY <1>1 DEF PoolInv, SlotsTrackConnections, OpenIffHeld, CloseAll
<1> DEFINE K == {k \in Conn : Stream!Attached(k)}
<1>5. \A k \in Conn : k \in K <=> fd[k] = "open"
  BY Abstract
<1>6. K \in SUBSET Conn
  OBVIOUS
<1> HIDE DEF K
<1>7. Stream!Leave(K)
  BY <1>1, <1>2, <1>3, <1>4, <1>5, <1>6, LeaveSteps
<1> QED
  BY <1>7 DEF K

LEMMA InitRefines == Init => Stream!Init
<1> SUFFICES ASSUME Init PROVE Stream!Init
  OBVIOUS
<1>1. \A k \in Conn : fd[k] = "idle"
  BY DEF Init
<1>2. /\ Attachment = [k \in Conn |-> "no"]
      /\ Pending = [k \in Conn |-> {}]
      /\ Given = [k \in Conn |-> 0]
  BY <1>1 DEF Attachment, Pending, Given
<1> QED
  BY <1>2 DEF Init, Stream!Init

LEMMA NextRefines == PoolInv /\ [Next]_vars => [Stream!Next]_(Stream!vars)
<1> SUFFICES ASSUME PoolInv, [Next]_vars
             PROVE  Stream!Next \/ UNCHANGED Stream!vars
  OBVIOUS
<1> USE DEF PoolInv, TypeInv
<1>1. CASE \E k \in Conn, i \in 0 .. msgmax :
             Accept(k, i) \/ AcceptFails(k, i) \/ Refuse(k, i)
  BY <1>1, AcceptRefines, RefuseRefines DEF Stream!Next
<1>2. CASE ReadPipe
  BY <1>2, ReadPipeRefines DEF Stream!Next
<1>3. CASE \E i \in Slot : WriteFails(i) \/ ReadClosed(i)
  BY <1>3, CloseSockRefines DEF Stream!Next
<1>4. CASE \E i \in Slot : \E n \in 1 .. BufSize : WriteSome(i, n)
  BY <1>4, WriteSomeRefines DEF Stream!Next
<1>5. CASE CloseAll
  BY <1>5, CloseAllRefines DEF Stream!Next
<1>6. CASE UNCHANGED vars
  BY <1>6, SimpleStepsRefine
<1> QED
  BY <1>1, <1>2, <1>3, <1>4, <1>5, <1>6, StepCases, SimpleStepsRefine

(***************************************************************************)
(* For every number of slots, every buffer size and every set of clients,  *)
(* the loop over client[] is an implementation of LossyStream: reusing a   *)
(* slot, writing in portions, dropping on overflow and failing calls give  *)
(* each client the newest bytes that fit, once, in order, and without      *)
(* regard to the other clients (socket.c:113-171, connect.c:39-106,        *)
(* msgmem.c:42-103).                                                       *)
(***************************************************************************)
THEOREM Refinement == Spec => RefinesLossyStream
  BY PoolInvariant, InitRefines, NextRefines,
     PTL DEF Spec, RefinesLossyStream, Stream!Spec
=============================================================================
