------------------------ MODULE RecordStream_proofs ------------------------
(***************************************************************************)
(* Proofs about RecordStream, for records of every length, every size of   *)
(* the pipe and of the pool's buffer, and whatever a body looks like.      *)
(*                                                                         *)
(* InOrder and NoneMissing need the invariant Sync of all that is on its   *)
(* way to a client that has missed nothing, from the unit it reads next to *)
(* the one the writer is at: every unit is followed by the next of its     *)
(* frame or by the first of a later record's, the client reads just what   *)
(* it expects, and each record it is owed is one it has had or one whose   *)
(* last unit is on its way.  A client can attach at any time, so that the  *)
(* order of what is in the pipe (PipeInv) holds without one too.           *)
(***************************************************************************)
EXTENDS RecordStream, SequenceTheorems, TLAPS

-----------------------------------------------------------------------------
(* Frames, and sequences of their units.                                   *)

\* A unit.
U(r, n) == [rec |-> r, at |-> n]

\* The numbers among the constants.
LEMMA FrameLengths ==
  /\ PipeSize \in Nat /\ PipeBuf \in Nat /\ BufSize \in Nat /\ MaxRec \in Nat /\ MaxLen \in Nat
  /\ \A r \in Rec : BodyLen[r] \in Nat \ {0} /\ FrameLen(r) \in Nat /\ FrameLen(r) = LenAt + BodyLen[r]
  /\ LenAt = 3 /\ IdLen = 2
  BY RecordStreamAssumption DEF RecordStreamAssumption, FrameLen, LenAt, IdLen

\* A unit is a place in the frame of a record.
LEMMA Units ==
  /\ \A u \in Unit : /\ u.rec \in Rec /\ u.at \in 1 .. FrameLen(u.rec) /\ u.at \in Nat /\ u.rec \in Nat
                     /\ u = U(u.rec, u.at)
  /\ \A r \in Rec : \A n \in 1 .. FrameLen(r) : U(r, n) \in Unit
<1>1. ASSUME NEW u \in Unit
      PROVE  /\ u.rec \in Rec /\ u.at \in 1 .. FrameLen(u.rec) /\ u.at \in Nat /\ u.rec \in Nat
             /\ u = U(u.rec, u.at)
  <2>1. PICK r \in Rec : u \in [rec : {r}, at : 1 .. FrameLen(r)]
    BY DEF Unit
  <2>2. u.rec = r /\ u.at \in 1 .. FrameLen(r) /\ u = U(u.rec, u.at)
    BY <2>1 DEF U
  <2>3. FrameLen(r) \in Nat /\ r \in Nat
    BY FrameLengths DEF Rec
  <2> QED
    BY <2>2, <2>3
<1>2. ASSUME NEW r \in Rec, NEW n \in 1 .. FrameLen(r) PROVE U(r, n) \in Unit
  BY DEF Unit, U
<1> QED
  BY <1>1, <1>2

\* A part of a frame, unit by unit.
LEMMA PartType ==
  ASSUME NEW r \in Rec, NEW a \in Nat \ {0}, NEW b \in Nat, b <= FrameLen(r), a <= b + 1
  PROVE  /\ Part(r, a, b) \in Seq(Unit) /\ Len(Part(r, a, b)) = b - a + 1
         /\ \A i \in 1 .. b - a + 1 : Part(r, a, b)[i] = U(r, a + i - 1)
<1>1. b - a + 1 \in Nat
  OBVIOUS
<1>2. \A j \in 1 .. b - a + 1 : a + j - 1 \in 1 .. FrameLen(r)
  BY FrameLengths
<1>3. \A j \in 1 .. b - a + 1 : [rec |-> r, at |-> a + j - 1] \in Unit
  BY <1>2, Units DEF U
<1> DEFINE n == b - a + 1
<1>4. n \in Nat /\ Part(r, a, b) = [j \in 1 .. n |-> [rec |-> r, at |-> a + j - 1]]
  BY <1>1 DEF Part
<1>5. \A j \in 1 .. n : [rec |-> r, at |-> a + j - 1] \in Unit
  BY <1>3
<1> HIDE DEF n
<1> DEFINE f == [j \in 1 .. n |-> [rec |-> r, at |-> a + j - 1]]
<1>7. f \in [1 .. n -> Unit]
  BY <1>5
<1> HIDE DEF f
<1>6. f \in Seq(Unit) /\ Len(f) = n
  BY <1>4, <1>7, SeqDef, LenProperties
<1> QED
  BY <1>4, <1>6 DEF f, n, U

\* One unit more.
LEMMA PartGrows ==
  ASSUME NEW r \in Rec, NEW a \in Nat \ {0}, NEW b \in Nat, b + 1 <= FrameLen(r), a <= b + 1
  PROVE  Append(Part(r, a, b), U(r, b + 1)) = Part(r, a, b + 1)
<1>1. PICK n \in Nat : n = b - a + 1
  OBVIOUS
<1>2. b <= FrameLen(r) /\ b + 1 \in Nat /\ a <= (b + 1) + 1 /\ (b + 1) - a + 1 = n + 1
  BY <1>1, FrameLengths
<1>3. /\ Part(r, a, b) \in Seq(Unit) /\ Len(Part(r, a, b)) = n
      /\ \A i \in 1 .. n : Part(r, a, b)[i] = U(r, a + i - 1)
  BY <1>1, <1>2, PartType
<1>4. /\ Part(r, a, b + 1) \in Seq(Unit) /\ Len(Part(r, a, b + 1)) = n + 1
      /\ \A i \in 1 .. n + 1 : Part(r, a, b + 1)[i] = U(r, a + i - 1)
  <2>1. PICK h \in Nat : h = b + 1 /\ h <= FrameLen(r) /\ a <= h + 1 /\ h - a + 1 = n + 1
    BY <1>2
  <2>2. /\ Part(r, a, h) \in Seq(Unit) /\ Len(Part(r, a, h)) = h - a + 1
        /\ \A i \in 1 .. h - a + 1 : Part(r, a, h)[i] = U(r, a + i - 1)
    BY <2>1, PartType
  <2> QED
    BY <2>1, <2>2
<1>5. U(r, b + 1) \in Unit
  BY Units
<1> DEFINE x == Append(Part(r, a, b), U(r, b + 1))
<1>6. /\ x \in Seq(Unit) /\ Len(x) = n + 1 /\ x[n + 1] = U(r, b + 1)
      /\ \A i \in 1 .. n : x[i] = Part(r, a, b)[i]
  BY <1>3, <1>5, AppendProperties
<1> HIDE DEF x
<1>7. a + (n + 1) - 1 = b + 1
  BY <1>1
<1>8. \A i \in 1 .. n + 1 : x[i] = Part(r, a, b + 1)[i]
  <2> SUFFICES ASSUME NEW i \in 1 .. n + 1 PROVE x[i] = Part(r, a, b + 1)[i]
    OBVIOUS
  <2>1. CASE i = n + 1
    BY <1>4, <1>6, <1>7, <2>1
  <2>2. CASE i \in 1 .. n
    BY <1>3, <1>4, <1>6, <2>2
  <2> QED
    BY <2>1, <2>2
<1> QED
  BY <1>4, <1>6, <1>8, SeqEqual DEF x

\* Bodies differ.
LEMMA ReturnsBody ==
  ASSUME NEW r \in Rec
  PROVE  Returned(Body(r)) = r
<1>1. ASSUME NEW q \in Rec, Body(q) = Body(r) PROVE q = r
  <2>1. \A p \in Rec : /\ LenAt + 1 \in Nat \ {0} /\ FrameLen(p) \in Nat /\ FrameLen(p) <= FrameLen(p)
                       /\ LenAt + 1 <= FrameLen(p) + 1 /\ 1 \in 1 .. FrameLen(p) - (LenAt + 1) + 1
    BY FrameLengths
  <2>2. ASSUME NEW p \in Rec PROVE Body(p)[1] = U(p, (LenAt + 1) + 1 - 1)
    <3>1. PICK a \in Nat \ {0}, b \in Nat : a = LenAt + 1 /\ b = FrameLen(p)
      BY <2>1
    <3>4. b <= FrameLen(p) /\ a <= b + 1
      BY <2>1, <3>1
    <3>2. \A i \in 1 .. b - a + 1 : Part(p, a, b)[i] = U(p, a + i - 1)
      BY <3>1, <3>4, PartType
    <3>3. 1 \in 1 .. b - a + 1
      BY <2>1, <3>1
    <3> QED
      BY <3>1, <3>2, <3>3 DEF Body
  <2>3. Body(q)[1].rec = q
    <3>1. Body(q)[1] = U(q, (LenAt + 1) + 1 - 1)
      BY <2>2
    <3> QED
      BY <3>1 DEF U
  <2>4. Body(r)[1].rec = r
    <3>1. Body(r)[1] = U(r, (LenAt + 1) + 1 - 1)
      BY <2>2
    <3> QED
      BY <3>1 DEF U
  <2> QED
    BY <1>1, <2>3, <2>4
<1> QED
  BY <1>1 DEF Returned

\* What ConnexReadIP() returns is a record or junk.
LEMMA ReturnedType == \A body : Returned(body) \in Rec \cup {Junk}
  BY DEF Returned

\* One sequence after another.
LEMMA Concats ==
  ASSUME NEW S, NEW a \in Seq(S), NEW b \in Seq(S)
  PROVE  /\ a \o b \in Seq(S) /\ Len(a \o b) = Len(a) + Len(b)
         /\ Len(a) \in Nat /\ Len(b) \in Nat
         /\ \A i \in 1 .. Len(a) : (a \o b)[i] = a[i]
         /\ \A i \in Len(a) + 1 .. Len(a) + Len(b) : (a \o b)[i] = b[i - Len(a)]
  OBVIOUS

\* A sequence is its first n elements and the rest.
LEMMA Cuts ==
  ASSUME NEW S, NEW q \in Seq(S), NEW n \in 0 .. Len(q)
  PROVE  /\ Len(q) \in Nat
         /\ SubSeq(q, 1, n) \in Seq(S) /\ Len(SubSeq(q, 1, n)) = n
         /\ \A i \in 1 .. n : SubSeq(q, 1, n)[i] = q[i]
         /\ SubSeq(q, n + 1, Len(q)) \in Seq(S) /\ Len(SubSeq(q, n + 1, Len(q))) = Len(q) - n
         /\ \A i \in 1 .. Len(q) - n : SubSeq(q, n + 1, Len(q))[i] = q[n + i]
  OBVIOUS

\* Taking n elements from q to put them behind a changes nothing of the two.
LEMMA CutsJoin ==
  ASSUME NEW S, NEW a \in Seq(S), NEW q \in Seq(S), NEW n \in 0 .. Len(q)
  PROVE  (a \o SubSeq(q, 1, n)) \o SubSeq(q, n + 1, Len(q)) = a \o q
<1> DEFINE x == SubSeq(q, 1, n)
           y == SubSeq(q, n + 1, Len(q))
<1>1. /\ x \in Seq(S) /\ Len(x) = n /\ \A i \in 1 .. n : x[i] = q[i]
      /\ y \in Seq(S) /\ Len(y) = Len(q) - n /\ \A i \in 1 .. Len(q) - n : y[i] = q[n + i]
      /\ Len(q) \in Nat
  BY Cuts
<1> HIDE DEF x, y
<1>2. x \o y \in Seq(S) /\ Len(x \o y) = Len(q)
  <2>1. x \o y \in Seq(S) /\ Len(x \o y) = Len(x) + Len(y)
    BY <1>1, Concats
  <2>2. Len(x) + Len(y) = Len(q)
    BY <1>1
  <2> QED
    BY <2>1, <2>2
<1>3. ASSUME NEW i \in 1 .. Len(q) PROVE (x \o y)[i] = q[i]
  <2>1. CASE i <= n
    BY <1>1, <2>1, Concats
  <2>2. CASE i > n
    <3>1. i \in Len(x) + 1 .. Len(x) + Len(y) /\ i - n \in 1 .. Len(q) - n /\ n + (i - n) = i
      BY <1>1, <2>2
    <3>2. (x \o y)[i] = y[i - n]
      BY <1>1, <3>1, Concats
    <3> QED
      BY <1>1, <3>1, <3>2
  <2> QED
    BY <1>1, <2>1, <2>2
<1>4. x \o y = q
  BY <1>2, <1>3, SeqEqual
<1>5. (a \o x) \o y = a \o (x \o y)
  <2>1. a \in Seq(S) /\ x \in Seq(S) /\ y \in Seq(S)
    BY <1>1
  <2> QED
    BY ONLY <2>1
<1> QED
  BY <1>4, <1>5 DEF x, y

\* All of a sequence.
LEMMA AllOf ==
  ASSUME NEW S, NEW q \in Seq(S)
  PROVE  SubSeq(q, 1, Len(q)) = q
  BY SubSeqFull

-----------------------------------------------------------------------------
(* Types.                                                                  *)

\* The writer has a record; it has lost its child when it forks one.
WriterInv ==
  /\ pc # "idle" => rec \in Rec
  /\ pc = "fork" => ~outpipe
  /\ client => child = "alive"

TypeInv == TypeOK /\ WriterInv

\* The states of ConnexReadIP().
Slot == [part : {"id", "length", "body"}, n : 0 .. IdLen - 1, size : Nat, body : Seq(Unit)]

\* The types hold at first.
LEMMA InitTypeInv == Init => TypeInv
<1> SUFFICES ASSUME Init PROVE TypeInv
  OBVIOUS
<1>1. <<>> \in Seq(Unit) /\ <<>> \in Seq(Rec \cup {Junk}) /\ Len(<<>>) = 0
  BY EmptySeq
<1>2. Idle \in Slot
  BY <1>1, FrameLengths DEF Idle, Slot
<1>3. 0 \in 0 .. MaxRec /\ 0 <= PipeSize /\ 0 <= BufSize /\ {} \subseteq Rec
  BY FrameLengths
<1>4. pipe \in Seq(Unit) /\ Len(pipe) <= PipeSize /\ outbuf \in Seq(Unit) /\ Len(outbuf) <= BufSize
  BY <1>1, <1>3 DEF Init
<1>5. rd \in Slot /\ received \in Seq(Rec \cup {Junk}) /\ rec \in 0 .. MaxRec /\ whole \subseteq Rec /\ cnt \in Nat
  BY <1>1, <1>2, <1>3 DEF Init
<1>6. outpipe \in BOOLEAN /\ child \in {"none", "alive", "dead"} /\ (outpipe <=> child # "none")
  BY DEF Init
<1> QED
  BY <1>4, <1>5, <1>6 DEF Init, TypeInv, TypeOK, WriterInv, Slot

\* What the writer may put in the pipe.
LEMMA WritesUnits ==
  ASSUME TypeInv, pc = "body", NEW n \in 1 .. PipeSize, Writable(n)
  PROVE  /\ rec \in Rec /\ rec \in Nat /\ cnt \in Nat /\ n \in Nat \ {0} /\ cnt + n <= BodyLen[rec]
         /\ LenAt + cnt + n <= FrameLen(rec)
         /\ n = ToWrite <=> LenAt + cnt + n = FrameLen(rec)
         /\ Part(rec, LenAt + cnt + 1, LenAt + cnt + n) \in Seq(Unit)
         /\ Len(Part(rec, LenAt + cnt + 1, LenAt + cnt + n)) = n
         /\ \A i \in 1 .. n : Part(rec, LenAt + cnt + 1, LenAt + cnt + n)[i] = U(rec, LenAt + cnt + i)
<1>1. rec \in Rec /\ cnt \in Nat /\ cnt < BodyLen[rec] /\ n \in Nat \ {0} /\ n <= BodyLen[rec] - cnt
  BY FrameLengths DEF TypeInv, TypeOK, Writable, ToWrite
<1>2. rec \in Nat /\ BodyLen[rec] \in Nat /\ FrameLen(rec) = LenAt + BodyLen[rec] /\ LenAt = 3 /\ FrameLen(rec) \in Nat
  BY <1>1, FrameLengths DEF Rec
<1>3. LenAt + cnt + n <= FrameLen(rec) /\ cnt + n <= BodyLen[rec]
  BY <1>1, <1>2
<1>4. n = ToWrite <=> LenAt + cnt + n = FrameLen(rec)
  BY <1>1, <1>2 DEF ToWrite
<1> DEFINE a == LenAt + cnt + 1
           b == LenAt + cnt + n
<1>5. a \in Nat \ {0} /\ b \in Nat /\ b <= FrameLen(rec) /\ a <= b + 1 /\ b - a + 1 = n
  BY <1>1, <1>2, <1>3
<1>6. \A i \in 1 .. n : a + i - 1 = LenAt + cnt + i
  BY <1>1, <1>2
<1> HIDE DEF a, b
<1>7. /\ Part(rec, a, b) \in Seq(Unit) /\ Len(Part(rec, a, b)) = n
      /\ \A i \in 1 .. n : Part(rec, a, b)[i] = U(rec, a + i - 1)
  BY <1>1, <1>5, PartType
<1> QED
  BY <1>1, <1>2, <1>3, <1>4, <1>6, <1>7 DEF a, b

\* The header, unit by unit.
LEMMA HeaderUnits ==
  ASSUME NEW r \in Rec
  PROVE  /\ Header(r) \in Seq(Unit) /\ Len(Header(r)) = LenAt
         /\ \A i \in 1 .. LenAt : Header(r)[i] = U(r, i)
<1>1. 1 \in Nat \ {0} /\ LenAt \in Nat /\ LenAt <= FrameLen(r) /\ 1 <= LenAt + 1 /\ LenAt - 1 + 1 = LenAt
  BY FrameLengths
<1>2. \A i \in 1 .. LenAt : 1 + i - 1 = i
  BY <1>1
<1>3. PICK b \in Nat : b = LenAt /\ b <= FrameLen(r) /\ b - 1 + 1 = LenAt
  BY <1>1
<1>4. /\ Part(r, 1, b) \in Seq(Unit) /\ Len(Part(r, 1, b)) = b - 1 + 1
      /\ \A i \in 1 .. b - 1 + 1 : Part(r, 1, b)[i] = U(r, 1 + i - 1)
  BY <1>1, <1>3, PartType
<1> QED
  BY <1>2, <1>3, <1>4 DEF Header

\* Every step of the writer keeps the types.
LEMMA WriterType ==
  ASSUME TypeInv,
         \/ NextRecord \/ Restart \/ NoPacket \/ WriteHeader \/ HeaderFails \/ BodyFails
         \/ \E n \in 1 .. PipeSize : WriteBody(n)
  PROVE  TypeInv'
<1> USE FrameLengths
<1>1. CASE NextRecord
  BY <1>1 DEF NextRecord, WriterFrame, clientVars, TypeInv, TypeOK, WriterInv, Rec
<1>2. CASE Restart
  BY <1>2 DEF Restart, ForkInet, WriterFrame, clientVars, TypeInv, TypeOK, WriterInv
<1>3. CASE NoPacket
  BY <1>3 DEF NoPacket, WriterFrame, clientVars, TypeInv, TypeOK, WriterInv
<1>4. CASE WriteHeader
  <2>1. rec \in Rec /\ pipe \in Seq(Unit) /\ Header(rec) \in Seq(Unit) /\ Len(Header(rec)) = LenAt
    BY <1>4, HeaderUnits DEF WriteHeader, TypeInv, WriterInv, TypeOK
  <2>5. pipe' = pipe \o Header(rec)
    BY <1>4 DEF WriteHeader
  <2>2. pipe' \in Seq(Unit) /\ Len(pipe') = Len(pipe) + LenAt /\ Len(pipe) \in Nat
    BY ONLY <2>1, <2>5, Concats
  <2>3. Len(pipe') <= PipeSize
    BY <1>4, <2>2 DEF WriteHeader, Room
  <2>4. cnt' = 0 /\ 0 < BodyLen[rec]
    BY <1>4, <2>1 DEF WriteHeader
  <2> QED
    BY <1>4, <2>1, <2>2, <2>3, <2>4 DEF WriteHeader, WriterFrame, clientVars, TypeInv, TypeOK, WriterInv
<1>5. CASE HeaderFails
  BY <1>5 DEF HeaderFails, Broken, WriterFrame, clientVars, TypeInv, TypeOK, WriterInv
<1>6. CASE BodyFails
  BY <1>6 DEF BodyFails, Broken, WriterFrame, clientVars, TypeInv, TypeOK, WriterInv
<1>7. ASSUME NEW n \in 1 .. PipeSize, WriteBody(n) PROVE TypeInv'
  <2> DEFINE part == Part(rec, LenAt + cnt + 1, LenAt + cnt + n)
  <2>1. /\ rec \in Rec /\ cnt \in Nat /\ n \in Nat \ {0} /\ cnt + n <= BodyLen[rec]
        /\ part \in Seq(Unit) /\ Len(part) = n
    BY <1>7, WritesUnits DEF WriteBody
  <2>2. pipe \in Seq(Unit) /\ Len(pipe) \in Nat /\ n <= PipeSize - Len(pipe) /\ pipe' = pipe \o part
    BY <1>7 DEF WriteBody, Writable, Room, TypeInv, TypeOK
  <2> HIDE DEF part
  <2>3. pipe' \in Seq(Unit) /\ Len(pipe') = Len(pipe) + n
    BY <2>1, <2>2, Concats
  <2>4. Len(pipe') <= PipeSize
    BY <2>1, <2>2, <2>3
  <2>5. whole' \subseteq Rec
    BY <1>7, <2>1 DEF WriteBody, TypeInv, TypeOK
  <2>6. cnt' \in Nat /\ (pc' = "body" => rec \in Rec /\ cnt' < BodyLen[rec]) /\ pc' \in {"idle", "body"}
    <3>1. BodyLen[rec] \in Nat
      BY <2>1
    <3>2. CASE n = BodyLen[rec] - cnt
      BY <1>7, <3>2 DEF WriteBody, ToWrite
    <3>3. CASE n # BodyLen[rec] - cnt
      <4>1. cnt' = cnt + n /\ pc' = "body"
        BY <1>7, <3>3 DEF WriteBody, ToWrite
      <4>2. cnt + n < BodyLen[rec] /\ cnt + n \in Nat
        BY <2>1, <3>1, <3>3
      <4> QED
        BY <2>1, <4>1, <4>2
    <3> QED
      BY <3>2, <3>3
  <2> QED
    BY <1>7, <2>1, <2>3, <2>4, <2>5, <2>6 DEF WriteBody, WriterFrame, clientVars, TypeInv, TypeOK, WriterInv
<1> QED
  BY <1>1, <1>2, <1>3, <1>4, <1>5, <1>6, <1>7

\* What a call of procsocket() takes from the pipe and what it keeps.
LEMMA RelayParts ==
  ASSUME TypeInv, Relay
  PROVE  \E n \in 1 .. Len(pipe) :
           /\ SubSeq(pipe, 1, n) \in Seq(Unit)
           /\ pipe' = SubSeq(pipe, n + 1, Len(pipe)) /\ pipe' \in Seq(Unit) /\ Len(pipe') = Len(pipe) - n
           /\ \/ ~client /\ UNCHANGED <<outbuf, lost>>
              \/ /\ client /\ lost' = lost /\ outbuf' = outbuf \o SubSeq(pipe, 1, n)
                 /\ outbuf' \in Seq(Unit) /\ Len(outbuf') <= BufSize
              \/ client /\ lost' /\ outbuf' \in Seq(Unit) /\ Len(outbuf') <= BufSize
<1> DEFINE n == SmallerOf(Len(pipe), BufSize)
           all == outbuf \o SubSeq(pipe, 1, n)
           kept == SmallerOf(Len(all), BufSize)
<1>1. /\ n > 0 /\ pipe' = SubSeq(pipe, n + 1, Len(pipe))
      /\ IF client
         THEN /\ outbuf' = SubSeq(all, Len(all) - kept + 1, Len(all))
              /\ lost' = (lost \/ Len(all) > BufSize)
         ELSE UNCHANGED <<outbuf, lost>>
  BY DEF Relay
<1>2. pipe \in Seq(Unit) /\ outbuf \in Seq(Unit) /\ Len(pipe) \in Nat /\ BufSize \in Nat
      /\ lost \in BOOLEAN /\ client \in BOOLEAN
  BY FrameLengths DEF TypeInv, TypeOK
<1>3. n \in 1 .. Len(pipe) /\ n \in 0 .. Len(pipe)
  BY <1>1, <1>2 DEF SmallerOf
<1> HIDE DEF n
<1>4. /\ SubSeq(pipe, 1, n) \in Seq(Unit)
      /\ pipe' \in Seq(Unit) /\ Len(pipe') = Len(pipe) - n
  BY <1>1, <1>2, <1>3, Cuts
<1>5. all \in Seq(Unit) /\ Len(all) \in Nat
  BY <1>2, <1>4, Concats, LenProperties
<1> HIDE DEF all
<1>6. kept \in 0 .. Len(all) /\ kept <= BufSize /\ (Len(all) <= BufSize => kept = Len(all))
  BY <1>2, <1>5 DEF SmallerOf
<1> HIDE DEF kept
<1>7. PICK m \in 0 .. Len(all) : m = Len(all) - kept /\ Len(all) - m = kept
  BY <1>5, <1>6
<1>8. SubSeq(all, m + 1, Len(all)) \in Seq(Unit) /\ Len(SubSeq(all, m + 1, Len(all))) = kept
  BY <1>5, <1>7, Cuts
<1>9. ASSUME client
      PROVE  \/ /\ client /\ lost' = lost /\ outbuf' = all
                /\ outbuf' \in Seq(Unit) /\ Len(outbuf') <= BufSize
             \/ client /\ lost' /\ outbuf' \in Seq(Unit) /\ Len(outbuf') <= BufSize
  <2>1. outbuf' \in Seq(Unit) /\ Len(outbuf') <= BufSize
    BY <1>1, <1>6, <1>7, <1>8, <1>9
  <2>2. CASE Len(all) > BufSize
    BY <1>1, <1>9, <2>1, <2>2
  <2>3. CASE Len(all) <= BufSize
    <3>1. m = 0 /\ kept = Len(all)
      BY <1>5, <1>6, <1>7, <2>3
    <3>2. outbuf' = SubSeq(all, 1, Len(all))
      BY <1>1, <1>5, <1>9, <3>1
    <3>3. outbuf' = all
      BY <1>5, <3>2, AllOf
    <3>4. lost' = lost
      BY <1>1, <1>2, <1>5, <1>9, <2>3
    <3> QED
      BY <1>9, <2>1, <3>3, <3>4
  <2> QED
    BY <1>2, <1>5, <2>2, <2>3
<1> QED
  BY <1>1, <1>2, <1>3, <1>4, <1>9 DEF all

\* Every step of the pool does.
LEMMA PoolType ==
  ASSUME TypeInv, Relay \/ ChildEnds \/ Attach \/ Detach
  PROVE  TypeInv'
<1>0. Idle \in Slot /\ <<>> \in Seq(Unit) /\ <<>> \in Seq(Rec \cup {Junk}) /\ Len(<<>>) = 0
  BY EmptySeq, FrameLengths DEF Idle, Slot
<1>1. CASE Relay
  <2>1. PICK n \in 1 .. Len(pipe) :
           /\ pipe' \in Seq(Unit) /\ Len(pipe') = Len(pipe) - n
           /\ \/ ~client /\ UNCHANGED <<outbuf, lost>>
              \/ client /\ lost' = lost /\ outbuf' \in Seq(Unit) /\ Len(outbuf') <= BufSize
              \/ client /\ lost' /\ outbuf' \in Seq(Unit) /\ Len(outbuf') <= BufSize
    BY <1>1, RelayParts
  <2>2. Len(pipe') <= PipeSize
    BY <2>1, FrameLengths DEF TypeInv, TypeOK
  <2>3. lost' \in BOOLEAN
    BY <1>1 DEF Relay, TypeInv, TypeOK
  <2>4. outbuf' \in Seq(Unit) /\ Len(outbuf') <= BufSize
    BY <2>1 DEF TypeInv, TypeOK
  <2> QED
    BY <1>1, <2>1, <2>2, <2>3, <2>4 DEF Relay, writerVars, clientVars, TypeInv, TypeOK, WriterInv
<1>2. CASE ChildEnds
  <2>1. /\ pipe' \in Seq(Unit) /\ Len(pipe') <= PipeSize /\ outbuf' \in Seq(Unit) /\ Len(outbuf') <= BufSize
        /\ rd' \in Slot
    BY <1>0, <1>2, FrameLengths DEF ChildEnds
  <2>2. outpipe' /\ child' = "dead" /\ ~client' /\ outpipe' \in BOOLEAN
    BY <1>2 DEF ChildEnds, writerVars, TypeInv, TypeOK
  <2> QED
    BY <1>2, <2>1, <2>2 DEF ChildEnds, writerVars, TypeInv, TypeOK, WriterInv, Slot
<1>3. CASE Attach
  <2>1. whole' \subseteq Rec
    BY <1>3, Units, ElementOfSeq DEF Attach, TypeInv, TypeOK
  <2>2. lost' \in BOOLEAN
    BY <1>3 DEF Attach, CleanStart
  <2> QED
    BY <1>0, <1>3, <2>1, <2>2 DEF Attach, writerVars, TypeInv, TypeOK, WriterInv, Slot
<1>4. CASE Detach
  BY <1>0, <1>4 DEF Detach, ClientFrame, writerVars, TypeInv, TypeOK, WriterInv, Slot
<1> QED
  BY <1>1, <1>2, <1>3, <1>4

\* Every read does, in step or not.
LEMMA ReadType == ASSUME TypeInv, Read PROVE TypeInv'
<1>0. Idle \in Slot /\ rd \in Slot
  BY EmptySeq, FrameLengths DEF Idle, Slot, TypeInv, TypeOK
<1>1. PICK u \in Unit : \/ ReadId(u) \/ OutOfSync(u) \/ NoMemory(u) \/ ReadBody(u)
                        \/ \E size \in 0 .. MaxLen : ReadLength(u, size)
  BY DEF Read
<1>2. Take(u)
  BY <1>1 DEF ReadId, OutOfSync, NoMemory, ReadBody, ReadLength
<1>3. outbuf' \in Seq(Unit) /\ Len(outbuf') <= BufSize
  <2>1. outbuf \in Seq(Unit) /\ outbuf # <<>> /\ outbuf' = Tail(outbuf) /\ Len(outbuf) <= BufSize
    BY <1>2 DEF Take, TypeInv, TypeOK
  <2>2. outbuf' \in Seq(Unit) /\ Len(outbuf') = Len(outbuf) - 1 /\ Len(outbuf) \in Nat
    BY <2>1, HeadTailProperties, LenProperties
  <2> QED
    BY <2>1, <2>2, FrameLengths
<1>4. ASSUME rd' \in Slot, received' \in Seq(Rec \cup {Junk}), failed' \in BOOLEAN
      PROVE  TypeInv'
  BY <1>2, <1>3, <1>4 DEF Take, ClientFrame, writerVars, TypeInv, TypeOK, WriterInv, Slot
<1>5. received \in Seq(Rec \cup {Junk}) /\ failed \in BOOLEAN
  BY DEF TypeInv, TypeOK
<1>6. CASE ReadId(u)
  <2>1. rd' \in Slot
    <3>1. IdLen = 2 /\ rd.n \in {0, 1}
      BY <1>0, FrameLengths DEF Slot
    <3>2. CASE rd.n = 0
      <4>1. rd' = [rd EXCEPT !.n = 1]
        BY <1>6, <3>1, <3>2 DEF ReadId
      <4> QED
        BY <1>0, <3>1, <4>1 DEF Slot
    <3>3. CASE rd.n = 1
      <4>1. rd' = [Idle EXCEPT !.part = "length"]
        BY <1>6, <3>1, <3>3 DEF ReadId
      <4> QED
        BY <1>0, <4>1 DEF Slot
    <3> QED
      BY <3>1, <3>2, <3>3
  <2> QED
    BY <1>4, <1>5, <1>6, <2>1 DEF ReadId
<1>7. CASE OutOfSync(u)
  BY <1>0, <1>4, <1>5, <1>7 DEF OutOfSync, Fails
<1>8. CASE NoMemory(u)
  BY <1>0, <1>4, <1>5, <1>8 DEF NoMemory, Fails
<1>9. CASE ReadBody(u)
  <2> DEFINE body == Append(rd.body, u)
  <2>1. body \in Seq(Unit)
    BY <1>0, AppendProperties DEF Slot
  <2>2. Append(received, Returned(body)) \in Seq(Rec \cup {Junk})
    BY <1>5, ReturnedType, AppendProperties
  <2> HIDE DEF body
  <2>3. [rd EXCEPT !.body = body] \in Slot
    BY <1>0, <2>1 DEF Slot
  <2>4. rd' \in Slot /\ received' \in Seq(Rec \cup {Junk}) /\ failed' = failed
    BY <1>0, <1>5, <1>9, <2>2, <2>3 DEF ReadBody, body
  <2> QED
    BY <1>4, <1>5, <2>4
<1>10. ASSUME NEW size \in 0 .. MaxLen, ReadLength(u, size) PROVE TypeInv'
  <2>1. size \in Nat
    BY FrameLengths
  <2>2. [Idle EXCEPT !.part = "body", !.size = size] \in Slot
    BY <1>0, <2>1 DEF Slot
  <2>3. Append(received, Junk) \in Seq(Rec \cup {Junk})
    BY <1>5, AppendProperties
  <2> QED
    BY <1>0, <1>4, <1>5, <1>10, <2>2, <2>3 DEF ReadLength
<1> QED
  BY <1>1, <1>6, <1>7, <1>8, <1>9, <1>10

\* Every step does.
LEMMA NextTypeInv == ASSUME TypeInv, [Next]_vars PROVE TypeInv'
<1>1. CASE UNCHANGED vars
  BY <1>1 DEF vars, writerVars, clientVars, TypeInv, TypeOK, WriterInv
<1>2. CASE Next
  BY <1>1, <1>2, WriterType, PoolType, ReadType DEF Next, Write, AllGiven
<1> QED
  BY <1>1, <1>2

\* The variables have their types in every state.
LEMMA TypeInvHolds == Spec => []TypeInv
  BY InitTypeInv, NextTypeInv, PTL DEF Spec

(***************************************************************************)
(* The pipe and the pool's buffer hold no more than they can, the writer   *)
(* is within its frame, and the state of ConnexReadIP() is one of its own, *)
(* whatever the client was given (msg.c:86-204, fork.c:31-58).             *)
(***************************************************************************)
THEOREM TypeCorrect == Spec => []TypeOK
<1>1. TypeInv => TypeOK
  BY DEF TypeInv
<1> QED
  BY <1>1, TypeInvHolds, PTL

-----------------------------------------------------------------------------
(* The order of the units of a stream.                                     *)

\* The last unit of a frame.
Done(u) == u.at = FrameLen(u.rec)

\* u was written before v.
Later(u, v) == u.rec < v.rec \/ (u.rec = v.rec /\ u.at < v.at)

\* The units of q are in the order they were written in.
Rising(q) == \A i, j \in 1 .. Len(q) : i < j => Later(q[i], q[j])

\* No frame is cut in q.
Linked(q) == \A j \in 1 .. Len(q) - 1 : Follows(q[j], q[j + 1])

\* How the last unit of q stands to a writer at p, given record r, with c
\* units of its body written.
EndsAt(q, p, r, c) ==
  q # <<>> =>
    /\ q[Len(q)].rec <= r
    /\ p \in {"fork", "header"} => q[Len(q)].rec < r
    /\ p = "body" => q[Len(q)] = U(r, LenAt + c)

\* x is n units of the frame of r, after the first c.
Piece(x, r, c, n) ==
  /\ r \in Rec /\ c \in Nat /\ n \in Nat \ {0} /\ c + n <= FrameLen(r)
  /\ x \in Seq(Unit) /\ Len(x) = n
  /\ \A i \in 1 .. n : x[i] = U(r, c + i)

\* The elements of a sequence.
LEMMA Nonempty ==
  ASSUME NEW S, NEW q \in Seq(S)
  PROVE  /\ Len(q) \in Nat
         /\ q # <<>> <=> Len(q) > 0
         /\ q # <<>> => Len(q) \in 1 .. Len(q) /\ 1 \in 1 .. Len(q)
         /\ \A i \in 1 .. Len(q) : q[i] \in S
  BY LenProperties, EmptySeq, ElementOfSeq

\* The fields of a unit.
LEMMA AtU == \A r, n : U(r, n).rec = r /\ U(r, n).at = n
  BY DEF U

\* A piece is added to a stream: its first and its last unit.
LEMMA ExtendsEnds ==
  ASSUME NEW q \in Seq(Unit), NEW x, NEW r \in Rec, NEW c \in Nat, NEW n \in Nat \ {0}, Piece(x, r, c, n)
  PROVE  /\ q \o x \in Seq(Unit) /\ q \o x # <<>> /\ Len(q \o x) = Len(q) + n
         /\ (q \o x)[Len(q \o x)] = U(r, c + n)
         /\ q = <<>> => (q \o x)[1] = U(r, c + 1)
         /\ q # <<>> => (q \o x)[1] = q[1]
         /\ \A i \in 1 .. Len(q) : (q \o x)[i] = q[i]
         /\ \A i \in 1 .. n : (q \o x)[Len(q) + i] = U(r, c + i)
<1>1. /\ x \in Seq(Unit) /\ Len(x) = n /\ n \in Nat \ {0}
      /\ \A i \in 1 .. n : x[i] = U(r, c + i)
  BY DEF Piece
<1>2. /\ q \o x \in Seq(Unit) /\ Len(q \o x) = Len(q) + n /\ Len(q) \in Nat
      /\ \A i \in 1 .. Len(q) : (q \o x)[i] = q[i]
      /\ \A i \in Len(q) + 1 .. Len(q) + n : (q \o x)[i] = x[i - Len(q)]
  <2>1. /\ q \o x \in Seq(Unit) /\ Len(q \o x) = Len(q) + Len(x) /\ Len(q) \in Nat
        /\ \A i \in 1 .. Len(q) : (q \o x)[i] = q[i]
    BY <1>1, Concats
  <2>2. x \in Seq(Unit)
    BY <1>1
  <2>3. \A i \in Len(q) + 1 .. Len(q) + Len(x) : (q \o x)[i] = x[i - Len(q)]
    BY ONLY <2>2, q \in Seq(Unit), Concats
  <2> QED
    BY <1>1, <2>1, <2>3
<1> DEFINE m == Len(q)
           y == q \o x
<1>3. m \in Nat /\ Len(y) = m + n /\ (q # <<>> <=> m > 0) /\ (q # <<>> => 1 \in 1 .. m)
  BY <1>2, Nonempty
<1>4. /\ \A i \in 1 .. m : y[i] = q[i]
      /\ \A i \in m + 1 .. m + n : y[i] = x[i - m]
      /\ y \in Seq(Unit)
  BY <1>2
<1> HIDE DEF m, y
<1>5. \A i \in 1 .. n : y[m + i] = U(r, c + i)
  <2> SUFFICES ASSUME NEW i \in 1 .. n PROVE y[m + i] = U(r, c + i)
    OBVIOUS
  <2>1. m + i \in m + 1 .. m + n /\ (m + i) - m = i
    BY <1>1, <1>3
  <2> QED
    BY <1>1, <1>4, <2>1
<1>6. y[m + n] = U(r, c + n)
  BY <1>1, <1>5
<1>7. q = <<>> => y[1] = U(r, c + 1)
  <2>1. q = <<>> => m + 1 = 1
    BY <1>3
  <2> QED
    BY <1>1, <1>5, <2>1
<1>8. q # <<>> => y[1] = q[1]
  BY <1>3, <1>4
<1>9. y # <<>>
  BY <1>1, <1>3, <1>4, Nonempty
<1> QED
  BY <1>3, <1>4, <1>5, <1>6, <1>7, <1>8, <1>9 DEF m, y

\* A piece that comes after all there is keeps the order.
LEMMA ExtendsRising ==
  ASSUME NEW q \in Seq(Unit), NEW x, NEW r \in Rec, NEW c \in Nat, NEW n \in Nat \ {0}, Piece(x, r, c, n), Rising(q),
         q # <<>> => q[Len(q)].rec < r \/ q[Len(q)] = U(r, c)
  PROVE  Rising(q \o x)
<1> DEFINE m == Len(q)
           y == q \o x
<1>0. m \in Nat
  BY LenProperties
<1>9. /\ Len(y) = m + n
      /\ \A i \in 1 .. m : y[i] = q[i]
  BY ExtendsEnds
<1>10. \A i \in 1 .. n : y[m + i] = U(r, c + i)
  BY ExtendsEnds
<1>1. /\ Len(y) = m + n /\ m \in Nat
      /\ \A i \in 1 .. m : y[i] = q[i]
      /\ \A i \in 1 .. n : y[m + i] = U(r, c + i)
  BY <1>0, <1>9, <1>10
<1>2. r \in Nat /\ c \in Nat /\ n \in Nat \ {0}
  BY DEF Piece, Rec
<1>3. q # <<>> => q[m].rec < r \/ q[m] = U(r, c)
  OBVIOUS
<1>4. (q # <<>> <=> m > 0) /\ \A i \in 1 .. m : q[i] \in Unit /\ q[i].rec \in Nat /\ q[i].at \in Nat
  BY Nonempty, Units
<1>5. \A i, j \in 1 .. m : i < j => Later(q[i], q[j])
  BY DEF Rising
<1> HIDE DEF m, y
<1>6. ASSUME NEW i \in 1 .. m, NEW j \in 1 .. n PROVE Later(q[i], U(r, c + j))
  <2>1. m \in 1 .. m /\ q # <<>>
    BY <1>1, <1>4
  <2>2. q[i].rec \in Nat /\ q[i].at \in Nat /\ q[m].rec \in Nat /\ q[m].at \in Nat
    BY <1>4, <2>1
  <2>3. i = m \/ Later(q[i], q[m])
    <3>1. i = m \/ i < m
      BY <1>1
    <3> QED
      BY <1>5, <2>1, <3>1
  <2>4. \/ q[m].rec < r
        \/ q[m].rec = r /\ q[m].at = c
    BY <1>3, <2>1, AtU
  <2>7. i = m \/ q[i].rec < q[m].rec \/ (q[i].rec = q[m].rec /\ q[i].at < q[m].at)
    BY <2>3 DEF Later
  <2>5. q[i].rec < r \/ (q[i].rec = r /\ q[i].at <= c)
    <3>1. CASE i = m
      BY <1>2, <2>2, <2>4, <3>1
    <3>2. CASE q[i].rec < q[m].rec \/ (q[i].rec = q[m].rec /\ q[i].at < q[m].at)
      <4>1. PICK a \in Nat, b \in Nat, s \in Nat, h \in Nat :
              a = q[i].rec /\ b = q[i].at /\ s = q[m].rec /\ h = q[m].at
        BY <2>2
      <4>2. (a < s \/ (a = s /\ b < h)) /\ (s < r \/ (s = r /\ h = c))
        BY <2>4, <3>2, <4>1
      <4>3. a < r \/ (a = r /\ b <= c)
        BY <1>2, <4>2
      <4> QED
        BY <4>1, <4>3
    <3> QED
      BY <2>7, <3>1, <3>2
  <2>6. q[i].rec < r \/ (q[i].rec = r /\ q[i].at < c + j)
    BY <1>2, <2>2, <2>5
  <2> QED
    BY <2>6, AtU DEF Later
<1>7. ASSUME NEW i \in 1 .. n, NEW j \in 1 .. n, i < j PROVE Later(U(r, c + i), U(r, c + j))
  <2>1. c + i < c + j
    BY <1>2, <1>7
  <2> QED
    BY <2>1, AtU DEF Later
<1>8. ASSUME NEW i \in 1 .. m + n, NEW j \in 1 .. m + n, i < j PROVE Later(y[i], y[j])
  <2>1. CASE j <= m
    <3>1. i \in 1 .. m /\ j \in 1 .. m
      BY <1>1, <1>2, <1>8, <2>1
    <3> QED
      BY <1>1, <1>5, <1>8, <3>1
  <2>2. CASE i <= m /\ j > m
    <3>1. PICK l \in 1 .. n : j = m + l
      BY <1>1, <1>2, <2>2
    <3>2. i \in 1 .. m
      BY <1>1, <2>2
    <3> QED
      BY <1>1, <1>6, <3>1, <3>2
  <2>3. CASE i > m
    <3>4. m \in Nat /\ n \in Nat /\ i \in Nat /\ j \in Nat /\ i <= m + n /\ j <= m + n
      BY <1>1, <1>2
    <3>1. i - m \in 1 .. n /\ j - m \in 1 .. n /\ i - m < j - m
      BY ONLY <1>8, <2>3, <3>4
    <3>2. i = m + (i - m) /\ j = m + (j - m)
      BY <1>1
    <3>3. PICK k \in 1 .. n, l \in 1 .. n : i = m + k /\ j = m + l /\ k < l
      BY ONLY <3>1, <3>2
    <3> QED
      BY <1>1, <1>7, <3>3
  <2> QED
    BY <1>1, <1>2, <2>1, <2>2, <2>3
<1> QED
  BY <1>1, <1>8 DEF Rising, y

\* A piece that begins where the stream ends cuts no frame.
LEMMA ExtendsLinked ==
  ASSUME NEW q \in Seq(Unit), NEW x, NEW r \in Rec, NEW c \in Nat, NEW n \in Nat \ {0}, Piece(x, r, c, n), Linked(q),
         q # <<>> => \/ c = 0 /\ Done(q[Len(q)])
                     \/ q[Len(q)] = U(r, c)
  PROVE  Linked(q \o x)
<1> DEFINE m == Len(q)
           y == q \o x
<1>0. m \in Nat
  BY LenProperties
<1>9. /\ Len(y) = m + n
      /\ \A i \in 1 .. m : y[i] = q[i]
  BY ExtendsEnds
<1>10. \A i \in 1 .. n : y[m + i] = U(r, c + i)
  BY ExtendsEnds
<1>1. /\ Len(y) = m + n /\ m \in Nat
      /\ \A i \in 1 .. m : y[i] = q[i]
      /\ \A i \in 1 .. n : y[m + i] = U(r, c + i)
  BY <1>0, <1>9, <1>10
<1>2. r \in Rec /\ c \in Nat /\ n \in Nat \ {0} /\ c + n <= FrameLen(r) /\ FrameLen(r) \in Nat
  BY FrameLengths DEF Piece
<1>3. /\ q # <<>> => (c = 0 /\ Done(q[m])) \/ q[m] = U(r, c)
      /\ q # <<>> <=> m > 0
  BY Nonempty
<1>4. \A j \in 1 .. m - 1 : Follows(q[j], q[j + 1])
  BY DEF Linked
<1> HIDE DEF m, y
<1>5. ASSUME NEW j \in 1 .. (m + n) - 1 PROVE Follows(y[j], y[j + 1])
  <2>1. CASE j < m
    <3>1. j \in 1 .. m /\ j + 1 \in 1 .. m /\ j \in 1 .. m - 1
      BY <1>1, <1>2, <2>1
    <3> QED
      BY <1>1, <1>4, <3>1
  <2>2. CASE j = m
    <3>1. q # <<>> /\ j \in 1 .. m /\ 1 \in 1 .. n
      BY <1>1, <1>2, <1>3, <2>2
    <3>2. y[j] = q[m] /\ y[j + 1] = U(r, c + 1)
      BY <1>1, <2>2, <3>1
    <3>3. CASE c = 0 /\ Done(q[m])
      <4>1. c + 1 = 1
        BY <3>3
      <4> QED
        BY <3>2, <3>3, <4>1, AtU DEF Follows, Done
    <3>4. CASE q[m] = U(r, c)
      <4>1. c # FrameLen(r)
        BY <1>2
      <4> QED
        BY <3>2, <3>4, <4>1, AtU DEF Follows
    <3> QED
      BY <1>3, <3>1, <3>3, <3>4
  <2>3. CASE j > m
    <3>1. PICK k \in 1 .. n : j = m + k /\ k + 1 \in 1 .. n /\ j + 1 = m + (k + 1)
      BY <1>1, <1>2, <2>3
    <3>2. y[j] = U(r, c + k) /\ y[j + 1] = U(r, c + (k + 1))
      BY <1>1, <3>1
    <3>3. c + k # FrameLen(r) /\ c + (k + 1) = (c + k) + 1
      BY <1>2, <3>1
    <3> QED
      BY <3>2, <3>3, AtU DEF Follows
  <2> QED
    BY <1>1, <1>2, <2>1, <2>2, <2>3
<1> QED
  BY <1>1, <1>5 DEF Linked, y

\* A stream without its first unit.
LEMMA TailOf ==
  ASSUME NEW q \in Seq(Unit), q # <<>>
  PROVE  /\ Tail(q) \in Seq(Unit) /\ Len(Tail(q)) = Len(q) - 1
         /\ \A i \in 1 .. Len(q) - 1 : Tail(q)[i] = q[i + 1]
         /\ Head(q) = q[1] /\ q[1] \in Unit
         /\ Tail(q) = <<>> <=> Len(q) = 1
         /\ Tail(q) # <<>> => /\ Len(q) >= 2 /\ Tail(q)[1] = q[2]
                              /\ Tail(q)[Len(Tail(q))] = q[Len(q)]
<1>1. /\ Tail(q) \in Seq(Unit) /\ Len(Tail(q)) = Len(q) - 1
      /\ \A i \in 1 .. Len(q) - 1 : Tail(q)[i] = q[i + 1]
      /\ Head(q) = q[1]
  BY HeadTailProperties
<1>2. Len(q) \in Nat /\ Len(q) > 0 /\ q[1] \in Unit
  BY Nonempty
<1>3. (Tail(q) # <<>> <=> Len(Tail(q)) > 0) /\ (Tail(q) = <<>> <=> ~(Tail(q) # <<>>))
  BY <1>1, Nonempty
<1>4. Tail(q) = <<>> <=> Len(q) = 1
  BY <1>1, <1>2, <1>3
<1>5. ASSUME Tail(q) # <<>>
      PROVE  Len(q) >= 2 /\ Tail(q)[1] = q[2] /\ Tail(q)[Len(Tail(q))] = q[Len(q)]
  <2>1. Len(q) >= 2
    BY <1>1, <1>2, <1>3, <1>5
  <2>2. 1 \in 1 .. Len(q) - 1 /\ 1 + 1 = 2
    BY <1>2, <2>1
  <2>3. Len(Tail(q)) \in 1 .. Len(q) - 1 /\ Len(Tail(q)) + 1 = Len(q)
    BY <1>1, <1>2, <2>1
  <2> QED
    BY <1>1, <2>1, <2>2, <2>3
<1> QED
  BY <1>1, <1>2, <1>4, <1>5

\* What is left of q without its first n units.
LEMMA RestRises ==
  ASSUME NEW q \in Seq(Unit), NEW n \in 0 .. Len(q), NEW t \in Seq(Unit),
         Len(t) = Len(q) - n, \A i \in 1 .. Len(q) - n : t[i] = q[n + i]
  PROVE  /\ Rising(q) => Rising(t)
         /\ Linked(q) => Linked(t)
         /\ t # <<>> => q # <<>> /\ t[Len(t)] = q[Len(q)]
<1>1. PICK m \in Nat : m = Len(q)
  BY LenProperties
<1>2. PICK k \in Nat : k = Len(t) /\ m = k + n
  BY <1>1
<1>3. \A i \in 1 .. k : t[i] = q[n + i] /\ n + i \in 1 .. m
  BY <1>1, <1>2
<1>4. ASSUME Rising(q) PROVE Rising(t)
  <2>1. \A i, j \in 1 .. m : i < j => Later(q[i], q[j])
    BY <1>1, <1>4 DEF Rising
  <2>2. ASSUME NEW i \in 1 .. k, NEW j \in 1 .. k, i < j PROVE Later(t[i], t[j])
    <3>1. n + i < n + j
      BY <2>2
    <3> QED
      BY <1>3, <2>1, <3>1
  <2> QED
    BY <1>2, <2>2 DEF Rising
<1>5. ASSUME Linked(q) PROVE Linked(t)
  <2>1. \A j \in 1 .. m - 1 : Follows(q[j], q[j + 1])
    BY <1>1, <1>5 DEF Linked
  <2>2. ASSUME NEW j \in 1 .. k - 1 PROVE Follows(t[j], t[j + 1])
    <3>1. n + j \in 1 .. m - 1 /\ n + (j + 1) = (n + j) + 1 /\ j \in 1 .. k /\ j + 1 \in 1 .. k
      BY <1>2
    <3> QED
      BY <1>3, <2>1, <3>1
  <2> QED
    BY <1>2, <2>2 DEF Linked
<1>6. ASSUME t # <<>> PROVE q # <<>> /\ t[Len(t)] = q[Len(q)]
  <2>1. k > 0
    BY <1>2, <1>6, Nonempty
  <2>2. k \in 1 .. k /\ n + k = m /\ m > 0
    BY <1>2, <2>1
  <2>3. t[k] = q[n + k]
    BY <1>3, <2>2
  <2> QED
    BY <1>1, <1>2, <2>2, <2>3, Nonempty
<1> QED
  BY <1>4, <1>5, <1>6

-----------------------------------------------------------------------------
(* A client in step, and the writer.                                       *)

\* The stream q from the pool to the client runs on without a gap, up to
\* where the writer is.
Sound(q, p, r, c) ==
  /\ Rising(q) /\ Linked(q) /\ EndsAt(q, p, r, c)
  /\ q # <<>> /\ p # "body" => Done(q[Len(q)])

\* The client has read the header and some of the body of k.
InBody(k, d, q, p, r, c) ==
  /\ d.size = BodyLen[k] /\ Len(d.body) < d.size
  /\ d.body = Part(k, LenAt + 1, LenAt + Len(d.body))
  /\ IF q = <<>> THEN p = "body" /\ r = k /\ c = Len(d.body)
     ELSE q[1] = U(k, LenAt + Len(d.body) + 1)

\* What the client reads next is what it expects.
InPlace(d, q, p, r, c) ==
  \/ /\ d.part = "id"
     /\ IF q = <<>> THEN d.n = 0 /\ p # "body" ELSE q[1].at = d.n + 1
  \/ d.part = "length" /\ q # <<>> /\ q[1].at = LenAt
  \/ d.part = "body" /\ \E k \in Rec : InBody(k, d, q, p, r, c)

\* The records it has had come before those it will have.
Had(e, q, p, r) ==
  /\ \A j \in 1 .. Len(e) : /\ e[j] \in Rec /\ e[j] <= r
                            /\ p # "idle" => e[j] < r
                            /\ q # <<>> => e[j] < q[1].rec
  /\ \A j \in 2 .. Len(e) : e[j - 1] < e[j]

\* The records of w: the client has had them or will.
Kept(w, e, q) ==
  \A k \in w : \/ \E j \in 1 .. Len(e) : e[j] = k
               \/ \E j \in 1 .. Len(q) : q[j].rec = k /\ Done(q[j])

\* The client is in step with the writer.
Sync(q, p, r, c, d, e, w) ==
  Sound(q, p, r, c) /\ InPlace(d, q, p, r, c) /\ Had(e, q, p, r) /\ Kept(w, e, q)

\* Where the writer may be.
Place == {"idle", "fork", "header", "body"}

\* The writer goes on without writing: the end of the stream.
LEMMA MovesEnd ==
  ASSUME NEW q \in Seq(Unit), NEW p, NEW r \in Nat, NEW c,
         NEW p2 \in {"idle", "fork", "header"}, NEW r2 \in Nat,
         p # "body", r <= r2, p2 # "idle" => r < r2 \/ (p \in {"fork", "header"} /\ r2 = r)
  PROVE  EndsAt(q, p, r, c) => EndsAt(q, p2, r2, c)
<1>1. q # <<>> => q[Len(q)].rec \in Nat
  BY Nonempty, Units
<1> QED
  BY <1>1 DEF EndsAt

\* And the client in step.
LEMMA WriterMoves ==
  ASSUME NEW q \in Seq(Unit), NEW p, NEW r \in Nat, NEW c, NEW d, NEW e, NEW w,
         NEW p2 \in {"idle", "fork", "header"}, NEW r2 \in Nat,
         p # "body", r <= r2, p2 # "idle" => r < r2 \/ (p \in {"fork", "header"} /\ r2 = r)
  PROVE  Sync(q, p, r, c, d, e, w) => Sync(q, p2, r2, c, d, e, w)
<1>2. ASSUME EndsAt(q, p, r, c) PROVE EndsAt(q, p2, r2, c)
  BY <1>2, MovesEnd
<1>3. ASSUME Sync(q, p, r, c, d, e, w) PROVE Sync(q, p2, r2, c, d, e, w)
  <2>1. Sound(q, p2, r2, c)
    BY <1>2, <1>3 DEF Sync, Sound
  <2>2. InPlace(d, q, p2, r2, c)
    BY <1>3 DEF Sync, InPlace, InBody
  <2>3. Had(e, q, p2, r2)
    <3>1. ASSUME NEW j \in 1 .. Len(e)
          PROVE  e[j] \in Rec /\ e[j] <= r2 /\ (p2 # "idle" => e[j] < r2) /\ (q # <<>> => e[j] < q[1].rec)
      <4>1. e[j] \in Rec /\ e[j] <= r /\ (p # "idle" => e[j] < r) /\ (q # <<>> => e[j] < q[1].rec)
        BY <1>3, <3>1 DEF Sync, Had
      <4>2. e[j] \in Nat
        BY <4>1 DEF Rec
      <4> QED
        BY <4>1, <4>2
    <3> QED
      BY <1>3, <3>1 DEF Sync, Had
  <2> QED
    BY <1>3, <2>1, <2>2, <2>3 DEF Sync
<1> QED
  BY <1>3

\* The writer writes n units of the frame of r, after the first c0: where
\* what is written ends.
LEMMA WritesEnd ==
  ASSUME NEW q \in Seq(Unit), NEW p \in {"header", "body"}, NEW r \in Rec, NEW c \in Nat,
         NEW c0 \in Nat, NEW n \in Nat \ {0}, NEW x, Piece(x, r, c0, n),
         p = "header" => c0 = 0,
         p = "body" => c0 = LenAt + c,
         NEW p2 \in {"idle", "body"}, NEW c2 \in Nat,
         p2 = "body" => c0 + n = LenAt + c2
  PROVE  /\ EndsAt(q \o x, p2, r, c2)
         /\ EndsAt(q, p, r, c) /\ Rising(q) => Rising(q \o x)
<1> DEFINE y == q \o x
           m == Len(q)
<1>1. y[Len(y)] = U(r, c0 + n)
  BY ExtendsEnds
<1>2. r \in Nat
  BY FrameLengths DEF Rec
<1>3. ASSUME EndsAt(q, p, r, c), q # <<>> PROVE q[m].rec < r \/ q[m] = U(r, c0)
  BY <1>3 DEF EndsAt
<1>4. EndsAt(q, p, r, c) /\ Rising(q) => Rising(y)
  BY <1>3, ExtendsRising
<1> HIDE DEF y
<1>5. EndsAt(y, p2, r, c2)
  <2>1. y[Len(y)].rec = r
    BY <1>1, AtU
  <2>2. p2 = "body" => y[Len(y)] = U(r, LenAt + c2)
    BY <1>1
  <2> QED
    BY <1>2, <2>1, <2>2 DEF EndsAt
<1> QED
  BY <1>4, <1>5 DEF y

\* And what it writes keeps the client in step.
LEMMA WriterWrites ==
  ASSUME NEW q \in Seq(Unit), NEW p \in {"header", "body"}, NEW r \in Rec, NEW c \in Nat, NEW d, NEW e, NEW w,
         NEW c0 \in Nat, NEW n \in Nat \ {0}, NEW x, Piece(x, r, c0, n), d.n \in Nat,
         p = "header" => c0 = 0,
         p = "body" => c0 = LenAt + c,
         NEW p2 \in {"idle", "body"}, NEW c2 \in Nat,
         p2 = "body" => c0 + n = LenAt + c2,
         p2 = "idle" => c0 + n = FrameLen(r),
         NEW w2, w2 = w \/ (w2 = w \cup {r} /\ p2 = "idle")
  PROVE  Sync(q, p, r, c, d, e, w) => Sync(q \o x, p2, r, c2, d, e, w2)
<1> DEFINE y == q \o x
           m == Len(q)
<1>0. /\ y \in Seq(Unit) /\ y # <<>> /\ Len(y) = m + n
      /\ \A i \in 1 .. m : y[i] = q[i]
  BY ExtendsEnds
<1>7. y[Len(y)] = U(r, c0 + n)
  BY ExtendsEnds
<1>8. /\ q = <<>> => y[1] = U(r, c0 + 1)
      /\ q # <<>> => y[1] = q[1]
  BY ExtendsEnds
<1>1. /\ y \in Seq(Unit) /\ y # <<>> /\ Len(y) = m + n
      /\ y[Len(y)] = U(r, c0 + n)
      /\ q = <<>> => y[1] = U(r, c0 + 1)
      /\ q # <<>> => y[1] = q[1]
      /\ \A i \in 1 .. m : y[i] = q[i]
  BY <1>0, <1>7, <1>8
<1>2. r \in Nat /\ LenAt = 3 /\ FrameLen(r) \in Nat /\ m \in Nat
  BY FrameLengths, LenProperties DEF Rec
<1>4. EndsAt(y, p2, r, c2) /\ (EndsAt(q, p, r, c) /\ Rising(q) => Rising(y))
  BY WritesEnd
<1> HIDE DEF y
<1>6. ASSUME Sync(q, p, r, c, d, e, w) PROVE Sync(y, p2, r, c2, d, e, w2)
  <2>1. Sound(y, p2, r, c2)
    <3>1. Rising(q) /\ Linked(q) /\ EndsAt(q, p, r, c) /\ (q # <<>> /\ p # "body" => Done(q[m]))
      BY <1>6 DEF Sync, Sound
    <3>2. q # <<>> => (c0 = 0 /\ Done(q[m])) \/ q[m] = U(r, c0)
      BY <3>1 DEF EndsAt
    <3>3. Linked(y)
      BY <3>1, <3>2, ExtendsLinked DEF y
    <3>4. p2 # "body" => Done(y[Len(y)])
      <4>1. y[Len(y)].rec = r /\ y[Len(y)].at = c0 + n
        BY <1>1, AtU
      <4> QED
        BY <4>1 DEF Done
    <3> QED
      BY <1>4, <3>1, <3>3, <3>4 DEF Sound
  <2>2. InPlace(d, y, p2, r, c2)
    <3>1. InPlace(d, q, p, r, c)
      BY <1>6 DEF Sync
    <3>2. CASE q # <<>>
      <4>1. ASSUME NEW k \in Rec, InBody(k, d, q, p, r, c) PROVE InBody(k, d, y, p2, r, c2)
        BY <1>1, <3>2, <4>1 DEF InBody
      <4> QED
        BY <1>1, <3>1, <3>2, <4>1 DEF InPlace
    <3>3. CASE q = <<>>
      <4>1. y[1].at = c0 + 1 /\ y[1].rec = r
        BY <1>1, <3>3, AtU
      <4>2. CASE d.part = "id" /\ d.n = 0 /\ p # "body"
        BY <1>1, <4>1, <4>2 DEF InPlace
      <4>3. ASSUME NEW k \in Rec, d.part = "body", InBody(k, d, q, p, r, c)
            PROVE  InPlace(d, y, p2, r, c2)
        <5>1. k = r /\ c0 + 1 = LenAt + Len(d.body) + 1
          BY <3>3, <4>3 DEF InBody
        <5>2. InBody(k, d, y, p2, r, c2)
          BY <1>1, <3>3, <4>3, <5>1 DEF InBody
        <5> QED
          BY <4>3, <5>2 DEF InPlace
      <4> QED
        BY <3>1, <3>3, <4>2, <4>3 DEF InPlace
    <3> QED
      BY <3>2, <3>3
  <2>3. Had(e, y, p2, r)
    <3>1. ASSUME NEW j \in 1 .. Len(e)
          PROVE  e[j] \in Rec /\ e[j] <= r /\ e[j] < r /\ e[j] < y[1].rec
      <4>1. e[j] \in Rec /\ e[j] <= r /\ e[j] < r /\ (q # <<>> => e[j] < q[1].rec)
        BY <1>6, <3>1 DEF Sync, Had
      <4>2. q = <<>> => y[1].rec = r
        BY <1>1, AtU
      <4> QED
        BY <1>1, <4>1, <4>2
    <3> QED
      BY <1>6, <3>1 DEF Sync, Had
  <2>4. Kept(w2, e, y)
    <3> SUFFICES ASSUME NEW k \in w2
                 PROVE  \/ \E j \in 1 .. Len(e) : e[j] = k
                        \/ \E j \in 1 .. Len(y) : y[j].rec = k /\ Done(y[j])
      BY DEF Kept
    <3>1. CASE k \in w
      <4>1. ASSUME NEW j \in 1 .. Len(q), q[j].rec = k, Done(q[j])
            PROVE  \E i \in 1 .. Len(y) : y[i].rec = k /\ Done(y[i])
        <5>1. j \in 1 .. Len(y) /\ y[j] = q[j]
          BY <1>1, <1>2
        <5> QED
          BY <4>1, <5>1
      <4> QED
        BY <1>6, <3>1, <4>1 DEF Sync, Kept
    <3>2. CASE k = r /\ p2 = "idle"
      <4>1. Len(y) \in 1 .. Len(y)
        BY <1>1, Nonempty
      <4>2. y[Len(y)].rec = r /\ y[Len(y)].at = c0 + n
        BY <1>1, AtU
      <4> QED
        BY <3>2, <4>1, <4>2 DEF Done
    <3> QED
      BY <3>1, <3>2
  <2> QED
    BY <2>1, <2>2, <2>3, <2>4 DEF Sync
<1> QED
  BY <1>6 DEF y

-----------------------------------------------------------------------------
(* A client in step reads one unit.                                        *)

\* Where the first unit of a sound stream stands to its last and to its next.
LEMMA FirstUnit ==
  ASSUME NEW q \in Seq(Unit), q # <<>>, NEW p \in Place, NEW r \in Nat, NEW c \in Nat, Sound(q, p, r, c),
         p = "body" => r \in Rec /\ c < BodyLen[r]
  PROVE  /\ q[1] \in Unit /\ q[1].rec <= r
         /\ p \in {"fork", "header"} => q[1].rec < r
         /\ p = "body" => \/ q[1].rec < r
                          \/ q[1].rec = r /\ q[1].at <= LenAt + c
         /\ Tail(q) = <<>> => IF p = "body" THEN q[1] = U(r, LenAt + c) ELSE Done(q[1])
         /\ Tail(q) # <<>> => /\ Tail(q)[1] \in Unit /\ Follows(q[1], Tail(q)[1]) /\ Later(q[1], Tail(q)[1])
<1>1. PICK m \in Nat : m = Len(q) /\ m > 0
  BY Nonempty
<1>2. m \in 1 .. m /\ 1 \in 1 .. m /\ q[1] \in Unit /\ q[m] \in Unit
  BY <1>1, Nonempty
<1>3. q[1].rec \in Nat /\ q[1].at \in Nat /\ q[m].rec \in Nat /\ q[m].at \in Nat
  BY <1>2, Units
<1>4. /\ q[m].rec <= r /\ (p \in {"fork", "header"} => q[m].rec < r)
      /\ p = "body" => q[m] = U(r, LenAt + c)
      /\ p # "body" => Done(q[m])
  BY <1>1 DEF Sound, EndsAt
<1>5. q[1] = q[m] \/ Later(q[1], q[m])
  <2>1. m = 1 \/ 1 < m
    BY <1>1
  <2> QED
    BY <1>1, <1>2, <2>1 DEF Sound, Rising
<1>6. q[1].rec <= q[m].rec
  BY <1>3, <1>5 DEF Later
<1>7. q[1].rec <= r /\ (p \in {"fork", "header"} => q[1].rec < r)
  BY <1>3, <1>4, <1>6
<1>8. ASSUME p = "body" PROVE q[1].rec < r \/ (q[1].rec = r /\ q[1].at <= LenAt + c)
  <2>1. q[m].rec = r /\ q[m].at = LenAt + c
    BY <1>4, <1>8, AtU
  <2> QED
    BY <1>3, <1>5, <2>1 DEF Later
<1>9. ASSUME Tail(q) = <<>> PROVE IF p = "body" THEN q[1] = U(r, LenAt + c) ELSE Done(q[1])
  <2>1. m = 1
    BY <1>1, <1>9, TailOf
  <2> QED
    BY <1>4, <2>1
<1>10. ASSUME Tail(q) # <<>>
       PROVE  Tail(q)[1] \in Unit /\ Follows(q[1], Tail(q)[1]) /\ Later(q[1], Tail(q)[1])
  <2>1. m >= 2 /\ Tail(q)[1] = q[2]
    BY <1>1, <1>10, TailOf
  <2>2. 1 \in 1 .. m - 1 /\ 2 \in 1 .. m /\ 1 + 1 = 2 /\ 1 < 2
    BY <2>1
  <2>3. Follows(q[1], q[1 + 1])
    BY <1>1, <2>2 DEF Sound, Linked
  <2>4. Later(q[1], q[2])
    BY <1>1, <1>2, <2>2 DEF Sound, Rising
  <2> QED
    BY <1>1, <2>1, <2>2, <2>3, <2>4, Nonempty
<1> QED
  BY <1>2, <1>7, <1>8, <1>9, <1>10

\* What is left is as sound.
LEMMA TailSound ==
  ASSUME NEW q \in Seq(Unit), q # <<>>, NEW p, NEW r, NEW c, Sound(q, p, r, c)
  PROVE  Sound(Tail(q), p, r, c)
<1> DEFINE t == Tail(q)
<1>1. /\ t \in Seq(Unit) /\ Len(t) = Len(q) - 1 /\ \A i \in 1 .. Len(q) - 1 : t[i] = q[i + 1]
      /\ Len(q) \in Nat /\ Len(q) > 0
  BY TailOf, Nonempty
<1> HIDE DEF t
<1>2. 1 \in 0 .. Len(q) /\ \A i \in 1 .. Len(q) - 1 : t[i] = q[1 + i]
  BY <1>1
<1>3. /\ Rising(q) => Rising(t)
      /\ Linked(q) => Linked(t)
      /\ t # <<>> => q # <<>> /\ t[Len(t)] = q[Len(q)]
  BY <1>1, <1>2, RestRises
<1>4. EndsAt(t, p, r, c)
  BY <1>3 DEF Sound, EndsAt
<1> QED
  BY <1>3, <1>4 DEF Sound, t

\* The records it has had come before those that are left.
LEMMA TailHad ==
  ASSUME NEW q \in Seq(Unit), q # <<>>, NEW p \in Place, NEW r \in Nat, NEW c \in Nat, Sound(q, p, r, c),
         p = "body" => r \in Rec /\ c < BodyLen[r], NEW e, Had(e, q, p, r)
  PROVE  Had(e, Tail(q), p, r)
<1>1. ASSUME NEW j \in 1 .. Len(e), Tail(q) # <<>> PROVE e[j] < Tail(q)[1].rec
  <2>1. e[j] < q[1].rec /\ e[j] \in Nat
    BY <1>1 DEF Had, Rec
  <2>2. q[1] \in Unit /\ Tail(q)[1] \in Unit /\ Later(q[1], Tail(q)[1])
    BY <1>1, FirstUnit
  <2>3. q[1].rec \in Nat /\ Tail(q)[1].rec \in Nat
    BY <2>2, Units
  <2>4. PICK a \in Nat, b \in Nat : a = q[1].rec /\ b = Tail(q)[1].rec
    BY <2>3
  <2>5. a < b \/ a = b
    BY <2>2, <2>4 DEF Later
  <2>6. PICK h \in Nat : h = e[j] /\ h < a
    BY <2>1, <2>4
  <2>7. h < b
    BY ONLY <2>5, <2>6, a \in Nat, b \in Nat, h \in Nat
  <2> QED
    BY <2>4, <2>6, <2>7
<1> QED
  BY <1>1 DEF Had

\* A unit is read: unless it is the last of a frame, what is owed is on its way.
LEMMA TailKept ==
  ASSUME NEW q \in Seq(Unit), q # <<>>, NEW e, NEW e2, NEW w, Kept(w, e, q),
         \A k : (\E j \in 1 .. Len(e) : e[j] = k) => (\E j \in 1 .. Len(e2) : e2[j] = k),
         ~Done(q[1]) \/ \E j \in 1 .. Len(e2) : e2[j] = q[1].rec
  PROVE  Kept(w, e2, Tail(q))
<1> SUFFICES ASSUME NEW k \in w
             PROVE  \/ \E j \in 1 .. Len(e2) : e2[j] = k
                    \/ \E j \in 1 .. Len(Tail(q)) : Tail(q)[j].rec = k /\ Done(Tail(q)[j])
  BY DEF Kept
<1>1. CASE \E j \in 1 .. Len(e) : e[j] = k
  BY <1>1
<1>2. ASSUME NEW j \in 1 .. Len(q), q[j].rec = k, Done(q[j])
      PROVE  \/ \E i \in 1 .. Len(e2) : e2[i] = k
             \/ \E i \in 1 .. Len(Tail(q)) : Tail(q)[i].rec = k /\ Done(Tail(q)[i])
  <2>1. CASE j = 1
    BY <1>2, <2>1
  <2>2. CASE j # 1
    <3>1. Len(q) \in Nat /\ Len(Tail(q)) = Len(q) - 1 /\ \A i \in 1 .. Len(q) - 1 : Tail(q)[i] = q[i + 1]
      BY TailOf, LenProperties
    <3>2. PICK i \in 1 .. Len(q) - 1 : i + 1 = j
      <4>1. j - 1 \in 1 .. Len(q) - 1 /\ (j - 1) + 1 = j
        BY <2>2, <3>1
      <4> QED
        BY ONLY <4>1
    <3>3. Tail(q)[i] = q[j]
      BY <3>1, <3>2
    <3>4. i \in 1 .. Len(Tail(q))
      BY <3>1, <3>2
    <3> QED
      BY <1>2, <3>3, <3>4
  <2> QED
    BY <2>1, <2>2
<1> QED
  BY <1>1, <1>2 DEF Kept

\* A read that returns nothing keeps what the client has and will have.
LEMMA GoesOn ==
  ASSUME NEW q \in Seq(Unit), q # <<>>, NEW p \in Place, NEW r \in Nat, NEW c \in Nat, NEW d, NEW d2, NEW e, NEW w,
         p = "body" => r \in Rec /\ c < BodyLen[r],
         Sync(q, p, r, c, d, e, w), ~Done(q[1]), InPlace(d2, Tail(q), p, r, c)
  PROVE  Sync(Tail(q), p, r, c, d2, e, w)
<1>1. Sound(q, p, r, c) /\ Had(e, q, p, r) /\ Kept(w, e, q)
  BY DEF Sync
<1>2. Sound(Tail(q), p, r, c)
  BY <1>1, TailSound
<1>3. Had(e, Tail(q), p, r)
  BY <1>1, TailHad
<1>4. Kept(w, e, Tail(q))
  BY <1>1, TailKept
<1> QED
  BY <1>2, <1>3, <1>4 DEF Sync

\* The identifier is there, and more of the header after it: the header is
\* written at once.
LEMMA ReadsId ==
  ASSUME NEW q \in Seq(Unit), q # <<>>, NEW p \in Place, NEW r \in Nat, NEW c \in Nat, NEW d \in Slot, NEW d2, NEW e, NEW w,
         p = "body" => r \in Rec /\ c < BodyLen[r],
         Sync(q, p, r, c, d, e, w), d.part = "id",
         d2 = IF d.n + 1 = IdLen THEN [Idle EXCEPT !.part = "length"] ELSE [d EXCEPT !.n = @ + 1]
  PROVE  q[1].at = d.n + 1 /\ Sync(Tail(q), p, r, c, d2, e, w)
<1>1. /\ Sound(q, p, r, c) /\ q[1] \in Unit /\ LenAt = 3 /\ IdLen = 2
      /\ Tail(q) = <<>> => IF p = "body" THEN q[1] = U(r, LenAt + c) ELSE Done(q[1])
      /\ Tail(q) # <<>> => Follows(q[1], Tail(q)[1])
  BY FirstUnit, FrameLengths DEF Sync
<1>2. q[1].at = d.n + 1 /\ d.n \in {0, 1}
  BY FrameLengths DEF Sync, InPlace, Slot
<1>3. q[1].rec \in Rec /\ FrameLen(q[1].rec) \in Nat /\ FrameLen(q[1].rec) > 3
  <2>1. q[1].rec \in Rec
    BY <1>1, Units
  <2>2. BodyLen[q[1].rec] \in Nat \ {0} /\ FrameLen(q[1].rec) = LenAt + BodyLen[q[1].rec]
    BY <2>1, FrameLengths
  <2> QED
    BY <1>1, <2>1, <2>2
<1>4. ~Done(q[1])
  BY <1>2, <1>3 DEF Done
<1>5. Tail(q) # <<>>
  BY <1>1, <1>2, <1>4, AtU
<1>6. Tail(q)[1].at = q[1].at + 1
  BY <1>1, <1>4, <1>5 DEF Follows, Done
<1>7. InPlace(d2, Tail(q), p, r, c)
  <2>1. CASE d.n = 0
    <3>1. d2.part = "id" /\ d2.n = 1
      BY <1>1, <2>1 DEF Slot
    <3> QED
      BY <1>2, <1>5, <1>6, <2>1, <3>1 DEF InPlace
  <2>2. CASE d.n = 1
    <3>1. d2.part = "length"
      BY <1>1, <2>2 DEF Idle
    <3> QED
      BY <1>1, <1>2, <1>5, <1>6, <2>2, <3>1 DEF InPlace
  <2> QED
    BY <1>2, <2>1, <2>2
<1>8. Sync(Tail(q), p, r, c, d2, e, w)
  BY <1>4, <1>7, GoesOn
<1> QED
  BY <1>2, <1>8

\* The length is that of the body which follows.
LEMMA ReadsLength ==
  ASSUME NEW q \in Seq(Unit), q # <<>>, NEW p \in Place, NEW r \in Nat, NEW c \in Nat, NEW d \in Slot, NEW d2, NEW e, NEW w,
         p = "body" => r \in Rec /\ c < BodyLen[r],
         Sync(q, p, r, c, d, e, w), d.part = "length",
         d2 = [Idle EXCEPT !.part = "body", !.size = BodyLen[q[1].rec]]
  PROVE  q[1].at = LenAt /\ BodyLen[q[1].rec] # 0 /\ Sync(Tail(q), p, r, c, d2, e, w)
<1>1. /\ Sound(q, p, r, c) /\ q[1] \in Unit /\ LenAt = 3
      /\ Tail(q) = <<>> => IF p = "body" THEN q[1] = U(r, LenAt + c) ELSE Done(q[1])
      /\ Tail(q) # <<>> => Follows(q[1], Tail(q)[1]) /\ Tail(q)[1] \in Unit
  BY FirstUnit, FrameLengths DEF Sync
<1>2. q[1].at = LenAt
  BY DEF Sync, InPlace
<1> DEFINE k == q[1].rec
<1>3. k \in Rec /\ FrameLen(k) = LenAt + BodyLen[k] /\ BodyLen[k] \in Nat \ {0}
  BY <1>1, Units, FrameLengths
<1>4. ~Done(q[1])
  BY <1>1, <1>2, <1>3 DEF Done
<1>5. d2.part = "body" /\ d2.size = BodyLen[k] /\ d2.body = <<>>
  BY DEF Idle
<1>6. Len(d2.body) = 0 /\ d2.body = Part(k, LenAt + 1, LenAt + Len(d2.body))
  <2>1. Len(d2.body) = 0
    BY <1>5, EmptySeq
  <2>2. LenAt + 1 \in Nat \ {0} /\ LenAt + 0 \in Nat /\ LenAt + 0 <= FrameLen(k) /\ LenAt + 1 <= (LenAt + 0) + 1
        /\ (LenAt + 0) - (LenAt + 1) + 1 = 0
    BY <1>1, <1>3
  <2>3. Part(k, LenAt + 1, LenAt + 0) \in Seq(Unit) /\ Len(Part(k, LenAt + 1, LenAt + 0)) = 0
    BY <1>3, <2>2, PartType
  <2>4. Part(k, LenAt + 1, LenAt + 0) = <<>>
    BY <2>3, Nonempty
  <2> QED
    BY <1>5, <2>1, <2>4
<1>7. InBody(k, d2, Tail(q), p, r, c)
  <2>1. ASSUME Tail(q) = <<>> PROVE p = "body" /\ r = k /\ c = 0
    <3>1. p = "body" /\ q[1] = U(r, LenAt + c)
      BY <1>1, <1>4, <2>1
    <3>2. q[1].rec = r /\ q[1].at = LenAt + c
      BY <3>1, AtU
    <3> QED
      BY <1>1, <1>2, <3>1, <3>2
  <2>2. ASSUME Tail(q) # <<>> PROVE Tail(q)[1] = U(k, LenAt + 0 + 1)
    <3>1. Tail(q)[1].rec = k /\ Tail(q)[1].at = LenAt + 1
      BY <1>1, <1>2, <1>4, <2>2 DEF Follows, Done
    <3>2. Tail(q)[1] = U(Tail(q)[1].rec, Tail(q)[1].at)
      BY <1>1, <2>2, Units
    <3>3. LenAt + 0 + 1 = LenAt + 1
      BY <1>1
    <3> QED
      BY <3>1, <3>2, <3>3
  <2>3. Len(d2.body) < d2.size
    BY <1>3, <1>5, <1>6
  <2> QED
    BY <1>5, <1>6, <2>1, <2>2, <2>3 DEF InBody
<1>8. InPlace(d2, Tail(q), p, r, c)
  BY <1>3, <1>5, <1>7 DEF InPlace
<1>9. Sync(Tail(q), p, r, c, d2, e, w)
  BY <1>4, <1>8, GoesOn
<1> QED
  BY <1>2, <1>3, <1>9

\* A unit of the body that is not its last.
LEMMA ReadsBody ==
  ASSUME NEW q \in Seq(Unit), q # <<>>, NEW p \in Place, NEW r \in Nat, NEW c \in Nat, NEW d \in Slot, NEW d2, NEW e, NEW w,
         p = "body" => r \in Rec /\ c < BodyLen[r],
         Sync(q, p, r, c, d, e, w), d.part = "body",
         Len(Append(d.body, q[1])) # d.size, d2 = [d EXCEPT !.body = Append(d.body, q[1])]
  PROVE  Sync(Tail(q), p, r, c, d2, e, w)
<1>1. /\ Sound(q, p, r, c) /\ q[1] \in Unit /\ LenAt = 3
      /\ Tail(q) = <<>> => IF p = "body" THEN q[1] = U(r, LenAt + c) ELSE Done(q[1])
      /\ Tail(q) # <<>> => Follows(q[1], Tail(q)[1]) /\ Tail(q)[1] \in Unit
  BY FirstUnit, FrameLengths DEF Sync
<1>2. PICK k \in Rec : InBody(k, d, q, p, r, c)
  BY DEF Sync, InPlace
<1>3. PICK n \in Nat : n = Len(d.body)
  BY LenProperties DEF Slot
<1>4. /\ d.size = BodyLen[k] /\ n < BodyLen[k] /\ d.body = Part(k, LenAt + 1, LenAt + n)
      /\ q[1] = U(k, LenAt + n + 1)
  BY <1>2, <1>3 DEF InBody
<1>5. BodyLen[k] \in Nat /\ FrameLen(k) = LenAt + BodyLen[k]
  BY FrameLengths
<1>6. Append(d.body, q[1]) = Part(k, LenAt + 1, (LenAt + n) + 1)
  <2>2. LenAt = 3 /\ BodyLen[k] \in Nat /\ n < BodyLen[k] /\ FrameLen(k) = 3 + BodyLen[k]
    BY <1>1, <1>4, <1>5
  <2>1. /\ LenAt + 1 \in Nat \ {0} /\ LenAt + n \in Nat /\ (LenAt + n) + 1 <= FrameLen(k)
        /\ LenAt + 1 <= (LenAt + n) + 1 /\ (LenAt + n) + 1 = LenAt + n + 1
    BY ONLY <2>2, n \in Nat
  <2> QED
    BY <1>4, <2>1, PartGrows
<1>7. Len(Append(d.body, q[1])) = n + 1
  BY <1>1, <1>3, AppendProperties DEF Slot
<1>8. n + 1 < BodyLen[k]
  BY <1>3, <1>4, <1>5, <1>7
<1>9. q[1].rec = k /\ q[1].at = LenAt + n + 1 /\ ~Done(q[1])
  <2>1. q[1].rec = k /\ q[1].at = LenAt + n + 1
    BY <1>4, AtU
  <2>2. LenAt + n + 1 # FrameLen(k)
    BY <1>1, <1>3, <1>5, <1>8
  <2> QED
    BY <2>1, <2>2 DEF Done
<1>10. d2.part = "body" /\ d2.size = BodyLen[k] /\ d2.body = Append(d.body, q[1])
  BY <1>4 DEF Slot
<1>11. InBody(k, d2, Tail(q), p, r, c)
  <2>1. ASSUME Tail(q) = <<>> PROVE p = "body" /\ r = k /\ c = n + 1
    <3>1. p = "body" /\ q[1] = U(r, LenAt + c)
      BY <1>1, <1>9, <2>1
    <3>2. q[1].rec = r /\ q[1].at = LenAt + c
      BY <3>1, AtU
    <3> QED
      BY <1>1, <1>3, <1>9, <3>1, <3>2
  <2>2. ASSUME Tail(q) # <<>> PROVE Tail(q)[1] = U(k, LenAt + (n + 1) + 1)
    <3>1. Tail(q)[1].rec = k /\ Tail(q)[1].at = (LenAt + n + 1) + 1
      BY <1>1, <1>9, <2>2 DEF Follows, Done
    <3>2. Tail(q)[1] = U(Tail(q)[1].rec, Tail(q)[1].at)
      BY <1>1, <2>2, Units
    <3>3. LenAt + (n + 1) + 1 = (LenAt + n + 1) + 1
      BY <1>1, <1>3
    <3> QED
      BY <3>1, <3>2, <3>3
  <2>3. d2.body = Part(k, LenAt + 1, LenAt + (n + 1)) /\ Len(d2.body) = n + 1
    <3>1. (LenAt + n) + 1 = LenAt + (n + 1)
      BY <1>1, <1>3
    <3> QED
      BY <1>6, <1>7, <1>10, <3>1
  <2> QED
    BY <1>8, <1>10, <2>1, <2>2, <2>3 DEF InBody
<1>12. InPlace(d2, Tail(q), p, r, c)
  BY <1>10, <1>11 DEF InPlace
<1> QED
  BY <1>9, <1>12, GoesOn

\* The last unit of the body: the call returns its record.
LEMMA ReadsLast ==
  ASSUME NEW q \in Seq(Unit), q # <<>>, NEW p \in Place, NEW r \in Nat, NEW c \in Nat, NEW d \in Slot,
         NEW e \in Seq(Rec \cup {Junk}), NEW w,
         p = "body" => r \in Rec /\ c < BodyLen[r],
         Sync(q, p, r, c, d, e, w), d.part = "body",
         Len(Append(d.body, q[1])) = d.size
  PROVE  Sync(Tail(q), p, r, c, Idle, Append(e, Returned(Append(d.body, q[1]))), w)
<1>1. /\ Sound(q, p, r, c) /\ Had(e, q, p, r) /\ Kept(w, e, q) /\ q[1] \in Unit /\ LenAt = 3
      /\ q[1].rec <= r /\ (p \in {"fork", "header"} => q[1].rec < r)
      /\ p = "body" => \/ q[1].rec < r
                       \/ q[1].rec = r /\ q[1].at <= LenAt + c
      /\ Tail(q) = <<>> => IF p = "body" THEN q[1] = U(r, LenAt + c) ELSE Done(q[1])
      /\ Tail(q) # <<>> => Follows(q[1], Tail(q)[1]) /\ Later(q[1], Tail(q)[1]) /\ Tail(q)[1] \in Unit
  BY FirstUnit, FrameLengths DEF Sync
<1>2. PICK k \in Rec : InBody(k, d, q, p, r, c)
  BY DEF Sync, InPlace
<1>3. PICK n \in Nat : n = Len(d.body)
  BY LenProperties DEF Slot
<1>4. /\ d.size = BodyLen[k] /\ n < BodyLen[k] /\ d.body = Part(k, LenAt + 1, LenAt + n)
      /\ q[1] = U(k, LenAt + n + 1)
  BY <1>2, <1>3 DEF InBody
<1>5. BodyLen[k] \in Nat /\ FrameLen(k) = LenAt + BodyLen[k] /\ k \in Nat
  BY FrameLengths DEF Rec
<1>6. Append(d.body, q[1]) = Part(k, LenAt + 1, (LenAt + n) + 1)
  <2>2. LenAt = 3 /\ BodyLen[k] \in Nat /\ n < BodyLen[k] /\ FrameLen(k) = 3 + BodyLen[k]
    BY <1>1, <1>4, <1>5
  <2>1. /\ LenAt + 1 \in Nat \ {0} /\ LenAt + n \in Nat /\ (LenAt + n) + 1 <= FrameLen(k)
        /\ LenAt + 1 <= (LenAt + n) + 1 /\ (LenAt + n) + 1 = LenAt + n + 1
    BY ONLY <2>2, n \in Nat
  <2> QED
    BY <1>4, <2>1, PartGrows
<1>7. n + 1 = BodyLen[k]
  <2>1. Len(Append(d.body, q[1])) = n + 1
    BY <1>1, <1>3, AppendProperties DEF Slot
  <2> QED
    BY <1>4, <2>1
<1>8. q[1].rec = k /\ q[1].at = FrameLen(k) /\ Done(q[1])
  <2>1. q[1].rec = k /\ q[1].at = LenAt + n + 1
    BY <1>4, AtU
  <2>2. LenAt + n + 1 = FrameLen(k)
    BY <1>1, <1>3, <1>5, <1>7
  <2> QED
    BY <2>1, <2>2 DEF Done
<1>9. Returned(Append(d.body, q[1])) = k
  <2>1. (LenAt + n) + 1 = FrameLen(k)
    BY <1>1, <1>3, <1>5, <1>7
  <2>2. Append(d.body, q[1]) = Body(k)
    BY <1>6, <2>1 DEF Body
  <2> QED
    BY <2>2, ReturnsBody
<1> DEFINE e2 == Append(e, k)
<1>10. PICK m \in Nat : m = Len(e)
  BY LenProperties
<1>11. Len(e2) = m + 1 /\ e2[m + 1] = k /\ \A j \in 1 .. m : e2[j] = e[j]
  BY <1>10, AppendProperties
<1> HIDE DEF e2
<1>12. p # "idle" => k < r
  <2>1. CASE p \in {"fork", "header"}
    BY <1>1, <1>8, <2>1
  <2>2. CASE p = "body"
    <3>1. ~(k = r /\ FrameLen(k) <= LenAt + c)
      BY <1>1, <1>5, <2>2
    <3> QED
      BY <1>1, <1>8, <2>2, <3>1
  <2>3. CASE p = "idle"
    BY <2>3
  <2> QED
    BY <2>1, <2>2, <2>3 DEF Place
<1>13. Tail(q) # <<>> => Tail(q)[1].at = 1 /\ k < Tail(q)[1].rec
  <2> SUFFICES ASSUME Tail(q) # <<>> PROVE Tail(q)[1].at = 1 /\ k < Tail(q)[1].rec
    OBVIOUS
  <2>1. Tail(q)[1].at = 1
    BY <1>1, <1>8 DEF Follows, Done
  <2>2. k < Tail(q)[1].rec \/ FrameLen(k) < 1
    BY <1>1, <1>8, <2>1 DEF Later
  <2>3. ~(FrameLen(k) < 1)
    BY <1>1, <1>3, <1>5, <1>7
  <2> QED
    BY <2>1, <2>2, <2>3
<1>14. Had(e2, Tail(q), p, r)
  <2>1. Had(e, Tail(q), p, r)
    BY <1>1, TailHad
  <2>2. ASSUME NEW j \in 1 .. m + 1
        PROVE  /\ e2[j] \in Rec /\ e2[j] <= r /\ (p # "idle" => e2[j] < r)
               /\ Tail(q) # <<>> => e2[j] < Tail(q)[1].rec
    <3>1. CASE j = m + 1
      BY <1>1, <1>8, <1>11, <1>12, <1>13, <3>1
    <3>2. CASE j \in 1 .. m
      BY <1>10, <1>11, <2>1, <3>2 DEF Had
    <3> QED
      BY <3>1, <3>2
  <2>3. ASSUME NEW j \in 2 .. m + 1 PROVE e2[j - 1] < e2[j]
    <3>1. CASE j = m + 1
      <4>1. m \in 1 .. m /\ j - 1 = m
        BY <2>3, <3>1
      <4>2. e[m] < q[1].rec
        BY <1>1, <1>10, <4>1 DEF Had
      <4> QED
        BY <1>8, <1>11, <3>1, <4>1, <4>2
    <3>2. CASE j \in 2 .. m
      <4>1. j \in 1 .. m /\ j - 1 \in 1 .. m
        BY <3>2
      <4>2. e[j - 1] < e[j]
        BY <1>1, <1>10, <3>2 DEF Had
      <4> QED
        BY <1>11, <4>1, <4>2
    <3> QED
      BY <3>1, <3>2
  <2> QED
    BY <1>11, <2>2, <2>3 DEF Had
<1>15. Kept(w, e2, Tail(q))
  <2>1. ASSUME NEW h, NEW j \in 1 .. Len(e), e[j] = h PROVE \E i \in 1 .. Len(e2) : e2[i] = h
    <3>1. j \in 1 .. Len(e2) /\ e2[j] = e[j]
      BY <1>10, <1>11
    <3> QED
      BY <2>1, <3>1
  <2>2. \E j \in 1 .. Len(e2) : e2[j] = q[1].rec
    <3>1. m + 1 \in 1 .. Len(e2)
      BY <1>10, <1>11
    <3> QED
      BY <1>8, <1>11, <3>1
  <2> QED
    BY <1>1, <2>1, <2>2, TailKept
<1>16. InPlace(Idle, Tail(q), p, r, c)
  <2>1. ASSUME Tail(q) = <<>> PROVE p # "body"
    <3>1. ASSUME p = "body" PROVE FALSE
      <4>1. q[1] = U(r, LenAt + c) /\ BodyLen[r] \in Nat /\ FrameLen(r) = LenAt + BodyLen[r] /\ c < BodyLen[r]
        BY <1>1, <2>1, <3>1, FrameLengths
      <4>2. k = r /\ FrameLen(k) = LenAt + c
        BY <1>8, <4>1, AtU
      <4> QED
        BY <1>1, <4>1, <4>2
    <3> QED
      BY <3>1
  <2>2. Idle.part = "id" /\ Idle.n = 0
    BY DEF Idle
  <2> QED
    BY <1>13, <2>1, <2>2 DEF InPlace
<1>17. Sync(Tail(q), p, r, c, Idle, e2, w)
  BY <1>1, <1>14, <1>15, <1>16, TailSound DEF Sync
<1> QED
  BY <1>9, <1>17 DEF e2

-----------------------------------------------------------------------------
(* The steps of the writer.                                                *)

\* All that is on its way to the client.
Stream == outbuf \o pipe

\* What is in the pipe, with or without a client.
PipeInv == EndsAt(pipe, pc, rec, cnt) /\ Rising(pipe)

\* What holds of a client that has missed nothing.
SyncInv ==
  client /\ ~lost => ~failed /\ Sync(Stream, pc, rec, cnt, rd, received, whole)

OrderInv == TypeInv /\ PipeInv /\ SyncInv

\* Units are on their way.
LEMMA StreamType == ASSUME TypeInv PROVE Stream \in Seq(Unit) /\ pipe \in Seq(Unit) /\ outbuf \in Seq(Unit)
<1>1. pipe \in Seq(Unit) /\ outbuf \in Seq(Unit)
  BY DEF TypeInv, TypeOK
<1> QED
  BY <1>1, Concats DEF Stream

\* Sequences are joined in any order.
LEMMA JoinsAre ==
  ASSUME NEW a \in Seq(Unit), NEW b \in Seq(Unit), NEW c \in Seq(Unit)
  PROVE  a \o (b \o c) = (a \o b) \o c
  OBVIOUS

\* Nobody is attached at first.
LEMMA InitOrderInv == Init => OrderInv
<1> SUFFICES ASSUME Init PROVE OrderInv
  OBVIOUS
<1>1. Len(<<>>) = 0
  BY EmptySeq
<1>2. Rising(<<>>) /\ EndsAt(<<>>, pc, rec, cnt)
  BY <1>1 DEF Rising, EndsAt
<1> QED
  BY <1>2, InitTypeInv DEF Init, OrderInv, PipeInv, SyncInv

\* A writer that does not write.
LEMMA IdleOrder ==
  ASSUME OrderInv, TypeInv', NextRecord \/ Restart \/ NoPacket \/ HeaderFails
  PROVE  OrderInv'
<1>1. /\ pipe' = pipe /\ outbuf' = outbuf /\ cnt' = cnt /\ lost' = lost /\ whole' = whole
      /\ UNCHANGED <<client, rd, received, failed>>
  BY DEF NextRecord, Restart, NoPacket, HeaderFails, WriterFrame, clientVars
<1>2. /\ rec \in Nat /\ rec' \in Nat /\ rec <= rec'
      /\ pc # "body" /\ pc' \in {"idle", "fork", "header"}
      /\ pc' # "idle" => rec < rec' \/ (pc \in {"fork", "header"} /\ rec' = rec)
  BY FrameLengths DEF NextRecord, Restart, NoPacket, HeaderFails, OrderInv, TypeInv, TypeOK
<1>3. Stream' = Stream /\ Stream \in Seq(Unit) /\ pipe \in Seq(Unit)
  BY <1>1, StreamType DEF Stream, OrderInv
<1>4. EndsAt(pipe, pc, rec, cnt) => EndsAt(pipe, pc', rec', cnt)
  BY <1>2, <1>3, MovesEnd
<1>5. Sync(Stream, pc, rec, cnt, rd, received, whole) => Sync(Stream, pc', rec', cnt, rd, received, whole)
  <2>0. PICK q \in Seq(Unit) : q = Stream
    BY <1>3
  <2>1. PICK d, e, w : d = rd /\ e = received /\ w = whole
    OBVIOUS
  <2>2. Sync(q, pc, rec, cnt, d, e, w) => Sync(q, pc', rec', cnt, d, e, w)
    BY <1>2, WriterMoves
  <2> QED
    BY <2>0, <2>1, <2>2
<1>6. PipeInv'
  BY <1>1, <1>4 DEF OrderInv, PipeInv
<1>7. SyncInv'
  BY <1>1, <1>3, <1>5 DEF OrderInv, SyncInv
<1> QED
  BY <1>6, <1>7 DEF OrderInv

\* A writer that writes x, n units of the frame after the first c.
LEMMA WriteOrder ==
  ASSUME OrderInv, TypeInv', NEW x, NEW c \in Nat, NEW n \in Nat \ {0}, Piece(x, rec, c, n),
         pipe' = pipe \o x, UNCHANGED <<rec, outbuf, client, rd, received, failed, lost>>,
         pc \in {"header", "body"}, pc = "header" => c = 0, pc = "body" => c = LenAt + cnt,
         pc' \in {"idle", "body"}, pc' = "body" => c + n = LenAt + cnt', pc' = "idle" => c + n = FrameLen(rec),
         client => whole' = whole \/ (whole' = whole \cup {rec} /\ pc' = "idle")
  PROVE  OrderInv'
<1>1. /\ rec \in Rec /\ cnt \in Nat /\ cnt' \in Nat /\ rd.n \in Nat
      /\ pipe \in Seq(Unit) /\ outbuf \in Seq(Unit) /\ Stream \in Seq(Unit) /\ x \in Seq(Unit)
  <2>1. rec \in Rec /\ cnt \in Nat /\ cnt' \in Nat /\ x \in Seq(Unit)
    BY DEF Piece, OrderInv, TypeInv, TypeOK
  <2>2. rd.n \in Nat
    <3>1. rd \in Slot
      BY DEF OrderInv, TypeInv, TypeOK, Slot
    <3> QED
      BY <3>1, FrameLengths DEF Slot
  <2> QED
    BY <2>1, <2>2, StreamType DEF OrderInv
<1>2. Stream' = Stream \o x
  <2>1. Stream' = outbuf \o (pipe \o x)
    BY DEF Stream
  <2>2. outbuf \o (pipe \o x) = (outbuf \o pipe) \o x
    <3>1. pipe \in Seq(Unit) /\ outbuf \in Seq(Unit) /\ x \in Seq(Unit)
      BY <1>1
    <3> QED
      BY ONLY <3>1, JoinsAre
  <2> QED
    BY <2>1, <2>2 DEF Stream
<1>3. PICK p \in {"header", "body"}, p2 \in {"idle", "body"}, c2 \in Nat, r \in Rec :
        p = pc /\ p2 = pc' /\ c2 = cnt' /\ r = rec
  BY <1>1
<1>4. /\ p = "header" => c = 0
      /\ p = "body" => c = LenAt + cnt
      /\ p2 = "body" => c + n = LenAt + c2
      /\ p2 = "idle" => c + n = FrameLen(r)
      /\ Piece(x, r, c, n)
  BY <1>3
<1>5. PipeInv'
  <2>1. /\ EndsAt(pipe \o x, p2, r, c2)
        /\ EndsAt(pipe, p, r, cnt) /\ Rising(pipe) => Rising(pipe \o x)
    <3>1. PICK q \in Seq(Unit), k \in Nat : q = pipe /\ k = cnt
      BY <1>1
    <3>2. p = "body" => c = LenAt + k
      BY <1>4, <3>1
    <3>3. EndsAt(q \o x, p2, r, c2) /\ (EndsAt(q, p, r, k) /\ Rising(q) => Rising(q \o x))
      BY <1>3, <1>4, <3>1, <3>2, WritesEnd
    <3> QED
      BY <3>1, <3>3
  <2> QED
    BY <1>3, <2>1 DEF OrderInv, PipeInv
<1>6. SyncInv'
  <2> SUFFICES ASSUME client, ~lost PROVE (~failed /\ Sync(Stream, pc, rec, cnt, rd, received, whole))'
    BY DEF SyncInv
  <2>1. ~failed /\ Sync(Stream, p, r, cnt, rd, received, whole)
    BY <1>3 DEF OrderInv, SyncInv
  <2>2. PICK w2 : w2 = whole' /\ (w2 = whole \/ (w2 = whole \cup {r} /\ p2 = "idle"))
    BY <1>3
  <2>3. Sync(Stream \o x, p2, r, c2, rd, received, w2)
    <3>1. PICK d, e, w : d = rd /\ d.n \in Nat /\ e = received /\ w = whole
      BY <1>1
    <3>2. PICK q \in Seq(Unit), k \in Nat : q = Stream /\ k = cnt
      BY <1>1
    <3>3. (p = "body" => c = LenAt + k) /\ (w2 = w \/ (w2 = w \cup {r} /\ p2 = "idle"))
      BY <1>4, <2>2, <3>1, <3>2
    <3>5. /\ q \in Seq(Unit) /\ p \in {"header", "body"} /\ r \in Rec /\ k \in Nat /\ c \in Nat
          /\ n \in Nat \ {0} /\ Piece(x, r, c, n) /\ d.n \in Nat
          /\ p = "header" => c = 0
          /\ p = "body" => c = LenAt + k
          /\ p2 \in {"idle", "body"} /\ c2 \in Nat
          /\ p2 = "body" => c + n = LenAt + c2
          /\ p2 = "idle" => c + n = FrameLen(r)
          /\ w2 = w \/ (w2 = w \cup {r} /\ p2 = "idle")
      BY <1>3, <1>4, <3>1, <3>2, <3>3
    <3>4. Sync(q, p, r, k, d, e, w) => Sync(q \o x, p2, r, c2, d, e, w2)
      BY ONLY <3>5, WriterWrites
    <3> QED
      BY <2>1, <3>1, <3>2, <3>4
  <2> QED
    BY <1>2, <1>3, <2>1, <2>2, <2>3
<1> QED
  BY <1>5, <1>6 DEF OrderInv

\* The header begins a frame.
LEMMA HeaderOrder == ASSUME OrderInv, TypeInv', WriteHeader PROVE OrderInv'
<1>1. rec \in Rec /\ LenAt = 3 /\ BodyLen[rec] \in Nat \ {0} /\ FrameLen(rec) = LenAt + BodyLen[rec]
  BY FrameLengths DEF WriteHeader, OrderInv, TypeInv, WriterInv
<1>2. Piece(Header(rec), rec, 0, LenAt)
  <2>1. \A i \in 1 .. LenAt : 0 + i = i
    BY <1>1
  <2>2. 0 \in Nat /\ LenAt \in Nat \ {0} /\ 0 + LenAt <= FrameLen(rec)
    BY <1>1
  <2>3. /\ Header(rec) \in Seq(Unit) /\ Len(Header(rec)) = LenAt
        /\ \A i \in 1 .. LenAt : Header(rec)[i] = U(rec, i)
    BY <1>1, HeaderUnits
  <2> QED
    BY <1>1, <2>1, <2>2, <2>3 DEF Piece
<1>3. /\ pipe' = pipe \o Header(rec) /\ UNCHANGED <<rec, outbuf, client, rd, received, failed, lost>>
      /\ pc = "header" /\ pc' = "body" /\ cnt' = 0 /\ whole' = whole
  BY DEF WriteHeader, WriterFrame, clientVars
<1>4. 0 + LenAt = LenAt + cnt' /\ LenAt \in Nat \ {0}
  BY <1>1, <1>3
<1> QED
  BY <1>2, <1>3, <1>4, WriteOrder

\* A write() of the body goes on with the frame, or ends it.
LEMMA BodyOrder == ASSUME OrderInv, TypeInv', NEW n \in 1 .. PipeSize, WriteBody(n) PROVE OrderInv'
<1> DEFINE x == Part(rec, LenAt + cnt + 1, LenAt + cnt + n)
           c == LenAt + cnt
<1>1. /\ rec \in Rec /\ rec \in Nat /\ cnt \in Nat /\ n \in Nat \ {0} /\ cnt + n <= BodyLen[rec]
      /\ LenAt + cnt + n <= FrameLen(rec)
      /\ n = ToWrite <=> LenAt + cnt + n = FrameLen(rec)
      /\ x \in Seq(Unit) /\ Len(x) = n
      /\ \A i \in 1 .. n : x[i] = U(rec, LenAt + cnt + i)
  BY WritesUnits DEF WriteBody, OrderInv
<1>2. /\ pipe' = pipe \o x /\ UNCHANGED <<rec, outbuf, client, rd, received, failed, lost>>
      /\ pc = "body"
      /\ \/ n = ToWrite /\ pc' = "idle" /\ cnt' = 0 /\ whole' = IF client THEN whole \cup {rec} ELSE whole
         \/ n # ToWrite /\ pc' = "body" /\ cnt' = cnt + n /\ whole' = whole
  BY DEF WriteBody, WriterFrame, clientVars
<1> HIDE DEF x
<1>3. c \in Nat /\ LenAt = 3
  BY <1>1, FrameLengths
<1>4. Piece(x, rec, c, n)
  BY <1>1, <1>3 DEF Piece
<1>5. pc' = "body" => c + n = LenAt + cnt'
  BY <1>1, <1>2, <1>3
<1>6. pc' = "idle" => c + n = FrameLen(rec)
  BY <1>1, <1>2
<1>7. pc' \in {"idle", "body"} /\ (client => whole' = whole \/ (whole' = whole \cup {rec} /\ pc' = "idle"))
  BY <1>2
<1>8. pc \in {"header", "body"} /\ (pc = "header" => c = 0) /\ (pc = "body" => c = LenAt + cnt)
  BY <1>2
<1> HIDE DEF c
<1> QED
  BY <1>1, <1>2, <1>3, <1>4, <1>5, <1>6, <1>7, <1>8, WriteOrder

\* A body that is cut off is known to be missed.
LEMMA FailOrder == ASSUME OrderInv, TypeInv', BodyFails PROVE OrderInv'
<1>1. /\ UNCHANGED <<rec, pipe, client>> /\ lost' = (lost \/ client) /\ pc = "body" /\ pc' = "idle"
  BY DEF BodyFails, WriterFrame, clientVars
<1>2. PipeInv'
  BY <1>1 DEF OrderInv, PipeInv, EndsAt
<1>3. SyncInv'
  BY <1>1 DEF SyncInv
<1> QED
  BY <1>2, <1>3 DEF OrderInv

-----------------------------------------------------------------------------
(* The steps of the pool and of the client.                                *)

\* What is taken from the pipe is behind what the pool holds.
LEMMA Relays ==
  ASSUME NEW a \in Seq(Unit), NEW q \in Seq(Unit), NEW n \in 1 .. Len(q)
  PROVE  (a \o SubSeq(q, 1, n)) \o SubSeq(q, n + 1, Len(q)) = a \o q
<1>1. n \in 0 .. Len(q)
  BY LenProperties
<1> QED
  BY <1>1, CutsJoin

\* procsocket() takes from the pipe, and drops nothing the client does not miss.
LEMMA RelayOrder == ASSUME OrderInv, TypeInv', Relay PROVE OrderInv'
<1>1. PICK n \in 1 .. Len(pipe) :
           /\ pipe' = SubSeq(pipe, n + 1, Len(pipe)) /\ pipe' \in Seq(Unit) /\ Len(pipe') = Len(pipe) - n
           /\ \/ ~client /\ UNCHANGED <<outbuf, lost>>
              \/ client /\ lost' = lost /\ outbuf' = outbuf \o SubSeq(pipe, 1, n)
              \/ client /\ lost'
  BY RelayParts DEF OrderInv
<1>2. UNCHANGED <<rec, pc, cnt, client, rd, received, failed, whole>>
  BY DEF Relay, writerVars, clientVars
<1>3. pipe \in Seq(Unit) /\ outbuf \in Seq(Unit) /\ Len(pipe) \in Nat
  BY StreamType, LenProperties DEF OrderInv
<1>4. PipeInv'
  <2>1. PICK t \in Seq(Unit) : t = pipe'
    BY <1>1
  <2>2. n \in 0 .. Len(pipe)
    BY <1>3
  <2>3. \A i \in 1 .. Len(pipe) - n : SubSeq(pipe, n + 1, Len(pipe))[i] = pipe[n + i]
    BY <1>3, <2>2, Cuts
  <2>4. Len(t) = Len(pipe) - n /\ \A i \in 1 .. Len(pipe) - n : t[i] = pipe[n + i]
    BY <1>1, <2>1, <2>3
  <2>5. /\ Rising(pipe) => Rising(t)
        /\ t # <<>> => pipe # <<>> /\ t[Len(t)] = pipe[Len(pipe)]
    BY <1>3, <2>2, <2>4, RestRises
  <2>6. Rising(t) /\ EndsAt(t, pc, rec, cnt)
    BY <2>5 DEF OrderInv, PipeInv, EndsAt
  <2> QED
    BY <1>2, <2>1, <2>6 DEF PipeInv
<1>5. SyncInv'
  <2> SUFFICES ASSUME client', ~lost' PROVE (~failed /\ Sync(Stream, pc, rec, cnt, rd, received, whole))'
    BY DEF SyncInv
  <2>1. client /\ ~lost /\ outbuf' = outbuf \o SubSeq(pipe, 1, n)
    BY <1>1, <1>2
  <2>2. Stream' = Stream
    BY <1>1, <1>3, <2>1, Relays DEF Stream
  <2> QED
    BY <1>2, <2>1, <2>2 DEF OrderInv, SyncInv
<1> QED
  BY <1>4, <1>5 DEF OrderInv

\* Without a client there is only the pipe.
LEMMA EndOrder == ASSUME OrderInv, TypeInv', ChildEnds \/ Detach PROVE OrderInv'
<1>1. ~client' /\ UNCHANGED <<rec, pc, cnt>> /\ (pipe' = pipe \/ pipe' = <<>>)
  BY DEF ChildEnds, Detach, ClientFrame, writerVars
<1>2. PipeInv'
  <2>1. Len(<<>>) = 0
    BY EmptySeq
  <2>2. Rising(<<>>) /\ EndsAt(<<>>, pc, rec, cnt)
    BY <2>1 DEF Rising, EndsAt
  <2> QED
    BY <1>1, <2>2 DEF OrderInv, PipeInv
<1>3. SyncInv'
  BY <1>1 DEF SyncInv
<1> QED
  BY <1>2, <1>3 DEF OrderInv

\* A client attaches: between two frames, or it has missed something.
LEMMA AttachOrder == ASSUME OrderInv, TypeInv', Attach PROVE OrderInv'
<1>1. /\ rd' = Idle /\ received' = <<>> /\ failed' = FALSE /\ lost' = ~CleanStart
      /\ whole' = {u.rec : u \in {pipe[j] : j \in {j \in 1 .. Len(pipe) : pipe[j].at = FrameLen(pipe[j].rec)}}}
      /\ UNCHANGED <<rec, pc, cnt, pipe, outbuf>>
  BY DEF Attach, writerVars
<1>2. PipeInv'
  BY <1>1 DEF OrderInv, PipeInv
<1>3. SyncInv'
  <2> SUFFICES ASSUME ~lost' PROVE (~failed /\ Sync(Stream, pc, rec, cnt, rd, received, whole))'
    BY DEF SyncInv
  <2>1. CleanStart /\ pipe \in Seq(Unit) /\ outbuf = <<>>
    BY <1>1, StreamType DEF CleanStart, OrderInv
  <2>2. Stream' = pipe
    BY <1>1, <2>1, ConcatEmptySeq DEF Stream
  <2>3. Sound(pipe, pc, rec, cnt)
    <3>1. Linked(pipe)
      BY <2>1 DEF CleanStart, Uncut, Linked
    <3>2. pipe # <<>> /\ pc # "body" => Done(pipe[Len(pipe)])
      BY <2>1 DEF CleanStart, Done
    <3> QED
      BY <3>1, <3>2 DEF Sound, OrderInv, PipeInv
  <2>4. InPlace(Idle, pipe, pc, rec, cnt)
    <3>1. Idle.part = "id" /\ Idle.n = 0
      BY DEF Idle
    <3>2. pipe # <<>> => pipe[1].at = 1
      BY <2>1 DEF CleanStart, Uncut
    <3>3. pipe = <<>> => pc # "body"
      BY <2>1 DEF CleanStart
    <3> QED
      BY <3>1, <3>2, <3>3 DEF InPlace
  <2>5. Had(<<>>, pipe, pc, rec)
    BY EmptySeq DEF Had
  <2>6. Kept(whole', <<>>, pipe)
    BY <1>1 DEF Kept, Done
  <2>7. Sync(pipe, pc, rec, cnt, Idle, <<>>, whole')
    BY <2>3, <2>4, <2>5, <2>6 DEF Sync
  <2> QED
    BY <1>1, <2>2, <2>7
<1> QED
  BY <1>2, <1>3 DEF OrderInv

\* What a unit read leaves.
LEMMA Taken ==
  ASSUME TypeInv, NEW u \in Unit, Take(u)
  PROVE  /\ Stream # <<>> /\ u = Stream[1] /\ Stream' = Tail(Stream)
         /\ UNCHANGED <<rec, pc, cnt, pipe, client, lost, whole>> /\ client
<1>1. /\ outbuf # <<>> /\ u = Head(outbuf) /\ outbuf' = Tail(outbuf)
      /\ UNCHANGED <<rec, pc, cnt, pipe, client, lost, whole>> /\ client
  BY DEF Take, ClientFrame, writerVars
<1>2. outbuf \in Seq(Unit) /\ pipe \in Seq(Unit) /\ Stream \in Seq(Unit)
  BY StreamType
<1>3. Stream # <<>> /\ Head(Stream) = Head(outbuf) /\ Tail(Stream) = Tail(outbuf) \o pipe
  <2>1. PICK m \in Nat, k \in Nat : m = Len(outbuf) /\ k = Len(pipe) /\ m > 0
    BY <1>1, <1>2, Nonempty
  <2>2. /\ Len(Stream) = m + k
        /\ \A i \in 1 .. m : Stream[i] = outbuf[i]
        /\ \A i \in m + 1 .. m + k : Stream[i] = pipe[i - m]
    BY <1>2, <2>1, Concats DEF Stream
  <2>3. Stream # <<>>
    BY <1>2, <2>1, <2>2, Nonempty
  <2>4. Head(Stream) = Stream[1] /\ Head(outbuf) = outbuf[1] /\ 1 \in 1 .. m
    BY <1>1, <1>2, <2>1, <2>3, TailOf
  <2>5. /\ Tail(Stream) \in Seq(Unit) /\ Len(Tail(Stream)) = (m + k) - 1
        /\ \A i \in 1 .. (m + k) - 1 : Tail(Stream)[i] = Stream[i + 1]
    BY <1>2, <2>2, <2>3, TailOf
  <2>6. /\ Tail(outbuf) \in Seq(Unit) /\ Len(Tail(outbuf)) = m - 1
        /\ \A i \in 1 .. m - 1 : Tail(outbuf)[i] = outbuf[i + 1]
    BY <1>1, <1>2, <2>1, TailOf
  <2> DEFINE t == Tail(outbuf) \o pipe
  <2>7. /\ t \in Seq(Unit) /\ Len(t) = (m - 1) + k
        /\ \A i \in 1 .. m - 1 : t[i] = Tail(outbuf)[i]
        /\ \A i \in (m - 1) + 1 .. (m - 1) + k : t[i] = pipe[i - (m - 1)]
    BY <1>2, <2>1, <2>6, Concats
  <2> HIDE DEF t
  <2>8. ASSUME NEW i \in 1 .. (m + k) - 1 PROVE Tail(Stream)[i] = t[i]
    <3>1. CASE i <= m - 1
      <4>1. i \in 1 .. m - 1 /\ i + 1 \in 1 .. m
        BY <2>1, <3>1
      <4> QED
        BY <2>2, <2>5, <2>6, <2>7, <4>1
    <3>2. CASE i > m - 1
      <4>1. i \in (m - 1) + 1 .. (m - 1) + k /\ i + 1 \in m + 1 .. m + k /\ (i + 1) - m = i - (m - 1)
        BY <2>1, <3>2
      <4> QED
        BY <2>2, <2>5, <2>7, <4>1
    <3>3. i <= m - 1 \/ i > m - 1
      OBVIOUS
    <3> QED
      BY <3>1, <3>2, <3>3
  <2>9. Len(Tail(Stream)) = Len(t)
    BY <2>1, <2>5, <2>7
  <2>10. Tail(Stream) = t
    BY <2>5, <2>7, <2>8, <2>9, SeqEqual
  <2> QED
    BY <2>2, <2>3, <2>4, <2>10 DEF t
<1>4. Head(Stream) = Stream[1]
  BY <1>2, <1>3, TailOf
<1>5. Stream' = Tail(outbuf) \o pipe
  BY <1>1 DEF Stream
<1> QED
  BY <1>1, <1>3, <1>4, <1>5

\* Every read is in step.
LEMMA ReadOrder == ASSUME OrderInv, TypeInv', Read PROVE OrderInv'
<1>1. PICK u \in Unit : \/ ReadId(u) \/ OutOfSync(u) \/ NoMemory(u) \/ ReadBody(u)
                        \/ \E size \in 0 .. MaxLen : ReadLength(u, size)
  BY DEF Read
<1>2. Take(u)
  BY <1>1 DEF ReadId, OutOfSync, NoMemory, ReadBody, ReadLength
<1>3. /\ Stream # <<>> /\ u = Stream[1] /\ Stream' = Tail(Stream)
      /\ UNCHANGED <<rec, pc, cnt, pipe, client, lost, whole>> /\ client
  BY <1>2, Taken DEF OrderInv
<1>4. PipeInv'
  BY <1>3 DEF OrderInv, PipeInv
<1>5. ASSUME ~lost PROVE (~failed /\ Sync(Stream, pc, rec, cnt, rd, received, whole))'
  <2>1. ~failed /\ Sync(Stream, pc, rec, cnt, rd, received, whole)
    BY <1>3, <1>5 DEF OrderInv, SyncInv
  <2>2. /\ pc \in Place /\ rec \in Nat /\ cnt \in Nat /\ rd \in Slot /\ Stream \in Seq(Unit)
        /\ received \in Seq(Rec \cup {Junk}) /\ whole \in SUBSET Rec
        /\ pc = "body" => rec \in Rec /\ cnt < BodyLen[rec]
    BY StreamType, FrameLengths DEF OrderInv, TypeInv, TypeOK, Place, Slot
  <2>3. PICK q \in Seq(Unit), p \in Place, r \in Nat, c \in Nat, d \in Slot, e \in Seq(Rec \cup {Junk}), w \in SUBSET Rec :
          q = Stream /\ p = pc /\ r = rec /\ c = cnt /\ d = rd /\ e = received /\ w = whole
    BY <2>2
  <2>4. q # <<>> /\ Sync(q, p, r, c, d, e, w) /\ (p = "body" => r \in Rec /\ c < BodyLen[r]) /\ u = q[1]
    BY <1>3, <2>1, <2>2, <2>3
  <2>5. SUFFICES failed' = failed /\ Sync(Tail(q), p, r, c, rd', received', w)
    BY <1>3, <2>1, <2>3
  <2>6. CASE ReadId(u)
    <3>1. /\ d.part = "id" /\ failed' = failed /\ received' = e
          /\ rd' = IF d.n + 1 = IdLen THEN [Idle EXCEPT !.part = "length"] ELSE [d EXCEPT !.n = @ + 1]
      BY <2>3, <2>6 DEF ReadId
    <3>2. PICK d2 : d2 = rd'
      OBVIOUS
    <3>3. Sync(Tail(q), p, r, c, d2, e, w)
      BY <2>3, <2>4, <3>1, <3>2, ReadsId
    <3> QED
      BY <3>1, <3>2, <3>3
  <2>7. CASE OutOfSync(u)
    <3>1. d.part = "id" /\ u.at # d.n + 1
      BY <2>3, <2>7 DEF OutOfSync
    <3>2. q[1].at = d.n + 1
      BY <2>4, <3>1 DEF Sync, InPlace
    <3> QED
      BY <2>4, <3>1, <3>2
  <2>8. CASE NoMemory(u)
    <3>1. d.part = "length" /\ u.at # LenAt
      BY <2>3, <2>8 DEF NoMemory
    <3>2. q[1].at = LenAt
      BY <2>4, <3>1 DEF Sync, InPlace
    <3> QED
      BY <2>4, <3>1, <3>2
  <2>9. CASE ReadBody(u)
    <3>1. /\ d.part = "body" /\ failed' = failed
          /\ IF Len(Append(d.body, q[1])) = d.size
             THEN rd' = Idle /\ received' = Append(e, Returned(Append(d.body, q[1])))
             ELSE rd' = [d EXCEPT !.body = Append(d.body, q[1])] /\ received' = e
      BY <2>3, <2>4, <2>9 DEF ReadBody
    <3>2. CASE Len(Append(d.body, q[1])) = d.size
      <4>1. Sync(Tail(q), p, r, c, Idle, Append(e, Returned(Append(d.body, q[1]))), w)
        BY <2>3, <2>4, <3>1, <3>2, ReadsLast
      <4> QED
        BY <3>1, <3>2, <4>1
    <3>3. CASE Len(Append(d.body, q[1])) # d.size
      <4>1. PICK d2 : d2 = rd' /\ d2 = [d EXCEPT !.body = Append(d.body, q[1])]
        BY <3>1, <3>3
      <4>2. Sync(Tail(q), p, r, c, d2, e, w)
        BY <2>3, <2>4, <3>1, <3>3, <4>1, ReadsBody
      <4> QED
        BY <3>1, <3>3, <4>1, <4>2
    <3> QED
      BY <3>2, <3>3
  <2>10. ASSUME NEW size \in 0 .. MaxLen, ReadLength(u, size)
         PROVE  failed' = failed /\ Sync(Tail(q), p, r, c, rd', received', w)
    <3>1. /\ d.part = "length" /\ failed' = failed
          /\ q[1].at = LenAt => size = BodyLen[q[1].rec]
          /\ rd' = IF size = 0 THEN Idle ELSE [Idle EXCEPT !.part = "body", !.size = size]
          /\ received' = IF size = 0 THEN Append(e, Junk) ELSE e
      BY <2>3, <2>4, <2>10 DEF ReadLength
    <3>2. PICK d2 : d2 = [Idle EXCEPT !.part = "body", !.size = BodyLen[q[1].rec]]
      OBVIOUS
    <3>3. q[1].at = LenAt /\ BodyLen[q[1].rec] # 0 /\ Sync(Tail(q), p, r, c, d2, e, w)
      BY <2>3, <2>4, <3>1, <3>2, ReadsLength
    <3>4. rd' = d2 /\ received' = e
      BY <3>1, <3>2, <3>3
    <3> QED
      BY <3>1, <3>3, <3>4
  <2> QED
    BY <1>1, <2>6, <2>7, <2>8, <2>9, <2>10
<1>6. SyncInv'
  BY <1>3, <1>5 DEF SyncInv
<1> QED
  BY <1>4, <1>6 DEF OrderInv

\* Every step keeps the order.
LEMMA NextOrderInv == ASSUME OrderInv, [Next]_vars PROVE OrderInv'
<1>1. TypeInv'
  BY NextTypeInv DEF OrderInv
<1>2. CASE UNCHANGED vars
  BY <1>1, <1>2 DEF vars, writerVars, clientVars, OrderInv, PipeInv, SyncInv, Stream
<1>3. CASE NextRecord \/ Write
  BY <1>1, <1>3, IdleOrder, HeaderOrder, BodyOrder, FailOrder DEF Write
<1>4. CASE Relay \/ ChildEnds \/ Attach \/ Detach
  BY <1>1, <1>4, RelayOrder, EndOrder, AttachOrder
<1>5. CASE Read
  BY <1>1, <1>5, ReadOrder
<1> QED
  BY <1>2, <1>3, <1>4, <1>5 DEF Next, AllGiven

\* The order holds in every state.
LEMMA OrderInvHolds == Spec => []OrderInv
  BY InitOrderInv, NextOrderInv, PTL DEF Spec

(***************************************************************************)
(* A client that attached between two frames, and for which nothing was    *)
(* cut or dropped since, is never out of sync, and is given whole records, *)
(* each later than the one before (msg.c:86-204, msgmem.c:42-58).          *)
(***************************************************************************)
THEOREM InOrderHolds == Spec => []InOrder
<1>1. OrderInv => InOrder
  BY DEF OrderInv, SyncInv, Sync, Had, InOrder
<1> QED
  BY <1>1, OrderInvHolds, PTL

(***************************************************************************)
(* Nor does it miss a record that was written whole: once all is read, it  *)
(* has had them all (msg.c:86-204, msgmem.c:42-58).                        *)
(***************************************************************************)
THEOREM NoneMissingHolds == Spec => []NoneMissing
<1>1. OrderInv => NoneMissing
  <2> SUFFICES ASSUME OrderInv, client, ~lost, pipe = <<>>, outbuf = <<>>, NEW r \in whole
               PROVE  r \in {received[j] : j \in 1 .. Len(received)}
    BY DEF NoneMissing
  <2>1. Stream = <<>>
    BY ConcatEmptySeq, EmptySeq DEF Stream
  <2>2. Kept(whole, received, <<>>)
    BY <2>1 DEF OrderInv, SyncInv, Sync
  <2>3. \E j \in 1 .. Len(received) : received[j] = r
    BY <2>2, EmptySeq DEF Kept
  <2> QED
    BY <2>3
<1> QED
  BY <1>1, OrderInvHolds, PTL
=============================================================================
