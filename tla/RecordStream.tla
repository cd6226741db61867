---------------------------- MODULE RecordStream ----------------------------
(***************************************************************************)
(* The path of a record from rtserver's operate() to a client: the frames  *)
(* of ConnexWriteIP() in the non-blocking pipe of forkinet(), the buffer   *)
(* the pool of ClientPool keeps for the client, and ConnexReadIP() at the  *)
(* other end (src.bin/os/rtserver.1.5/{rtserver,fork}.c, the library       *)
(* src.lib/tcpip/cnx.1.15/src/{msg,connex}.c of codebase/base).            *)
(*                                                                         *)
(* A frame is cut into units: two for the four bytes of the identifier,    *)
(* one for the length and one for each part of the body a write() may cut  *)
(* off.  A unit is known by its record and its place in the frame.  What a *)
(* body looks like is left open: read where an identifier or a length is   *)
(* expected, it may be taken for anything.                                 *)
(*                                                                         *)
(* Of the pool one client is modelled, with what ClientPool shows a client *)
(* may rely on: its bytes come in order, and the oldest are lost when more *)
(* than BufSize wait.  What is in the client's socket counts as read.      *)
(***************************************************************************)
EXTENDS Integers, Sequences, FiniteSets

CONSTANTS
  MaxRec,    \* bound: how many records operate() is given
  BodyLen,   \* the length of the body of each record, in units
  PipeSize,  \* the capacity of the pipe
  PipeBuf,   \* PIPE_BUF: a write() of no more than this is not cut
  BufSize,   \* BUF_SIZE of the pool
  MaxLen,    \* bound: the largest length misread from something else
  Junk       \* what the client was given is not a record

Rec == 1 .. MaxRec
IdLen == 2
LenAt == IdLen + 1  \* the unit of the length, the last of the header

ASSUME RecordStreamAssumption ==
  /\ MaxRec \in Nat /\ MaxLen \in Nat
  /\ BodyLen \in [Rec -> Nat \ {0}]
  /\ PipeBuf \in Nat /\ PipeBuf >= LenAt
  /\ PipeSize \in Nat /\ PipeSize >= PipeBuf
  /\ BufSize \in Nat \ {0}
  /\ Junk \notin Rec

FrameLen(r) == LenAt + BodyLen[r]
Unit == UNION {[rec : {r}, at : 1 .. FrameLen(r)] : r \in Rec}

VARIABLES
  rec,      \* the last record operate() was given
  pc, cnt,  \* where it is, and the units of the body ConnexWriteIP() has written
  outpipe,  \* operate()'s outpipe is not -1
  child,    \* "none", "alive" or "dead": the process at the other end
  pipe,     \* the units in the pipe
  client,   \* the client is attached to the pool
  outbuf,   \* what the pool holds for it
  rd,       \* ConnexReadIP(): the part it reads, units read, size, body so far
  received, \* history: what it returned since the client attached
  failed,   \* history: it was out of sync since then
  lost,     \* history: units missed since then, or attached inside a frame
  whole,    \* history: the records wholly written since then
  found     \* history: a write() to the present pipe failed with EPIPE

writerVars == <<rec, pc, cnt, outpipe>>
clientVars == <<client, rd, received, failed>>
vars == <<writerVars, clientVars, child, pipe, outbuf, lost, whole, found>>
-----------------------------------------------------------------------------
(* Frames                                                                  *)

Part(r, a, b) == [j \in 1 .. b - a + 1 |-> [rec |-> r, at |-> a + j - 1]]
Header(r) == Part(r, 1, LenAt)
Body(r) == Part(r, LenAt + 1, FrameLen(r))

\* Where a unit may be followed by another without a frame being cut.
Follows(u, v) ==
  IF u.at = FrameLen(u.rec) THEN v.at = 1 ELSE v.rec = u.rec /\ v.at = u.at + 1

Uncut(s) ==
  /\ s # <<>> => s[1].at = 1
  /\ \A j \in 1 .. Len(s) - 1 : Follows(s[j], s[j + 1])

Room == PipeSize - Len(pipe)

SmallerOf(a, b) == IF a < b THEN a ELSE b

\* The idle state of ConnexReadIP(), between two calls or before the
\* first byte of one.
Idle == [part |-> "id", n |-> 0, size |-> 0, body |-> <<>>]
-----------------------------------------------------------------------------
\* forkinet(): pipe() or fcntl() fails, or fork() does, which is not seen
\* ("!=0" is also true of -1), or there is a child.
ForkInet ==
  \/ outpipe' = FALSE /\ child' = "none"
  \/ outpipe' = TRUE /\ child' \in {"alive", "dead"}

Init ==
  /\ rec = 0 /\ pc = "idle" /\ cnt = 0
  /\ \/ outpipe = FALSE /\ child = "none"
     \/ outpipe = TRUE /\ child \in {"alive", "dead"}
  /\ pipe = <<>> /\ outbuf = <<>>
  /\ client = FALSE /\ rd = Idle
  /\ received = <<>> /\ failed = FALSE /\ lost = FALSE /\ whole = {}
  /\ found = FALSE
-----------------------------------------------------------------------------
(* operate() and ConnexWriteIP()                                           *)

\* The reader of the pipe has gone.
Broken == child = "dead"

WriterFrame == UNCHANGED <<clientVars, outbuf>>

\* A message to be sent on.
NextRecord ==
  /\ pc = "idle" /\ rec < MaxRec
  /\ rec' = rec + 1
  /\ pc' = IF outpipe THEN "header" ELSE "fork"
  /\ WriterFrame
  /\ UNCHANGED <<cnt, outpipe, child, pipe, lost, whole, found>>

\* "Child process died - Restarting."
Restart ==
  /\ pc = "fork"
  /\ ForkInet
  /\ pc' = IF outpipe' THEN "header" ELSE "idle"
  /\ found' = FALSE
  /\ WriterFrame
  /\ UNCHANGED <<rec, cnt, pipe, lost, whole>>

\* fitpacket() returns NULL.
NoPacket ==
  /\ pc = "header"
  /\ pc' = "idle"
  /\ WriterFrame
  /\ UNCHANGED <<rec, cnt, outpipe, child, pipe, lost, whole, found>>

\* The header goes whole or not at all: it is shorter than PIPE_BUF.
WriteHeader ==
  /\ pc = "header" /\ ~Broken /\ LenAt <= Room
  /\ pipe' = pipe \o Header(rec)
  /\ pc' = "body" /\ cnt' = 0
  /\ WriterFrame
  /\ UNCHANGED <<rec, outpipe, child, lost, whole, found>>

\* EPIPE or EAGAIN: ConnexWriteIP() returns -1, which nobody looks at.
HeaderFails ==
  /\ pc = "header" /\ (Broken \/ Room < LenAt)
  /\ found' = (found \/ Broken)
  /\ pc' = "idle"
  /\ WriterFrame
  /\ UNCHANGED <<rec, cnt, outpipe, child, pipe, lost, whole>>

ToWrite == BodyLen[rec] - cnt

\* What one write() may put in the pipe: all of it, or, when it is longer
\* than PIPE_BUF and does not fit, a part.
Writable(n) ==
  /\ n <= ToWrite /\ n <= Room
  /\ n < ToWrite => PipeBuf < ToWrite /\ Room < ToWrite

\* Mutant: after a write() that was cut the body is sent from its start.
WriteBodyAgain(n) ==
  /\ pc = "body" /\ ~Broken /\ Writable(n)
  /\ pipe' = pipe \o Part(rec, LenAt + 1, LenAt + n)
  /\ IF n = ToWrite
     THEN /\ pc' = "idle" /\ cnt' = 0
          /\ whole' = IF client THEN whole \cup {rec} ELSE whole
     ELSE pc' = pc /\ cnt' = cnt + n /\ whole' = whole
  /\ WriterFrame
  /\ UNCHANGED <<rec, outpipe, child, lost, found>>

WriteBody(n) ==
  /\ pc = "body" /\ ~Broken /\ Writable(n)
  /\ pipe' = pipe \o Part(rec, LenAt + cnt + 1, LenAt + cnt + n)
  /\ IF n = ToWrite
     THEN /\ pc' = "idle" /\ cnt' = 0
          /\ whole' = IF client THEN whole \cup {rec} ELSE whole
     ELSE pc' = pc /\ cnt' = cnt + n /\ whole' = whole
  /\ WriterFrame
  /\ UNCHANGED <<rec, outpipe, child, lost, found>>

\* Mutant: write() is tried again until the pipe takes the rest.
BodyWaits ==
  /\ pc = "body" /\ Broken
  /\ pc' = "idle" /\ cnt' = 0
  /\ found' = TRUE
  /\ WriterFrame
  /\ UNCHANGED <<rec, outpipe, child, pipe, lost, whole>>

\* EPIPE or EAGAIN: the rest of the record is not sent, and the size of the
\* record is returned all the same.
BodyFails ==
  /\ pc = "body"
  /\ Broken \/ ~\E n \in 1 .. PipeSize : Writable(n)
  /\ pc' = "idle" /\ cnt' = 0
  /\ lost' = (lost \/ client)
  /\ found' = (found \/ Broken)
  /\ WriterFrame
  /\ UNCHANGED <<rec, outpipe, child, pipe, whole>>
-----------------------------------------------------------------------------
(* The child process: the pool.                                            *)

\* Mutant: nothing is ever dropped.
RelayWithoutDropping ==
  LET n == SmallerOf(Len(pipe), BufSize)
  IN /\ child = "alive" /\ n > 0
     /\ pipe' = SubSeq(pipe, n + 1, Len(pipe))
     /\ outbuf' = IF client THEN outbuf \o SubSeq(pipe, 1, n) ELSE outbuf
     /\ UNCHANGED <<writerVars, clientVars, child, lost, whole, found>>

\* Mutant: writeraw() drops what comes last, not what came first.
RelayDropsNewest ==
  LET n == SmallerOf(Len(pipe), BufSize)
      all == outbuf \o SubSeq(pipe, 1, n)
  IN /\ child = "alive" /\ n > 0
     /\ pipe' = SubSeq(pipe, n + 1, Len(pipe))
     /\ outbuf' = IF client THEN SubSeq(all, 1, SmallerOf(Len(all), BufSize)) ELSE outbuf
     /\ UNCHANGED <<writerVars, clientVars, child, lost, whole, found>>

\* procsocket() reads the pipe and hands it to the client's buffer.
Relay ==
  LET n == SmallerOf(Len(pipe), BufSize)
      all == outbuf \o SubSeq(pipe, 1, n)
      kept == SmallerOf(Len(all), BufSize)
  IN /\ child = "alive" /\ n > 0
     /\ pipe' = SubSeq(pipe, n + 1, Len(pipe))
     /\ IF client
        THEN /\ outbuf' = SubSeq(all, Len(all) - kept + 1, Len(all))
             /\ lost' = (lost \/ Len(all) > BufSize)
        ELSE UNCHANGED <<outbuf, lost>>
     /\ UNCHANGED <<writerVars, clientVars, child, whole, found>>

\* The child ends, on SIGUSR1 or because it could not create its socket, and
\* its connections and the pipe with it.
ChildEnds ==
  /\ child = "alive"
  /\ child' = "dead"
  /\ pipe' = <<>> /\ outbuf' = <<>>
  /\ client' = FALSE /\ rd' = Idle
  /\ UNCHANGED <<writerVars, received, failed, lost, whole, found>>
-----------------------------------------------------------------------------
(* The client: ConnexOpen(), and ConnexReadIP() called again and again, as  *)
(* by ipclient, whatever it returns.                                        *)

ClientFrame == UNCHANGED <<writerVars, child, pipe, lost, whole, found>>

\* Nothing the client is about to be sent is cut: neither what is left in the
\* buffer of its slot, nor what is in the pipe, nor what is still to come.
CleanStart ==
  /\ outbuf = <<>>
  /\ Uncut(pipe)
  /\ IF pipe = <<>> \/ pipe[Len(pipe)].at = FrameLen(pipe[Len(pipe)].rec)
     THEN pc # "body" ELSE pc = "body"

\* The buffer of a slot is not emptied for its next connection.
Attach ==
  /\ ~client /\ child = "alive"
  /\ client' = TRUE /\ rd' = Idle
  /\ received' = <<>> /\ failed' = FALSE
  /\ lost' = ~CleanStart
  /\ whole' = {u.rec : u \in {pipe[j] : j \in {j \in 1 .. Len(pipe) :
                                        pipe[j].at = FrameLen(pipe[j].rec)}}}
  /\ UNCHANGED <<writerVars, child, pipe, outbuf, found>>

\* Bound: the pool closes the connection before there is a new one.
Detach ==
  /\ client
  /\ client' = FALSE /\ rd' = Idle
  /\ ClientFrame /\ UNCHANGED <<outbuf, received, failed>>

\* read() by ConnexReadIP() takes the next unit.
Take(u) ==
  /\ client /\ outbuf # <<>>
  /\ u = Head(outbuf) /\ outbuf' = Tail(outbuf)
  /\ ClientFrame /\ UNCHANGED client

Fails == rd' = Idle /\ failed' = TRUE /\ received' = received

\* The next unit of the identifier, or something in a body that looks so.
ReadId(u) ==
  /\ rd.part = "id" /\ Take(u)
  /\ u.at = rd.n + 1 \/ u.at > IdLen
  /\ rd' = IF rd.n + 1 = IdLen THEN [Idle EXCEPT !.part = "length"]
                               ELSE [rd EXCEPT !.n = @ + 1]
  /\ UNCHANGED <<received, failed>>

\* MSGERR_OUT_OF_SYNC: the byte that does not match is gone.
OutOfSync(u) ==
  /\ rd.part = "id" /\ Take(u)
  /\ u.at # rd.n + 1
  /\ Fails

\* With a length of 0 the call returns, with no data.
ReadLength(u, size) ==
  /\ rd.part = "length" /\ Take(u)
  /\ u.at = LenAt => size = BodyLen[u.rec]
  /\ rd' = IF size = 0 THEN Idle ELSE [Idle EXCEPT !.part = "body", !.size = size]
  /\ received' = IF size = 0 THEN Append(received, Junk) ELSE received
  /\ UNCHANGED failed

\* MSGERR_NOMEM: malloc() fails for a length that was read from elsewhere.
NoMemory(u) ==
  /\ rd.part = "length" /\ Take(u)
  /\ u.at # LenAt
  /\ Fails

Returned(body) ==
  IF \E r \in Rec : body = Body(r) THEN CHOOSE r \in Rec : body = Body(r) ELSE Junk

\* Mutant: the loop of ConnexReadIP() ends one unit late.
ReadBodyLate(u) ==
  LET body == Append(rd.body, u) IN
  /\ rd.part = "body" /\ Take(u)
  /\ IF Len(body) > rd.size
     THEN rd' = Idle /\ received' = Append(received, Returned(SubSeq(body, 1, rd.size)))
     ELSE rd' = [rd EXCEPT !.body = body] /\ received' = received
  /\ UNCHANGED failed

ReadBody(u) ==
  LET body == Append(rd.body, u) IN
  /\ rd.part = "body" /\ Take(u)
  /\ IF Len(body) = rd.size
     THEN rd' = Idle /\ received' = Append(received, Returned(body))
     ELSE rd' = [rd EXCEPT !.body = body] /\ received' = received
  /\ UNCHANGED failed
-----------------------------------------------------------------------------
Write ==
  \/ Restart \/ NoPacket \/ WriteHeader \/ HeaderFails
  \/ \E n \in 1 .. PipeSize : WriteBody(n)
  \/ BodyFails

Read ==
  \E u \in Unit :
    \/ ReadId(u) \/ OutOfSync(u) \/ NoMemory(u) \/ ReadBody(u)
    \/ \E size \in 0 .. MaxLen : ReadLength(u, size)

AllGiven == rec = MaxRec /\ UNCHANGED vars

Next == NextRecord \/ Write \/ Relay \/ ChildEnds \/ Attach \/ Detach \/ Read \/ AllGiven

Spec == Init /\ [][Next]_vars

\* operate() is run.  The child and the client may be stuck.
FairSpec == Spec /\ WF_vars(Write)

\* They are not, and read what there is to read.
ReadersRun == WF_vars(Relay) /\ WF_vars(Read)
-----------------------------------------------------------------------------
TypeOK ==
  /\ rec \in 0 .. MaxRec /\ cnt \in Nat
  /\ pc \in {"idle", "fork", "header", "body"}
  /\ pc = "body" => rec \in Rec /\ cnt < BodyLen[rec]
  /\ outpipe \in BOOLEAN /\ child \in {"none", "alive", "dead"}
  /\ outpipe <=> child # "none"
  /\ pipe \in Seq(Unit) /\ Len(pipe) <= PipeSize
  /\ outbuf \in Seq(Unit) /\ Len(outbuf) <= BufSize
  /\ client \in BOOLEAN
  /\ rd \in [part : {"id", "length", "body"}, n : 0 .. IdLen - 1, size : Nat, body : Seq(Unit)]
  /\ received \in Seq(Rec \cup {Junk})
  /\ failed \in BOOLEAN /\ lost \in BOOLEAN /\ found \in BOOLEAN
  /\ whole \subseteq Rec

(***************************************************************************)
(* A client that attached between two frames, and for which nothing was    *)
(* cut or dropped since, is never out of sync, and each call gives it one  *)
(* record as it was sent, later than the one before (msg.c:86-122 against  *)
(* msg.c:126-204, through msgmem.c:42-58).                                 *)
(***************************************************************************)
InOrder ==
  client /\ ~lost =>
    /\ ~failed
    /\ \A j \in 1 .. Len(received) : received[j] \in Rec
    /\ \A j \in 2 .. Len(received) : received[j - 1] < received[j]

(***************************************************************************)
(* Nor does such a client miss a record that was written whole: once all   *)
(* is read, it has had them all (the same lines).                          *)
(***************************************************************************)
NoneMissing ==
  client /\ ~lost /\ pipe = <<>> /\ outbuf = <<>> =>
    whole \subseteq {received[j] : j \in 1 .. Len(received)}

(***************************************************************************)
(* operate() always comes back to the control program it serves, though    *)
(* the child may never read the pipe or be gone: the end of the pipe it    *)
(* writes to does not block (fork.c:41-43, msg.c:102-121).                 *)
(***************************************************************************)
WriterReturns == (pc # "idle") ~> (pc = "idle")

(***************************************************************************)
(* While the child and the client run, a record that was written whole     *)
(* reaches such a client in the end; it does not stay in the pipe, in the  *)
(* pool or in a call that waits for more (socket.c:143-154,                *)
(* msg.c:189-203).                                                         *)
(***************************************************************************)
Delivered ==
  ReadersRun => \A r \in Rec :
    (client /\ r \in whole)
      ~> (~client \/ lost \/ \E j \in 1 .. Len(received) : received[j] = r)

(***************************************************************************)
(* What the comment at ipserver.1.10/fork.c:43-48 says of such a pipe: a   *)
(* message is either sent or discarded, so the frame of a record that      *)
(* operate() is done with is not cut off in the pipe.                      *)
(***************************************************************************)
WholeOrNothing ==
  pc = "idle" /\ pipe # <<>> => LET u == pipe[Len(pipe)] IN u.at = FrameLen(u.rec)

(***************************************************************************)
(* What the message at rtserver.c:163 says is done: once a write has shown *)
(* that the child is gone, the next record goes to a new one.              *)
(***************************************************************************)
ChildReplaced == pc = "header" => ~found
=============================================================================
