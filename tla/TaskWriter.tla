---------------------------- MODULE TaskWriter ----------------------------
(***************************************************************************)
(* A control program and the task that writes its records to files:        *)
(* normalscan calls RMsgSnd*() (rmsgsnd.1.1), rawacfwrite accepts the      *)
(* connection, forks, and its child answers in operate() (rmsgrcv.1.1,     *)
(* fio.1.2).  iqwrite and fitacfwrite differ only in the record they       *)
(* write, the other control programs in when they make the same calls.     *)
(*                                                                         *)
(* The control program does one call at a time and waits for its answer;   *)
(* the child answers TASK_DATA first and then writes.  The scheduler       *)
(* kills the control program and runs another, while the child of the      *)
(* first may still be writing: a session is a run of the control program,  *)
(* its connection and its child.                                           *)
(*                                                                         *)
(* A message is the number of its parts that are under way, a file name is *)
(* a directory and the second in it.  malloc() does not fail.  TASK_QUIT   *)
(* is left out, no program of the repository sends it.                     *)
(***************************************************************************)
EXTENDS Integers, Sequences, FiniteSets

CONSTANTS
  Dir,         \* the directories of SD_RAW_PATH
  Time,        \* the times, in seconds, a record may have
  NoFile,      \* the value NULL of filename
  MaxSession,  \* bound: how often a control program is started
  MaxRec,      \* bound: how many records are sent
  MaxOpen,     \* bound: how many files are asked for by RMsgSndOpen()
  MaxLeft      \* bound: how many open files a child leaves behind

File == Dir \X Time

ASSUME TaskWriterAssumption ==
  /\ MaxSession \in Nat /\ MaxRec \in Nat /\ MaxOpen \in Nat /\ MaxLeft \in Nat
  /\ Time # {} /\ NoFile \notin File

Session == 1 .. MaxSession
Rec == 1 .. MaxRec

\* The parts a call sends, one send() each: the code of the message; for
\* "open" the length and the text; for "data" num, tsize, data[], the blocks.
Parts == [reset |-> 1, close |-> 1, open |-> 3, data |-> 5]
Call == DOMAIN Parts

\* What a file is made of.  A record 0 was never sent.
Item == [rec : 0 .. MaxRec, whole : BOOLEAN]

VARIABLES
  cp,       \* the control program
  todo,     \* the calls it has still to do
  part,     \* the part of the first of them it sends next
  sess,     \* the present session, 0 before the first
  rec,      \* the last record
  epoch,    \* how many files were asked for
  sent,     \* history: per record, its time and the values of sess and epoch
  conn,     \* per session, the connection
  wire,     \* per session, the message in the socket: its call, the parts that
            \* are there, the record
  answer,   \* per session, an answer is in the socket
  child,    \* per session, the child in operate()
  made,     \* the files there are
  file,     \* what is in them
  miss      \* history: the values of epoch of records not written whole

cpVars == <<cp, todo, part>>
runVars == <<sess, rec, epoch, sent>>
diskVars == <<made, file, miss>>
vars == <<cpVars, runVars, conn, wire, answer, child, diskVars>>

\* "shut": the control program is gone; "fin": the child is, and "rst": the
\* control program's side has been told so.
ConnState == {"none", "up", "shut", "fin", "rst"}
ChildPC == {"none", "wait", "make", "append", "gone", "crashed"}

Message == [call : Call, n : 0 .. 5, rec : 0 .. MaxRec]

\* "got": a block of data has come; "cur": the record it is at.
Child == [pc : ChildPC, filename : File \cup {NoFile}, flg : BOOLEAN, got : BOOLEAN,
          cur : 0 .. MaxRec, left : 0 .. MaxLeft]
-----------------------------------------------------------------------------
NoMessage == [call |-> "reset", n |-> 0, rec |-> 0]
NewChild == [pc |-> "wait", filename |-> NoFile, flg |-> FALSE, got |-> FALSE,
             cur |-> 0, left |-> 0]
NoChild == [NewChild EXCEPT !.pc = "gone"]

Init ==
  /\ cp = "off" /\ todo = <<>> /\ part = 1
  /\ sess = 0 /\ rec = 0 /\ epoch = 0
  /\ sent = [r \in Rec |-> [time |-> CHOOSE t \in Time : TRUE, sess |-> 0, epoch |-> 0]]
  /\ conn = [s \in Session |-> "none"]
  /\ wire = [s \in Session |-> NoMessage]
  /\ answer = [s \in Session |-> FALSE]
  /\ child = [s \in Session |-> [NewChild EXCEPT !.pc = "none"]]
  /\ made = {} /\ file = [f \in File |-> <<>>] /\ miss = {}
-----------------------------------------------------------------------------
(* The control program.                                                    *)

Calls(list) == cp' = "send" /\ todo' = list /\ part' = 1

\* OpsSetupTask() and the first calls.  When nobody listens the socket is -1
\* and every call fails.  When fork() fails in the writer the connection is
\* accepted and closed, as if its child had gone at once.
Start ==
  /\ cp = "off" /\ sess < MaxSession /\ epoch < MaxOpen
  /\ sess' = sess + 1 /\ epoch' = epoch + 1
  /\ Calls(<<"reset", "open">>)
  /\ \/ /\ conn' = [conn EXCEPT ![sess'] = "up"]
        /\ child' = [child EXCEPT ![sess'] = NewChild]
     \/ /\ conn' = [conn EXCEPT ![sess'] = "fin"]
        /\ child' = [child EXCEPT ![sess'] = NoChild]
     \/ UNCHANGED <<conn, child>>
  /\ UNCHANGED <<rec, sent, wire, answer, diskVars>>

\* The end of a beam.  The time is that of the clock, which may be set back.
SendRecord(t) ==
  /\ cp = "idle" /\ rec < MaxRec
  /\ rec' = rec + 1
  /\ sent' = [sent EXCEPT ![rec + 1] = [time |-> t, sess |-> sess, epoch |-> epoch]]
  /\ Calls(<<"data">>)
  /\ UNCHANGED <<sess, epoch, conn, wire, answer, child, diskVars>>

\* OpsReOpen() says that it is time for new files.
ReOpen ==
  /\ cp = "idle" /\ epoch < MaxOpen
  /\ epoch' = epoch + 1
  /\ Calls(<<"close", "open">>)
  /\ UNCHANGED <<sess, rec, sent, conn, wire, answer, child, diskVars>>

\* The control program ends and its socket is closed.  (exitpoll, which would
\* end it after a last RMsgSndClose(), is never set.)
Gone ==
  /\ cp' = "off" /\ todo' = <<>> /\ part' = 1
  /\ conn' = [conn EXCEPT ![sess] = IF @ = "up" THEN "shut" ELSE @]
  /\ answer' = [answer EXCEPT ![sess] = FALSE]
  /\ UNCHANGED <<runVars, wire, child, diskVars>>

\* SIGKILL by the scheduler, SIGINT or SIGUSR1 by the operator.
Killed == cp # "off" /\ Gone

\* A call returns, whatever it returns: no caller looks.
Return ==
  /\ todo' = Tail(todo) /\ part' = 1
  /\ cp' = IF Tail(todo) = <<>> THEN "idle" ELSE "send"

\* Mutant: part is not set back.
PartSentOn ==
  /\ cp' = IF part = Parts[Head(todo)] THEN "reply" ELSE "send"
  /\ part' = part + 1
  /\ todo' = todo

PartSent ==
  LET last == part = Parts[Head(todo)] IN
  /\ cp' = IF last THEN "reply" ELSE "send"
  /\ part' = IF last THEN 1 ELSE part + 1
  /\ todo' = todo

Sending == cp = "send"

SendPart ==
  /\ Sending /\ conn[sess] = "up"
  /\ wire' = [wire EXCEPT ![sess] = [call |-> Head(todo), n |-> part,
                                   rec |-> IF Head(todo) = "data" THEN rec ELSE 0]]
  /\ PartSent
  /\ UNCHANGED <<runVars, conn, answer, child, diskVars>>

\* The child is gone: the first part is taken all the same, the peer resets.
SendUnheard ==
  /\ Sending /\ conn[sess] = "fin"
  /\ \E c \in {"fin", "rst"} : conn' = [conn EXCEPT ![sess] = c]
  /\ PartSent
  /\ UNCHANGED <<runVars, wire, answer, child, diskVars>>

\* send() fails: on the socket -1, or after a reset.
SendFails ==
  /\ Sending /\ conn[sess] \in {"none", "rst"}
  /\ Return
  /\ UNCHANGED <<runVars, conn, wire, answer, child, diskVars>>

\* After a reset send() may also raise SIGPIPE: SiteTstExit().
SigPipe == Sending /\ conn[sess] = "rst" /\ Gone

ReceiveAnswer ==
  /\ cp = "reply" /\ answer[sess]
  /\ answer' = [answer EXCEPT ![sess] = FALSE]
  /\ Return
  /\ UNCHANGED <<runVars, conn, wire, child, diskVars>>

\* recv() returns 0 or -1.  Mind that RMsgSndClose() and the others return
\* that 0, which is what they return when all is well.
NoAnswer ==
  /\ cp = "reply" /\ ~answer[sess] /\ conn[sess] \in {"fin", "rst"}
  /\ Return
  /\ UNCHANGED <<runVars, conn, wire, answer, child, diskVars>>
-----------------------------------------------------------------------------
(* The child: operate().                                                   *)

Received(s) == child[s].pc = "wait" /\ wire[s].n = Parts[wire[s].call]

\* Mutant: no answer is sent.
TakeSilently(s) ==
  /\ wire' = [wire EXCEPT ![s] = NoMessage]
  /\ UNCHANGED <<cpVars, runVars, conn, answer, made, file>>

\* The message is taken from the socket and, the control program permitting,
\* answered.
TakeMessage(s) ==
  /\ wire' = [wire EXCEPT ![s] = NoMessage]
  /\ answer' = [answer EXCEPT ![s] = conn[s] = "up"]
  /\ UNCHANGED <<cpVars, runVars, conn, made, file>>

TaskOpen(s) ==
  /\ Received(s) /\ wire[s].call = "open"
  /\ child' = [child EXCEPT ![s].flg = TRUE]
  /\ TakeMessage(s)
  /\ UNCHANGED miss

\* Mutant: the name of the old file is kept.
TaskCloseKeeps(s) ==
  /\ Received(s) /\ wire[s].call \in {"close", "reset"}
  /\ TakeMessage(s)
  /\ UNCHANGED <<child, miss>>

TaskClose(s) ==
  /\ Received(s) /\ wire[s].call \in {"close", "reset"}
  /\ child' = [child EXCEPT ![s].filename = NoFile]
  /\ TakeMessage(s)
  /\ UNCHANGED miss

\* Mutant: nothing is written when flg is 0, though there is a file.
ProcessWithFlg(c, r) ==
  LET dest == IF ~c.flg THEN "wait" ELSE IF c.filename # NoFile THEN "append" ELSE "make"
  IN [c EXCEPT !.pc = dest, !.cur = IF dest = "wait" THEN 0 ELSE r,
               !.got = TRUE, !.flg = @ /\ dest # "make"]

\* What operate() does with a record: there is a file, it makes one, or it
\* does nothing, since the file could not be made.
Process(c, r) ==
  LET dest == IF c.filename # NoFile THEN "append" ELSE IF c.flg THEN "make" ELSE "wait"
  IN [c EXCEPT !.pc = dest, !.cur = IF dest = "wait" THEN 0 ELSE r,
               !.got = TRUE, !.flg = @ /\ dest # "make"]

TaskData(s) ==
  /\ Received(s) /\ wire[s].call = "data"
  /\ child' = [child EXCEPT ![s] = Process(@, wire[s].rec)]
  /\ TakeMessage(s)
  /\ UNCHANGED miss

\* The message ends early.  RMsgRcvDecodeData() returns TASK_ERR, and the
\* block of the message before is processed again, with pointers to memory
\* that has been freed: a crash, nothing, or a record that was not sent.
Cut(s) ==
  /\ child[s].pc = "wait" /\ conn[s] = "shut"
  /\ wire[s].n \in 1 .. Parts[wire[s].call] - 1
  /\ wire' = [wire EXCEPT ![s] = NoMessage]
  /\ \/ UNCHANGED child
     \/ /\ wire[s].call = "data" /\ wire[s].n > 1 /\ child[s].got
        /\ \/ child' = [child EXCEPT ![s].pc = "gone"]
           \/ child' = [child EXCEPT ![s] = Process(@, 0)]
  /\ UNCHANGED <<cpVars, runVars, conn, answer, diskVars>>

\* Mutant: only -1 is taken for a failure of recv().
EndOfFileRetries(s) ==
  /\ child[s].pc = "wait" /\ conn[s] = "shut" /\ wire[s].n = 0
  /\ UNCHANGED vars

\* recv() returns 0: operate() returns and the child exits.
EndOfFile(s) ==
  /\ child[s].pc = "wait" /\ conn[s] = "shut" /\ wire[s].n = 0
  /\ child' = [child EXCEPT ![s].pc = "gone"]
  /\ UNCHANGED <<cpVars, runVars, conn, wire, answer, diskVars>>

ChildFrame == UNCHANGED <<cpVars, runVars, wire, answer>>

\* Mutant: FIOMakeFile() without O_EXCL.
MakeExisting(s, f) ==
  /\ child[s].pc = "make"
  /\ child[s].cur # 0 => f[2] = sent[child[s].cur].time
  /\ child' = [child EXCEPT ![s].pc = "append", ![s].filename = f]
  /\ made' = made \cup {f}
  /\ ChildFrame /\ UNCHANGED <<conn, file, miss>>

\* FIOMakeFile(): the first directory where open(O_CREAT|O_EXCL) succeeds,
\* which fails in the ones before when the file is there or for any reason.
MakeFile(s, f) ==
  /\ child[s].pc = "make"
  /\ f \notin made
  /\ child[s].cur # 0 => f[2] = sent[child[s].cur].time
  /\ child' = [child EXCEPT ![s].pc = "append", ![s].filename = f]
  /\ made' = made \cup {f}
  /\ ChildFrame /\ UNCHANGED <<conn, file, miss>>

\* A record is lost; and if its file could not be made, so will be those that
\* come after it, up to the next Open.
Lost(s) ==
  miss' = IF child[s].cur = 0 THEN miss ELSE miss \cup {sent[child[s].cur].epoch}

\* It fails in all of them, and nobody is told.
MakeFails(s) ==
  /\ child[s].pc = "make"
  /\ child' = [child EXCEPT ![s].pc = "wait", ![s].cur = 0]
  /\ Lost(s)
  /\ ChildFrame /\ UNCHANGED <<conn, made, file>>

Put(s, whole) ==
  file' = [file EXCEPT ![child[s].filename] =
             Append(@, [rec |-> child[s].cur, whole |-> whole])]

WriteRecord(s) ==
  /\ child[s].pc = "append"
  /\ Put(s, TRUE)
  /\ child' = [child EXCEPT ![s].pc = "wait", ![s].cur = 0]
  /\ ChildFrame /\ UNCHANGED <<conn, made, miss>>

\* RawFwrite() returns -1, some of the record may be in the file, and "break"
\* leaves the loop before fclose().
WriteFails(s) ==
  /\ child[s].pc = "append" /\ child[s].left < MaxLeft
  /\ Put(s, FALSE) \/ file' = file
  /\ child' = [child EXCEPT ![s].pc = "wait", ![s].cur = 0, ![s].left = @ + 1]
  /\ Lost(s)
  /\ ChildFrame /\ UNCHANGED <<conn, made>>

\* fopen() returns NULL, as it must in the end when files are left open:
\* fclose(NULL) ends the process.
OpenFails(s) ==
  /\ child[s].pc = "append"
  /\ child' = [child EXCEPT ![s].pc = "crashed"]
  /\ conn' = [conn EXCEPT ![s] = IF @ # "up" THEN @ ELSE IF wire[s].n > 0 THEN "rst" ELSE "fin"]
  /\ Lost(s)
  /\ ChildFrame /\ UNCHANGED <<made, file>>
-----------------------------------------------------------------------------
ControlProgram ==
  \/ SendPart \/ SendUnheard \/ SendFails \/ SigPipe
  \/ ReceiveAnswer \/ NoAnswer

Operate(s) ==
  \/ TaskOpen(s) \/ TaskClose(s) \/ TaskData(s) \/ Cut(s) \/ EndOfFile(s)
  \/ \E f \in File : MakeFile(s, f)
  \/ MakeFails(s) \/ WriteRecord(s) \/ WriteFails(s) \/ OpenFails(s)

AllDone ==
  /\ cp = "off"
  /\ sess = MaxSession \/ epoch = MaxOpen
  /\ UNCHANGED vars

Next ==
  \/ Start \/ ReOpen \/ Killed
  \/ \E t \in Time : SendRecord(t)
  \/ ControlProgram
  \/ \E s \in Session : Operate(s)
  \/ AllDone

Spec == Init /\ [][Next]_vars

\* Both processes are run.
FairSpec ==
  /\ Spec
  /\ WF_vars(ControlProgram)
  /\ \A s \in Session : WF_vars(Operate(s))
-----------------------------------------------------------------------------
TypeOK ==
  /\ cp \in {"off", "idle", "send", "reply"}
  /\ todo \in Seq(Call) /\ part \in 1 .. 5
  /\ sess \in 0 .. MaxSession /\ rec \in 0 .. MaxRec /\ epoch \in 0 .. MaxOpen
  /\ sent \in [Rec -> [time : Time, sess : 0 .. MaxSession, epoch : 0 .. MaxOpen]]
  /\ conn \in [Session -> ConnState]
  /\ wire \in [Session -> Message]
  /\ answer \in [Session -> BOOLEAN]
  /\ child \in [Session -> Child]
  /\ made \subseteq File /\ file \in [File -> Seq(Item)]
  /\ miss \subseteq 0 .. MaxOpen

(***************************************************************************)
(* A file holds the records of one TASK_OPEN only, in the order they were  *)
(* sent, though the next control program may ask for a file of the same    *)
(* name while the child of the last one is still writing (fio.c:50-58,     *)
(* rawacfwrite.c:101-116,159-181).                                         *)
(***************************************************************************)
OneOpenPerFile ==
  \A f \in File : \A i, j \in 1 .. Len(file[f]) :
    LET a == file[f][i].rec   b == file[f][j].rec
    IN i < j /\ a # 0 /\ b # 0 => a < b /\ sent[a].epoch = sent[b].epoch

(***************************************************************************)
(* A record that was never sent comes only where a control program was cut *)
(* off: it is the last thing in its file (rmsgrcv.c:56-76,                 *)
(* rawacfwrite.c:131-152).                                                 *)
(***************************************************************************)
UnsentIsLast ==
  \A f \in File : \A i \in 1 .. Len(file[f]) - 1 : file[f][i].rec # 0

(***************************************************************************)
(* Once all is quiet, every record the control program has sent is in a    *)
(* file, whole, unless a system call failed for a record of the same Open: *)
(* though the answer goes out before the record is written, the file is    *)
(* only made when the first record comes, and the next TASK_CLOSE and      *)
(* TASK_OPEN may be in the socket by then (rawacfwrite.c:101-185).         *)
(***************************************************************************)
NothingMissing ==
  cp = "idle" /\ conn[sess] = "up" /\ child[sess].pc = "wait" =>
    \A r \in 1 .. rec : sent[r].sess = sess /\ sent[r].epoch \notin miss =>
      \E f \in File : \E i \in 1 .. Len(file[f]) : file[f][i] = [rec |-> r, whole |-> TRUE]

(***************************************************************************)
(* No call keeps the radar waiting for ever: each part is read or refused, *)
(* each message answered, or its child is seen to be gone                  *)
(* (rmsgsnd.c:25-118, rawacfwrite.c:93-129).                               *)
(***************************************************************************)
CallsReturn == (cp \in {"send", "reply"}) ~> (cp \in {"idle", "off"})

(***************************************************************************)
(* The child of a control program that is gone ends, in the middle of a    *)
(* message or not; they do not pile up (rawacfwrite.c:95-97).              *)
(***************************************************************************)
ChildrenEnd ==
  \A s \in Session : (conn[s] = "shut") ~> (child[s].pc \in {"gone", "crashed"})

(***************************************************************************)
(* rawacfwrite.c:173 tests for a file that cannot be opened, and has the   *)
(* record written in the else branch only: the code means to survive that. *)
(* So the child does not end for it, and no send() of the control program  *)
(* meets the reset of its connection, which may raise SIGPIPE              *)
(* (rawacfwrite.c:172-181, site.c:43-66).                                  *)
(***************************************************************************)
WriterGoesOn == Sending /\ conn[sess] = "rst" => child[sess].pc # "crashed"
=============================================================================
