---------------------- MODULE TaskWriterRecords_proofs ----------------------
(***************************************************************************)
(* What is in the files the children of TaskWriter write: whose records,   *)
(* in which order, and that none is missing when nothing has failed.       *)
(***************************************************************************)
EXTENDS TaskWriter_proofs
-----------------------------------------------------------------------------
(* The order.                                                              *)

\* The calls before which the child is still to leave its file.
Closing == {<<"reset", "open">>, <<"close", "open">>}

\* The records a child has in its file or in its hands.
Of(s) ==
  {a \in Rec : a = child[s].cur \/ (HasFile(s) /\ a \in Records(child[s].filename))}

\* They come before the record in the socket and are of the same TASK_OPEN, and
\* of the present one unless the file is still to be left.
Ordered(s) ==
  /\ wire[s].n > 0 /\ wire[s].call = "data" =>
        \A a \in Of(s) : a < wire[s].rec /\ sent[a].epoch = sent[wire[s].rec].epoch
  /\ child[s].pc = "append" /\ child[s].cur # 0 =>
        \A a \in Records(child[s].filename) :
           a < child[s].cur /\ sent[a].epoch = sent[child[s].cur].epoch
  /\ conn[s] = "up" /\ (todo \in Closing => answer[s]) =>
        \A a \in Of(s) : sent[a].epoch = epoch
  /\ conn[s] = "up" /\ cp = "send" /\ todo = <<"data">> =>
        \A a \in Of(s) : a < rec

OrderInv == FileInv /\ OneOpenPerFile /\ \A s \in Session : Ordered(s)

\* At first no child has a record.
LEMMA InitOrder == Init => OrderInv
<1> SUFFICES ASSUME Init PROVE OrderInv
  OBVIOUS
<1>1. \A f \in File : file[f] = <<>>
  BY DEF Init
<1>2. OneOpenPerFile
  BY <1>1 DEF OneOpenPerFile
<1>3. \A s \in Session : Ordered(s)
  BY DEF Init, Ordered, NewChild, NoMessage
<1> QED
  BY <1>2, <1>3, InitFiles DEF OrderInv

\* The records a child has to do with are records that were sent.
LEMMA OfType ==
  ASSUME FileInv, NEW s \in Session
  PROVE  Of(s) \subseteq 1 .. rec
<1>1. Writes(s) /\ child[s] \in Child /\ rec \in Nat
  BY DEF FileInv, SessionInv, TypeInv, TypeOK
<1>2. HasFile(s) => child[s].filename \in File
  BY <1>1 DEF HasFile, Child
<1>3. HasFile(s) => Records(child[s].filename) \subseteq 0 .. rec
  BY <1>2 DEF FileInv, Written
<1> QED
  BY <1>1, <1>3 DEF Of, Rec, Writes

(***************************************************************************)
(* The next call, where there is a connection: a list that begins with     *)
(* leaving the file, a record, or what was still to be done                *)
(* (rmsgsnd.c:25-118).                                                     *)
(***************************************************************************)
LEMMA ProgramAdvances ==
  ASSUME SessionInv, ProgramStep, NEW s \in Session, conn'[s] = "up"
  PROVE  \/ /\ child'[s] = NewChild /\ todo' \in Closing /\ ~answer'[s]
            /\ s = sess + 1 /\ rec' = rec
         \/ /\ child'[s] = child[s] /\ conn[s] = "up"
            /\ \/ cp = "idle" /\ todo = <<>> /\ ~answer'[s] /\ todo' \in Closing /\ rec' = rec
               \/ cp = "idle" /\ todo = <<>> /\ todo' = <<"data">> /\ epoch' = epoch /\ rec' = rec + 1
                  /\ ~answer'[s]
               \/ cp = "send" /\ ~answer[s] /\ UNCHANGED <<todo, answer, epoch, rec>>
               \/ answer[s] /\ ~answer'[s] /\ todo # <<>> /\ todo' = Tail(todo)
                  /\ todo' \in {<<>>, <<"open">>} /\ UNCHANGED <<epoch, rec>>
<1> USE DEF cpVars, runVars, diskVars, Calls
<1>1. /\ TypeInv /\ ProgramInv /\ Linked(s) /\ sess \in Nat /\ s \in Nat
      /\ child \in [Session -> Child] /\ conn \in [Session -> ConnState]
      /\ answer \in [Session -> BOOLEAN]
  BY DEF SessionInv, TypeInv, TypeOK, Session
<1>2. CASE Start
  <2>1. cp = "off" /\ sess' = sess + 1 /\ todo' = <<"reset", "open">> /\ UNCHANGED <<answer, rec>>
        /\ conn[s] # "up" /\ ~answer[s]
    BY <1>1, <1>2 DEF Start, Linked
  <2>2. child'[s] = NewChild /\ s = sess + 1
    BY <1>1, <1>2, <2>1 DEF Start, Linked
  <2> QED
    BY <2>1, <2>2 DEF Closing
<1>3. CASE ReOpen
  BY <1>1, <1>3 DEF ReOpen, Closing, Linked, ProgramInv
<1>4. ASSUME NEW t \in Time, SendRecord(t)
      PROVE  /\ child' = child /\ conn[s] = "up" /\ cp = "idle" /\ todo = <<>> /\ todo' = <<"data">>
             /\ epoch' = epoch /\ rec' = rec + 1 /\ ~answer'[s]
  BY <1>1, <1>4 DEF SendRecord, Linked, ProgramInv
<1>5. CASE cp # "off" /\ Gone
  BY <1>1, <1>5 DEF Gone, Linked
<1>6. CASE SendPart \/ SendUnheard
  <2>1. cp = "send" /\ todo' = todo /\ child' = child /\ UNCHANGED <<answer, epoch, rec>> /\ conn[s] = "up"
    BY <1>1, <1>6 DEF SendPart, SendUnheard, Sending, PartSent
  <2>2. ~answer[s]
    BY <1>1, <2>1 DEF Linked
  <2> QED
    BY <2>1, <2>2
<1>7. CASE SendFails \/ NoAnswer
  BY <1>1, <1>7 DEF SendFails, NoAnswer, Linked
<1>8. CASE ReceiveAnswer
  <2>1. /\ cp = "reply" /\ answer[sess] /\ answer' = [answer EXCEPT ![sess] = FALSE]
        /\ UNCHANGED <<conn, child, epoch, rec>> /\ todo' = Tail(todo)
    BY <1>8 DEF ReceiveAnswer, Return
  <2>2. s = sess /\ todo # <<>>
    BY <1>1, <2>1 DEF Linked, ProgramInv
  <2>3. answer[s] /\ ~answer'[s]
    BY <1>1, <2>1, <2>2
  <2>4. Tail(todo) \in {<<>>, <<"open">>}
    BY <1>1, <2>2, CallLists DEF ProgramInv, Opening
  <2> QED
    BY <2>1, <2>2, <2>3, <2>4
<1> QED
  BY <1>2, <1>3, <1>4, <1>5, <1>6, <1>7, <1>8 DEF ProgramStep, Killed, SigPipe, ControlProgram, Sending

\* A record that is sent belongs to the files that are open.
LEMMA ProgramKeepsOrder ==
  ASSUME OrderInv, ProgramStep
  PROVE  OrderInv'
<1>1. /\ FileInv /\ FileInv' /\ SessionInv /\ SentInv /\ TypeInv
  BY ProgramKeepsFiles DEF OrderInv, FileInv, SessionInv
<1>2. /\ UNCHANGED <<made, file>> /\ rec \in Nat /\ rec' \in Nat /\ rec <= rec'
      /\ \A r \in 1 .. rec : sent'[r] = sent[r]
  BY <1>1, ProgramFrame, TaskWriterAssumption DEF TaskWriterAssumption
<1>3. OneOpenPerFile'
  <2>1. \A f \in File : \A i \in 1 .. Len(file[f]) : file[f][i].rec \in 0 .. rec
    BY <1>1 DEF FileInv, Written, Records
  <2>2. \A f \in File : \A i \in 1 .. Len(file[f]) :
           file[f][i].rec # 0 => sent'[file[f][i].rec] = sent[file[f][i].rec]
    BY <1>2, <2>1
  <2> QED
    BY <1>2, <2>2 DEF OrderInv, OneOpenPerFile
<1>4. ASSUME NEW s \in Session PROVE Ordered(s)'
  <2>1. /\ Ordered(s) /\ Linked(s) /\ InCall(s) /\ Writes(s) /\ Of(s) \subseteq 1 .. rec
        /\ \A a \in Of(s) : sent'[a] = sent[a]
    BY <1>1, <1>2, OfType DEF OrderInv, FileInv, SessionInv
  <2>2. \/ Of(s)' = Of(s) /\ child'[s] = child[s]
        \/ Of(s)' = {} /\ child'[s].pc # "append" /\ wire[s].n = 0 /\ wire'[s] = wire[s]
    <3>1. CASE child'[s] = child[s]
      BY <1>2, <3>1 DEF Of, Records, HasFile
    <3>2. CASE child'[s] # child[s]
      <4>1. child'[s] \in {NewChild, NoChild} /\ wire[s].n = 0 /\ conn[s] # "up"
        BY <1>1, <3>2, ProgramEffect
      <4>2. child'[s].filename = NoFile /\ child'[s].cur = 0 /\ child'[s].pc # "append"
            /\ wire'[s] = wire[s]
        BY <1>1, <4>1, ProgramEffect DEF NewChild, NoChild
      <4>3. Of(s)' = {}
        BY <4>2 DEF Of, HasFile, Rec
      <4> QED
        BY <4>1, <4>2, <4>3
    <3> QED
      BY <3>1, <3>2
  <2>3. wire'[s].n > 0 /\ wire'[s].call = "data" =>
          \A a \in Of(s)' : a < wire'[s].rec /\ sent'[a].epoch = sent'[wire'[s].rec].epoch
    <3>1. CASE wire'[s] = wire[s]
      BY <1>2, <2>1, <2>2, <3>1 DEF Ordered, Writes
    <3>2. CASE wire'[s] # wire[s] /\ wire'[s].call = "data"
      <4>1. conn[s] = "up" /\ cp = "send" /\ todo = <<"data">> /\ wire'[s].rec = rec
        BY <1>1, <3>2, ProgramEffect
      <4>2. rec \in 1 .. rec /\ sent[rec].epoch = epoch /\ todo \notin Closing
        BY <1>1, <1>2, <4>1, CallLists DEF SentInv, Rec, Closing, Opening
      <4> QED
        BY <1>2, <2>1, <2>2, <4>1, <4>2 DEF Ordered
    <3> QED
      BY <3>1, <3>2
  <2>4. child'[s].pc = "append" /\ child'[s].cur # 0 =>
          \A a \in Records(child[s].filename)' :
             a < child'[s].cur /\ sent'[a].epoch = sent'[child'[s].cur].epoch
    <3> SUFFICES ASSUME child'[s].pc = "append", child'[s].cur # 0, NEW a \in Records(child[s].filename)'
                 PROVE  a < child'[s].cur /\ sent'[a].epoch = sent'[child'[s].cur].epoch
      OBVIOUS
    <3>1. child'[s] = child[s] /\ a \in Records(child[s].filename)
      BY <1>2, <2>2 DEF Records
    <3>2. HasFile(s) /\ 0 \notin Records(child[s].filename) /\ child[s] \in Child
      BY <1>1, <2>1, <3>1 DEF Writes, Busy, TypeInv, TypeOK
    <3>3. a \in 1 .. rec
      BY <1>1, <3>1, <3>2 DEF FileInv, Written, HasFile, Child
    <3>4. child[s].cur \in 1 .. rec
      BY <1>2, <2>1, <3>1, <3>2 DEF Writes, Child
    <3> QED
      BY <1>2, <2>1, <3>1, <3>3, <3>4 DEF Ordered
  <2>5. conn'[s] = "up" /\ (todo' \in Closing => answer'[s]) =>
          \A a \in Of(s)' : sent'[a].epoch = epoch'
    <3> SUFFICES ASSUME conn'[s] = "up", todo' \in Closing => answer'[s], NEW a \in Of(s)'
                 PROVE  sent'[a].epoch = epoch'
      OBVIOUS
    <3>1. a \in Of(s) /\ child'[s] = child[s]
      BY <2>2
    <3>2. child'[s] # NewChild
      BY <2>1, <3>1 DEF NewChild, Of, HasFile, Rec
    <3>3. conn[s] = "up" /\ epoch' = epoch /\ (todo \in Closing => answer[s])
      BY <1>1, <3>2, ProgramAdvances, CallLists DEF Closing
    <3> QED
      BY <2>1, <3>1, <3>3 DEF Ordered
  <2>6. conn'[s] = "up" /\ cp' = "send" /\ todo' = <<"data">> => \A a \in Of(s)' : a < rec'
    <3> SUFFICES ASSUME conn'[s] = "up", todo' = <<"data">>, NEW a \in Of(s)'
                 PROVE  a < rec'
      OBVIOUS
    <3>1. a \in Of(s) /\ child'[s] = child[s]
      BY <2>2
    <3>2. child'[s] # NewChild
      BY <2>1, <3>1 DEF NewChild, Of, HasFile, Rec
    <3>3. \/ rec' = rec + 1
          \/ conn[s] = "up" /\ cp = "send" /\ todo = <<"data">> /\ rec' = rec
      BY <1>1, <3>2, ProgramAdvances, CallLists DEF Closing, Opening
    <3> QED
      BY <1>2, <2>1, <3>1, <3>3 DEF Ordered
  <2> QED
    BY <2>3, <2>4, <2>5, <2>6 DEF Ordered
<1> QED
  BY <1>1, <1>3, <1>4 DEF OrderInv

\* A child puts the records of one opening in its file.
LEMMA ChildKeepsOrder ==
  ASSUME OrderInv, NEW c \in Session, Operate(c)
  PROVE  OrderInv'
<1>1. /\ FileInv /\ FileInv' /\ SessionInv /\ SentInv /\ TypeInv
      /\ Writes(c) /\ Linked(c) /\ InCall(c) /\ Ordered(c)
  BY ChildKeepsFiles DEF OrderInv, FileInv, SessionInv
<1>2. /\ UNCHANGED <<cp, todo, part, rec, epoch, sent>> /\ rec \in Nat
      /\ \A s \in Session \ {c} :
            /\ conn'[s] = conn[s] /\ child'[s] = child[s] /\ wire'[s] = wire[s]
            /\ answer'[s] = answer[s]
  BY <1>1, ChildEffect DEF cpVars, runVars, TypeInv, TypeOK
<1>3. /\ child \in [Session -> Child] /\ wire \in [Session -> Message] /\ conn \in [Session -> ConnState]
      /\ child[c] \in Child /\ wire[c] \in Message /\ wire[c].n \in 0 .. 5
      /\ wire[c].rec \in 0 .. MaxRec /\ child[c].cur \in Nat /\ 0 \in 0 .. MaxRec
  BY <1>1, TaskWriterAssumption DEF TaskWriterAssumption, TypeInv, TypeOK, Message, Child
<1>4. Of(c) \subseteq 1 .. rec
  BY <1>1, OfType
\* The files of the other children.
<1>5. ASSUME \A f \in File : child[c].filename # f => file'[f] = file[f], NEW s \in Session \ {c}
      PROVE  Ordered(s)'
  <2>1. Ordered(s) /\ child[s] \in Child
    BY <1>3 DEF OrderInv
  <2>2. (HasFile(s))' = HasFile(s)
    BY <1>2 DEF HasFile
  <2>3. HasFile(s) => Records(child[s].filename)' = Records(child[s].filename)
    <3> SUFFICES ASSUME HasFile(s) PROVE Records(child[s].filename)' = Records(child[s].filename)
      OBVIOUS
    <3>1. child[s].filename \in File /\ child[c].filename # child[s].filename
      BY <1>1, <2>1 DEF FileInv, OneWriter, HasFile, Child
    <3>2. file'[child[s].filename] = file[child[s].filename]
      BY <1>5, <3>1
    <3> QED
      BY <1>2, <3>2 DEF Records
  <2>4. Of(s)' = Of(s)
    BY <1>2, <2>2, <2>3 DEF Of
  <2>5. child[s].pc = "append" => HasFile(s)
    BY <1>1 DEF FileInv, Writes
  <2> QED
    BY <1>2, <2>1, <2>3, <2>4, <2>5 DEF Ordered
\* Steps after which the child is not about to write, and has no more records.
<1>6. ASSUME Of(c)' \subseteq Of(c), child'[c].pc # "append" \/ child'[c].cur = 0,
             wire'[c] = wire[c] \/ wire'[c].n = 0, conn'[c] = "up" => conn[c] = "up",
             conn[c] = "up" /\ todo \in Closing /\ answer'[c] => answer[c] \/ Of(c)' = {}
      PROVE  Ordered(c)'
  BY <1>1, <1>2, <1>6 DEF Ordered
<1>7. ASSUME UNCHANGED file, Ordered(c)' PROVE OrderInv'
  <2>1. OneOpenPerFile'
    BY <1>2, <1>7 DEF OrderInv, OneOpenPerFile
  <2> QED
    BY <1>1, <1>5, <1>7, <2>1 DEF OrderInv
<1>8. CASE TaskOpen(c)
  <2>1. /\ UNCHANGED file /\ conn' = conn /\ wire'[c].n = 0 /\ child[c].pc = "wait" /\ child'[c].pc = "wait"
        /\ child'[c].cur = child[c].cur /\ child'[c].filename = child[c].filename
        /\ wire[c].n > 0 /\ wire[c].call = "open"
    BY <1>3, <1>8, CallTypes DEF TaskOpen, TakeMessage, Received, NoMessage, Child
  <2>2. Of(c)' = Of(c)
    BY <2>1 DEF Of, HasFile, Records
  <2>3. conn[c] = "up" => Head(todo) = "open" /\ todo \notin Closing
    BY <1>1, <2>1, CallLists DEF InCall, Closing
  <2> QED
    BY <1>6, <1>7, <2>1, <2>2, <2>3
<1>9. CASE TaskClose(c)
  <2>1. /\ UNCHANGED file /\ conn' = conn /\ wire'[c].n = 0 /\ child[c].pc = "wait" /\ child'[c].pc = "wait"
        /\ child'[c].cur = child[c].cur /\ child'[c].filename = NoFile
    BY <1>3, <1>9 DEF TaskClose, TakeMessage, Received, NoMessage, Child
  <2>2. Of(c)' = {}
    BY <1>1, <2>1 DEF Of, HasFile, Writes, Rec
  <2> QED
    BY <1>6, <1>7, <2>1, <2>2
<1>10. CASE TaskData(c)
  <2>1. /\ child[c].pc = "wait" /\ wire[c].call = "data" /\ wire[c].n = 5
        /\ child'[c] = Process(child[c], wire[c].rec)
        /\ wire'[c].n = 0 /\ UNCHANGED <<conn, file>>
    BY <1>3, <1>10, CallTypes DEF TaskData, TakeMessage, Received, NoMessage
  <2>2. /\ child'[c].filename = child[c].filename
        /\ child'[c].cur \in {0, wire[c].rec}
    BY <1>3, <2>1, ProcessType
  <2>3. wire[c].rec \in 1 .. rec /\ child[c].cur = 0
    BY <1>1, <2>1 DEF Writes
  <2>4. Of(c)' \subseteq Of(c) \cup {wire[c].rec}
    BY <2>1, <2>2 DEF Of, HasFile, Records, Rec
  <2>5. \A a \in Of(c) : a < wire[c].rec /\ sent[a].epoch = sent[wire[c].rec].epoch
    BY <1>1, <2>1 DEF Ordered
  <2>6. child'[c].pc = "append" /\ child'[c].cur # 0 =>
          \A a \in Records(child[c].filename)' :
             a < child'[c].cur /\ sent'[a].epoch = sent'[child'[c].cur].epoch
    <3> SUFFICES ASSUME child'[c].pc = "append", child'[c].cur # 0, NEW a \in Records(child[c].filename)'
                 PROVE  a < child'[c].cur /\ sent'[a].epoch = sent'[child'[c].cur].epoch
      OBVIOUS
    <3>1. HasFile(c) /\ a \in Records(child[c].filename)
      <4>1. HasFile(c)
        BY <1>3, <2>1, ProcessType DEF HasFile
      <4>2. Records(child[c].filename)' = Records(child[c].filename)
        BY <2>1, <2>2 DEF Records
      <4> QED
        BY <4>1, <4>2
    <3>2. a # 0 /\ a \in 0 .. rec
      BY <1>1, <1>3, <2>1, <3>1 DEF Writes, FileInv, Written, HasFile, Child
    <3>3. a \in Of(c)
      <4>1. a \in Rec
        BY <1>1, <1>2, <3>2, TaskWriterAssumption DEF Rec, TypeInv, TypeOK, TaskWriterAssumption
      <4> QED
        BY <3>1, <4>1 DEF Of
    <3> QED
      BY <1>2, <2>2, <2>5, <3>3
  <2>7. conn[c] = "up" => cp = "reply" /\ todo = <<"data">> /\ wire[c].rec = rec /\ sent[rec].epoch = epoch
    <3> SUFFICES ASSUME conn[c] = "up"
                 PROVE  cp = "reply" /\ todo = <<"data">> /\ wire[c].rec = rec /\ sent[rec].epoch = epoch
      OBVIOUS
    <3>1. Head(todo) = "data" /\ cp \in {"idle", "send", "reply"} /\ cp # "idle"
      BY <1>1, <2>1 DEF InCall, Linked, TypeInv, TypeOK
    <3>2. todo = <<"data">>
      BY <1>1, <3>1, CallLists DEF TypeInv, ProgramInv, Opening
    <3>3. cp # "send"
      BY <1>1, <2>1, <3>1, CallTypes DEF InCall, TypeInv, TypeOK, ProgramInv
    <3> QED
      BY <1>1, <2>1, <3>1, <3>2, <3>3 DEF InCall, SentInv
  <2>8. conn[c] = "up" => \A a \in Of(c) : sent[a].epoch = epoch
    BY <2>5, <2>7
  <2>9. Ordered(c)'
    BY <1>2, <2>1, <2>4, <2>6, <2>7, <2>8 DEF Ordered
  <2> QED
    BY <1>7, <2>1, <2>9
<1>11. CASE Cut(c)
  <2>1. /\ child[c].pc = "wait" /\ conn[c] = "shut" /\ conn' = conn /\ UNCHANGED file
        /\ wire'[c].n = 0
    BY <1>3, <1>11 DEF Cut, NoMessage, diskVars
  <2>2. child'[c].cur = 0
    <3>1. \/ child' = child
          \/ child'[c] = [child[c] EXCEPT !.pc = "gone"]
          \/ child'[c] = Process(child[c], 0)
      BY <1>3, <1>11 DEF Cut
    <3> QED
      BY <1>1, <1>3, <2>1, <3>1, ProcessType DEF Writes, Child
  <2>3. Ordered(c)'
    BY <2>1, <2>2 DEF Ordered
  <2> QED
    BY <1>7, <2>1, <2>3
<1>12. CASE EndOfFile(c) \/ MakeFails(c) \/ OpenFails(c)
  <2>1. /\ UNCHANGED <<wire, file, answer>> /\ child'[c].filename = child[c].filename
        /\ child'[c].cur \in {0, child[c].cur}
        /\ child'[c].pc # "append"
        /\ conn'[c] = "up" => conn[c] = "up"
    <3>1. CASE EndOfFile(c)
      BY <1>3, <3>1 DEF EndOfFile, Child, diskVars
    <3>2. CASE MakeFails(c)
      BY <1>3, <3>2 DEF MakeFails, Child, ChildFrame
    <3>3. CASE OpenFails(c)
      BY <1>3, <3>3 DEF OpenFails, Child, ChildFrame
    <3> QED
      BY <1>12, <3>1, <3>2, <3>3
  <2>2. Of(c)' \subseteq Of(c)
    BY <2>1 DEF Of, HasFile, Records, Rec
  <2> QED
    BY <1>6, <1>7, <2>1, <2>2
<1>13. ASSUME NEW f \in File, MakeFile(c, f) PROVE OrderInv'
  <2>1. /\ child[c].pc = "make" /\ f \notin made
        /\ UNCHANGED <<conn, wire, file, answer>>
        /\ child'[c].pc = "append" /\ child'[c].filename = f /\ child'[c].cur = child[c].cur
    BY <1>3, <1>13 DEF MakeFile, ChildFrame, Child
  <2>2. file[f] = <<>>
    BY <1>1, <2>1 DEF FileInv, Written
  <2>3. Records(child[c].filename)' = {}
    BY <2>1, <2>2 DEF Records
  <2>4. Of(c)' \subseteq Of(c)
    BY <2>1, <2>3 DEF Of
  <2>5. Ordered(c)'
    BY <1>1, <1>2, <2>1, <2>3, <2>4 DEF Ordered
  <2> QED
    BY <1>7, <2>1, <2>5
<1>14. CASE WriteRecord(c) \/ WriteFails(c)
  <2>1. /\ child[c].pc = "append" /\ child'[c].pc = "wait" /\ child'[c].cur = 0
        /\ child'[c].filename = child[c].filename /\ UNCHANGED <<conn, wire, answer>>
    <3>1. CASE WriteRecord(c)
      BY <1>3, <3>1 DEF WriteRecord, Child, ChildFrame
    <3>2. CASE WriteFails(c)
      BY <1>3, <3>2 DEF WriteFails, Child, ChildFrame
    <3> QED
      BY <1>14, <3>1, <3>2
  <2>2. UNCHANGED file \/ \E w \in BOOLEAN : Put(c, w)
    BY <1>14 DEF WriteRecord, WriteFails
  <2>3. PICK g \in File : g = child[c].filename
    BY <1>1, <1>3, <2>1 DEF Writes, HasFile, Child
  <2>4. CASE UNCHANGED file
    <3>1. Of(c)' \subseteq Of(c)
      BY <2>1, <2>4 DEF Of, HasFile, Records, Rec
    <3> QED
      BY <1>6, <1>7, <2>1, <2>4, <3>1
  <2>5. ASSUME NEW w \in BOOLEAN, Put(c, w) PROVE OrderInv'
    <3>0. TypeInv /\ child[c].filename = g
      BY <1>1, <2>3
    <3>1. /\ Records(g)' = Records(g) \cup {child[c].cur}
          /\ \A h \in File \ {g} : file'[h] = file[h]
          /\ Len(file'[g]) = Len(file[g]) + 1 /\ Len(file[g]) \in Nat
          /\ file'[g][Len(file[g]) + 1] = [rec |-> child[c].cur, whole |-> w]
          /\ \A i \in 1 .. Len(file[g]) : file'[g][i] = file[g][i]
      <4>1. Appended(g, c, w)
        BY <3>0, <2>5, PutRecords
      <4> QED
        BY <4>1 DEF Appended
    <3>2. Of(c)' \subseteq Of(c)
      <4>1. Records(child[c].filename)' = Records(g)'
        BY <2>1, <2>3 DEF Records
      <4>2. (HasFile(c))' /\ HasFile(c)
        BY <1>1, <2>1 DEF Writes, HasFile
      <4>3. SUFFICES ASSUME NEW a \in Rec, a = 0 \/ a \in Records(g)'
                     PROVE  a = child[c].cur \/ a \in Records(g)
        BY <2>1, <2>3, <4>1, <4>2 DEF Of
      <4> QED
        BY <3>1, <4>3 DEF Rec
    <3>3. Ordered(c)'
      BY <1>6, <2>1, <3>2
    <3>4. \A a \in Records(g) : child[c].cur # 0 =>
             a < child[c].cur /\ sent[a].epoch = sent[child[c].cur].epoch
      BY <1>1, <2>1, <2>3 DEF Ordered
    <3>5. \A i \in 1 .. Len(file[g]) : file[g][i].rec \in Records(g)
      BY DEF Records
    <3>6. \A i, j \in 1 .. Len(file'[g]) :
             LET a == file'[g][i].rec   b == file'[g][j].rec
             IN i < j /\ a # 0 /\ b # 0 => a < b /\ sent[a].epoch = sent[b].epoch
      <4> SUFFICES ASSUME NEW i \in 1 .. Len(file'[g]), NEW j \in 1 .. Len(file'[g]), i < j,
                          file'[g][i].rec # 0, file'[g][j].rec # 0
                   PROVE  /\ file'[g][i].rec < file'[g][j].rec
                          /\ sent[file'[g][i].rec].epoch = sent[file'[g][j].rec].epoch
        OBVIOUS
      <4>1. i \in 1 .. Len(file[g]) /\ file'[g][i] = file[g][i]
        BY <3>1
      <4>2. CASE j \in 1 .. Len(file[g])
        <5>1. file'[g][j] = file[g][j]
          BY <3>1, <4>2
        <5> QED
          BY <4>1, <4>2, <5>1 DEF OrderInv, OneOpenPerFile
      <4>3. CASE j = Len(file[g]) + 1
        <5>1. file'[g][j].rec = child[c].cur
          BY <3>1, <4>3
        <5> QED
          BY <3>4, <3>5, <4>1, <5>1
      <4> QED
        BY <3>1, <4>2, <4>3
    <3>7. OneOpenPerFile'
      <4> SUFFICES ASSUME NEW f \in File, NEW i \in 1 .. Len(file'[f]), NEW j \in 1 .. Len(file'[f]),
                          i < j, file'[f][i].rec # 0, file'[f][j].rec # 0
                   PROVE  /\ file'[f][i].rec < file'[f][j].rec
                          /\ sent'[file'[f][i].rec].epoch = sent'[file'[f][j].rec].epoch
        BY DEF OneOpenPerFile
      <4>1. CASE f = g
        BY <1>2, <3>6, <4>1
      <4>2. CASE f # g
        <5>1. file'[f] = file[f]
          BY <3>1, <4>2
        <5> QED
          BY <1>2, <5>1 DEF OrderInv, OneOpenPerFile
      <4> QED
        BY <4>1, <4>2
    <3>8. \A s \in Session : Ordered(s)'
      BY <1>5, <2>3, <3>1, <3>3
    <3> QED
      BY <1>1, <3>7, <3>8 DEF OrderInv
  <2> QED
    BY <2>2, <2>4, <2>5
<1> QED
  BY <1>8, <1>9, <1>10, <1>11, <1>12, <1>13, <1>14 DEF Operate

\* A step that changes none of it keeps the invariant.
LEMMA OrderStutter ==
  ASSUME OrderInv, UNCHANGED vars
  PROVE  OrderInv'
<1>1. FileInv'
  BY FilesStutter DEF OrderInv
<1> QED
  BY <1>1 DEF OrderInv, OneOpenPerFile, Ordered, Of, HasFile, Records,
       vars, cpVars, runVars, diskVars

\* Records and openings fit together in every state.
LEMMA OrderCorrect == Spec => []OrderInv
<1>1. OrderInv /\ [Next]_vars => OrderInv'
  <2> SUFFICES ASSUME OrderInv, [Next]_vars PROVE OrderInv'
    OBVIOUS
  <2>1. CASE UNCHANGED vars
    BY <2>1, OrderStutter
  <2>2. CASE AllDone
    BY <2>1, <2>2 DEF AllDone
  <2> QED
    BY <2>1, <2>2, ProgramKeepsOrder, ChildKeepsOrder DEF Next, ProgramStep
<1> QED
  BY <1>1, InitOrder, PTL DEF Spec

(***************************************************************************)
(* A file holds the records of one TASK_OPEN only, in the order they were  *)
(* sent, whichever control programs and children there are at a time and   *)
(* whatever names they ask for (fio.c:50-58, rawacfwrite.c:101-116,        *)
(* 159-181).                                                               *)
(***************************************************************************)
THEOREM OneOpenPerFileHolds == Spec => []OneOpenPerFile
<1>1. OrderInv => OneOpenPerFile
  BY DEF OrderInv
<1> QED
  BY <1>1, OrderCorrect, PTL
-----------------------------------------------------------------------------
(* The records there are.                                                  *)

Kept(r) ==
  \E f \in File : \E i \in 1 .. Len(file[f]) : file[f][i] = [rec |-> r, whole |-> TRUE]

\* The child has a file or will make one, unless it could not be made; and each
\* record of the session is in a file, in its hands, or in the socket, unless a
\* system call has failed for its TASK_OPEN.
Keeps(s) ==
  conn[s] = "up" =>
    /\ todo \in {<<>>, <<"data">>} \/ (todo = <<"open">> /\ answer[s]) =>
         HasFile(s) \/ child[s].flg \/ child[s].pc = "make" \/ epoch \in miss
    /\ \A r \in 1 .. rec : sent[r].sess = s /\ sent[r].epoch \notin miss =>
         Kept(r) \/ child[s].cur = r \/ (todo = <<"data">> /\ ~answer[s] /\ r = rec)

KeepInv ==
  /\ OrderInv
  /\ \A r \in 1 .. rec : sent[r].sess <= sess
  /\ \A s \in Session : Keeps(s)

\* At first no record has been sent.
LEMMA InitKeep == Init => KeepInv
  BY InitOrder DEF Init, KeepInv, Keeps

\* A record is of the session it is sent in.
LEMMA SessionsGrow ==
  ASSUME TypeInv, \A r \in 1 .. rec : sent[r].sess <= sess, ProgramStep
  PROVE  \A r \in 1 .. rec' : sent'[r].sess <= sess'
<1>1. /\ rec \in Nat /\ sess \in Nat /\ sent \in [Rec -> [time : Time, sess : 0 .. MaxSession, epoch : 0 .. MaxOpen]]
      /\ rec \in 0 .. MaxRec /\ MaxRec \in Nat /\ \A r \in 1 .. rec : sent[r].sess \in Nat
  BY TaskWriterAssumption DEF TaskWriterAssumption, TypeInv, TypeOK, Rec
<1>2. ASSUME UNCHANGED <<rec, sent>>, sess' \in {sess, sess + 1}
      PROVE  \A r \in 1 .. rec' : sent'[r].sess <= sess'
  BY <1>1, <1>2
<1>3. ASSUME NEW t \in Time, SendRecord(t)
      PROVE  \A r \in 1 .. rec' : sent'[r].sess <= sess'
  <2>1. rec' = rec + 1 /\ sess' = sess /\ sent'[rec + 1].sess = sess
        /\ \A r \in 1 .. rec : sent'[r] = sent[r]
    BY <1>1, <1>3 DEF SendRecord, Rec
  <2>2. ASSUME NEW r \in 1 .. rec + 1 PROVE sent'[r].sess <= sess
    <3>1. CASE r = rec + 1
      BY <1>1, <2>1, <3>1
    <3>2. CASE r # rec + 1
      <4>1. r \in 1 .. rec
        BY <1>1, <3>2
      <4> QED
        BY <2>1, <4>1
    <3> QED
      BY <3>1, <3>2
  <2> QED
    BY <2>1, <2>2
<1>4. (UNCHANGED <<rec, sent>> /\ sess' \in {sess, sess + 1}) \/ \E t \in Time : SendRecord(t)
  BY DEF ProgramStep, Start, ReOpen, Killed, ControlProgram, SendPart, SendUnheard, SendFails,
         SigPipe, ReceiveAnswer, NoAnswer, Gone, runVars
<1> QED
  BY <1>2, <1>3, <1>4

\* A record that is sent is with the child or the child is gone.
LEMMA ProgramKeepsKeep ==
  ASSUME KeepInv, ProgramStep
  PROVE  KeepInv'
<1>1. /\ OrderInv' /\ FileInv /\ SessionInv /\ SentInv /\ TypeInv
      /\ \A r \in 1 .. rec : sent[r].sess <= sess
  BY ProgramKeepsOrder DEF KeepInv, OrderInv, FileInv, SessionInv
<1>2. /\ UNCHANGED <<file, miss>> /\ rec \in Nat /\ sess \in Nat
      /\ \A r \in 1 .. rec : sent'[r] = sent[r]
      /\ \A r \in 1 .. rec : sent[r].sess \in Nat
  BY <1>1, ProgramFrame, TaskWriterAssumption DEF TaskWriterAssumption, TypeInv, TypeOK, Rec
<1>3. \A r : Kept(r)' = Kept(r)
  BY <1>2 DEF Kept
<1>4. ASSUME NEW s \in Session PROVE Keeps(s)'
  <2> SUFFICES ASSUME conn'[s] = "up" PROVE Keeps(s)'
    BY DEF Keeps
  <2>1. CASE child'[s] = NewChild /\ todo' \in Closing /\ s = sess + 1 /\ rec' = rec
    <3>1. \A r \in 1 .. rec : sent[r].sess # s
      BY <1>1, <1>2, <2>1
    <3> QED
      BY <1>2, <2>1, <3>1, CallLists DEF Keeps, Closing, Opening
  <2>2. CASE child'[s] = child[s] /\ conn[s] = "up"
    <3>1. Keeps(s) /\ (HasFile(s))' = HasFile(s)
      BY <2>2 DEF HasFile, KeepInv
    <3>2. CASE todo = <<>> /\ ~answer'[s] /\ todo' \in Closing /\ rec' = rec
      BY <1>2, <1>3, <2>2, <3>1, <3>2, CallLists DEF Keeps, Closing, Opening
    <3>3. CASE todo = <<>> /\ todo' = <<"data">> /\ epoch' = epoch /\ rec' = rec + 1 /\ ~answer'[s]
      BY <1>2, <1>3, <2>2, <3>1, <3>3, CallLists DEF Keeps
    <3>4. CASE UNCHANGED <<todo, answer, epoch, rec>>
      BY <1>2, <1>3, <2>2, <3>1, <3>4 DEF Keeps
    <3>5. CASE /\ answer[s] /\ ~answer'[s] /\ todo # <<>> /\ todo' = Tail(todo)
               /\ todo' \in {<<>>, <<"open">>} /\ UNCHANGED <<epoch, rec>>
      <4>1. todo' = <<>> => todo \in {<<"data">>, <<"open">>}
        BY <1>1, <3>5, CallLists DEF TypeInv, ProgramInv, Opening
      <4>2. todo' # <<"data">>
        BY <3>5, CallLists DEF Opening
      <4> QED
        BY <1>2, <1>3, <2>2, <3>1, <3>5, <4>1, <4>2 DEF Keeps
    <3>6. s # sess + 1
      BY <1>1, <1>2, <2>2 DEF SessionInv, Linked
    <3> QED
      BY <1>1, <2>2, <3>2, <3>3, <3>4, <3>5, <3>6, ProgramAdvances
  <2> QED
    BY <1>1, <2>1, <2>2, ProgramAdvances
<1> QED
  BY <1>1, <1>4, SessionsGrow DEF KeepInv

\* A child that goes on has each of its records in the file.
LEMMA ChildKeepsKeep ==
  ASSUME KeepInv, NEW c \in Session, Operate(c)
  PROVE  KeepInv'
<1>1. /\ OrderInv' /\ FileInv /\ SessionInv /\ SentInv /\ TypeInv
      /\ Writes(c) /\ Linked(c) /\ InCall(c) /\ Ordered(c) /\ Keeps(c)
  BY ChildKeepsOrder DEF KeepInv, OrderInv, FileInv, SessionInv
<1>2. /\ UNCHANGED <<cp, todo, part, sess, rec, epoch, sent>> /\ rec \in Nat
      /\ \A s \in Session \ {c} :
            /\ conn'[s] = conn[s] /\ child'[s] = child[s] /\ wire'[s] = wire[s]
            /\ answer'[s] = answer[s]
      /\ miss \subseteq miss'
      /\ \A r \in 1 .. rec' : sent'[r].sess <= sess'
  BY <1>1, ChildEffect DEF cpVars, runVars, TypeInv, TypeOK, KeepInv
<1>3. /\ child \in [Session -> Child] /\ wire \in [Session -> Message] /\ conn \in [Session -> ConnState]
      /\ child[c] \in Child /\ wire[c] \in Message /\ wire[c].n \in 0 .. 5
      /\ wire[c].rec \in 0 .. MaxRec
  BY <1>1 DEF TypeInv, TypeOK, Message
\* What is in a file stays there.
<1>4. \A r : Kept(r) => Kept(r)'
  <2>1. CASE UNCHANGED file
    BY <2>1 DEF Kept
  <2>2. ASSUME NEW w \in BOOLEAN, Put(c, w), child[c].pc = "append"
        PROVE  \A r : Kept(r) => Kept(r)'
    <3>1. PICK g \in File : g = child[c].filename
      BY <1>1, <1>3, <2>2 DEF Writes, HasFile, Child
    <3>2. /\ \A h \in File \ {g} : file'[h] = file[h]
          /\ Len(file'[g]) = Len(file[g]) + 1 /\ Len(file[g]) \in Nat
          /\ \A i \in 1 .. Len(file[g]) : file'[g][i] = file[g][i]
      <4>1. TypeInv /\ child[c].filename = g
        BY <1>1, <3>1
      <4>2. Appended(g, c, w)
        BY <2>2, <4>1, PutRecords
      <4> QED
        BY <2>2, <4>2 DEF Appended
    <3>3. ASSUME NEW f \in File, NEW i \in 1 .. Len(file[f])
          PROVE  i \in 1 .. Len(file'[f]) /\ file'[f][i] = file[f][i]
      BY <3>2
    <3> QED
      BY <3>3 DEF Kept
  <2>3. UNCHANGED file \/ \E w \in BOOLEAN : Put(c, w) /\ child[c].pc = "append"
    BY DEF Operate, TaskOpen, TaskClose, TaskData, TakeMessage, Cut, EndOfFile, MakeFile, MakeFails,
       WriteRecord, WriteFails, OpenFails, ChildFrame, diskVars
  <2> QED
    BY <2>1, <2>2, <2>3
<1>5. ASSUME NEW s \in Session \ {c} PROVE Keeps(s)'
  BY <1>2, <1>4 DEF KeepInv, Keeps, HasFile
<1>k. ASSUME Keeps(c)' PROVE KeepInv'
  BY <1>1, <1>2, <1>5, <1>k DEF KeepInv
\* The call whose message is complete.
<1>6. ASSUME Received(c), conn[c] = "up"
      PROVE  cp = "reply" /\ ~answer[c] /\ wire[c].call = Head(todo) /\ todo # <<>>
  <2>1. Parts[wire[c].call] \in 1 .. 5 /\ wire[c].n = Parts[wire[c].call]
    BY <1>3, <1>6, CallTypes DEF Received, Message
  <2>2. wire[c].call = Head(todo) /\ cp \in {"idle", "send", "reply"} /\ cp # "idle"
    BY <1>1, <1>6, <2>1 DEF InCall, Linked, TypeInv, TypeOK
  <2>3. cp # "send"
    BY <1>1, <1>6, <2>1, <2>2 DEF InCall, TypeInv, TypeOK, ProgramInv
  <2> QED
    BY <1>1, <1>6, <2>1, <2>2, <2>3 DEF InCall, TypeInv, ProgramInv
<1>8. CASE TaskOpen(c) \/ TaskClose(c)
  <2> SUFFICES ASSUME conn[c] = "up" PROVE Keeps(c)'
    BY <1>8, <1>k DEF Keeps, TaskOpen, TaskClose, TakeMessage
  <2>1. /\ Received(c) /\ wire[c].call \in {"open", "close", "reset"}
        /\ wire[c].call = "open" => child'[c].flg
        /\ child'[c].cur = child[c].cur
    BY <1>3, <1>8 DEF TaskOpen, TaskClose, Child
  <2>2. todo \in Opening /\ (todo = <<"open">> <=> wire[c].call = "open")
    BY <1>1, <1>6, <2>1, CallLists DEF TypeInv, ProgramInv, Opening
  <2>3. \A r \in 1 .. rec : sent[r].sess = c /\ sent[r].epoch \notin miss =>
          Kept(r) \/ child[c].cur = r
    BY <2>2, CallLists DEF Keeps, KeepInv
  <2> QED
    BY <1>2, <1>4, <2>1, <2>2, <2>3, CallLists DEF Keeps
<1>9. CASE TaskData(c)
  <2> SUFFICES ASSUME conn[c] = "up" PROVE Keeps(c)'
    BY <1>9, <1>k DEF Keeps, TaskData, TakeMessage
  <2>1. /\ Received(c) /\ wire[c].call = "data" /\ wire[c].n = 5 /\ child[c].pc = "wait"
        /\ child'[c] = Process(child[c], wire[c].rec)
    BY <1>3, <1>9, CallTypes DEF TaskData, Received
  <2>2. todo = <<"data">> /\ ~answer[c] /\ wire[c].rec = rec
    BY <1>1, <1>6, <2>1, CallLists DEF TypeInv, ProgramInv, Opening, InCall
  <2>3. HasFile(c) \/ child[c].flg \/ epoch \in miss
    BY <1>1, <2>1, <2>2 DEF Keeps
  <2>4. /\ HasFile(c) => child'[c].pc = "append" /\ child'[c].cur = rec /\ (HasFile(c))'
        /\ ~HasFile(c) /\ child[c].flg => child'[c].pc = "make" /\ child'[c].cur = rec
    BY <1>3, <2>1, <2>2, ProcessType DEF HasFile
  <2>5. child[c].cur = 0 /\ sent[rec].epoch = epoch
    BY <1>1, <2>1, <2>2 DEF Writes, SentInv
  <2>6. \A r \in 1 .. rec : sent[r].sess = c /\ sent[r].epoch \notin miss => Kept(r) \/ r = rec
    BY <1>1, <2>5 DEF Keeps
  <2> QED
    BY <1>2, <1>4, <2>3, <2>4, <2>5, <2>6 DEF Keeps
<1>10. CASE Cut(c) \/ EndOfFile(c) \/ OpenFails(c)
  <2>1. conn'[c] # "up"
    BY <1>3, <1>10 DEF Cut, EndOfFile, OpenFails
  <2> QED
    BY <1>k, <2>1 DEF Keeps
\* The TASK_OPEN of a record that is lost.
<1>11. ASSUME Busy(c), conn[c] = "up", Lost(c)
       PROVE  /\ child[c].cur \in Of(c) /\ sent[child[c].cur].epoch \in miss'
  <2>1. child[c].cur \in Rec
    BY <1>1, <1>3, <1>11 DEF Writes, Child, Rec
  <2>2. child[c].cur # 0
    BY <2>1 DEF Rec
  <2> QED
    BY <1>11, <2>1, <2>2 DEF Lost, Of
<1>12. CASE MakeFails(c) \/ WriteFails(c)
  <2> SUFFICES ASSUME conn[c] = "up" PROVE Keeps(c)'
    BY <1>12, <1>k DEF Keeps, MakeFails, WriteFails
  <2>1. /\ Lost(c) /\ Busy(c) /\ UNCHANGED <<conn, answer>>
        /\ child'[c].filename = child[c].filename /\ child'[c].flg = child[c].flg
    <3>1. CASE MakeFails(c)
      BY <1>3, <3>1 DEF MakeFails, ChildFrame, Busy, Child
    <3>2. CASE WriteFails(c)
      BY <1>3, <3>2 DEF WriteFails, ChildFrame, Busy, Child
    <3> QED
      BY <1>12, <3>1, <3>2
  <2>2. child[c].cur \in Of(c) /\ sent[child[c].cur].epoch \in miss'
    BY <1>11, <2>1
  <2>3. (todo \in Closing => answer[c]) => epoch \in miss'
    BY <1>1, <2>2 DEF Ordered
  <2>4. todo \in {<<>>, <<"data">>} \/ (todo = <<"open">> /\ answer[c]) => todo \notin Closing
    BY CallLists DEF Closing, Opening
  <2> QED
    BY <1>2, <1>4, <2>1, <2>2, <2>3, <2>4 DEF Keeps, KeepInv
<1>13. ASSUME NEW f \in File, MakeFile(c, f) PROVE KeepInv'
  <2>1. /\ UNCHANGED <<conn, answer, miss>>
        /\ child'[c].cur = child[c].cur /\ child'[c].filename = f /\ f # NoFile
    BY <1>3, <1>13, TaskWriterAssumption DEF TaskWriterAssumption, MakeFile, ChildFrame, Child
  <2>2. (HasFile(c))'
    BY <2>1 DEF HasFile
  <2>3. Keeps(c)'
    BY <1>1, <1>2, <1>4, <2>1, <2>2 DEF Keeps
  <2> QED
    BY <1>k, <2>3
<1>14. CASE WriteRecord(c)
  <2>1. /\ UNCHANGED <<conn, answer, miss>> /\ child[c].pc = "append" /\ Put(c, TRUE)
        /\ child'[c].filename = child[c].filename
    BY <1>3, <1>14 DEF WriteRecord, ChildFrame, Child
  <2>2. (HasFile(c))'
    BY <1>1, <2>1 DEF HasFile, Writes
  <2>3. PICK g \in File : g = child[c].filename
    BY <1>1, <1>3, <2>1 DEF Writes, HasFile, Child
  <2>4. PICK n : n = child[c].cur
    OBVIOUS
  <2>5. Kept(n)'
    <3>1. /\ Len(file'[g]) = Len(file[g]) + 1 /\ Len(file[g]) \in Nat
          /\ file'[g][Len(file[g]) + 1] = [rec |-> n, whole |-> TRUE]
      <4>1. TypeInv /\ child[c].filename = g
        BY <1>1, <2>3
      <4>2. Appended(g, c, TRUE)
        BY <2>1, <4>1, PutRecords
      <4> QED
        BY <2>4, <4>2 DEF Appended
    <3>2. \E i \in 1 .. Len(file'[g]) : file'[g][i] = [rec |-> n, whole |-> TRUE]
      BY <3>1
    <3> QED
      BY <3>2 DEF Kept
  <2>6. Keeps(c)'
    BY <1>1, <1>2, <1>4, <2>1, <2>2, <2>4, <2>5 DEF Keeps
  <2> QED
    BY <1>k, <2>6
<1> QED
  BY <1>8, <1>9, <1>10, <1>12, <1>13, <1>14 DEF Operate

\* What was sent while the child lived is in the file, in every state.
LEMMA KeepCorrect == Spec => []KeepInv
<1>1. KeepInv /\ [Next]_vars => KeepInv'
  <2> SUFFICES ASSUME KeepInv, [Next]_vars PROVE KeepInv'
    OBVIOUS
  <2>1. CASE UNCHANGED vars
    <3>1. OrderInv'
      BY <2>1, OrderStutter DEF KeepInv
    <3> QED
      BY <2>1, <3>1 DEF KeepInv, Keeps, Kept, HasFile, vars, cpVars, runVars, diskVars
  <2>2. CASE AllDone
    BY <2>1, <2>2 DEF AllDone
  <2> QED
    BY <2>1, <2>2, ProgramKeepsKeep, ChildKeepsKeep DEF Next, ProgramStep
<1> QED
  BY <1>1, InitKeep, PTL DEF Spec

(***************************************************************************)
(* Once all is quiet, every record the present control program has sent is *)
(* in a file, whole, unless a system call failed for a record of the same  *)
(* TASK_OPEN, however often it has asked for new files                     *)
(* (rawacfwrite.c:101-185).                                                *)
(***************************************************************************)
THEOREM NothingMissingHolds == Spec => []NothingMissing
<1>1. KeepInv => NothingMissing
  <2> SUFFICES ASSUME KeepInv, cp = "idle", conn[sess] = "up", child[sess].pc = "wait",
                      NEW r \in 1 .. rec, sent[r].sess = sess, sent[r].epoch \notin miss
               PROVE  Kept(r)
    BY DEF NothingMissing, Kept
  <2>1. TypeInv /\ sess \in Session
    BY DEF KeepInv, OrderInv, FileInv, SessionInv, TypeInv, TypeOK, ProgramInv, Session
  <2>2. child[sess].cur = 0 /\ todo = <<>> /\ Keeps(sess)
    BY <2>1 DEF KeepInv, OrderInv, FileInv, Writes, TypeInv, ProgramInv
  <2> QED
    BY <2>2, CallLists DEF Keeps
<1> QED
  BY <1>1, KeepCorrect, PTL
=============================================================================
