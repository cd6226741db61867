-------------------------- MODULE TaskWriter_proofs --------------------------
(***************************************************************************)
(* What holds of a control program and the children that write its         *)
(* records, for any number of sessions, records and files, and wherever a  *)
(* program is killed: the types, who is connected to whom, and who writes  *)
(* to which file.                                                          *)
(***************************************************************************)
EXTENDS TaskWriter, SequenceTheorems, TLAPS

\* The calls that are to end with a new file, and the ones before which the
\* old one is to be left.
Opening == {<<"reset", "open">>, <<"close", "open">>, <<"open">>}

\* The control program: the lists of calls it makes, and the part it is at.
ProgramInv ==
  /\ sess = 0 => cp = "off"
  /\ todo \in {<<>>, <<"data">>} \cup Opening
  /\ todo # <<>> <=> cp \in {"send", "reply"}
  /\ cp # "send" => part = 1
  /\ cp = "send" => part <= Parts[Head(todo)]

TypeInv == TypeOK /\ ProgramInv

\* Heads and tails of the lists of calls.
LEMMA CallLists ==
  /\ \A list \in Opening \cup {<<"data">>} : list # <<>>
  /\ <<"data">> \notin Opening
  /\ Head(<<"reset", "open">>) = "reset" /\ Tail(<<"reset", "open">>) = <<"open">>
  /\ Head(<<"close", "open">>) = "close" /\ Tail(<<"close", "open">>) = <<"open">>
  /\ Head(<<"open">>) = "open" /\ Tail(<<"open">>) = <<>>
  /\ Head(<<"data">>) = "data" /\ Tail(<<"data">>) = <<>>
  /\ <<"open">> # <<"reset", "open">> /\ <<"open">> # <<"close", "open">>
  /\ <<"reset", "open">> # <<"close", "open">>
  BY DEF Opening

\* The calls and their parts.
LEMMA CallTypes ==
  /\ Call = {"reset", "close", "open", "data"}
  /\ Parts["reset"] = 1 /\ Parts["close"] = 1 /\ Parts["open"] = 3 /\ Parts["data"] = 5
  BY DEF Call, Parts

\* What a session begins with.
LEMMA NewChildType ==
  /\ NewChild \in Child /\ NoChild \in Child /\ NoMessage \in Message
  /\ [NewChild EXCEPT !.pc = "none"] \in Child
<1>1. 0 \in 0 .. MaxRec /\ 0 \in 0 .. MaxLeft /\ 0 \in 0 .. 5
  BY TaskWriterAssumption DEF TaskWriterAssumption
<1>2. NewChild \in Child
  BY <1>1 DEF NewChild, Child, ChildPC
<1>3. [NewChild EXCEPT !.pc = "none"] \in Child /\ NoChild \in Child
  BY <1>2 DEF Child, ChildPC, NoChild
<1> QED
  BY <1>1, <1>2, <1>3, CallTypes DEF Message, NoMessage

\* The types, step by step.
LEMMA InitTypes == Init => TypeInv
<1> SUFFICES ASSUME Init PROVE TypeInv
  OBVIOUS
<1>1. ProgramInv
  BY CallLists DEF Init, ProgramInv
<1>2. cp \in {"off", "idle", "send", "reply"} /\ todo \in Seq(Call) /\ part \in 1 .. 5
  BY DEF Init
<1>3. sess \in 0 .. MaxSession /\ rec \in 0 .. MaxRec /\ epoch \in 0 .. MaxOpen
  BY TaskWriterAssumption DEF TaskWriterAssumption, Init
<1>4. sent \in [Rec -> [time : Time, sess : 0 .. MaxSession, epoch : 0 .. MaxOpen]]
  BY TaskWriterAssumption DEF TaskWriterAssumption, Init
<1>5. wire \in [Session -> Message]
  BY NewChildType DEF Init
<1>6. child \in [Session -> Child]
  BY NewChildType DEF Init
<1>7. /\ conn \in [Session -> ConnState] /\ answer \in [Session -> BOOLEAN]
      /\ made \subseteq File /\ file \in [File -> Seq(Item)]
      /\ miss \subseteq 0 .. MaxOpen
  BY DEF Init, ConnState
<1> QED
  BY <1>1, <1>2, <1>3, <1>4, <1>5, <1>6, <1>7 DEF TypeInv, TypeOK

(***************************************************************************)
(* A call that returns leaves the rest of the list, whatever it returned   *)
(* (rmsgsnd.c:45-57).                                                      *)
(***************************************************************************)
LEMMA ReturnKeepsProgram ==
  ASSUME TypeInv, Return, cp \in {"send", "reply"}, UNCHANGED sess
  PROVE  ProgramInv' /\ todo' \in Seq(Call) /\ part' \in 1 .. 5
         /\ cp' \in {"off", "idle", "send", "reply"}
<1>1. todo # <<>> /\ sess # 0
  BY CallLists DEF TypeInv, ProgramInv
<1>2. Tail(todo) \in {<<>>, <<"open">>}
  BY <1>1, CallLists DEF TypeInv, ProgramInv, Opening
<1>3. todo' = Tail(todo) /\ part' = 1 /\ cp' = IF Tail(todo) = <<>> THEN "idle" ELSE "send"
  BY DEF Return
<1>4. todo' \in Seq(Call) /\ part' \in 1 .. 5
  <2> DEFINE Lists == Seq(Call)
  <2>1. <<>> \in Lists /\ <<"open">> \in Lists
    BY CallTypes
  <2> HIDE DEF Lists
  <2>2. todo' \in Lists
    BY <1>2, <1>3, <2>1
  <2> QED
    BY <1>3, <2>2 DEF Lists
<1>5. (sess = 0 => cp = "off")'
  BY <1>1
<1>6. (todo # <<>> <=> cp \in {"send", "reply"})'
  BY <1>2, <1>3, CallLists DEF Opening
<1>7. (cp # "send" => part = 1)'
  BY <1>3
<1>8. (todo \in {<<>>, <<"data">>} \cup Opening)'
  BY <1>2, <1>3 DEF Opening
<1>9. (cp = "send" => part <= Parts[Head(todo)])'
  <2>1. cp' = "send" => todo' = <<"open">> /\ part' = 1
    BY <1>2, <1>3
  <2> QED
    BY <2>1, CallLists, CallTypes
<1> QED
  BY <1>3, <1>4, <1>5, <1>6, <1>7, <1>8, <1>9 DEF ProgramInv

\* What the control program and the scheduler do keeps the types.
LEMMA ProgramKeepsTypes ==
  ASSUME TypeInv, Start \/ ReOpen \/ Killed \/ (\E t \in Time : SendRecord(t)) \/ ControlProgram
  PROVE  TypeInv'
<1> USE TaskWriterAssumption, CallLists, CallTypes
    DEF TaskWriterAssumption, TypeInv, TypeOK, ProgramInv, Opening,
        cpVars, runVars, diskVars, Calls
<1>1. CASE Start
  <2>1. sess + 1 \in Session
    BY <1>1 DEF Start, Session
  <2>2. conn' \in [Session -> ConnState]
    BY <1>1, <2>1 DEF Start, ConnState
  <2>3. child' \in [Session -> Child]
    BY <1>1, <2>1, NewChildType DEF Start
  <2>4. ProgramInv' /\ todo' \in Seq(Call) /\ part' \in 1 .. 5
    BY <1>1 DEF Start
  <2> QED
    BY <1>1, <2>1, <2>2, <2>3, <2>4 DEF Start
<1>2. CASE ReOpen
  BY <1>2 DEF ReOpen
<1>3. ASSUME NEW t \in Time, SendRecord(t) PROVE TypeInv'
  <2>1. sent' \in [Rec -> [time : Time, sess : 0 .. MaxSession, epoch : 0 .. MaxOpen]]
    BY <1>3 DEF SendRecord
  <2>2. ProgramInv' /\ todo' \in Seq(Call) /\ part' \in 1 .. 5
    BY <1>3 DEF SendRecord
  <2> QED
    BY <1>3, <2>1, <2>2 DEF SendRecord
<1>4. ASSUME Gone PROVE TypeInv'
  <2>1. conn' \in [Session -> ConnState]
    BY <1>4 DEF Gone, ConnState
  <2> QED
    BY <1>4, <2>1 DEF Gone
<1>5. CASE SendPart
  <2>1. todo # <<>> /\ Head(todo) \in Call /\ part <= Parts[Head(todo)]
    BY <1>5 DEF SendPart, Sending
  <2>2. wire' \in [Session -> Message]
    <3>1. part \in 0 .. 5 /\ (IF Head(todo) = "data" THEN rec ELSE 0) \in 0 .. MaxRec
      BY <1>5, <2>1
    <3>2. [call |-> Head(todo), n |-> part, rec |-> IF Head(todo) = "data" THEN rec ELSE 0]
            \in Message
      BY <2>1, <3>1 DEF Message
    <3> QED
      BY <1>5, <3>2 DEF SendPart
  <2>3. ProgramInv' /\ part' \in 1 .. 5 /\ todo' = todo
    BY <1>5, <2>1 DEF SendPart, Sending, PartSent
  <2> QED
    BY <1>5, <2>2, <2>3 DEF SendPart, PartSent
<1>6. CASE SendUnheard
  <2>1. todo # <<>> /\ Head(todo) \in Call /\ part <= Parts[Head(todo)]
    BY <1>6 DEF SendUnheard, Sending
  <2>2. conn' \in [Session -> ConnState]
    BY <1>6 DEF SendUnheard, ConnState
  <2>3. ProgramInv' /\ part' \in 1 .. 5 /\ todo' = todo
    BY <1>6, <2>1 DEF SendUnheard, Sending, PartSent
  <2> QED
    BY <1>6, <2>2, <2>3 DEF SendUnheard, PartSent
<1>8. CASE SendFails
  BY <1>8, ReturnKeepsProgram DEF SendFails, Sending
<1>9. CASE ReceiveAnswer
  BY <1>9, ReturnKeepsProgram DEF ReceiveAnswer
<1>10. CASE NoAnswer
  BY <1>10, ReturnKeepsProgram DEF NoAnswer
<1> QED
  BY <1>1, <1>2, <1>3, <1>4, <1>5, <1>6, <1>8, <1>9, <1>10 DEF Killed, SigPipe, ControlProgram

(***************************************************************************)
(* What operate() does with a record: it writes it if there is a file,     *)
(* makes one if one was asked for, and else does nothing                   *)
(* (rawacfwrite.c:131-171).                                                *)
(***************************************************************************)
LEMMA ProcessType ==
  ASSUME NEW c \in Child, NEW r \in 0 .. MaxRec
  PROVE  /\ Process(c, r) \in Child
         /\ Process(c, r).filename = c.filename
         /\ Process(c, r).pc \in {"wait", "make", "append"}
         /\ Process(c, r).pc = "append" <=> c.filename # NoFile
         /\ Process(c, r).pc = "make" <=> c.filename = NoFile /\ c.flg
         /\ Process(c, r).cur = IF Process(c, r).pc = "wait" THEN 0 ELSE r
<1>1. 0 \in 0 .. MaxRec
  BY TaskWriterAssumption DEF TaskWriterAssumption
<1> DEFINE dest == IF c.filename # NoFile THEN "append" ELSE IF c.flg THEN "make" ELSE "wait"
           n == IF dest = "wait" THEN 0 ELSE r
           p == [c EXCEPT !.pc = dest, !.cur = n, !.got = TRUE, !.flg = @ /\ dest # "make"]
<1>2. Process(c, r) = p
  BY DEF Process
<1>3. dest \in {"wait", "make", "append"} /\ n \in 0 .. MaxRec /\ c.flg \in BOOLEAN
  BY <1>1 DEF Child
<1>4. /\ dest = "append" <=> c.filename # NoFile
      /\ dest = "make" <=> c.filename = NoFile /\ c.flg
      /\ n = IF dest = "wait" THEN 0 ELSE r
  BY <1>3
<1> HIDE DEF dest, n
<1>5. p \in Child /\ p.pc = dest /\ p.cur = n /\ p.filename = c.filename
  BY <1>3 DEF Child, ChildPC
<1> HIDE DEF p
<1> QED
  BY <1>2, <1>3, <1>4, <1>5

\* So does each step of a child.
LEMMA ChildKeepsTypes ==
  ASSUME TypeInv, NEW s \in Session, Operate(s)
  PROVE  TypeInv'
<1> USE TaskWriterAssumption
    DEF TaskWriterAssumption, TypeInv, TypeOK, ProgramInv, cpVars, runVars, diskVars, ChildFrame
<1>0. child[s] \in Child /\ wire[s] \in Message /\ wire[s].rec \in 0 .. MaxRec
  BY DEF Message
<1>1. ASSUME TakeMessage(s) PROVE wire' \in [Session -> Message] /\ answer' \in [Session -> BOOLEAN]
  BY <1>1, NewChildType DEF TakeMessage
<1>2. CASE TaskOpen(s)
  <2>1. [child[s] EXCEPT !.flg = TRUE] \in Child
    BY <1>0 DEF Child
  <2>2. child' \in [Session -> Child]
    BY <1>2, <2>1 DEF TaskOpen
  <2> QED
    BY <1>1, <1>2, <2>2 DEF TaskOpen, TakeMessage
<1>3. CASE TaskClose(s)
  <2>1. [child[s] EXCEPT !.filename = NoFile] \in Child
    BY <1>0 DEF Child
  <2>2. child' \in [Session -> Child]
    BY <1>3, <2>1 DEF TaskClose
  <2> QED
    BY <1>1, <1>3, <2>2 DEF TaskClose, TakeMessage
<1>4. CASE TaskData(s)
  <2>1. child' \in [Session -> Child]
    BY <1>0, <1>4, ProcessType DEF TaskData
  <2> QED
    BY <1>1, <1>4, <2>1 DEF TaskData, TakeMessage
<1>5. CASE Cut(s)
  <2>1. Process(child[s], 0) \in Child
    BY <1>0, ProcessType
  <2>2. [child[s] EXCEPT !.pc = "gone"] \in Child
    BY <1>0 DEF Child, ChildPC
  <2>3. child' \in [Session -> Child]
    BY <1>5, <2>1, <2>2 DEF Cut
  <2>4. wire' \in [Session -> Message]
    BY <1>5, NewChildType DEF Cut
  <2> QED
    BY <1>5, <2>3, <2>4 DEF Cut
<1>6. CASE EndOfFile(s)
  <2>1. [child[s] EXCEPT !.pc = "gone"] \in Child
    BY <1>0 DEF Child, ChildPC
  <2>2. child' \in [Session -> Child]
    BY <1>6, <2>1 DEF EndOfFile
  <2> QED
    BY <1>6, <2>2 DEF EndOfFile
<1>7. ASSUME NEW f \in File, MakeFile(s, f) PROVE TypeInv'
  <2>1. [child[s] EXCEPT !.pc = "append", !.filename = f] \in Child
    BY <1>0, <1>7 DEF Child, ChildPC
  <2>2. child' \in [Session -> Child]
    BY <1>7, <2>1 DEF MakeFile
  <2> QED
    BY <1>7, <2>2 DEF MakeFile
<1>8. 0 \in 0 .. MaxRec /\ [child[s] EXCEPT !.pc = "wait", !.cur = 0] \in Child
  <2>1. 0 \in 0 .. MaxRec
    OBVIOUS
  <2> QED
    BY <1>0, <2>1 DEF Child, ChildPC
<1>l. ASSUME Lost(s) PROVE miss' \subseteq 0 .. MaxOpen
  <2>1. child[s].cur # 0 => child[s].cur \in Rec
    BY <1>0 DEF Child, Rec
  <2>2. child[s].cur # 0 => sent[child[s].cur].epoch \in 0 .. MaxOpen
    BY <2>1
  <2> QED
    BY <1>l, <2>2 DEF Lost
<1>9. CASE MakeFails(s)
  <2>1. child' \in [Session -> Child] /\ miss' \subseteq 0 .. MaxOpen
    BY <1>8, <1>9, <1>l DEF MakeFails
  <2> QED
    BY <1>9, <2>1 DEF MakeFails
<1>10. ASSUME NEW w \in BOOLEAN, Put(s, w) PROVE file' \in [File -> Seq(Item)]
  <2>1. [rec |-> child[s].cur, whole |-> w] \in Item
    BY <1>0 DEF Child, Item
  <2>2. \A f \in File : Append(file[f], [rec |-> child[s].cur, whole |-> w]) \in Seq(Item)
    BY <2>1, AppendProperties
  <2> QED
    BY <1>10, <2>2 DEF Put
<1>11. CASE WriteRecord(s)
  <2>1. child' \in [Session -> Child] /\ file' \in [File -> Seq(Item)]
    BY <1>8, <1>10, <1>11 DEF WriteRecord
  <2> QED
    BY <1>11, <2>1 DEF WriteRecord
<1>12. CASE WriteFails(s)
  <2>1. [child[s] EXCEPT !.pc = "wait", !.cur = 0, !.left = @ + 1] \in Child
    <3>1. child[s].left + 1 \in 0 .. MaxLeft
      BY <1>0, <1>12 DEF WriteFails, Child
    <3> QED
      BY <1>0, <1>8, <3>1 DEF Child, ChildPC
  <2>2. child' \in [Session -> Child] /\ miss' \subseteq 0 .. MaxOpen
    BY <1>12, <1>l, <2>1 DEF WriteFails
  <2>3. file' \in [File -> Seq(Item)]
    BY <1>10, <1>12 DEF WriteFails
  <2> QED
    BY <1>12, <2>2, <2>3 DEF WriteFails
<1>13. CASE OpenFails(s)
  <2>1. [child[s] EXCEPT !.pc = "crashed"] \in Child
    BY <1>0 DEF Child, ChildPC
  <2>2. child' \in [Session -> Child] /\ miss' \subseteq 0 .. MaxOpen
    BY <1>13, <1>l, <2>1 DEF OpenFails
  <2>3. conn' \in [Session -> ConnState]
    BY <1>13 DEF OpenFails, ConnState
  <2> QED
    BY <1>13, <2>2, <2>3 DEF OpenFails
<1> QED
  BY <1>2, <1>3, <1>4, <1>5, <1>6, <1>7, <1>9, <1>11, <1>12, <1>13 DEF Operate

(***************************************************************************)
(* The state of the control program, its connections, children and files   *)
(* is as declared, however many sessions there are and wherever a message  *)
(* is cut (rmsgsnd.c:25-118, rawacfwrite.c:48-190).                        *)
(***************************************************************************)
THEOREM TypeCorrect == Spec => []TypeOK
<1>1. Init => TypeInv
  BY InitTypes
<1>2. TypeInv /\ [Next]_vars => TypeInv'
  <2> SUFFICES ASSUME TypeInv, [Next]_vars PROVE TypeInv'
    OBVIOUS
  <2>1. CASE UNCHANGED vars
    BY <2>1 DEF TypeInv, TypeOK, ProgramInv, vars, cpVars, runVars, diskVars
  <2>2. CASE AllDone
    BY <2>1, <2>2 DEF AllDone
  <2> QED
    BY <2>1, <2>2, ProgramKeepsTypes, ChildKeepsTypes DEF Next
<1>3. TypeInv => TypeOK
  BY DEF TypeInv
<1> QED
  BY <1>1, <1>2, <1>3, PTL DEF Spec
-----------------------------------------------------------------------------
(* The connections.                                                        *)

\* The records sent so far belong to no file that is still to be asked for.
SentInv ==
  /\ \A r \in 1 .. rec : sent[r].epoch <= epoch
  /\ todo = <<"data">> => rec \in Rec /\ sent[rec].epoch = epoch
  /\ todo \in Opening => \A r \in 1 .. rec : sent[r].epoch < epoch

\* Which ends of a connection are there: one child at most has a control
\* program to talk to, the one of the present session.
Linked(s) ==
  /\ conn[s] = "none" <=> child[s].pc = "none"
  /\ s > sess => conn[s] = "none"
  /\ conn[s] = "up" => s = sess /\ cp # "off" /\ child[s].pc \in {"wait", "make", "append"}
  /\ conn[s] \in {"fin", "rst"} => child[s].pc \in {"crashed", "gone"}
  /\ conn[s] = "none" => wire[s].n = 0
  /\ answer[s] => s = sess /\ cp = "reply"

\* What is in the socket is what the call the control program is in has sent:
\* there is one message under way at most, and it is answered once.
InCall(s) ==
  conn[s] = "up" =>
    /\ cp = "idle" => wire[s].n = 0
    /\ cp = "send" => wire[s].n = part - 1
    /\ cp = "reply" => wire[s].n = IF answer[s] THEN 0 ELSE Parts[Head(todo)]
    /\ wire[s].n > 0 => wire[s].call = Head(todo)
    /\ wire[s].n > 0 /\ todo = <<"data">> => wire[s].rec = rec

SessionInv == TypeInv /\ SentInv /\ \A s \in Session : Linked(s) /\ InCall(s)

\* Before the first control program there are no connections.
LEMMA InitSession == Init => SessionInv
  BY InitTypes, CallLists DEF Init, NoMessage, NewChild, SessionInv, SentInv, Linked, InCall, Rec

\* What the control program does keeps its children and calls in order.
LEMMA ProgramKeepsSession ==
  ASSUME SessionInv, Start \/ ReOpen \/ Killed \/ (\E t \in Time : SendRecord(t)) \/ ControlProgram
  PROVE  SessionInv'
<1>1. TypeInv'
  BY ProgramKeepsTypes DEF SessionInv
<1>t. TypeInv
  BY DEF SessionInv
<1>a. (Head(todo) \in Call /\ Parts[Head(todo)] \in 1 .. 5) \/ todo = <<>>
  BY CallLists, CallTypes DEF TypeInv, ProgramInv, Opening, SessionInv
<1>2. SentInv'
  <2> USE CallLists DEF TypeInv, TypeOK, SessionInv, SentInv, Opening, Calls, cpVars, runVars, diskVars
  <2>1. ASSUME epoch' = epoch + 1, UNCHANGED <<rec, sent>>, todo' \in Opening PROVE SentInv'
    <3>1. rec \in 0 .. MaxRec /\ epoch \in Nat /\ \A r \in 1 .. rec : sent[r].epoch \in Nat
      BY TaskWriterAssumption DEF Rec, TaskWriterAssumption
    <3>2. \A r \in 1 .. rec : sent'[r].epoch <= epoch' /\ sent'[r].epoch < epoch'
      BY <2>1, <3>1
    <3>3. todo' # <<"data">>
      BY <2>1
    <3> QED
      BY <2>1, <3>2, <3>3
  <2>2. CASE Start \/ ReOpen
    BY <2>1, <2>2 DEF Start, ReOpen
  <2>3. ASSUME NEW t \in Time, SendRecord(t) PROVE SentInv'
    <3>1. rec \in 0 .. MaxRec /\ rec' = rec + 1 /\ rec' \in Rec /\ epoch' = epoch /\ epoch \in Nat
      BY <2>3, TaskWriterAssumption DEF SendRecord, Rec, TaskWriterAssumption
    <3>2. /\ sent'[rec'].epoch = epoch
          /\ \A r \in 1 .. rec : sent'[r] = sent[r]
      BY <2>3, <3>1 DEF SendRecord, Rec
    <3>3. ASSUME NEW r \in 1 .. rec' PROVE sent'[r].epoch <= epoch'
      <4>1. CASE r = rec'
        BY <3>1, <3>2, <4>1
      <4>2. CASE r # rec'
        <5>1. r \in 1 .. rec
          BY <3>1, <4>2 DEF Rec
        <5>2. sent[r].epoch <= epoch
          BY <5>1
        <5> QED
          BY <5>1, <5>2, <3>1, <3>2
      <4> QED
        BY <4>1, <4>2
    <3>4. todo' \notin Opening
      BY <2>3 DEF SendRecord
    <3> QED
      BY <3>1, <3>2, <3>3, <3>4
  <2>4. CASE Gone
    BY <2>4 DEF Gone
  <2>5. CASE SendPart \/ SendUnheard
    BY <2>5 DEF SendPart, SendUnheard, PartSent
  <2>6. CASE SendFails \/ ReceiveAnswer \/ NoAnswer
    <3>1. Return /\ todo # <<>> /\ UNCHANGED <<epoch, rec, sent>>
      BY <2>6 DEF SendFails, ReceiveAnswer, NoAnswer, Sending, ProgramInv
    <3>2. todo' = <<>> \/ (todo' = <<"open">> /\ todo \in Opening)
      BY <3>1 DEF Return, ProgramInv
    <3> QED
      BY <3>1, <3>2
  <2> QED
    BY <2>2, <2>3, <2>4, <2>5, <2>6 DEF Killed, SigPipe, ControlProgram
<1>3. ASSUME NEW s \in Session PROVE Linked(s)'
  <2> USE DEF TypeInv, TypeOK, SessionInv, Linked, Calls, cpVars, runVars, diskVars, Session
  <2>1. CASE Start
    <3>1. /\ sess \in Nat /\ sess' = sess + 1 /\ s \in Nat /\ Linked(s) /\ cp = "off"
          /\ cp' = "send" /\ UNCHANGED <<wire, answer>>
      BY <2>1 DEF Start
    <3>2. CASE s = sess'
      <4>1. conn[s] = "none" /\ ~answer[s]
        BY <3>1, <3>2
      <4>2. \/ conn'[s] = "up" /\ child'[s] = NewChild
            \/ conn'[s] = "fin" /\ child'[s] = NoChild
            \/ conn'[s] = conn[s] /\ child'[s] = child[s]
        BY <2>1, <3>2 DEF Start
      <4> QED
        BY <3>1, <3>2, <4>1, <4>2 DEF NewChild, NoChild
    <3>3. CASE s # sess'
      <4>1. conn'[s] = conn[s] /\ child'[s] = child[s] /\ conn[s] # "up" /\ ~answer[s]
        BY <2>1, <3>1, <3>3 DEF Start
      <4> QED
        BY <3>1, <3>3, <4>1
    <3> QED
      BY <3>2, <3>3
  <2>2. CASE ReOpen
    BY <2>2 DEF ReOpen
  <2>3. ASSUME NEW t \in Time, SendRecord(t) PROVE Linked(s)'
    BY <2>3 DEF SendRecord
  <2>4. CASE cp # "off" /\ Gone
    BY <2>4 DEF Gone
  <2>5. CASE SendPart
    BY <2>5 DEF SendPart, PartSent, Sending
  <2>6. CASE SendUnheard
    BY <2>6 DEF SendUnheard, PartSent, Sending
  <2>7. CASE SendFails \/ NoAnswer
    BY <2>7 DEF SendFails, NoAnswer, Return, Sending
  <2>8. CASE ReceiveAnswer
    BY <2>8 DEF ReceiveAnswer, Return
  <2> QED
    BY <2>1, <2>2, <2>3, <2>4, <2>5, <2>6, <2>7, <2>8 DEF Killed, SigPipe, ControlProgram, Sending
<1>4. ASSUME NEW s \in Session PROVE InCall(s)'
  <2>0. /\ (conn[s] = "up" => s = sess) /\ InCall(s) /\ Linked(s)
        /\ sess \in Nat
    BY DEF SessionInv, Linked, TypeInv, TypeOK
  <2> USE <1>t DEF TypeInv, TypeOK, InCall, Calls, cpVars, runVars, diskVars, Session
  <2>1. CASE Start
    <3>1. /\ sess' = sess + 1 /\ s \in Nat /\ cp = "off" /\ cp' = "send" /\ part' = 1
          /\ UNCHANGED <<wire, answer>>
      BY <2>1 DEF Start
    <3>2. CASE s = sess'
      BY <2>0, <3>1, <3>2 DEF Linked
    <3>3. CASE s # sess'
      <4>1. conn'[s] = conn[s] /\ conn[s] # "up"
        BY <2>0, <2>1, <3>1, <3>3 DEF Start, Linked
      <4> QED
        BY <4>1
    <3> QED
      BY <3>2, <3>3
  <2>2. CASE ReOpen
    BY <2>0, <2>2, CallTypes DEF ReOpen
  <2>3. ASSUME NEW t \in Time, SendRecord(t) PROVE InCall(s)'
    BY <2>0, <2>3, CallTypes DEF SendRecord
  <2>4. CASE cp # "off" /\ Gone
    BY <2>0, <2>4 DEF Gone
  <2>5. CASE SendPart
    <3>1. /\ cp = "send" /\ part \in 1 .. 5 /\ todo # <<>> /\ ~answer[s] /\ UNCHANGED <<conn, answer, rec>>
          /\ todo' = todo
      BY <2>0, <2>5 DEF SendPart, PartSent, Sending, ProgramInv, Linked
    <3>2. CASE s # sess
      BY <2>0, <3>1, <3>2
    <3>3. CASE s = sess
      <4>1. wire'[s].n = part /\ wire'[s].call = Head(todo) /\ (Head(todo) = "data" => wire'[s].rec = rec)
        BY <2>5, <3>3 DEF SendPart
      <4>2. \/ cp' = "reply" /\ part = Parts[Head(todo)]
            \/ cp' = "send" /\ part' = part + 1
        BY <2>5 DEF SendPart, PartSent
      <4> QED
        BY <3>1, <4>1, <4>2, CallLists
    <3> QED
      BY <3>2, <3>3
  <2>6. CASE SendUnheard
    BY <2>0, <2>6 DEF SendUnheard, PartSent, Sending
  <2>7. CASE SendFails \/ NoAnswer
    BY <2>0, <2>7 DEF SendFails, NoAnswer, Return, Sending
  <2>8. CASE ReceiveAnswer
    BY <2>0, <2>8 DEF ReceiveAnswer, Return, Linked
  <2> QED
    BY <2>1, <2>2, <2>3, <2>4, <2>5, <2>6, <2>7, <2>8 DEF Killed, SigPipe, ControlProgram, Sending
<1> QED
  BY <1>1, <1>2, <1>3, <1>4 DEF SessionInv

(***************************************************************************)
(* A child that takes a message finds the control program waiting for the  *)
(* answer to it (rawacfwrite.c:95-129).                                    *)
(***************************************************************************)
LEMMA ChildKeepsSession ==
  ASSUME SessionInv, NEW c \in Session, Operate(c)
  PROVE  SessionInv'
<1>1. TypeInv'
  BY ChildKeepsTypes DEF SessionInv
<1>2. UNCHANGED <<cpVars, runVars>>
  BY DEF Operate, TaskOpen, TaskClose, TaskData, TakeMessage, Cut, EndOfFile, MakeFile, MakeFails,
         WriteRecord, WriteFails, OpenFails, ChildFrame
<1>3. SentInv'
  BY <1>2 DEF SessionInv, SentInv, cpVars, runVars
<1>4. ASSUME NEW s \in Session PROVE Linked(s)' /\ InCall(s)'
  <2>1. /\ Linked(s) /\ InCall(s) /\ Linked(c) /\ InCall(c)
        /\ child \in [Session -> Child] /\ wire \in [Session -> Message]
        /\ conn \in [Session -> ConnState] /\ answer \in [Session -> BOOLEAN]
        /\ child[c] \in Child /\ wire[c].n \in 0 .. 5
    BY DEF SessionInv, TypeInv, TypeOK, Message
  <2>2. CASE s # c
    <3>1. /\ conn'[s] = conn[s] /\ child'[s] = child[s] /\ wire'[s] = wire[s]
          /\ answer'[s] = answer[s]
      BY <2>1, <2>2 DEF Operate, TaskOpen, TaskClose, TaskData, TakeMessage, Cut, EndOfFile, MakeFile,
         MakeFails, WriteRecord, WriteFails, OpenFails, ChildFrame
    <3> QED
      BY <1>2, <2>1, <3>1 DEF Linked, InCall, cpVars, runVars
  <2>3. CASE s = c /\ (TaskOpen(c) \/ TaskClose(c) \/ TaskData(c))
    <3>1. /\ conn' = conn /\ wire'[c].n = 0 /\ (answer'[c] <=> conn[c] = "up")
          /\ child[c].pc = "wait" /\ wire[c].n = Parts[wire[c].call]
      <4>1. answer' = [answer EXCEPT ![c] = conn[c] = "up"]
        BY <2>3 DEF TaskOpen, TaskClose, TaskData, TakeMessage
      <4>2. answer'[c] <=> conn[c] = "up"
        BY <2>1, <4>1, Zenon
      <4>3. /\ conn' = conn /\ wire'[c].n = 0
            /\ child[c].pc = "wait" /\ wire[c].n = Parts[wire[c].call]
        BY <2>1, <2>3 DEF TaskOpen, TaskClose, TaskData, TakeMessage, Received, NoMessage
      <4> QED
        BY <4>2, <4>3
    <3>2. child'[c].pc \in {"wait", "make", "append"}
      BY <2>1, <2>3, <3>1, ProcessType DEF TaskOpen, TaskClose, TaskData, Child, Message
    <3>3. Parts[wire[c].call] \in 1 .. 5
      BY <2>1, CallTypes DEF Message
    <3>4. conn[c] = "up" => cp = "reply"
      <4> SUFFICES ASSUME conn[c] = "up" PROVE cp = "reply"
        OBVIOUS
      <4>1. wire[c].call = Head(todo) /\ cp \in {"idle", "send", "reply"} /\ cp # "idle"
        BY <2>1, <3>1, <3>3 DEF InCall, Linked, SessionInv, TypeInv, TypeOK
      <4>2. cp # "send"
        BY <2>1, <3>1, <3>3, <4>1 DEF InCall, SessionInv, TypeInv, TypeOK, ProgramInv
      <4> QED
        BY <4>1, <4>2
    <3> QED
      BY <1>2, <2>1, <2>3, <3>1, <3>2, <3>4 DEF Linked, InCall, cpVars, runVars
  <2>4. CASE s = c /\ Cut(c)
    <3>1. /\ conn[c] = "shut" /\ conn' = conn /\ answer' = answer
      BY <2>4 DEF Cut
    <3>2. child'[c].pc # "none"
      BY <2>1, <2>4, ProcessType, TaskWriterAssumption DEF Cut, Child, TaskWriterAssumption
    <3> QED
      BY <1>2, <2>1, <2>4, <3>1, <3>2 DEF Linked, InCall, cpVars, runVars
  <2>5. CASE s = c /\ EndOfFile(c)
    BY <1>2, <2>1, <2>5 DEF EndOfFile, Linked, InCall, cpVars, runVars
  <2>6. CASE s = c /\ (MakeFails(c) \/ WriteRecord(c) \/ WriteFails(c) \/ \E f \in File : MakeFile(c, f))
    <3>1. /\ child[c].pc \in {"make", "append"} /\ child'[c].pc \in {"wait", "append"}
          /\ UNCHANGED <<conn, wire, answer>>
      <4>1. CASE MakeFails(c)
        BY <2>1, <4>1 DEF MakeFails, ChildFrame, Child
      <4>2. CASE WriteRecord(c)
        BY <2>1, <4>2 DEF WriteRecord, ChildFrame, Child
      <4>3. CASE WriteFails(c)
        BY <2>1, <4>3 DEF WriteFails, ChildFrame, Child
      <4>4. CASE \E f \in File : MakeFile(c, f)
        BY <2>1, <4>4 DEF MakeFile, ChildFrame, Child
      <4> QED
        BY <2>6, <4>1, <4>2, <4>3, <4>4
    <3> QED
      BY <1>2, <2>1, <2>6, <3>1 DEF Linked, InCall, cpVars, runVars
  <2>7. CASE s = c /\ OpenFails(c)
    <3>1. /\ child[c].pc = "append" /\ child'[c].pc = "crashed" /\ UNCHANGED <<wire, answer>>
          /\ conn'[c] = IF conn[c] # "up" THEN conn[c] ELSE IF wire[c].n > 0 THEN "rst" ELSE "fin"
      BY <2>1, <2>7 DEF OpenFails, ChildFrame, Child
    <3> QED
      BY <1>2, <2>1, <2>7, <3>1 DEF Linked, InCall, cpVars, runVars
  <2> QED
    BY <2>2, <2>3, <2>4, <2>5, <2>6, <2>7 DEF Operate
<1> QED
  BY <1>1, <1>3, <1>4 DEF SessionInv

\* A step that changes none of it keeps the invariant.
LEMMA SessionStutters ==
  ASSUME SessionInv, UNCHANGED vars
  PROVE  SessionInv'
<1>1. TypeInv'
  BY DEF SessionInv, TypeInv, TypeOK, ProgramInv, vars, cpVars, runVars, diskVars
<1> QED
  BY <1>1 DEF SessionInv, SentInv, Linked, InCall, vars, cpVars, runVars, diskVars

\* Sessions, connections and calls fit together in every state.
LEMMA SessionCorrect == Spec => []SessionInv
<1>1. SessionInv /\ [Next]_vars => SessionInv'
  <2> SUFFICES ASSUME SessionInv, [Next]_vars PROVE SessionInv'
    OBVIOUS
  <2>1. CASE UNCHANGED vars
    BY <2>1, SessionStutters
  <2>2. CASE AllDone
    BY <2>1, <2>2 DEF AllDone
  <2> QED
    BY <2>1, <2>2, ProgramKeepsSession, ChildKeepsSession DEF Next
<1> QED
  BY <1>1, InitSession, PTL DEF Spec
-----------------------------------------------------------------------------
(* The files.                                                              *)

Records(f) == {file[f][i].rec : i \in 1 .. Len(file[f])}
HasFile(s) == child[s].filename # NoFile
Busy(s) == child[s].pc \in {"make", "append"}

\* A step of the control program.
ProgramStep == Start \/ ReOpen \/ Killed \/ (\E t \in Time : SendRecord(t)) \/ ControlProgram

(***************************************************************************)
(* The control program touches no file, and what it has sent stays as it   *)
(* was.                                                                    *)
(***************************************************************************)
LEMMA ProgramFrame ==
  ASSUME SessionInv, ProgramStep
  PROVE  /\ UNCHANGED <<made, file, miss>>
         /\ rec \in 0 .. MaxRec /\ rec' \in rec .. MaxRec
         /\ \A r \in 1 .. rec : sent'[r] = sent[r]
<1> USE DEF cpVars, runVars, diskVars
<1>1. rec \in 0 .. MaxRec /\ MaxRec \in Nat /\ sent \in [Rec -> [time : Time, sess : 0 .. MaxSession, epoch : 0 .. MaxOpen]]
  BY TaskWriterAssumption DEF TaskWriterAssumption, SessionInv, TypeInv, TypeOK
<1>2. UNCHANGED <<made, file, miss>>
  BY DEF ProgramStep, Start, ReOpen, Killed, SendRecord, ControlProgram, SendPart, SendUnheard, SendFails,
         SigPipe, ReceiveAnswer, NoAnswer, Gone
<1>3. ASSUME NEW t \in Time, SendRecord(t)
      PROVE  rec' = rec + 1 /\ rec' \in rec .. MaxRec /\ \A r \in 1 .. rec : sent'[r] = sent[r]
  BY <1>1, <1>3 DEF SendRecord, Rec
<1>4. UNCHANGED <<rec, sent>> \/ \E t \in Time : SendRecord(t)
  BY DEF ProgramStep, Start, ReOpen, Killed, ControlProgram, SendPart, SendUnheard, SendFails,
         SigPipe, ReceiveAnswer, NoAnswer, Gone
<1> QED
  BY <1>1, <1>2, <1>3, <1>4

(***************************************************************************)
(* What it does to a session: a child is forked, or a part of a message is *)
(* put in the socket of the present one (rmsgsnd.c:90-112).                *)
(***************************************************************************)
LEMMA ProgramEffect ==
  ASSUME SessionInv, ProgramStep, NEW s \in Session
  PROVE  /\ \/ child'[s] = child[s]
            \/ /\ child'[s] = NewChild \/ (child'[s] = NoChild /\ conn'[s] # "up")
               /\ child[s].pc = "none" /\ conn[s] = "none" /\ wire[s].n = 0
         /\ \/ wire'[s] = wire[s]
            \/ /\ conn[s] = "up" /\ conn'[s] = "up" /\ cp = "send" /\ todo' = todo
               /\ wire'[s].call = Head(todo)
               /\ wire'[s].call = "data" => todo = <<"data">> /\ wire'[s].rec = rec
         /\ conn[s] = "shut" => conn'[s] = "shut"
<1> USE DEF cpVars, runVars, diskVars
<1>1. /\ SentInv /\ TypeInv /\ Linked(s) /\ sess \in Nat /\ s \in Nat
      /\ sess \in 0 .. MaxSession /\ MaxSession \in Nat
      /\ child \in [Session -> Child] /\ wire \in [Session -> Message]
      /\ conn \in [Session -> ConnState]
  BY TaskWriterAssumption DEF TaskWriterAssumption, SessionInv, TypeInv, TypeOK, Session
<1>2. CASE Start
  <2>1. /\ wire' = wire
        /\ sess' = sess + 1 /\ sess' \in Session
    BY <1>1, <1>2 DEF Start, Session
  <2>2. CASE s = sess'
    <3>1. conn[s] = "none" /\ child[s].pc = "none" /\ wire[s].n = 0
      BY <1>1, <2>1, <2>2 DEF Linked
    <3>2. \/ child'[s] = child[s]
          \/ child'[s] = NewChild
          \/ child'[s] = NoChild /\ conn'[s] # "up"
      BY <1>1, <1>2, <2>1, <2>2 DEF Start
    <3> QED
      BY <1>1, <2>1, <3>1, <3>2
  <2>3. CASE s # sess'
    <3>1. child'[s] = child[s] /\ conn'[s] = conn[s]
      BY <1>1, <1>2, <2>1, <2>3 DEF Start
    <3> QED
      BY <1>1, <2>1, <3>1
  <2> QED
    BY <2>2, <2>3
<1>3. CASE ReOpen
  BY <1>1, <1>3 DEF ReOpen
<1>4. ASSUME NEW t \in Time, SendRecord(t)
      PROVE  UNCHANGED <<child, wire, conn>>
  BY <1>4 DEF SendRecord
<1>5. CASE Gone
  BY <1>1, <1>5 DEF Gone
<1>6. CASE SendPart
  <2>1. /\ cp = "send" /\ todo' = todo /\ conn[sess] = "up"
        /\ UNCHANGED <<conn, child>>
    BY <1>6 DEF SendPart, Sending, PartSent
  <2>2. CASE s # sess
    BY <1>1, <1>6, <2>1, <2>2 DEF SendPart
  <2>3. CASE s = sess
    <3>1. wire'[s].call = Head(todo) /\ (wire'[s].call = "data" => wire'[s].rec = rec)
      BY <1>1, <1>6, <2>3 DEF SendPart
    <3>2. Head(todo) = "data" => todo = <<"data">>
      BY <1>1, <2>1, CallLists DEF TypeInv, ProgramInv, Opening
    <3> QED
      BY <1>1, <2>1, <2>3, <3>1, <3>2
  <2> QED
    BY <2>2, <2>3
<1>7. CASE SendUnheard
  BY <1>1, <1>7 DEF SendUnheard
<1>8. CASE SendFails \/ ReceiveAnswer \/ NoAnswer
  BY <1>1, <1>8 DEF SendFails, ReceiveAnswer, NoAnswer
<1> QED
  BY <1>1, <1>2, <1>3, <1>4, <1>5, <1>6, <1>7, <1>8 DEF ProgramStep, Killed, SigPipe, ControlProgram

(***************************************************************************)
(* A child touches no session but its own.                                 *)
(***************************************************************************)
LEMMA ChildEffect ==
  ASSUME SessionInv, NEW c \in Session, Operate(c)
  PROVE  /\ UNCHANGED <<cpVars, runVars>>
         /\ \A s \in Session \ {c} :
               /\ conn'[s] = conn[s] /\ child'[s] = child[s] /\ wire'[s] = wire[s]
               /\ answer'[s] = answer[s]
         /\ miss \subseteq miss'
         /\ made \subseteq made'
<1>1. /\ child \in [Session -> Child] /\ wire \in [Session -> Message] /\ conn \in [Session -> ConnState]
      /\ answer \in [Session -> BOOLEAN]
  BY DEF SessionInv, TypeInv, TypeOK
<1>2. UNCHANGED <<cpVars, runVars>> /\ made \subseteq made'
  BY DEF Operate, TaskOpen, TaskClose, TaskData, TakeMessage, Cut, EndOfFile, MakeFile, MakeFails,
         WriteRecord, WriteFails, OpenFails, ChildFrame, diskVars
<1>3. ASSUME NEW s \in Session \ {c}
      PROVE  conn'[s] = conn[s] /\ child'[s] = child[s] /\ wire'[s] = wire[s]
             /\ answer'[s] = answer[s]
  BY <1>1 DEF Operate, TaskOpen, TaskClose, TaskData, TakeMessage, Cut, EndOfFile, MakeFile,
     MakeFails, WriteRecord, WriteFails, OpenFails, ChildFrame
<1>4. miss \subseteq miss'
  BY DEF Operate, TaskOpen, TaskClose, TaskData, Cut, EndOfFile, MakeFile, MakeFails,
     WriteRecord, WriteFails, OpenFails, Lost, diskVars
<1> QED
  BY <1>2, <1>3, <1>4

\* The records of a file are those of its items.
LEMMA RecordsSame ==
  ASSUME NEW f \in File, file'[f] = file[f]
  PROVE  Records(f)' = Records(f)
  BY DEF Records

\* What the child of session c has put in file f comes last, and the rest stays.
Appended(f, c, w) ==
  /\ Records(f)' = Records(f) \cup {child[c].cur}
  /\ \A g \in File \ {f} : file'[g] = file[g]
  /\ Len(file'[f]) = Len(file[f]) + 1 /\ Len(file[f]) \in Nat
  /\ file'[f][Len(file[f]) + 1] = [rec |-> child[c].cur, whole |-> w]
  /\ \A i \in 1 .. Len(file[f]) : file'[f][i] = file[f][i]

(***************************************************************************)
(* A record is appended to its file, whole or not (rawacfwrite.c:171-181). *)
(***************************************************************************)
LEMMA PutRecords ==
  ASSUME TypeInv, NEW c \in Session, NEW f \in File, child[c].filename = f,
         NEW w \in BOOLEAN, Put(c, w)
  PROVE  Appended(f, c, w)
<1> DEFINE x == [rec |-> child[c].cur, whole |-> w]
<1>1. file \in [File -> Seq(Item)] /\ child[c].cur \in 0 .. MaxRec
  BY DEF TypeInv, TypeOK, Child
<1>2. x \in Item /\ x.rec = child[c].cur
  BY <1>1 DEF Item
<1>3. file'[f] = Append(file[f], x) /\ \A g \in File \ {f} : file'[g] = file[g]
  BY <1>1 DEF Put
<1> HIDE DEF x
<1>4. file[f] \in Seq(Item)
  BY <1>1
<1>5. /\ Len(file'[f]) = Len(file[f]) + 1 /\ Len(file[f]) \in Nat
      /\ file'[f][Len(file[f]) + 1] = x
      /\ \A i \in 1 .. Len(file[f]) : file'[f][i] = file[f][i]
  BY <1>2, <1>3, <1>4, AppendProperties, LenProperties
<1>6. Records(f)' = {file'[f][i].rec : i \in 1 .. Len(file[f]) + 1}
  BY <1>5 DEF Records
<1>7. Records(f)' = Records(f) \cup {child[c].cur}
  <2> DEFINE n == Len(file[f])
  <2>1. \A i \in 1 .. n : file'[f][i].rec = file[f][i].rec
    BY <1>5
  <2>2. file'[f][n + 1].rec = child[c].cur /\ n \in Nat
    BY <1>2, <1>5
  <2> HIDE DEF n
  <2>3. 1 .. n + 1 = 1 .. n \cup {n + 1}
    BY <2>2
  <2>4. {file'[f][i].rec : i \in 1 .. n + 1} = {file'[f][i].rec : i \in 1 .. n} \cup {file'[f][n + 1].rec}
    BY <2>3
  <2>5. {file'[f][i].rec : i \in 1 .. n} = {file[f][i].rec : i \in 1 .. n}
    BY <2>1
  <2> QED
    BY <1>6, <2>2, <2>4, <2>5 DEF Records, n
<1> QED
  BY <1>3, <1>5, <1>7 DEF x, Appended

\* The child of a session: the record it is at was sent, its file was made, and
\* after a record that was not sent it gets no message any more.
Writes(s) ==
  /\ wire[s].n > 0 /\ wire[s].call = "data" => wire[s].rec \in 1 .. rec
  /\ child[s].pc \in {"none", "wait", "gone"} => child[s].cur = 0
  /\ child[s].pc = "append" => HasFile(s)
  /\ child[s].pc = "make" => ~HasFile(s)
  /\ child[s].cur <= rec
  /\ HasFile(s) => child[s].filename \in made
  /\ Busy(s) /\ child[s].cur = 0 => conn[s] = "shut" /\ wire[s].n = 0
  /\ HasFile(s) /\ 0 \in Records(child[s].filename) =>
        conn[s] = "shut" /\ wire[s].n = 0 /\ ~Busy(s)

\* No two children write to one file: FIOMakeFile() makes it with O_EXCL.
OneWriter ==
  \A s, t \in Session : HasFile(s) /\ child[t].filename = child[s].filename => s = t

Written(f) ==
  /\ f \notin made => file[f] = <<>>
  /\ Records(f) \subseteq 0 .. rec
  /\ \A i \in 1 .. Len(file[f]) - 1 : file[f][i].rec # 0

FileInv ==
  /\ SessionInv /\ OneWriter
  /\ \A s \in Session : Writes(s)
  /\ \A f \in File : Written(f)

\* At first there are no files.
LEMMA InitFiles == Init => FileInv
<1> SUFFICES ASSUME Init PROVE FileInv
  OBVIOUS
<1>1. \A f \in File : file[f] = <<>> /\ Records(f) = {} /\ f \notin made
  BY DEF Init, Records
<1>2. \A f \in File : Written(f)
  BY <1>1 DEF Written
<1>3. \A s \in Session : child[s].pc = "none" /\ child[s].filename = NoFile /\ child[s].cur = 0
        /\ wire[s].n = 0
  BY DEF Init, NewChild, NoMessage
<1>4. \A s \in Session : ~HasFile(s) /\ ~Busy(s)
  BY <1>3 DEF HasFile, Busy
<1>5. rec = 0
  BY DEF Init
<1>6. \A s \in Session : Writes(s)
  BY <1>3, <1>4, <1>5 DEF Writes
<1>7. OneWriter
  BY <1>4 DEF OneWriter
<1> QED
  BY <1>2, <1>6, <1>7, InitSession DEF FileInv

\* The control program touches no file.
LEMMA ProgramKeepsFiles ==
  ASSUME FileInv, ProgramStep
  PROVE  FileInv'
<1>1. SessionInv /\ SessionInv' /\ SentInv /\ TypeInv
  BY ProgramKeepsSession DEF ProgramStep, FileInv, SessionInv
<1>2. UNCHANGED <<made, file>> /\ rec \in Nat /\ rec' \in Nat /\ rec <= rec'
  BY <1>1, ProgramFrame, TaskWriterAssumption DEF TaskWriterAssumption
<1>3. \A f \in File : Records(f)' = Records(f)
  BY <1>2, RecordsSame
<1>4. ASSUME NEW f \in File PROVE Written(f)'
  <2>1. Written(f)
    BY DEF FileInv
  <2> QED
    BY <1>2, <1>3, <2>1 DEF Written
<1>5. ASSUME NEW s \in Session PROVE Writes(s)'
  <2>1. Writes(s) /\ Linked(s)
    BY <1>1 DEF FileInv, SessionInv
  <2>2. wire'[s].n > 0 /\ wire'[s].call = "data" => wire'[s].rec \in 1 .. rec'
    <3>1. CASE wire'[s] = wire[s]
      BY <1>2, <2>1, <3>1 DEF Writes
    <3>2. CASE wire'[s] # wire[s]
      BY <1>1, <1>2, <3>2, ProgramEffect DEF SentInv, Rec
    <3> QED
      BY <3>1, <3>2
  <2>3. CASE child'[s] = child[s]
    <3>1. (HasFile(s))' = HasFile(s) /\ (Busy(s))' = Busy(s)
      BY <2>3 DEF HasFile, Busy
    <3>2. Records(child[s].filename)' = Records(child[s].filename)
      BY <1>2, <2>3 DEF Records
    <3>3. conn[s] = "shut" /\ wire[s].n = 0 => conn'[s] = "shut" /\ wire'[s].n = 0
      BY <1>1, ProgramEffect
    <3>4. child[s].cur <= rec => child[s].cur <= rec'
      BY <1>1, <1>2 DEF TypeInv, TypeOK, Child
    <3> QED
      BY <1>2, <2>1, <2>2, <2>3, <3>1, <3>2, <3>3, <3>4 DEF Writes
  <2>4. CASE child'[s] = NewChild \/ child'[s] = NoChild
    <3>1. ~(HasFile(s))' /\ ~(Busy(s))' /\ child'[s].cur = 0 /\ child'[s].pc \in {"wait", "gone"}
      BY <2>4 DEF HasFile, Busy, NewChild, NoChild
    <3> QED
      BY <1>2, <2>2, <3>1 DEF Writes
  <2> QED
    BY <1>1, <2>3, <2>4, ProgramEffect
<1>6. OneWriter'
  <2> SUFFICES ASSUME NEW s \in Session, NEW t \in Session,
                      child'[s].filename # NoFile, child'[t].filename = child'[s].filename
               PROVE  s = t
    BY DEF OneWriter, HasFile
  <2>1. child'[s] = child[s] /\ child'[t] = child[t]
    BY <1>1, ProgramEffect DEF NewChild, NoChild
  <2> QED
    BY <2>1 DEF FileInv, OneWriter, HasFile
<1> QED
  BY <1>1, <1>4, <1>5, <1>6 DEF FileInv

(***************************************************************************)
(* The invariant through each step of operate(), FIOMakeFile() and         *)
(* RawFwrite() (rawacfwrite.c:93-189, fio.c:21-63).                        *)
(***************************************************************************)
LEMMA ChildKeepsFiles ==
  ASSUME FileInv, NEW c \in Session, Operate(c)
  PROVE  FileInv'
<1>1. SessionInv /\ SessionInv' /\ TypeInv /\ Writes(c) /\ Linked(c) /\ InCall(c)
  BY ChildKeepsSession DEF FileInv, SessionInv
<1>2. /\ rec' = rec /\ rec \in Nat /\ made \subseteq made'
      /\ \A s \in Session \ {c} :
            conn'[s] = conn[s] /\ child'[s] = child[s] /\ wire'[s] = wire[s]
  BY <1>1, ChildEffect DEF runVars, TypeInv, TypeOK
<1>3. /\ child \in [Session -> Child] /\ wire \in [Session -> Message] /\ conn \in [Session -> ConnState]
      /\ child[c] \in Child /\ wire[c] \in Message /\ wire[c].n \in 0 .. 5
      /\ wire[c].rec \in 0 .. MaxRec /\ child[c].cur \in Nat /\ 0 \in 0 .. MaxRec
  BY <1>1, TaskWriterAssumption DEF TaskWriterAssumption, TypeInv, TypeOK, Message, Child
\* The other children and the files they have.
<1>4. ASSUME NEW s \in Session \ {c},
             \A f \in File : child[c].filename # f => file'[f] = file[f]
      PROVE  Writes(s)'
  <2>1. Writes(s) /\ child[s] \in Child
    BY <1>3 DEF FileInv
  <2>2. (HasFile(s))' = HasFile(s) /\ (Busy(s))' = Busy(s)
    BY <1>2 DEF HasFile, Busy
  <2>3. HasFile(s) => Records(child[s].filename)' = Records(child[s].filename)
    <3> SUFFICES ASSUME HasFile(s) PROVE Records(child[s].filename)' = Records(child[s].filename)
      OBVIOUS
    <3>1. child[s].filename \in File /\ child[c].filename # child[s].filename
      BY <2>1 DEF FileInv, OneWriter, HasFile, Child
    <3>2. file'[child[s].filename] = file[child[s].filename]
      BY <1>4, <3>1
    <3> QED
      BY <1>2, <3>2 DEF Records
  <2> QED
    BY <1>2, <2>1, <2>2, <2>3 DEF Writes
\* A step that makes and writes no file.
<1>5. ASSUME UNCHANGED <<made, file>>, Writes(c)',
             child'[c].filename \in {child[c].filename, NoFile}
      PROVE  FileInv'
  <2>1. \A f \in File : Written(f)'
    BY <1>2, <1>5, RecordsSame DEF FileInv, Written
  <2>2. \A s \in Session : Writes(s)'
    BY <1>4, <1>5
  <2>3. OneWriter'
    <3> SUFFICES ASSUME NEW s \in Session, NEW t \in Session,
                        child'[s].filename # NoFile, child'[t].filename = child'[s].filename
                 PROVE  s = t
      BY DEF OneWriter, HasFile
    <3>1. child'[s].filename = child[s].filename /\ child'[t].filename = child[t].filename
      BY <1>2, <1>5
    <3> QED
      BY <3>1 DEF FileInv, OneWriter, HasFile
  <2> QED
    BY <1>1, <2>1, <2>2, <2>3 DEF FileInv
<1>6. CASE TaskOpen(c) \/ TaskClose(c)
  <2>1. /\ UNCHANGED <<made, file>> /\ conn' = conn /\ wire'[c].n = 0 /\ child[c].pc = "wait"
        /\ child'[c].pc = "wait" /\ child'[c].cur = child[c].cur
        /\ child'[c].filename \in {child[c].filename, NoFile}
    BY <1>3, <1>6 DEF TaskOpen, TaskClose, TakeMessage, Received, NoMessage, Child
  <2>2. child'[c].filename = child[c].filename => Records(child[c].filename)' = Records(child[c].filename)
    BY <2>1 DEF Records
  <2>3. Writes(c)'
    BY <1>1, <1>2, <2>1, <2>2 DEF Writes, HasFile, Busy
  <2> QED
    BY <1>5, <2>1, <2>3
<1>7. ASSUME NEW r \in 0 .. rec, child[c].pc = "wait", child'[c] = Process(child[c], r), wire'[c].n = 0,
             r = 0 => conn[c] = "shut",
             HasFile(c) /\ 0 \in Records(child[c].filename) => FALSE,
             UNCHANGED <<conn, made, file>>
      PROVE  FileInv'
  <2>1. /\ child'[c].filename = child[c].filename /\ child'[c].pc \in {"wait", "make", "append"}
        /\ child'[c].pc = "append" => HasFile(c)
        /\ child'[c].pc = "make" => ~HasFile(c)
        /\ child'[c].cur = IF child'[c].pc = "wait" THEN 0 ELSE r
    <3>1. r \in 0 .. MaxRec
      BY <1>1, <1>7, TaskWriterAssumption DEF TypeInv, TypeOK, TaskWriterAssumption
    <3> QED
      BY <1>3, <1>7, <3>1, ProcessType DEF HasFile
  <2>2. Records(child[c].filename)' = Records(child[c].filename)
    BY <1>7, <2>1 DEF Records
  <2>3. Writes(c)'
    BY <1>1, <1>2, <1>7, <2>1, <2>2 DEF Writes, HasFile, Busy
  <2> QED
    BY <1>5, <1>7, <2>1, <2>3
<1>8. CASE TaskData(c)
  <2>1. /\ child[c].pc = "wait" /\ wire[c].call = "data" /\ wire[c].n = 5
        /\ child'[c] = Process(child[c], wire[c].rec)
        /\ wire'[c].n = 0 /\ UNCHANGED <<conn, made, file>>
    BY <1>3, <1>8, CallTypes DEF TaskData, TakeMessage, Received, NoMessage
  <2>2. wire[c].rec \in 1 .. rec
    BY <1>1, <2>1 DEF Writes
  <2>3. HasFile(c) /\ 0 \in Records(child[c].filename) => FALSE
    BY <1>1, <2>1 DEF Writes
  <2> QED
    BY <1>2, <1>7, <2>1, <2>2, <2>3
<1>9. CASE Cut(c)
  <2>1. /\ child[c].pc = "wait" /\ conn[c] = "shut" /\ wire[c].n > 0 /\ wire'[c].n = 0
        /\ UNCHANGED <<conn, made, file>>
    BY <1>3, <1>9, CallTypes DEF Cut, NoMessage, diskVars, Message
  <2>2. \/ child' = child
        \/ child'[c] = [child[c] EXCEPT !.pc = "gone"]
        \/ child'[c] = Process(child[c], 0)
    BY <1>3, <1>9 DEF Cut
  <2>3. HasFile(c) /\ 0 \in Records(child[c].filename) => FALSE
    BY <1>1, <2>1 DEF Writes
  <2>4. CASE child' = child \/ child'[c] = [child[c] EXCEPT !.pc = "gone"]
    <3>1. child'[c].filename = child[c].filename /\ child'[c].cur = child[c].cur
          /\ child'[c].pc \in {"wait", "gone"}
      BY <1>3, <2>1, <2>4 DEF Child
    <3>2. Records(child[c].filename)' = Records(child[c].filename)
      BY <2>1, <3>1 DEF Records
    <3>3. Writes(c)'
      BY <1>1, <1>2, <2>1, <3>1, <3>2 DEF Writes, HasFile, Busy
    <3> QED
      BY <1>5, <2>1, <3>1, <3>3
  <2>5. CASE child'[c] = Process(child[c], 0)
    BY <1>2, <1>7, <2>1, <2>3, <2>5
  <2> QED
    BY <2>2, <2>4, <2>5
<1>10. CASE EndOfFile(c) \/ MakeFails(c) \/ OpenFails(c)
  <2>1. /\ UNCHANGED <<wire, made, file>> /\ child'[c].filename = child[c].filename
        /\ child'[c].cur \in {0, child[c].cur}
        /\ child'[c].pc \in {"wait", "gone", "crashed"}
        /\ child'[c].pc \in {"wait", "gone"} => child'[c].cur = 0
        /\ conn[c] = "shut" => conn'[c] = "shut"
    <3>1. CASE EndOfFile(c)
      BY <1>1, <1>3, <3>1 DEF EndOfFile, Child, diskVars, Writes
    <3>2. CASE MakeFails(c)
      BY <1>3, <3>2 DEF MakeFails, Child, ChildFrame
    <3>3. CASE OpenFails(c)
      BY <1>3, <3>3 DEF OpenFails, Child, ChildFrame
    <3> QED
      BY <1>10, <3>1, <3>2, <3>3
  <2>2. Records(child[c].filename)' = Records(child[c].filename)
    BY <2>1 DEF Records
  <2>3. Writes(c)'
    BY <1>1, <1>2, <1>3, <2>1, <2>2 DEF Writes, HasFile, Busy
  <2> QED
    BY <1>5, <2>1, <2>3
<1>11. ASSUME NEW f \in File, MakeFile(c, f) PROVE FileInv'
  <2>1. /\ child[c].pc = "make" /\ f \notin made /\ made' = made \cup {f}
        /\ UNCHANGED <<conn, wire, file>>
        /\ child'[c].pc = "append" /\ child'[c].filename = f /\ child'[c].cur = child[c].cur
    BY <1>3, <1>11 DEF MakeFile, ChildFrame, Child
  <2>2. file[f] = <<>>
    BY <2>1 DEF FileInv, Written
  <2>3. Records(child[c].filename)' = {}
    BY <2>1, <2>2 DEF Records
  <2>4. (HasFile(c))' /\ child[c].cur <= rec /\ Busy(c)
    BY <1>1, <2>1, TaskWriterAssumption DEF Writes, HasFile, Busy, TaskWriterAssumption
  <2>5. Writes(c)'
    BY <1>1, <1>2, <2>1, <2>3, <2>4 DEF Writes
  <2>6. \A s \in Session : Writes(s)'
    BY <1>4, <2>1, <2>5
  <2>7. \A g \in File : Written(g)'
    BY <1>2, <2>1, RecordsSame DEF FileInv, Written
  <2>8. OneWriter'
    <3> SUFFICES ASSUME NEW s \in Session, NEW t \in Session,
                        child'[s].filename # NoFile, child'[t].filename = child'[s].filename
                 PROVE  s = t
      BY DEF OneWriter, HasFile
    <3>1. \A u \in Session \ {c} : child'[u] = child[u] /\ (HasFile(u) => child[u].filename \in made)
      BY <1>2 DEF FileInv, Writes
    <3> QED
      BY <2>1, <3>1 DEF FileInv, OneWriter, HasFile
  <2> QED
    BY <1>1, <2>6, <2>7, <2>8 DEF FileInv
<1>12. ASSUME child[c].pc = "append", child'[c].pc = "wait", child'[c].cur = 0,
              child'[c].filename = child[c].filename, UNCHANGED <<conn, wire, made>>,
              UNCHANGED file \/ \E w \in BOOLEAN : Put(c, w)
       PROVE  FileInv'
  <2> DEFINE f == child[c].filename
  <2>0. f \in File /\ f \in made /\ child[c].cur \in 0 .. rec /\ 0 \notin Records(f) /\ Busy(c) /\ HasFile(c)
    BY <1>1, <1>3, <1>12 DEF Writes, HasFile, Busy, Child
  <2>1. CASE UNCHANGED file
    <3>1. Records(child[c].filename)' = Records(child[c].filename)
      BY <1>12, <2>1 DEF Records
    <3>2. Writes(c)'
      BY <1>1, <1>2, <1>12, <3>1 DEF Writes, HasFile, Busy
    <3> QED
      BY <1>5, <1>12, <2>1, <3>2
  <2>2. ASSUME NEW w \in BOOLEAN, Put(c, w) PROVE FileInv'
    <3>a. PICK g \in File : g = f
      BY <2>0
    <3>0. TypeInv /\ c \in Session /\ child[c].filename = g /\ g = f
      BY <1>1, <3>a
    <3>1. /\ Records(g)' = Records(g) \cup {child[c].cur}
          /\ \A h \in File \ {g} : file'[h] = file[h]
          /\ Len(file'[g]) = Len(file[g]) + 1 /\ Len(file[g]) \in Nat
          /\ \A i \in 1 .. Len(file[g]) : file'[g][i] = file[g][i]
      <4>1. Appended(g, c, w)
        BY <3>0, <2>2, PutRecords
      <4> QED
        BY <4>1 DEF Appended
    <3>2. Written(g)'
      <4>1. Records(g)' \subseteq 0 .. rec'
        BY <1>2, <2>0, <3>0, <3>1 DEF FileInv, Written
      <4>2. \A i \in 1 .. Len(file[g]) : file[g][i].rec # 0
        BY <2>0, <3>0 DEF Records
      <4> QED
        BY <1>12, <2>0, <3>0, <3>1, <4>1, <4>2 DEF Written
    <3>3. \A h \in File : Written(h)'
      BY <1>2, <1>12, <3>1, <3>2, RecordsSame DEF FileInv, Written
    <3>4. Records(child[c].filename)' = Records(g)'
      BY <1>12, <3>0 DEF Records
    <3>5. 0 \in Records(g)' => child[c].cur = 0
      BY <2>0, <3>0, <3>1
    <3>6. Writes(c)'
      BY <1>1, <1>2, <1>12, <2>0, <3>4, <3>5 DEF Writes, HasFile, Busy
    <3>7. \A s \in Session : Writes(s)'
      BY <1>4, <3>0, <3>1, <3>6
    <3>8. OneWriter'
      BY <1>2, <1>12 DEF FileInv, OneWriter, HasFile
    <3> QED
      BY <1>1, <3>3, <3>7, <3>8 DEF FileInv
  <2> QED
    BY <1>12, <2>1, <2>2
<1>13. CASE WriteRecord(c) \/ WriteFails(c)
  <2>1. /\ child[c].pc = "append" /\ child'[c].pc = "wait" /\ child'[c].cur = 0
        /\ child'[c].filename = child[c].filename /\ UNCHANGED <<conn, wire, made>>
    <3>1. CASE WriteRecord(c)
      BY <1>3, <3>1 DEF WriteRecord, Child, ChildFrame
    <3>2. CASE WriteFails(c)
      BY <1>3, <3>2 DEF WriteFails, Child, ChildFrame
    <3> QED
      BY <1>13, <3>1, <3>2
  <2>2. UNCHANGED file \/ \E w \in BOOLEAN : Put(c, w)
    BY <1>13 DEF WriteRecord, WriteFails
  <2> QED
    BY <1>12, <2>1, <2>2
<1> QED
  BY <1>6, <1>8, <1>9, <1>10, <1>11, <1>13 DEF Operate

\* A step that changes none of it keeps the invariant.
LEMMA FilesStutter ==
  ASSUME FileInv, UNCHANGED vars
  PROVE  FileInv'
<1>1. SessionInv'
  BY SessionStutters DEF FileInv
<1> QED
  BY <1>1 DEF FileInv, OneWriter, Writes, Written, HasFile, Busy, Records,
       vars, cpVars, runVars, diskVars

\* Each file has one writer and the records it was given, in every state.
LEMMA FilesCorrect == Spec => []FileInv
<1>1. FileInv /\ [Next]_vars => FileInv'
  <2> SUFFICES ASSUME FileInv, [Next]_vars PROVE FileInv'
    OBVIOUS
  <2>1. CASE UNCHANGED vars
    BY <2>1, FilesStutter
  <2>2. CASE AllDone
    BY <2>1, <2>2 DEF AllDone
  <2> QED
    BY <2>1, <2>2, ProgramKeepsFiles, ChildKeepsFiles DEF Next, ProgramStep
<1> QED
  BY <1>1, InitFiles, PTL DEF Spec

(***************************************************************************)
(* A record that was never sent is the last thing in its file: the child   *)
(* that made it out of freed memory finds its connection closed next       *)
(* (rmsgrcv.c:56-76, rawacfwrite.c:131-152).                               *)
(***************************************************************************)
THEOREM UnsentIsLastHolds == Spec => []UnsentIsLast
<1>1. FileInv => UnsentIsLast
  BY DEF FileInv, Written, UnsentIsLast
<1> QED
  BY <1>1, FilesCorrect, PTL
=============================================================================
