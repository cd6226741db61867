----------------------------- MODULE RadarLink -----------------------------
(***************************************************************************)
(* The connection between a control program and the radar: the site        *)
(* library (site.tst.1.5) sends a message, its data if it has any, and     *)
(* waits for the answer; the server (radar.1.3), which has one child per   *)
(* connection, takes the same parts in the same order.  Neither looks at   *)
(* what recv() returns in the middle of an exchange.                       *)
(*                                                                         *)
(* The child may end at any moment, and signals reach the control program  *)
(* between any two system calls: SIGINT and SIGUSR1 make SiteTstExit()     *)
(* send QUIT there and then, SIGPIPE ends the program, so does SIGKILL.    *)
(*                                                                         *)
(* Data is counted in words of four bytes, and only the type of a message  *)
(* is kept of what it says.  All that is sent in answer to one message is  *)
(* one part.  ScanLoop has the calls the control program makes.            *)
(***************************************************************************)
EXTENDS Integers, Sequences

CONSTANT
  Big   \* the words of any structure longer than struct ROSMsg

Msg == 2   \* the words of struct ROSMsg: type and status

ASSUME RadarLinkAssumption == Big \in Nat /\ Big > Msg

VARIABLES
  prog,    \* the control program: "run", in SiteTstExit() "quit", or "again"
           \* when it was called within itself, "over"
  todo,    \* what is left of the calls it is in: see Step
  sock,    \* its side of the connection
  radar,   \* the child of the server
  job,     \* what the child still does for the message it has taken
  up,      \* the words on their way to the child
  down,    \* the number of words on their way back
  cut      \* history: a signal came within a message QUIT cannot complete

linkVars == <<prog, todo, sock, radar, job, up, down, cut>>

Type == {"SET_RADAR_CHAN", "GET_PARAMETERS", "SET_PARAMETERS", "REGISTER_SEQ",
         "REQUEST_CLEAR_FREQ_SEARCH", "REQUEST_ASSIGNED_FREQ", "PING",
         "SET_READY_FLAG", "GET_DATA", "QUIT"}

\* A word of a message that is not its type.
Other == "other"

\* send() of a message, send() of data, recv() of so many words.
Step == [op : {"msg"}, type : Type] \cup [op : {"data", "recv"}, n : Nat]

\* "fin": the child has ended; "err": it has with input unread, which the next
\* call is told; "reset": SIGPIPE comes with the next send().
SockState == {"up", "fin", "err", "reset", "closed"}
-----------------------------------------------------------------------------
(* What each side does for a message.                                      *)

\* The parts the control program sends after the message.
Sends(t) ==
  CASE t = "SET_RADAR_CHAN"            -> <<1, 1>>
    [] t = "SET_PARAMETERS"            -> <<Big>>
    [] t = "REQUEST_CLEAR_FREQ_SEARCH" -> <<Big>>
    [] t = "REGISTER_SEQ"              -> <<1, Big, Big, Big, Big>>
    [] OTHER                           -> <<>>

\* The parts the child takes.
Takes(t) ==
  CASE t = "SET_RADAR_CHAN"            -> <<1, 1>>
    [] t = "SET_PARAMETERS"            -> <<Big>>
    [] t = "REQUEST_CLEAR_FREQ_SEARCH" -> <<Big>>
    [] t = "REGISTER_SEQ"              -> <<1, Big, Big, Big, Big>>
    [] OTHER                           -> <<>>

\* The words the child gives before the message that ends its answer.
Gives(t) ==
  CASE t = "GET_PARAMETERS"        -> Big
    [] t = "REQUEST_ASSIGNED_FREQ" -> 2
    [] t = "GET_DATA"              -> 8 * Big + 1
    [] OTHER                       -> 0

\* Mutant: what REQUEST_ASSIGNED_FREQ says of the noise is not read.
ReceivesNoNoise(t) ==
  CASE t = "GET_PARAMETERS"        -> Big
    [] t = "REQUEST_ASSIGNED_FREQ" -> 1
    [] t = "GET_DATA"              -> 8 * Big + 1
    [] OTHER                       -> 0

\* The words the control program reads before that message.
Receives(t) ==
  CASE t = "GET_PARAMETERS"        -> Big
    [] t = "REQUEST_ASSIGNED_FREQ" -> 2
    [] t = "GET_DATA"              -> 8 * Big + 1
    [] OTHER                       -> 0

\* An exchange, as the site library writes it down each time.
Exchange(t) ==
  <<[op |-> "msg", type |-> t]>>
    \o [i \in DOMAIN Sends(t) |-> [op |-> "data", n |-> Sends(t)[i]]]
    \o <<[op |-> "recv", n |-> Receives(t) + Msg]>>

Connected == prog = "run" /\ todo = <<>>

\* The routine of the site library that makes these exchanges is called.
Begin(list) == Connected /\ todo' = list

LinkInit ==
  /\ prog = "run" /\ todo = <<>>
  /\ sock = "up" /\ radar = "serving" /\ job = <<>>
  /\ up = <<>> /\ down = 0
  /\ cut = FALSE
-----------------------------------------------------------------------------
(* The control program, within an exchange.                                *)

Inside == prog # "over" /\ todo # <<>>
IsSend(step) == step.op \in {"msg", "data"}

Words(step) ==
  IF step.op = "msg" THEN <<step.type, Other>> ELSE [i \in 1 .. step.n |-> Other]

Send ==
  /\ Inside /\ IsSend(Head(todo)) /\ sock = "up"
  /\ up' = up \o Words(Head(todo))
  /\ todo' = Tail(todo)
  /\ UNCHANGED <<prog, sock, radar, job, down, cut>>

\* The child is gone.  After "fin" what is sent is taken all the same, after
\* "err" -1 is returned; either way nobody looks and the next send() differs.
SendUnheard ==
  /\ Inside /\ IsSend(Head(todo)) /\ sock \in {"fin", "err"}
  /\ sock' = "reset"
  /\ todo' = Tail(todo)
  /\ UNCHANGED <<prog, radar, job, up, down, cut>>

\* The socket is closed, by close() or by the end of the program.
End ==
  /\ prog' = "over" /\ todo' = <<>>
  /\ sock' = "closed" /\ down' = 0
  /\ UNCHANGED <<radar, job, up, cut>>

\* Mutant: SIGPIPE is ignored, send() returns -1 and nobody looks.
SigPipeIgnored ==
  /\ Inside /\ IsSend(Head(todo)) /\ sock = "reset"
  /\ todo' = Tail(todo)
  /\ UNCHANGED <<prog, sock, radar, job, up, down, cut>>

\* SiteTstExit(SIGPIPE) sends nothing.
SigPipe == Inside /\ IsSend(Head(todo)) /\ sock = "reset" /\ End

Receive ==
  /\ Inside /\ ~IsSend(Head(todo)) /\ down >= Head(todo).n
  /\ down' = down - Head(todo).n
  /\ todo' = Tail(todo)
  /\ UNCHANGED <<prog, sock, radar, job, up, cut>>

\* recv() returns 0 or -1, after what there was.
ReceiveFails ==
  /\ Inside /\ ~IsSend(Head(todo)) /\ down < Head(todo).n
  /\ sock \in {"fin", "err", "reset"}
  /\ down' = 0
  /\ sock' = IF sock = "err" THEN "reset" ELSE sock
  /\ todo' = Tail(todo)
  /\ UNCHANGED <<prog, radar, job, up, cut>>

\* Data that is still to be sent, and too long for QUIT to pass for it.
Owing(list) ==
  \E i \in DOMAIN list :
    list[i].op = "data" /\ list[i].n > Msg /\ \A j \in 1 .. i : list[j].op = "data"

\* SIGINT or SIGUSR1: SiteTstExit(), whatever the program was doing, and within
\* SiteTstExit() once more for the other of the two.
Signal ==
  /\ prog \in {"run", "quit"}
  /\ prog' = IF prog = "run" THEN "quit" ELSE "again"
  /\ todo' = Exchange("QUIT")
  /\ cut' = (cut \/ Owing(todo))
  /\ UNCHANGED <<sock, radar, job, up, down>>

\* SiteTstExit() has had what it takes for the answer to QUIT.
Quitting == prog \in {"quit", "again"}
QuitDone == Quitting /\ todo = <<>> /\ End

\* SIGKILL, which the scheduler sends when ten seconds have passed.  A signal
\* that comes before SiteTstSetupRadar() has put the connection in sock ends the
\* program in the same way: QUIT is sent to a descriptor that is no socket.
Killed == prog # "over" /\ End
-----------------------------------------------------------------------------
(* The child: operate().                                                   *)

Closed == sock = "closed"

TakeStep(n) == [op |-> "take", n |-> n]
GiveStep(n) == [op |-> "give", n |-> n]

\* A case of the switch, and the message after it.
Job(t) ==
  [i \in DOMAIN Takes(t) |-> TakeStep(Takes(t)[i])] \o <<GiveStep(Gives(t) + Msg)>>

\* Mutant: QUIT gets no answer.
QuitUnanswered ==
  /\ radar = "serving" /\ job = <<>> /\ Len(up) >= Msg
  /\ up' = SubSeq(up, Msg + 1, Len(up))
  /\ job' = IF Head(up) = "QUIT" THEN <<>>
            ELSE IF Head(up) = Other THEN <<GiveStep(Msg)>> ELSE Job(Head(up))
  /\ UNCHANGED <<prog, todo, sock, radar, down, cut>>

\* What is no message of this list gets an answer all the same.
TakeMessage ==
  /\ radar = "serving" /\ job = <<>> /\ Len(up) >= Msg
  /\ up' = SubSeq(up, Msg + 1, Len(up))
  /\ job' = IF Head(up) = Other THEN <<GiveStep(Msg)>> ELSE Job(Head(up))
  /\ UNCHANGED <<prog, todo, sock, radar, down, cut>>

\* Inside a case of the switch no result of recv() is looked at.
TakeData ==
  /\ radar = "serving" /\ job # <<>> /\ Head(job).op = "take"
  /\ Len(up) >= Head(job).n \/ Closed
  /\ up' = SubSeq(up, Head(job).n + 1, Len(up))
  /\ job' = Tail(job)
  /\ UNCHANGED <<prog, todo, sock, radar, down, cut>>

\* To a control program that is gone send() succeeds or not: the next recv()
\* of a message does not.
Give ==
  /\ radar = "serving" /\ job # <<>> /\ Head(job).op = "give"
  /\ down' = IF Closed THEN 0 ELSE down + Head(job).n
  /\ job' = Tail(job)
  /\ UNCHANGED <<prog, todo, sock, radar, up, cut>>

\* Mutant: only -1 is taken for a failure of recv().
EndOfFileRetries ==
  /\ radar = "serving" /\ job = <<>> /\ Len(up) < Msg /\ Closed
  /\ UNCHANGED linkVars

\* recv() of a message fails: operate() returns and the child exits.
EndOfFile ==
  /\ radar = "serving" /\ job = <<>> /\ Len(up) < Msg /\ Closed
  /\ radar' = "gone" /\ up' = <<>>
  /\ UNCHANGED <<prog, todo, sock, job, down, cut>>

\* The child dies.  What it had not read decides what its peer is told.
RadarDies ==
  /\ radar = "serving"
  /\ radar' = "gone" /\ job' = <<>> /\ up' = <<>>
  /\ sock' = IF ~Closed THEN IF up = <<>> THEN "fin" ELSE "err" ELSE sock
  /\ UNCHANGED <<prog, todo, down, cut>>
-----------------------------------------------------------------------------
Communicate ==
  Send \/ SendUnheard \/ SigPipe \/ Receive \/ ReceiveFails \/ QuitDone
Operate == TakeMessage \/ TakeData \/ Give \/ EndOfFile
Faults == Signal \/ Killed \/ RadarDies

LinkStep == Communicate \/ Operate \/ Faults
-----------------------------------------------------------------------------
LinkTypeOK ==
  /\ prog \in {"run", "quit", "again", "over"} /\ todo \in Seq(Step)
  /\ sock \in SockState /\ radar \in {"serving", "gone"}
  /\ job \in Seq([op : {"take", "give"}, n : Nat]) /\ up \in Seq(Type \cup {Other}) /\ down \in Nat
  /\ cut \in BOOLEAN

\* The words the child needs for its next step.
Wanted == IF job = <<>> THEN Msg ELSE IF Head(job).op = "take" THEN Head(job).n ELSE 0

(***************************************************************************)
(* The two sides of an exchange stay in step, though neither checks what   *)
(* it receives and both write its parts down by hand.  Between two         *)
(* exchanges nothing is on its way and the child waits for a message;      *)
(* it never takes data for a message, nor answers before it has all the    *)
(* data; and a program that waits finds its answer and nothing else, or    *)
(* the child has the words it waits for (site.c:82-443, radar.c:71-177).   *)
(***************************************************************************)
InStep ==
  prog = "run" /\ sock = "up" =>
    /\ todo = <<>> \/ Head(todo).op = "msg" => job = <<>> /\ up = <<>> /\ down = 0
    /\ job = <<>> /\ up # <<>> => Head(up) # Other
    /\ todo # <<>> /\ Head(todo).op = "data" =>
         down = 0 /\ (job # <<>> => Head(job).op = "take")
    /\ todo # <<>> /\ Head(todo).op = "recv" =>
         \/ down = Head(todo).n /\ job = <<>> /\ up = <<>>
         \/ down = 0 /\ Len(up) >= Wanted

(***************************************************************************)
(* A control program that is told to end does, though QUIT is sent in the  *)
(* middle of an exchange and the first thing received is taken for its     *)
(* answer, and another signal may come in the middle of that.  It does not *)
(* when the signal comes between a message and data longer than QUIT:      *)
(* then the child takes QUIT for some of that data, and each waits for the *)
(* other (site.c:43-66).                                                   *)
(***************************************************************************)
QuitReturns == (Quitting /\ ~cut) ~> (prog = "over")

(***************************************************************************)
(* The child of a control program that is gone ends, in the middle of a    *)
(* message or not (radar.c:72-73,175-180).                                 *)
(***************************************************************************)
ChildEnds == (prog = "over") ~> (radar = "gone")
=============================================================================
