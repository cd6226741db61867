----------------------------- MODULE ShellServer -----------------------------
(***************************************************************************)
(* The shell server (src.bin/os/shellserver.1.3/shellserver.c), through    *)
(* which a radar shell edits the variables of the running control program. *)
(* One child serves the control program (operateCP), one child each radar  *)
(* shell (operateRS); all they have in common is the struct membuf in      *)
(* shared memory - cpstate, rsstate and one table of variables - which is  *)
(* read and written with no lock.  The other ends are RadarShell()         *)
(* (rshell.1.1), which a control program calls once a beam, and the        *)
(* program radarshell.1.1.                                                 *)
(*                                                                         *)
(* A table is its layout (num, size and offset[], the same for all tables  *)
(* of one control program) and two variables in buffer[]; it crosses a     *)
(* socket or the shared memory in two parts, the layout with the variable  *)
(* lo and then the variable hi.  What follows the second part at once, and *)
(* a message and its answer, are one step where no other process can tell. *)
(* As in the -O3 build of the makefiles rsstate is loaded once for a       *)
(* message of the control program, and cpstate once for a look of the      *)
(* loops of operateRS().  One user runs one radar shell at a time, but     *)
(* does not wait for its child.                                            *)
(***************************************************************************)
EXTENDS Integers, FiniteSets

CONSTANTS
  Progs,   \* bound: how many control programs the scheduler runs, one by one
  Shells,  \* bound: how many radar shells the user runs, one by one
  MaxConn, \* bound: how many connections they make between them
  Layout,  \* Layout[p]: the variables program p has registered
  MaxVer   \* bound: how often a variable is changed in a behaviour

ASSUME ShellServerAssumption ==
  /\ Progs \in Nat \ {0} /\ Shells \in Nat /\ MaxConn \in Nat /\ MaxVer \in Nat

Prog == 1 .. Progs
Shell == 1 .. Shells

VARIABLES
  cpstate,  \* 0: no control program, 1: one attached, 2: it has sent its table
  rsstate,  \* 0: nothing asked, 1: a shell wants the table, 2: one was uploaded
  table,    \* num, size, offset and buffer of struct membuf
  prog,     \* where a control program is in RadarShell()
  val,      \* its variables
  snap,     \* the table it has written to its socket
  cp,       \* where its child is in operateCP()
  sh,       \* where a radar shell is in main(); "taken" is history: a control
            \* program has taken its upload over
  copy,     \* the table a radar shell downloads, and then uploads
  rs,       \* where its child is in operateRS()
  ver,      \* the newest value of a variable
  held,     \* history: the tables programs have had since a shell asked
  odd       \* history: what has come in the way of a simple exchange

memVars == <<cpstate, rsstate, table>>
progVars == <<prog, val, snap, cp>>
shellVars == <<sh, copy, rs>>
histVars == <<ver, held, odd>>
vars == <<memVars, progVars, shellVars, histVars>>

Var == 0 .. MaxVer
Lay == {Layout[p] : p \in Prog}
Table == [lay : Lay, lo : Var, hi : Var]

AnyTable == CHOOSE t \in Table : TRUE

TableOf(p) == [lay |-> Layout[p], lo |-> val[p].lo, hi |-> val[p].hi]

\* In RadarShell() or elsewhere in its loop, and in step with its child.
Runs(p) == prog[p] \in {"work", "take"}
Alive(p) == Runs(p) \/ prog[p] = "lost"

CPBusy(p) == cp[p] \notin {"none", "gone"}
RSBusy(s) == rs[s] \notin {"none", "gone"}

\* A table comes to be in a program: shells that wait may be given it.
Hold(t) == held' = [s \in Shell |-> IF sh[s] = "asked" THEN held[s] \cup {t} ELSE held[s]]

MayConnect ==
  Cardinality({p \in Prog : prog[p] # "idle"}) + Cardinality({s \in Shell : sh[s] # "idle"})
    < MaxConn

Oddity(name, when) == odd' = IF when THEN odd \cup {name} ELSE odd
-----------------------------------------------------------------------------
\* main(): cpstate and rsstate are 0.
Init ==
  /\ cpstate = 0 /\ rsstate = 0 /\ table = AnyTable
  /\ prog = [p \in Prog |-> "idle"] /\ cp = [p \in Prog |-> "none"]
  /\ val = [p \in Prog |-> [lo |-> 0, hi |-> 0]]
  /\ snap = [p \in Prog |-> AnyTable]
  /\ sh = [s \in Shell |-> "idle"] /\ rs = [s \in Shell |-> "none"]
  /\ copy = [s \in Shell |-> AnyTable]
  /\ ver = 0 /\ held = [s \in Shell |-> {}]
  /\ odd = {}
-----------------------------------------------------------------------------
(* The control program.                                                    *)

\* It connects, and main() of the server forks a child for it.
ProgStart(p) ==
  /\ MayConnect /\ prog[p] = "idle"
  /\ \A q \in Prog : q < p => prog[q] = "dead"
  /\ prog' = [prog EXCEPT ![p] = "work"]
  /\ cp' = [cp EXCEPT ![p] = "start"]
  /\ Hold(TableOf(p))
  /\ UNCHANGED <<memVars, val, snap, shellVars, ver, odd>>

\* The variables change between two calls of RadarShell().
Change(p) ==
  /\ prog[p] = "work" /\ ver < MaxVer
  /\ ver' = ver + 1
  /\ val' = [val EXCEPT ![p] = [lo |-> ver', hi |-> ver']]
  /\ Hold([lay |-> Layout[p], lo |-> ver', hi |-> ver'])
  /\ UNCHANGED <<memVars, prog, snap, cp, shellVars, odd>>

ProgEnd(p) ==
  /\ Alive(p)
  /\ prog' = [prog EXCEPT ![p] = "dead"]
  /\ Oddity("change", \E s \in Shell : RSBusy(s))
  /\ UNCHANGED <<memVars, val, snap, cp, shellVars, ver, held>>
-----------------------------------------------------------------------------
(* operateCP(), the child that serves the control program.                 *)

CPStart(p) ==
  /\ cp[p] = "start"
  /\ cpstate' = 1
  /\ cp' = [cp EXCEPT ![p] = "poll"]
  /\ odd' = odd \cup {o \in {"change"} : \E s \in Shell : RSBusy(s)}
                \cup {o \in {"late"} : \E q \in Prog \ {p} : CPBusy(q)}
  /\ UNCHANGED <<rsstate, table, prog, val, snap, shellVars, ver, held>>

\* The answer to SHELL_POLL, sent by RadarShell() which waits for it.
Answer(p, child, program) ==
  /\ cp[p] = "poll" /\ prog[p] = "work"
  /\ cp' = [cp EXCEPT ![p] = child]
  /\ prog' = [prog EXCEPT ![p] = program]
  /\ UNCHANGED <<memVars, val, shellVars, ver, held>>

Ignore(p) == rsstate = 0 /\ Answer(p, "poll", "work") /\ UNCHANGED <<snap, odd>>

\* The program writes its table to the socket and goes on; nothing changes
\* its variables before it has done so.
Send(p) ==
  /\ rsstate = 1 /\ Answer(p, "head", "work")
  /\ snap' = [snap EXCEPT ![p] = TableOf(p)]
  /\ Oddity("resend", cpstate = 2)

Reply(p) == rsstate = 2 /\ Answer(p, "outhead", "take") /\ UNCHANGED <<snap, odd>>

CPAt(p, from, to) ==
  /\ cp[p] = from
  /\ cp' = [cp EXCEPT ![p] = to]

\* The table is received into the shared memory.
CPStoreHead(p) ==
  /\ CPAt(p, "head", "tail")
  /\ table' = [table EXCEPT !.lay = snap[p].lay, !.lo = snap[p].lo]
  /\ UNCHANGED <<cpstate, rsstate, prog, val, snap, shellVars, histVars>>

\* Mutant: cpstate counts the tables received.
CPStoreTailCounts(p) ==
  /\ CPAt(p, "tail", "poll")
  /\ table' = [table EXCEPT !.hi = snap[p].hi]
  /\ cpstate' = cpstate + 1
  /\ snap' = [snap EXCEPT ![p] = AnyTable]
  /\ UNCHANGED <<rsstate, prog, val, shellVars, histVars>>

CPStoreTail(p) ==
  /\ CPAt(p, "tail", "poll")
  /\ table' = [table EXCEPT !.hi = snap[p].hi]
  /\ cpstate' = 2
  /\ snap' = [snap EXCEPT ![p] = AnyTable]
  /\ UNCHANGED <<rsstate, prog, val, shellVars, histVars>>

\* RadarShell() compares the layout with that of its own table, and returns
\* -1 with the rest of the message unread: from then on it takes data for
\* answers, and the model follows that program no further.  What a program
\* has received is kept in snap until the whole table is there.
CPOutHead(p) ==
  /\ CPAt(p, "outhead", "outtail")
  /\ prog' = IF prog[p] = "take" /\ table.lay # Layout[p]
             THEN [prog EXCEPT ![p] = "lost"] ELSE prog
  /\ snap' = [snap EXCEPT ![p].lo = table.lo]
  /\ UNCHANGED <<memVars, val, shellVars, histVars>>

\* The program unpacks the table into its variables.
CPOutTail(p) ==
  /\ CPAt(p, "outtail", "poll")
  /\ cpstate' = 1
  /\ snap' = [snap EXCEPT ![p] = AnyTable]
  /\ IF prog[p] = "take"
     THEN LET new == [lay |-> Layout[p], lo |-> snap[p].lo, hi |-> table.hi] IN
          /\ prog' = [prog EXCEPT ![p] = "work"]
          /\ val' = [val EXCEPT ![p] = [lo |-> new.lo, hi |-> new.hi]]
          /\ sh' = [s \in Shell |-> IF rs[s] = "applying" /\ copy[s] = new THEN "taken" ELSE sh[s]]
          /\ Hold(new)
     ELSE UNCHANGED <<prog, val, sh, held>>
  /\ UNCHANGED <<rsstate, table, copy, rs, ver, odd>>

\* The program is gone: the recv() of the next message fails, and any
\* recv() or send() of a part of a table may.
CPBreak(p) ==
  /\ prog[p] = "dead" /\ cp[p] \in {"poll", "head", "tail", "outhead", "outtail"}
  /\ cp' = [cp EXCEPT ![p] = "end"]
  /\ snap' = [snap EXCEPT ![p] = AnyTable]
  /\ UNCHANGED <<memVars, prog, val, shellVars, histVars>>

CPEnd(p) ==
  /\ CPAt(p, "end", "gone")
  /\ cpstate' = 0
  /\ Oddity("change", \E s \in Shell : RSBusy(s))
  /\ UNCHANGED <<rsstate, table, prog, val, snap, shellVars, ver, held>>

OperateCP(p) ==
  \/ CPStart(p) \/ Ignore(p) \/ Send(p) \/ Reply(p)
  \/ CPStoreHead(p) \/ CPStoreTail(p) \/ CPOutHead(p) \/ CPOutTail(p)
  \/ CPBreak(p) \/ CPEnd(p)
-----------------------------------------------------------------------------
(* The radar shell.                                                        *)

\* It connects, main() forks a child for it, and it sends SHELL_SEND.  The
\* user has ended the shell before, whose child may still be there.
ShellStart(s) ==
  /\ MayConnect /\ sh[s] = "idle"
  /\ \A t \in Shell : (t < s => sh[t] \in {"sent", "taken", "over"})
  /\ sh' = [sh EXCEPT ![s] = "asked"]
  /\ rs' = [rs EXCEPT ![s] = "start"]
  /\ held' = [held EXCEPT ![s] = {TableOf(p) : p \in {q \in Prog : Alive(q)}}]
  /\ Oddity("two", \E t \in Shell : RSBusy(t))
  /\ UNCHANGED <<memVars, progVars, copy, ver>>

\* The user has changed both variables, or none; SHELL_REPLY is sent.
ShellReply(s) ==
  /\ sh[s] = "edit"
  /\ sh' = [sh EXCEPT ![s] = "reply"]
  /\ held' = [held EXCEPT ![s] = {}]
  /\ \/ UNCHANGED <<copy, ver>>
     \/ /\ ver < MaxVer
        /\ ver' = ver + 1
        /\ copy' = [copy EXCEPT ![s].lo = ver', ![s].hi = ver']
  /\ UNCHANGED <<memVars, progVars, rs, odd>>

\* The shell has ended: nothing more is of interest about it.
Over(s) ==
  /\ sh' = [sh EXCEPT ![s] = "over"]
  /\ copy' = [copy EXCEPT ![s] = AnyTable]
  /\ held' = [held EXCEPT ![s] = {}]

\* One killed after SHELL_REPLY is to its child as in RSReplyNoProgram.  One
\* killed while it sends its table leaves half of it in the shared memory, and
\* cpstate as it was.
ShellKilled(s) ==
  /\ sh[s] \in {"asked", "edit"} \/ (sh[s] = "sent" /\ rs[s] \in {"inhead", "intail"})
  /\ Over(s)
  /\ UNCHANGED <<memVars, progVars, rs, ver, odd>>
-----------------------------------------------------------------------------
(* operateRS(), the child that serves a radar shell.                       *)

RSAt(s, from, to) ==
  /\ rs[s] = from
  /\ rs' = [rs EXCEPT ![s] = to]

RSStart(s) ==
  /\ RSAt(s, "start", "loop")
  /\ rsstate' = 0
  /\ UNCHANGED <<cpstate, table, progVars, sh, copy, histVars>>

\* SHELL_SEND has come.
RSAsk(s) ==
  /\ sh[s] = "asked" /\ RSAt(s, "loop", "wait")
  /\ rsstate' = 1
  /\ Oddity("left", cpstate = 2)
  /\ UNCHANGED <<cpstate, table, progVars, sh, copy, ver, held>>

\* Mutant: the loop does not wait for cpstate 2.
RSLookWithoutWaiting(s) ==
  /\ cpstate # 0 /\ RSAt(s, "wait", "head")
  /\ UNCHANGED <<memVars, progVars, sh, copy, histVars>>

\* One look of the loop that waits for the table of the control program.
RSLookHasTable(s) ==
  /\ cpstate = 2 /\ RSAt(s, "wait", "head")
  /\ UNCHANGED <<memVars, progVars, sh, copy, histVars>>

\* Mutant: the loop goes on waiting when there is no control program.
RSLookWaitsForEver(s) == FALSE /\ rs[s] = "wait" /\ UNCHANGED vars

\* cpstate is 0: the shell is sent SHELL_ERROR and ends.
RSLookNoProgram(s) ==
  /\ cpstate = 0 /\ RSAt(s, "wait", "end")
  /\ Over(s)
  /\ UNCHANGED <<memVars, progVars, ver, odd>>

\* The table is sent to the shell from the shared memory.
RSLoadHead(s) ==
  /\ RSAt(s, "head", "tail")
  /\ copy' = IF sh[s] = "asked" THEN [copy EXCEPT ![s].lay = table.lay, ![s].lo = table.lo]
                                ELSE copy
  /\ UNCHANGED <<memVars, progVars, sh, histVars>>

\* With the last part the shell has the table, and the user can edit it.
RSLoadTail(s) ==
  /\ RSAt(s, "tail", "loop")
  /\ rsstate' = 0
  /\ IF sh[s] = "asked"
     THEN /\ copy' = [copy EXCEPT ![s].hi = table.hi]
          /\ sh' = [sh EXCEPT ![s] = "edit"]
     ELSE UNCHANGED <<copy, sh>>
  /\ UNCHANGED <<cpstate, table, progVars, histVars>>

\* SHELL_REPLY has come: the shell sends its table on SHELL_OK and ends.
RSReply(s) ==
  /\ cpstate # 0 /\ sh[s] = "reply" /\ RSAt(s, "loop", "inhead")
  /\ sh' = [sh EXCEPT ![s] = "sent"]
  /\ UNCHANGED <<memVars, progVars, copy, histVars>>

\* SHELL_ERROR is sent, and SHELL_OK after it: the shell ends at the first,
\* and the child goes on to receive a table that never comes.
RSReplyNoProgram(s) ==
  /\ cpstate = 0 /\ sh[s] = "reply" /\ RSAt(s, "loop", "inhead")
  /\ Over(s)
  /\ UNCHANGED <<memVars, progVars, ver, odd>>

\* Mutant: the upload is announced before all of it has been received.
RSStoreHeadTooEarly(s) ==
  /\ sh[s] = "sent" /\ RSAt(s, "inhead", "intail")
  /\ table' = [table EXCEPT !.lay = copy[s].lay, !.lo = copy[s].lo]
  /\ rsstate' = 2
  /\ UNCHANGED <<cpstate, progVars, sh, copy, histVars>>

RSStoreHead(s) ==
  /\ sh[s] = "sent" /\ RSAt(s, "inhead", "intail")
  /\ table' = [table EXCEPT !.lay = copy[s].lay, !.lo = copy[s].lo]
  /\ UNCHANGED <<cpstate, rsstate, progVars, sh, copy, histVars>>

\* Mutant: the child does not wait until the upload has been taken.
RSStoreTailAndOut(s) ==
  /\ sh[s] = "sent" /\ RSAt(s, "intail", "end")
  /\ table' = [table EXCEPT !.hi = copy[s].hi]
  /\ rsstate' = 2
  /\ UNCHANGED <<cpstate, progVars, sh, copy, histVars>>

RSStoreTail(s) ==
  /\ sh[s] = "sent" /\ RSAt(s, "intail", "applying")
  /\ table' = [table EXCEPT !.hi = copy[s].hi]
  /\ rsstate' = 2
  /\ UNCHANGED <<cpstate, progVars, sh, copy, histVars>>

\* One look of the loop that waits for the control program to take it.
RSApplied(s) ==
  /\ cpstate # 2 /\ RSAt(s, "applying", "end")
  /\ UNCHANGED <<memVars, progVars, sh, copy, histVars>>

\* The shell is gone: as for CPBreak.
RSBreak(s) ==
  /\ sh[s] = "over" /\ rs[s] \in {"loop", "head", "tail", "inhead", "intail"}
  /\ rs' = [rs EXCEPT ![s] = "end"]
  /\ UNCHANGED <<memVars, progVars, sh, copy, histVars>>

\* With this shell the last trace of an exchange goes: no table is on its
\* way, one control program at most is attached, and cpstate tells of it.
LastTrace(s) ==
  /\ \A t \in Shell \ {s} : ~RSBusy(t)
  /\ \A p \in Prog : cp[p] \in {"none", "start", "poll", "gone"}
  /\ \A p, q \in Prog : cp[p] = "poll" /\ cp[q] = "poll" => p = q
  /\ \A p \in Prog : cp[p] = "poll" => cpstate # 0

RSEnd(s) ==
  /\ RSAt(s, "end", "gone")
  /\ rsstate' = 0
  /\ odd' = IF LastTrace(s) THEN {} ELSE odd
  /\ UNCHANGED <<cpstate, table, progVars, sh, copy, ver, held>>

OperateRS(s) ==
  \/ RSStart(s) \/ RSAsk(s) \/ RSLookHasTable(s) \/ RSLookNoProgram(s)
  \/ RSLoadHead(s) \/ RSLoadTail(s)
  \/ RSReply(s) \/ RSReplyNoProgram(s)
  \/ RSStoreHead(s) \/ RSStoreTail(s)
  \/ RSApplied(s) \/ RSBreak(s) \/ RSEnd(s)
-----------------------------------------------------------------------------
ControlProgram(p) == ProgStart(p) \/ Change(p) \/ ProgEnd(p)
RadarShell(s) == ShellStart(s) \/ ShellReply(s) \/ ShellKilled(s)

\* All programs and shells have come and gone; main() waits for the next.
AllOver ==
  /\ ~MayConnect
  /\ \A p \in Prog : ~Alive(p) /\ ~CPBusy(p)
  /\ \A s \in Shell : ~RSBusy(s)
  /\ UNCHANGED vars

Next ==
  \/ \E p \in Prog : ControlProgram(p) \/ OperateCP(p)
  \/ \E s \in Shell : RadarShell(s) \/ OperateRS(s)
  \/ AllOver

Spec == Init /\ [][Next]_vars

\* The children are scheduled, and a control program calls RadarShell()
\* once a beam for as long as it runs.  Nothing is assumed of the users.
FairSpec ==
  /\ Spec
  /\ \A p \in Prog : WF_vars(OperateCP(p))
  /\ \A s \in Shell : WF_vars(OperateRS(s))
-----------------------------------------------------------------------------
TypeOK ==
  /\ cpstate \in 0 .. 2 /\ rsstate \in 0 .. 2 /\ table \in Table
  /\ prog \in [Prog -> {"idle", "work", "take", "lost", "dead"}]
  /\ val \in [Prog -> [lo : Var, hi : Var]]
  /\ snap \in [Prog -> Table]
  /\ cp \in [Prog -> {"none", "start", "poll", "head", "tail", "outhead",
                      "outtail", "end", "gone"}]
  /\ sh \in [Shell -> {"idle", "asked", "edit", "reply", "sent", "taken", "over"}]
  /\ copy \in [Shell -> Table]
  /\ rs \in [Shell -> {"none", "start", "loop", "wait", "head", "tail", "inhead",
                       "intail", "applying", "end", "gone"}]
  /\ ver \in Var /\ held \in [Shell -> SUBSET Table]
  /\ odd \subseteq {"resend", "left", "two", "change", "late"}

(***************************************************************************)
(* What a radar shell is given to edit is the set of values a control      *)
(* program had, all at one moment, since the shell asked: not parts of two *)
(* tables, nor an old one.  The exceptions: cpstate is still 2 from a      *)
(* session that ended with no upload; the program sends its table again    *)
(* before rsstate is cleared; the child of an earlier shell is still        *)
(* there; control programs change (shellserver.c:94-109, 153-176).         *)
(***************************************************************************)
DownloadFresh ==
  odd = {} =>
    \A s \in Shell : sh[s] = "edit" => copy[s] \in held[s]

Upload(s) == [lo |-> copy[s].lo, hi |-> copy[s].hi]

(***************************************************************************)
(* The values a control program takes over are all those one shell has     *)
(* uploaded, never a mixture and never a table still being received; the   *)
(* exceptions are a second table of the program that is still on its way   *)
(* into the shared memory, and as above an earlier shell and a change of   *)
(* programs (shellserver.c:110-123, 184-200).                              *)
(***************************************************************************)
UploadWhole ==
  [][odd \subseteq {"left"} =>
       \A p \in Prog : prog[p] = "take" /\ val'[p] # val[p] =>
         \E s \in Shell : sh[s] \in {"sent", "taken"} /\ val'[p] = Upload(s)]_vars

(***************************************************************************)
(* A shell that asks for the variables is told something in the end, be it *)
(* that there are none, unless the child of another shell has reset        *)
(* rsstate under it, or the control program is out of step                 *)
(* (shellserver.c:154-163).                                                *)
(***************************************************************************)
ShellAnswered ==
  \A s \in Shell :
    (sh[s] = "asked") ~>
      (sh[s] # "asked" \/ "two" \in odd \/ \E p \in Prog : prog[p] = "lost")

(***************************************************************************)
(* An upload the shell was told is accepted reaches the variables of the   *)
(* control program, when that program goes on, the shell is not killed     *)
(* before it has sent it all, and nothing odd has come in the way          *)
(* (shellserver.c:184-208, radarshell.c:141-187).                          *)
(***************************************************************************)
UploadReaches ==
  \A s \in Shell :
    (sh[s] = "sent" /\ RSBusy(s)) ~> (sh[s] \in {"taken", "over"} \/ odd # {})
=============================================================================
