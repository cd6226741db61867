------------------------- MODULE ShellServer_proofs -------------------------
(***************************************************************************)
(* Proofs about ShellServer, for any number of control programs, of radar  *)
(* shells and of changes of a variable, and whatever a layout is.          *)
(*                                                                         *)
(* DownloadFresh and UploadWhole say of one table what two integers in     *)
(* shared memory are to ensure.  The invariant IInv tells what each value  *)
(* of them means as long as there is nothing in odd but "left": one child  *)
(* at most on either side (Alone); rsstate is 1 because a child still      *)
(* wants the table, 2 because one has put an upload there (StateInv);      *)
(* cpstate stays 2 from a shell's download to the end of its upload, so    *)
(* that nothing else writes the table (HasTable); and what is half in the  *)
(* table is half of just one table (DownInv, UpInv).  Fresh then carries   *)
(* the table of a program to the shell that has asked.                     *)
(***************************************************************************)
EXTENDS ShellServer, TLAPS

-----------------------------------------------------------------------------
(* The types.                                                              *)

\* The numbers among the constants, and the tables made of them.
LEMMA Constants ==
  /\ Progs \in Nat \ {0} /\ Shells \in Nat /\ MaxConn \in Nat /\ MaxVer \in Nat
  /\ 0 \in Var /\ AnyTable \in Table
  /\ \A p \in Prog, v, w \in Var : [lay |-> Layout[p], lo |-> v, hi |-> w] \in Table
<1>1. Progs \in Nat \ {0} /\ Shells \in Nat /\ MaxConn \in Nat /\ MaxVer \in Nat /\ 0 \in Var
  BY ShellServerAssumption DEF ShellServerAssumption, Var
<1>2. \A p \in Prog, v, w \in Var : [lay |-> Layout[p], lo |-> v, hi |-> w] \in Table
  BY DEF Table, Lay
<1>3. 1 \in Prog
  BY <1>1 DEF Prog
<1>4. AnyTable \in Table
  BY <1>1, <1>2, <1>3 DEF AnyTable
<1> QED
  BY <1>1, <1>2, <1>4

\* The states of the children, the programs and the shells.
CPPlace == {"none", "start", "poll", "head", "tail", "outhead", "outtail", "end", "gone"}
RSPlace == {"none", "start", "loop", "wait", "head", "tail", "inhead", "intail", "applying", "end", "gone"}
ProgPlace == {"idle", "work", "take", "lost", "dead"}
ShPlace == {"idle", "asked", "edit", "reply", "sent", "taken", "over"}
Odd == {"resend", "left", "two", "change", "late"}

\* The table of a program.
LEMMA TableOfType == ASSUME TypeOK, NEW p \in Prog PROVE TableOf(p) \in Table
<1>1. val[p].lo \in Var /\ val[p].hi \in Var
  BY DEF TypeOK
<1> QED
  BY <1>1, Constants DEF TableOf

\* A table is added to those a shell may be given.
LEMMA HoldType == ASSUME TypeOK, NEW t \in Table, Hold(t) PROVE held' \in [Shell -> SUBSET Table]
  BY DEF TypeOK, Hold

\* An exception is remembered.
LEMMA OddType == ASSUME TypeOK, NEW name \in Odd, NEW when, Oddity(name, when) PROVE odd' \subseteq Odd
  BY DEF TypeOK, Oddity, Odd

\* The types hold at first.
LEMMA InitType == ASSUME Init PROVE TypeOK
  BY Constants DEF Init, TypeOK

\* Every step of a control program keeps the types.
LEMMA ProgramType == ASSUME TypeOK, NEW p \in Prog, ControlProgram(p) PROVE TypeOK'
<1>1. CASE ProgStart(p)
  <2>1. held' \in [Shell -> SUBSET Table]
    BY <1>1, TableOfType, HoldType DEF ProgStart
  <2>2. prog' \in [Prog -> ProgPlace] /\ cp' \in [Prog -> CPPlace]
    BY <1>1 DEF ProgStart, TypeOK, ProgPlace, CPPlace
  <2> QED
    BY <1>1, <2>1, <2>2 DEF ProgStart, memVars, shellVars, TypeOK, ProgPlace, CPPlace
<1>2. CASE Change(p)
  <2>1. ver' \in Var
    BY <1>2, Constants DEF Change, TypeOK, Var
  <2>2. [lay |-> Layout[p], lo |-> ver', hi |-> ver'] \in Table
    BY <2>1, Constants
  <2>3. held' \in [Shell -> SUBSET Table]
    BY <1>2, <2>2, HoldType DEF Change
  <2>4. val' \in [Prog -> [lo : Var, hi : Var]]
    BY <1>2, <2>1 DEF Change, TypeOK
  <2> QED
    BY <1>2, <2>1, <2>3, <2>4 DEF Change, memVars, shellVars, TypeOK
<1>3. CASE ProgEnd(p)
  <2>1. prog' \in [Prog -> ProgPlace]
    BY <1>3 DEF ProgEnd, TypeOK, ProgPlace
  <2>2. odd' \subseteq Odd
    BY <1>3, OddType DEF ProgEnd, Odd
  <2> QED
    BY <1>3, <2>1, <2>2 DEF ProgEnd, memVars, shellVars, TypeOK, ProgPlace, Odd
<1> QED
  BY <1>1, <1>2, <1>3 DEF ControlProgram

\* Every step of its child does.
LEMMA OperateCPType == ASSUME TypeOK, NEW p \in Prog, OperateCP(p) PROVE TypeOK'
<1> USE DEF memVars, shellVars, histVars
<1>0. /\ AnyTable \in Table /\ TableOf(p) \in Table
      /\ table \in Table /\ snap[p] \in Table /\ snap \in [Prog -> Table]
      /\ cp \in [Prog -> CPPlace] /\ prog \in [Prog -> ProgPlace]
  BY TableOfType, Constants DEF TypeOK, CPPlace, ProgPlace
<1>00. \A t \in Table : t = [lay |-> t.lay, lo |-> t.lo, hi |-> t.hi] /\ t.lay \in Lay /\ t.lo \in Var /\ t.hi \in Var
  BY DEF Table
<1>1. CASE CPStart(p)
  <2>1. cp' \in [Prog -> CPPlace] /\ odd' \subseteq Odd
    BY <1>0, <1>1 DEF CPStart, CPPlace, TypeOK, Odd
  <2> QED
    BY <1>1, <2>1 DEF CPStart, TypeOK, CPPlace, Odd
<1>2. ASSUME NEW child \in CPPlace, NEW program \in ProgPlace, Answer(p, child, program),
             snap' \in [Prog -> Table], odd' \subseteq Odd
      PROVE  TypeOK'
  <2>1. cp' \in [Prog -> CPPlace] /\ prog' \in [Prog -> ProgPlace]
    BY <1>0, <1>2 DEF Answer
  <2> QED
    BY <1>2, <2>1 DEF Answer, TypeOK, CPPlace, ProgPlace, Odd
<1>3. CASE Ignore(p)
  BY <1>2, <1>3 DEF Ignore, TypeOK, CPPlace, ProgPlace, Odd
<1>4. CASE Send(p)
  <2>1. snap' \in [Prog -> Table]
    BY <1>0, <1>4 DEF Send
  <2>2. odd' \subseteq Odd
    BY <1>4, OddType DEF Send, Odd
  <2> QED
    BY <1>2, <1>4, <2>1, <2>2 DEF Send, CPPlace, ProgPlace
<1>5. CASE Reply(p)
  BY <1>2, <1>5 DEF Reply, TypeOK, CPPlace, ProgPlace, Odd
<1>6. CASE CPStoreHead(p)
  <2>1. cp' \in [Prog -> CPPlace] /\ table' \in Table
    BY <1>0, <1>00, <1>6 DEF CPStoreHead, CPAt, CPPlace, Table
  <2> QED
    BY <1>6, <2>1 DEF CPStoreHead, TypeOK, CPPlace
<1>7. CASE CPStoreTail(p)
  <2>1. cp' \in [Prog -> CPPlace] /\ table' \in Table /\ snap' \in [Prog -> Table]
    BY <1>0, <1>00, <1>7 DEF CPStoreTail, CPAt, CPPlace, Table
  <2> QED
    BY <1>7, <2>1 DEF CPStoreTail, TypeOK, CPPlace
<1>8. CASE CPOutHead(p)
  <2>1. cp' \in [Prog -> CPPlace] /\ prog' \in [Prog -> ProgPlace]
    BY <1>0, <1>8 DEF CPOutHead, CPAt, CPPlace, ProgPlace
  <2>2. snap' \in [Prog -> Table]
    BY <1>0, <1>00, <1>8 DEF CPOutHead, Table
  <2> QED
    BY <1>8, <2>1, <2>2 DEF CPOutHead, TypeOK, CPPlace, ProgPlace
<1>9. CASE CPOutTail(p)
  <2>1. cp' \in [Prog -> CPPlace] /\ snap' \in [Prog -> Table]
    BY <1>0, <1>9 DEF CPOutTail, CPAt, CPPlace
  <2> DEFINE new == [lay |-> Layout[p], lo |-> snap[p].lo, hi |-> table.hi]
  <2>2. new \in Table /\ snap[p].lo \in Var /\ table.hi \in Var
    BY <1>0, <1>00, Constants
  <2>3. CASE prog[p] = "take"
    <3>1. held' \in [Shell -> SUBSET Table]
      BY <1>9, <2>2, <2>3, HoldType DEF CPOutTail
    <3>2. val' \in [Prog -> [lo : Var, hi : Var]]
      <4>1. val' = [val EXCEPT ![p] = [lo |-> snap[p].lo, hi |-> table.hi]]
        BY <1>9, <2>3 DEF CPOutTail
      <4>2. val \in [Prog -> [lo : Var, hi : Var]]
        BY DEF TypeOK
      <4> QED
        BY <2>2, <4>1, <4>2
    <3>4. prog' \in [Prog -> ProgPlace]
      BY <1>0, <1>9, <2>3 DEF CPOutTail, ProgPlace
    <3>3. sh' \in [Shell -> ShPlace]
      BY <1>9, <2>3 DEF CPOutTail, TypeOK, ShPlace
    <3> QED
      BY <1>9, <2>1, <3>1, <3>2, <3>3, <3>4 DEF CPOutTail, TypeOK, CPPlace, ProgPlace, ShPlace
  <2>4. CASE prog[p] # "take"
    BY <1>9, <2>1, <2>4 DEF CPOutTail, TypeOK, CPPlace
  <2> QED
    BY <2>3, <2>4
<1>10. CASE CPBreak(p)
  <2>1. cp' \in [Prog -> CPPlace] /\ snap' \in [Prog -> Table]
    BY <1>0, <1>10 DEF CPBreak, CPPlace
  <2> QED
    BY <1>10, <2>1 DEF CPBreak, TypeOK, CPPlace
<1>11. CASE CPEnd(p)
  <2>1. cp' \in [Prog -> CPPlace]
    BY <1>0, <1>11 DEF CPEnd, CPAt, CPPlace
  <2>2. odd' \subseteq Odd
    BY <1>11, OddType DEF CPEnd, Odd
  <2> QED
    BY <1>11, <2>1, <2>2 DEF CPEnd, TypeOK, CPPlace, Odd
<1> QED
  BY <1>1, <1>3, <1>4, <1>5, <1>6, <1>7, <1>8, <1>9, <1>10, <1>11 DEF OperateCP

\* A shell ends.
LEMMA OverType == ASSUME TypeOK, NEW s \in Shell, Over(s)
                  PROVE  sh' \in [Shell -> ShPlace] /\ copy' \in [Shell -> Table] /\ held' \in [Shell -> SUBSET Table]
  BY Constants DEF TypeOK, Over, ShPlace

\* Every step of a radar shell does.
LEMMA ShellType == ASSUME TypeOK, NEW s \in Shell, RadarShell(s) PROVE TypeOK'
<1> USE DEF memVars, progVars
<1>1. CASE ShellStart(s)
  <2>1. sh' \in [Shell -> ShPlace] /\ rs' \in [Shell -> RSPlace]
    BY <1>1 DEF ShellStart, TypeOK, ShPlace, RSPlace
  <2>2. {TableOf(p) : p \in {q \in Prog : Alive(q)}} \subseteq Table
    BY TableOfType
  <2>3. held' \in [Shell -> SUBSET Table]
    BY <1>1, <2>2 DEF ShellStart, TypeOK
  <2>4. odd' \subseteq Odd
    BY <1>1, OddType DEF ShellStart, Odd
  <2> QED
    BY <1>1, <2>1, <2>3, <2>4 DEF ShellStart, TypeOK, ShPlace, RSPlace, Odd
<1>2. CASE ShellReply(s)
  <2>1. sh' \in [Shell -> ShPlace] /\ held' \in [Shell -> SUBSET Table]
    BY <1>2 DEF ShellReply, TypeOK, ShPlace
  <2>2. ver' \in Var
    BY <1>2, Constants DEF ShellReply, TypeOK, Var
  <2>3. copy' \in [Shell -> Table]
    <3>1. copy \in [Shell -> Table]
      BY DEF TypeOK
    <3>2. CASE copy' = copy
      BY <3>1, <3>2
    <3>3. CASE copy' = [copy EXCEPT ![s].lo = ver', ![s].hi = ver']
      BY <2>2, <3>1, <3>3 DEF Table
    <3> QED
      BY <1>2, <3>2, <3>3 DEF ShellReply
  <2> QED
    BY <1>2, <2>1, <2>2, <2>3 DEF ShellReply, TypeOK, ShPlace
<1>3. CASE ShellKilled(s)
  BY <1>3, OverType DEF ShellKilled, TypeOK, ShPlace
<1> QED
  BY <1>1, <1>2, <1>3 DEF RadarShell

\* Every step of its child does.
LEMMA OperateRSType == ASSUME TypeOK, NEW s \in Shell, OperateRS(s) PROVE TypeOK'
<1> USE DEF memVars, progVars, histVars
<1>0. rs \in [Shell -> RSPlace] /\ sh \in [Shell -> ShPlace] /\ copy \in [Shell -> Table] /\ table \in Table
  BY DEF TypeOK, RSPlace, ShPlace
<1>1. ASSUME NEW from, NEW to \in RSPlace, RSAt(s, from, to) PROVE rs' \in [Shell -> RSPlace]
  BY <1>0, <1>1 DEF RSAt
<1>2. CASE RSStart(s)
  <2>1. rs' \in [Shell -> RSPlace]
    BY <1>1, <1>2 DEF RSStart, RSPlace
  <2> QED
    BY <1>2, <2>1 DEF RSStart, TypeOK, RSPlace
<1>3. CASE RSAsk(s)
  <2>1. rs' \in [Shell -> RSPlace]
    BY <1>1, <1>3 DEF RSAsk, RSPlace
  <2>2. odd' \subseteq Odd
    BY <1>3, OddType DEF RSAsk, Odd
  <2> QED
    BY <1>3, <2>1, <2>2 DEF RSAsk, TypeOK, RSPlace, Odd
<1>4. CASE RSLookHasTable(s)
  <2>1. rs' \in [Shell -> RSPlace]
    BY <1>1, <1>4 DEF RSLookHasTable, RSPlace
  <2> QED
    BY <1>4, <2>1 DEF RSLookHasTable, TypeOK, RSPlace
<1>5. CASE RSLookNoProgram(s)
  <2>1. rs' \in [Shell -> RSPlace]
    BY <1>1, <1>5 DEF RSLookNoProgram, RSPlace
  <2> QED
    BY <1>5, <2>1, OverType DEF RSLookNoProgram, TypeOK, RSPlace, ShPlace
<1>6. CASE RSLoadHead(s)
  <2>1. rs' \in [Shell -> RSPlace]
    BY <1>1, <1>6 DEF RSLoadHead, RSPlace
  <2>2. copy' \in [Shell -> Table]
    BY <1>0, <1>6 DEF RSLoadHead, Table
  <2> QED
    BY <1>6, <2>1, <2>2 DEF RSLoadHead, TypeOK, RSPlace
<1>7. CASE RSLoadTail(s)
  <2>1. rs' \in [Shell -> RSPlace]
    BY <1>1, <1>7 DEF RSLoadTail, RSPlace
  <2>2. copy' \in [Shell -> Table]
    <3>1. CASE sh[s] = "asked"
      BY <1>0, <1>7, <3>1 DEF RSLoadTail, Table
    <3>2. CASE sh[s] # "asked"
      BY <1>0, <1>7, <3>2 DEF RSLoadTail
    <3> QED
      BY <3>1, <3>2
  <2>3. sh' \in [Shell -> ShPlace]
    BY <1>0, <1>7 DEF RSLoadTail, ShPlace
  <2> QED
    BY <1>7, <2>1, <2>2, <2>3 DEF RSLoadTail, TypeOK, RSPlace, ShPlace
<1>8. CASE RSReply(s)
  <2>1. rs' \in [Shell -> RSPlace] /\ sh' \in [Shell -> ShPlace]
    BY <1>0, <1>1, <1>8 DEF RSReply, RSPlace, ShPlace
  <2> QED
    BY <1>8, <2>1 DEF RSReply, TypeOK, RSPlace, ShPlace
<1>9. CASE RSReplyNoProgram(s)
  <2>1. rs' \in [Shell -> RSPlace]
    BY <1>1, <1>9 DEF RSReplyNoProgram, RSPlace
  <2> QED
    BY <1>9, <2>1, OverType DEF RSReplyNoProgram, TypeOK, RSPlace, ShPlace
<1>10. CASE RSStoreHead(s)
  <2>1. rs' \in [Shell -> RSPlace]
    BY <1>1, <1>10 DEF RSStoreHead, RSPlace
  <2>2. table' \in Table
    BY <1>0, <1>10 DEF RSStoreHead, Table
  <2> QED
    BY <1>10, <2>1, <2>2 DEF RSStoreHead, TypeOK, RSPlace
<1>11. CASE RSStoreTail(s)
  <2>1. rs' \in [Shell -> RSPlace]
    BY <1>1, <1>11 DEF RSStoreTail, RSPlace
  <2>2. table' \in Table
    BY <1>0, <1>11 DEF RSStoreTail, Table
  <2> QED
    BY <1>11, <2>1, <2>2 DEF RSStoreTail, TypeOK, RSPlace
<1>12. CASE RSApplied(s)
  <2>1. rs' \in [Shell -> RSPlace]
    BY <1>1, <1>12 DEF RSApplied, RSPlace
  <2> QED
    BY <1>12, <2>1 DEF RSApplied, TypeOK, RSPlace
<1>13. CASE RSBreak(s)
  <2>1. rs' \in [Shell -> RSPlace]
    BY <1>0, <1>13 DEF RSBreak, RSPlace
  <2> QED
    BY <1>13, <2>1 DEF RSBreak, TypeOK, RSPlace
<1>14. CASE RSEnd(s)
  <2>1. rs' \in [Shell -> RSPlace]
    BY <1>1, <1>14 DEF RSEnd, RSPlace
  <2>2. odd' \subseteq Odd
    BY <1>14 DEF RSEnd, TypeOK, Odd
  <2> QED
    BY <1>14, <2>1, <2>2 DEF RSEnd, TypeOK, RSPlace, Odd
<1> QED
  BY <1>2, <1>3, <1>4, <1>5, <1>6, <1>7, <1>8, <1>9, <1>10, <1>11, <1>12, <1>13, <1>14 DEF OperateRS

\* Every step does.
LEMMA NextType == ASSUME TypeOK, [Next]_vars PROVE TypeOK'
<1>1. CASE UNCHANGED vars
  BY <1>1 DEF vars, memVars, progVars, shellVars, histVars, TypeOK
<1>2. CASE Next
  BY <1>1, <1>2, ProgramType, OperateCPType, ShellType, OperateRSType DEF Next, AllOver
<1> QED
  BY <1>1, <1>2

\* The variables of struct membuf, of the children and of the programs have
\* their types in every state (shellserver.c:55-62).
THEOREM TypeCorrect == Spec => []TypeOK
  BY InitType, NextType, PTL DEF Spec

-----------------------------------------------------------------------------
(* What holds of a shell and of its child, whatever the others do.         *)

\* operateCP() has set cpstate, and has not ended.
Attached(p) == cp[p] \notin {"none", "start", "gone"}

\* A shell that waits is known to have been running when its programs were
\* what they are.
HeldInv ==
  \A s \in Shell : sh[s] = "asked" => \A p \in Prog : Alive(p) => TableOf(p) \in held[s]

\* Where the child of a shell may be.
StageInv ==
  \A s \in Shell :
    /\ sh[s] = "idle" => rs[s] = "none"
    /\ sh[s] = "asked" => rs[s] \in {"start", "loop", "wait", "head", "tail"}
    /\ sh[s] \in {"edit", "reply"} => rs[s] = "loop"
    /\ sh[s] = "sent" => rs[s] \in {"inhead", "intail", "applying", "end", "gone"}
    /\ sh[s] = "taken" => rs[s] \in {"applying", "end", "gone"}
    /\ sh[s] = "over" => rs[s] \notin {"none", "applying"}

\* What holds with any exception.
BaseInv == TypeOK /\ StageInv /\ HeldInv

\* It holds at first.
LEMMA InitBase == ASSUME Init PROVE BaseInv
  BY InitType DEF Init, BaseInv, StageInv, HeldInv

\* A shell and its child keep in step.
LEMMA StageKept == ASSUME TypeOK, StageInv, Next PROVE StageInv'
<1> USE DEF memVars, progVars, histVars, shellVars
<1>0. sh \in [Shell -> ShPlace] /\ rs \in [Shell -> RSPlace]
  BY DEF TypeOK, ShPlace, RSPlace
<1>1. ASSUME UNCHANGED <<sh, rs>> PROVE StageInv'
  BY <1>1 DEF StageInv
<1>2. ASSUME NEW p \in Prog, ControlProgram(p) PROVE StageInv'
  BY <1>1, <1>2 DEF ControlProgram, ProgStart, Change, ProgEnd
<1>3. ASSUME NEW p \in Prog, OperateCP(p) PROVE StageInv'
  <2>1. CASE CPOutTail(p)
    <3>1. rs' = rs /\ \A s \in Shell : sh'[s] = sh[s] \/ (rs[s] = "applying" /\ sh'[s] = "taken")
      BY <1>0, <2>1 DEF CPOutTail
    <3> QED
      BY <3>1 DEF StageInv
  <2> QED
    BY <1>1, <1>3, <2>1 DEF OperateCP, CPStart, Ignore, Send, Reply, Answer, CPStoreHead, CPStoreTail,
         CPOutHead, CPBreak, CPEnd
<1>4. ASSUME NEW s \in Shell, RadarShell(s) PROVE StageInv'
  <2>1. CASE ShellStart(s)
    BY <1>0, <2>1 DEF ShellStart, StageInv
  <2>2. CASE ShellReply(s)
    BY <1>0, <2>2 DEF ShellReply, StageInv
  <2>3. CASE ShellKilled(s)
    BY <1>0, <2>3 DEF ShellKilled, Over, StageInv
  <2> QED
    BY <1>4, <2>1, <2>2, <2>3 DEF RadarShell
<1>5. ASSUME NEW s \in Shell, OperateRS(s) PROVE StageInv'
  <2>1. CASE RSStart(s)
    BY <1>0, <2>1 DEF RSStart, RSAt, StageInv
  <2>2. CASE RSAsk(s)
    BY <1>0, <2>2 DEF RSAsk, RSAt, StageInv
  <2>3. CASE RSLookHasTable(s)
    BY <1>0, <2>3 DEF RSLookHasTable, RSAt, StageInv
  <2>4. CASE RSLookNoProgram(s)
    BY <1>0, <2>4 DEF RSLookNoProgram, RSAt, Over, StageInv
  <2>5. CASE RSLoadHead(s)
    BY <1>0, <2>5 DEF RSLoadHead, RSAt, StageInv
  <2>6. CASE RSLoadTail(s)
    BY <1>0, <2>6 DEF RSLoadTail, RSAt, StageInv
  <2>7. CASE RSReply(s)
    BY <1>0, <2>7 DEF RSReply, RSAt, StageInv
  <2>8. CASE RSReplyNoProgram(s)
    BY <1>0, <2>8 DEF RSReplyNoProgram, RSAt, Over, StageInv
  <2>9. CASE RSStoreHead(s)
    BY <1>0, <2>9 DEF RSStoreHead, RSAt, StageInv
  <2>10. CASE RSStoreTail(s)
    BY <1>0, <2>10 DEF RSStoreTail, RSAt, StageInv
  <2>11. CASE RSApplied(s)
    BY <1>0, <2>11 DEF RSApplied, RSAt, StageInv
  <2>12. CASE RSBreak(s)
    BY <1>0, <2>12 DEF RSBreak, StageInv
  <2>13. CASE RSEnd(s)
    BY <1>0, <2>13 DEF RSEnd, RSAt, StageInv
  <2> QED
    BY <1>5, <2>1, <2>2, <2>3, <2>4, <2>5, <2>6, <2>7, <2>8, <2>9, <2>10, <2>11, <2>12, <2>13 DEF OperateRS
<1> QED
  BY <1>1, <1>2, <1>3, <1>4, <1>5 DEF Next, AllOver, vars

\* What a shell that waits may be given, after a step that leaves it waiting.
\* What a shell that waits may be given, after any step.
LEMMA HeldKept == ASSUME TypeOK, StageInv, HeldInv, Next PROVE HeldInv'
<1> USE DEF memVars, progVars, histVars, shellVars
<1>0. /\ sh \in [Shell -> ShPlace] /\ held \in [Shell -> SUBSET Table]
      /\ prog \in [Prog -> ProgPlace] /\ val \in [Prog -> [lo : Var, hi : Var]]
  BY DEF TypeOK, ShPlace, ProgPlace
<1>1. ASSUME \A s \in Shell : sh'[s] = "asked" => sh[s] = "asked" /\ held[s] \subseteq held'[s],
             \A p \in Prog : Alive(p)' =>
               \/ Alive(p) /\ val'[p] = val[p]
               \/ \A s \in Shell : sh'[s] = "asked" => TableOf(p)' \in held'[s]
      PROVE  HeldInv'
  <2> SUFFICES ASSUME NEW s \in Shell, sh'[s] = "asked", NEW p \in Prog, Alive(p)'
               PROVE  TableOf(p)' \in held'[s]
    BY DEF HeldInv
  <2>1. CASE Alive(p) /\ val'[p] = val[p]
    <3>1. TableOf(p)' = TableOf(p)
      BY <2>1 DEF TableOf
    <3>2. TableOf(p) \in held[s]
      BY <1>1, <2>1 DEF HeldInv
    <3> QED
      BY <1>1, <3>1, <3>2
  <2> QED
    BY <1>1, <2>1
<1>2. ASSUME UNCHANGED <<prog, val>>,
             \A s \in Shell : sh'[s] = "asked" => sh[s] = "asked" /\ held[s] \subseteq held'[s]
      PROVE  HeldInv'
  BY <1>1, <1>2 DEF Alive, Runs
<1>3. ASSUME NEW p \in Prog, ControlProgram(p) PROVE HeldInv'
  <2>1. CASE ProgStart(p)
    <3>1. /\ \A s \in Shell : sh'[s] = "asked" => sh[s] = "asked" /\ held[s] \subseteq held'[s] /\ TableOf(p) \in held'[s]
          /\ val' = val /\ \A q \in Prog : prog'[q] = prog[q] \/ q = p
      BY <1>0, <2>1 DEF ProgStart, Hold
    <3>2. TableOf(p)' = TableOf(p)
      BY <3>1 DEF TableOf
    <3> QED
      BY <1>1, <3>1, <3>2 DEF Alive, Runs
  <2>2. CASE Change(p)
    <3>1. val'[p] = [lo |-> ver', hi |-> ver']
      BY <1>0, <2>2 DEF Change
    <3>2. TableOf(p)' = [lay |-> Layout[p], lo |-> ver', hi |-> ver']
      BY <3>1 DEF TableOf
    <3>3. /\ \A s \in Shell : sh'[s] = "asked" => sh[s] = "asked" /\ held[s] \subseteq held'[s] /\ TableOf(p)' \in held'[s]
          /\ prog' = prog /\ \A q \in Prog : val'[q] = val[q] \/ q = p
      BY <1>0, <2>2, <3>2 DEF Change, Hold
    <3> QED
      BY <1>1, <3>3 DEF Alive, Runs
  <2>3. CASE ProgEnd(p)
    <3>1. sh' = sh /\ held' = held /\ val' = val /\ \A q \in Prog : prog'[q] = prog[q] \/ prog'[q] = "dead"
      BY <1>0, <2>3 DEF ProgEnd
    <3> QED
      BY <1>1, <3>1 DEF Alive, Runs
  <2> QED
    BY <1>3, <2>1, <2>2, <2>3 DEF ControlProgram
<1>4. ASSUME NEW p \in Prog, OperateCP(p) PROVE HeldInv'
  <2>1. ASSUME UNCHANGED <<sh, held, val>>, \A q \in Prog : Alive(q)' => Alive(q) PROVE HeldInv'
    BY <1>1, <2>1
  <2>2. CASE CPOutTail(p) /\ prog[p] = "take"
    <3>1. val'[p] = [lo |-> snap[p].lo, hi |-> table.hi]
      BY <1>0, <2>2 DEF CPOutTail
    <3>2. TableOf(p)' = [lay |-> Layout[p], lo |-> snap[p].lo, hi |-> table.hi]
      BY <3>1 DEF TableOf
    <3>3. /\ \A s \in Shell : held[s] \subseteq held'[s] /\ (sh[s] = "asked" => TableOf(p)' \in held'[s])
          /\ \A s \in Shell : sh'[s] = "asked" => sh[s] = "asked"
      BY <1>0, <2>2, <3>2 DEF CPOutTail, Hold
    <3>4. \A q \in Prog : q = p \/ (val'[q] = val[q] /\ prog'[q] = prog[q])
      BY <1>0, <2>2 DEF CPOutTail
    <3>5. ASSUME NEW q \in Prog, Alive(q)' 
          PROVE (Alive(q) /\ val'[q] = val[q]) \/ \A s \in Shell : sh'[s] = "asked" => TableOf(q)' \in held'[s]
      <4>1. CASE q = p
        BY <4>1, <3>3
      <4>2. CASE q # p
        BY <4>2, <3>4, <3>5 DEF Alive, Runs
      <4> QED
        BY <4>1, <4>2
    <3> QED
      BY <1>1, <3>3, <3>5
  <2>3. CASE CPOutTail(p) /\ prog[p] # "take"
    <3>1. UNCHANGED <<sh, held, val, prog>>
      BY <2>3 DEF CPOutTail
    <3> QED
      BY <2>1, <3>1 DEF Alive, Runs
  <2>4. CASE Ignore(p) \/ Send(p) \/ Reply(p)
    <3>1. PICK x \in {"work", "take"} : prog' = [prog EXCEPT ![p] = x] /\ prog[p] = "work"
      BY <2>4 DEF Ignore, Send, Reply, Answer
    <3>2. UNCHANGED <<sh, held, val>>
      BY <2>4 DEF Ignore, Send, Reply, Answer
    <3>3. \A q \in Prog : Alive(q)' => Alive(q)
      BY <1>0, <3>1 DEF Alive, Runs
    <3> QED
      BY <2>1, <3>2, <3>3
  <2>5. CASE CPOutHead(p)
    <3>1. UNCHANGED <<sh, held, val>>
      BY <2>5 DEF CPOutHead
    <3>2. \A q \in Prog : Alive(q)' => Alive(q)
      BY <1>0, <2>5 DEF CPOutHead, Alive, Runs
    <3> QED
      BY <2>1, <3>1, <3>2
  <2>6. CASE CPStart(p) \/ CPStoreHead(p) \/ CPStoreTail(p) \/ CPBreak(p) \/ CPEnd(p)
    <3>1. UNCHANGED <<sh, held, val, prog>>
      BY <2>6 DEF CPStart, CPStoreHead, CPStoreTail, CPBreak, CPEnd
    <3> QED
      BY <2>1, <3>1 DEF Alive, Runs
  <2> QED
    BY <1>4, <2>2, <2>3, <2>4, <2>5, <2>6 DEF OperateCP
<1>5. ASSUME NEW s \in Shell, RadarShell(s) PROVE HeldInv'
  <2>1. CASE ShellStart(s)
    <3>1. /\ held'[s] = {TableOf(p) : p \in {q \in Prog : Alive(q)}}
          /\ \A t \in Shell : t = s \/ (sh'[t] = sh[t] /\ held'[t] = held[t])
          /\ UNCHANGED <<prog, val>>
      BY <1>0, <2>1 DEF ShellStart
    <3>2. \A p \in Prog : Alive(p)' => Alive(p) /\ TableOf(p)' = TableOf(p)
      BY <3>1 DEF Alive, Runs, TableOf
    <3> QED
      BY <3>1, <3>2 DEF HeldInv
  <2>2. CASE ShellReply(s)
    BY <1>0, <1>2, <2>2 DEF ShellReply
  <2>3. CASE ShellKilled(s)
    BY <1>0, <1>2, <2>3 DEF ShellKilled, Over
  <2> QED
    BY <1>5, <2>1, <2>2, <2>3 DEF RadarShell
<1>6. ASSUME NEW s \in Shell, OperateRS(s) PROVE HeldInv'
  <2>1. CASE Over(s) /\ UNCHANGED <<prog, val>>
    BY <1>0, <1>2, <2>1 DEF Over
  <2>2. CASE RSLoadTail(s) \/ RSReply(s)
    BY <1>0, <1>2, <2>2 DEF RSLoadTail, RSReply
  <2> QED
    BY <1>2, <1>6, <2>1, <2>2 DEF OperateRS, RSStart, RSAsk, RSLookHasTable, RSLookNoProgram, RSLoadHead,
         RSReplyNoProgram, RSStoreHead, RSStoreTail, RSApplied, RSBreak, RSEnd
<1> QED
  BY <1>2, <1>3, <1>4, <1>5, <1>6 DEF Next, AllOver, vars

\* Every step keeps both.
LEMMA BaseKept == ASSUME BaseInv, [Next]_vars PROVE BaseInv'
<1>1. TypeOK'
  BY NextType DEF BaseInv
<1>2. CASE UNCHANGED vars
  BY <1>1, <1>2 DEF vars, memVars, progVars, shellVars, histVars, BaseInv, StageInv, HeldInv, Alive, Runs, TableOf
<1>3. CASE Next
  BY <1>1, <1>3, StageKept, HeldKept DEF BaseInv
<1> QED
  BY <1>2, <1>3

-----------------------------------------------------------------------------
(* The exchange.                                                           *)

\* No exception but that cpstate was left at 2.
Plain == odd \subseteq {"left"}

\* One child at most serves a shell, one at most a control program, and
\* cpstate tells of that.
OneShell == \A s, t \in Shell : RSBusy(s) /\ RSBusy(t) => s = t
OneProg == \A p, q \in Prog : Attached(p) /\ Attached(q) => p = q
Seen == \A p \in Prog : Attached(p) => cpstate # 0

\* Why rsstate is 1: the child has asked, and has not yet put it back.
Asks(s) ==
  rs[s] = "wait" \/ (rs[s] \in {"head", "tail"} /\ cpstate = 2) \/ (rs[s] = "end" /\ cpstate # 1)

\* The table in the shared memory is the upload of this shell.
Applies(s) ==
  /\ sh[s] \in {"sent", "taken"}
  /\ table.lo = copy[s].lo /\ table.hi = copy[s].hi

StateInv ==
  /\ rsstate = 1 => \E s \in Shell : Asks(s)
  /\ rsstate = 2 =>
       \E s \in Shell : (rs[s] = "applying" \/ (rs[s] = "end" /\ cpstate # 2)) /\ Applies(s)

\* From the end of its wait to the end of its upload cpstate stays 2.
HasTable ==
  \A s \in Shell :
    rs[s] \in {"head", "tail", "inhead", "intail"} \/ sh[s] \in {"edit", "reply"} => cpstate = 2

\* A table on its way from the program is awaited, and is one it may be given.
DownInv ==
  \A p \in Prog : cp[p] \in {"head", "tail"} =>
    /\ cpstate = 1
    /\ \E s \in Shell : rs[s] = "wait" /\ (sh[s] = "asked" => snap[p] \in held[s])
    /\ cp[p] = "tail" => table.lay = snap[p].lay /\ table.lo = snap[p].lo

\* A table on its way to the program is the upload of one shell.
UpInv ==
  /\ \A s \in Shell : sh[s] = "sent" /\ rs[s] = "intail" => table.lo = copy[s].lo
  /\ \A p \in Prog : cp[p] \in {"outhead", "outtail"} =>
       \E s \in Shell : /\ Applies(s) /\ (cpstate = 1 \/ rs[s] = "applying")
                        /\ cp[p] = "outtail" => snap[p].lo = table.lo

\* Who is there.
Alone == OneShell /\ OneProg /\ Seen
\* What is on its way, and what the two states of struct membuf say of it.
Carried == StateInv /\ HasTable /\ DownInv /\ UpInv

\* What a shell is about to be given, and has been given.
Fresh ==
  \A s \in Shell :
    /\ sh[s] = "asked" /\ rs[s] \in {"wait", "head", "tail"} /\ cpstate = 2 => table \in held[s]
    /\ sh[s] = "asked" /\ rs[s] = "tail" => copy[s].lay = table.lay /\ copy[s].lo = table.lo
    /\ sh[s] = "edit" => copy[s] \in held[s]

\* What holds without an exception, or with that one.
PlainInv == Plain => Alone /\ Carried
FreshInv == odd = {} => Fresh

IInv == BaseInv /\ PlainInv /\ FreshInv

\* What is known of the past is lost only with the last trace of it.
LEMMA Remembered == ASSUME Next PROVE \/ odd \subseteq odd'
                                      \/ \E s \in Shell : RSEnd(s) /\ LastTrace(s)
<1> USE DEF histVars, Oddity
<1>1. ASSUME NEW p \in Prog, ControlProgram(p) PROVE odd \subseteq odd'
  BY <1>1 DEF ControlProgram, ProgStart, Change, ProgEnd
<1>2. ASSUME NEW p \in Prog, OperateCP(p) PROVE odd \subseteq odd'
  BY <1>2 DEF OperateCP, CPStart, Ignore, Send, Reply, CPStoreHead, CPStoreTail, CPOutHead, CPOutTail, CPBreak, CPEnd
<1>3. ASSUME NEW s \in Shell, RadarShell(s) PROVE odd \subseteq odd'
  BY <1>3 DEF RadarShell, ShellStart, ShellReply, ShellKilled
<1>4. ASSUME NEW s \in Shell, OperateRS(s), ~(RSEnd(s) /\ LastTrace(s)) PROVE odd \subseteq odd'
  BY <1>4 DEF OperateRS, RSStart, RSAsk, RSLookHasTable, RSLookNoProgram, RSLoadHead, RSLoadTail, RSReply,
       RSReplyNoProgram, RSStoreHead, RSStoreTail, RSApplied, RSBreak, RSEnd
<1>5. ASSUME AllOver PROVE odd \subseteq odd'
  BY <1>5 DEF AllOver, vars
<1> QED
  BY <1>1, <1>2, <1>3, <1>4, <1>5 DEF Next, OperateRS

\* A second child for a shell, or for a program, is out of the ordinary.
LEMMA AloneKept == ASSUME TypeOK, Alone, Next, Plain' PROVE Alone'
<1> USE DEF memVars, progVars, histVars, shellVars
<1>0. /\ rs \in [Shell -> RSPlace] /\ cp \in [Prog -> CPPlace]
      /\ \A p \in Prog : Attached(p) => cpstate # 0
  BY DEF TypeOK, RSPlace, CPPlace, Alone, Seen
<1>1. ASSUME \A s \in Shell : RSBusy(s)' => RSBusy(s) PROVE OneShell'
  BY <1>1 DEF Alone, OneShell
<1>2. ASSUME \A p \in Prog : Attached(p)' => Attached(p) PROVE OneProg'
  BY <1>2 DEF Alone, OneProg
<1>3. ASSUME rs' = rs, \A p \in Prog : Attached(p)' => Attached(p), cpstate' # 0 \/ cpstate' = cpstate PROVE Alone'
  <2>1. \A s \in Shell : RSBusy(s)' => RSBusy(s)
    BY <1>3 DEF RSBusy
  <2>2. Seen'
    BY <1>0, <1>3 DEF Seen
  <2> QED
    BY <1>1, <1>2, <1>3, <2>1, <2>2 DEF Alone
<1>4. ASSUME UNCHANGED <<cp, cpstate>>, \A s \in Shell : RSBusy(s)' => RSBusy(s) PROVE Alone'
  <2>1. \A p \in Prog : Attached(p)' => Attached(p)
    BY <1>4 DEF Attached
  <2> QED
    BY <1>0, <1>1, <1>2, <1>4, <2>1 DEF Alone, Seen
<1>5. ASSUME NEW p \in Prog, ControlProgram(p) PROVE Alone'
  <2>1. rs' = rs /\ cpstate' = cpstate
    BY <1>5 DEF ControlProgram, ProgStart, Change, ProgEnd
  <2>2. \A q \in Prog : Attached(q)' => Attached(q)
    BY <1>0, <1>5 DEF ControlProgram, ProgStart, Change, ProgEnd, Attached
  <2> QED
    BY <1>3, <2>1, <2>2
<1>6. ASSUME NEW p \in Prog, OperateCP(p) PROVE Alone'
  <2>1. CASE CPStart(p)
    <3>1. \A q \in Prog \ {p} : ~CPBusy(q)
      BY <2>1 DEF CPStart, Plain
    <3>2. cpstate' = 1 /\ rs' = rs /\ \A q \in Prog : Attached(q)' => q = p
      BY <1>0, <2>1, <3>1 DEF CPStart, CPBusy, Attached
    <3>3. OneShell'
      BY <1>1, <3>2 DEF RSBusy
    <3> QED
      BY <3>2, <3>3 DEF Alone, OneProg, Seen
  <2>2. CASE CPEnd(p)
    <3>1. rs' = rs /\ \A q \in Prog : Attached(q)' => Attached(q) /\ q # p
      BY <1>0, <2>2 DEF CPEnd, CPAt, Attached
    <3>2. Attached(p)
      BY <2>2 DEF CPEnd, CPAt, Attached
    <3>3. \A q \in Prog : ~Attached(q)'
      BY <3>1, <3>2 DEF Alone, OneProg
    <3> QED
      BY <1>1, <3>1, <3>3 DEF Alone, OneProg, Seen, RSBusy
  <2>3. CASE Ignore(p) \/ Send(p) \/ Reply(p)
    <3>1. Answer(p, "poll", "work") \/ Answer(p, "head", "work") \/ Answer(p, "outhead", "take")
      BY <2>3 DEF Ignore, Send, Reply
    <3>2. UNCHANGED <<cpstate, rs>>
      BY <3>1 DEF Answer
    <3>3. \A q \in Prog : Attached(q)' => Attached(q)
      BY <1>0, <3>1 DEF Answer, Attached
    <3> QED
      BY <1>3, <3>2, <3>3
  <2>4. CASE CPStoreHead(p) \/ CPStoreTail(p) \/ CPOutHead(p) \/ CPOutTail(p) \/ CPBreak(p)
    <3>1. rs' = rs /\ (cpstate' # 0 \/ cpstate' = cpstate)
      BY <2>4 DEF CPStoreHead, CPStoreTail, CPOutHead, CPOutTail, CPBreak
    <3>2. \A q \in Prog : Attached(q)' => Attached(q)
      BY <1>0, <2>4 DEF CPStoreHead, CPStoreTail, CPOutHead, CPOutTail, CPBreak, CPAt, Attached
    <3> QED
      BY <1>3, <3>1, <3>2
  <2> QED
    BY <1>6, <2>1, <2>2, <2>3, <2>4 DEF OperateCP
<1>7. ASSUME NEW s \in Shell, RadarShell(s) PROVE Alone'
  <2>1. CASE ShellStart(s)
    <3>1. \A t \in Shell : ~RSBusy(t)
      BY <2>1 DEF ShellStart, Oddity, Plain
    <3>2. UNCHANGED <<cp, cpstate>> /\ \A t \in Shell : RSBusy(t)' => t = s
      BY <1>0, <2>1, <3>1 DEF ShellStart, RSBusy
    <3> QED
      BY <3>2 DEF Alone, OneShell, OneProg, Seen, Attached
  <2>2. CASE ShellReply(s) \/ ShellKilled(s)
    BY <1>4, <2>2 DEF ShellReply, ShellKilled, RSBusy
  <2> QED
    BY <1>7, <2>1, <2>2 DEF RadarShell
<1>8. ASSUME NEW s \in Shell, OperateRS(s) PROVE Alone'
  <2>1. UNCHANGED <<cp, cpstate>>
    BY <1>8 DEF OperateRS, RSStart, RSAsk, RSLookHasTable, RSLookNoProgram, RSLoadHead, RSLoadTail, RSReply,
         RSReplyNoProgram, RSStoreHead, RSStoreTail, RSApplied, RSBreak, RSEnd
  <2>2. PICK r \in RSPlace : rs' = [rs EXCEPT ![s] = r] /\ RSBusy(s)
    BY <1>8 DEF OperateRS, RSStart, RSAsk, RSLookHasTable, RSLookNoProgram, RSLoadHead, RSLoadTail, RSReply,
         RSReplyNoProgram, RSStoreHead, RSStoreTail, RSApplied, RSBreak, RSEnd, RSAt, RSPlace, RSBusy
  <2>3. \A t \in Shell : RSBusy(t)' => RSBusy(t)
    BY <1>0, <2>2 DEF RSBusy
  <2> QED
    BY <1>4, <2>1, <2>3
<1> QED
  BY <1>4, <1>5, <1>6, <1>7, <1>8 DEF Next, AllOver, vars, RSBusy

\* Between exchanges nothing is on its way.
LEMMA Quiet ==
  ASSUME (\A s \in Shell : ~RSBusy(s))', StageInv', TypeOK', rsstate' = 0,
         \A p \in Prog : cp'[p] \notin {"head", "tail", "outhead", "outtail"}
  PROVE  Carried' /\ Fresh'
<1>1. \A s \in Shell : rs'[s] \in {"none", "gone"} /\ sh'[s] \notin {"asked", "edit", "reply"}
  BY DEF RSBusy, StageInv
<1>2. StateInv' /\ HasTable' /\ DownInv' /\ UpInv' /\ Fresh'
  BY <1>1 DEF StateInv, HasTable, DownInv, UpInv, Fresh
<1> QED
  BY <1>2 DEF Carried

\* With no child of a shell rsstate is 0.
LEMMA NobodyBusy == ASSUME \A s \in Shell : ~RSBusy(s), StateInv, TypeOK PROVE rsstate = 0
<1>1. \A s \in Shell : ~Asks(s) /\ rs[s] \notin {"applying", "end"}
  BY DEF RSBusy, Asks
<1> QED
  BY <1>1 DEF StateInv, TypeOK

\* A step that leaves the shared memory and the children of the shells alone,
\* and gives no program and no shell a table.
LEMMA Frame ==
  ASSUME UNCHANGED <<cpstate, rsstate, table, rs, sh, copy>>,
         \A s \in Shell : held[s] \subseteq held'[s],
         \A p \in Prog : cp'[p] \in {"head", "tail", "outhead", "outtail"} => cp'[p] = cp[p] /\ snap'[p] = snap[p],
         Carried
  PROVE  Carried' /\ (Fresh => Fresh')
<1>1. StateInv' /\ HasTable'
  BY DEF Carried, StateInv, HasTable, Asks, Applies
<1>2. DownInv'
  BY DEF Carried, DownInv
<1>3. UpInv'
  BY DEF Carried, UpInv, Applies
<1>4. Fresh => Fresh'
  BY DEF Fresh
<1> QED
  BY <1>1, <1>2, <1>3, <1>4 DEF Carried

\* A step of a control program.
LEMMA ProgramKeeps == ASSUME BaseInv, Carried, NEW p \in Prog, ControlProgram(p) PROVE Carried' /\ (Fresh => Fresh')
<1> USE DEF memVars, progVars, histVars, shellVars
<1>0. held \in [Shell -> SUBSET Table] /\ cp \in [Prog -> CPPlace]
  BY DEF BaseInv, TypeOK, CPPlace
<1>1. CASE ProgStart(p)
  <2>1. \A s \in Shell : held[s] \subseteq held'[s]
    BY <1>0, <1>1 DEF ProgStart, Hold
  <2>2. \A q \in Prog : cp'[q] \in {"head", "tail", "outhead", "outtail"} => cp'[q] = cp[q]
    BY <1>0, <1>1 DEF ProgStart
  <2> QED
    BY <1>1, <2>1, <2>2, Frame DEF ProgStart
<1>2. CASE Change(p)
  <2>1. \A s \in Shell : held[s] \subseteq held'[s]
    BY <1>0, <1>2 DEF Change, Hold
  <2> QED
    BY <1>2, <2>1, Frame DEF Change
<1>3. CASE ProgEnd(p)
  BY <1>3, Frame DEF ProgEnd
<1> QED
  BY <1>1, <1>2, <1>3 DEF ControlProgram

\* Who else could be at work when the child of program p is.
LEMMA OneProgram == ASSUME Alone, NEW p \in Prog, Attached(p)
  PROVE \A q \in Prog : q = p \/ cp[q] \notin {"head", "tail", "outhead", "outtail"}
  BY DEF Alone, OneProg, Attached

\* A step of its child: what it stores is what was sent, all from one table,
\* and meanwhile the child of a shell waits.
LEMMA OperateCPKeeps == ASSUME BaseInv, BaseInv', Alone, Carried, NEW p \in Prog, OperateCP(p), Plain'
                        PROVE  Carried' /\ (Fresh => Fresh')
<1> USE DEF memVars, progVars, histVars, shellVars
<1>0. /\ held \in [Shell -> SUBSET Table] /\ cp \in [Prog -> CPPlace] /\ snap \in [Prog -> Table]
      /\ table \in Table /\ cpstate \in 0 .. 2 /\ rsstate \in 0 .. 2 /\ sh \in [Shell -> ShPlace]
      /\ rs \in [Shell -> RSPlace] /\ prog \in [Prog -> ProgPlace] /\ AnyTable \in Table
  BY Constants DEF BaseInv, TypeOK, CPPlace, ShPlace, RSPlace, ProgPlace
<1>00. \A t \in Table : t = [lay |-> t.lay, lo |-> t.lo, hi |-> t.hi] /\ t.lay \in Lay /\ t.lo \in Var /\ t.hi \in Var
  BY DEF Table
<1>01. Attached(p) => \A q \in Prog : q = p \/ cp[q] \notin {"head", "tail", "outhead", "outtail"}
  BY OneProgram
<1>02. Attached(p) => cpstate # 0
  BY DEF Alone, Seen
<1>03. \A s, t \in Shell : RSBusy(s) /\ RSBusy(t) => s = t
  BY DEF Alone, OneShell
<1>1. CASE CPStart(p)
  <2>1. \A s \in Shell : ~RSBusy(s)
    BY <1>1 DEF CPStart, Plain
  <2>2. \A q \in Prog \ {p} : ~CPBusy(q)
    BY <1>1 DEF CPStart, Plain
  <2>3. rsstate = 0
    BY <2>1, NobodyBusy DEF Carried, BaseInv
  <2>4. \A q \in Prog : cp'[q] \notin {"head", "tail", "outhead", "outtail"}
    BY <1>0, <1>1, <2>2 DEF CPStart, CPBusy
  <2>5. (\A s \in Shell : ~RSBusy(s))' /\ rsstate' = 0
    BY <1>1, <2>1, <2>3 DEF CPStart, RSBusy
  <2> QED
    BY <2>4, <2>5, Quiet DEF BaseInv
<1>2. CASE CPEnd(p)
  <2>1. \A s \in Shell : ~RSBusy(s)
    BY <1>2 DEF CPEnd, Oddity, Plain
  <2>2. rsstate = 0
    BY <2>1, NobodyBusy DEF Carried, BaseInv
  <2>3. \A q \in Prog : cp'[q] \notin {"head", "tail", "outhead", "outtail"}
    BY <1>0, <1>01, <1>2 DEF CPEnd, CPAt, Attached
  <2>4. (\A s \in Shell : ~RSBusy(s))' /\ rsstate' = 0
    BY <1>2, <2>1, <2>2 DEF CPEnd, RSBusy
  <2> QED
    BY <2>3, <2>4, Quiet DEF BaseInv
<1>3. CASE Ignore(p)
  <2>1. \A q \in Prog : cp'[q] = cp[q]
    BY <1>0, <1>3 DEF Ignore, Answer
  <2> QED
    BY <1>3, <2>1, Frame DEF Ignore, Answer
<1>4. CASE CPBreak(p)
  <2>1. \A q \in Prog : cp'[q] \in {"head", "tail", "outhead", "outtail"} => cp'[q] = cp[q] /\ snap'[q] = snap[q]
    BY <1>0, <1>4 DEF CPBreak
  <2> QED
    BY <1>4, <2>1, Frame DEF CPBreak
<1>5. CASE Send(p)
  <2>1. /\ rsstate = 1 /\ cp[p] = "poll" /\ prog[p] = "work"
        /\ cp' = [cp EXCEPT ![p] = "head"] /\ snap' = [snap EXCEPT ![p] = TableOf(p)]
        /\ UNCHANGED <<cpstate, rsstate, table, rs, sh, copy, held>>
    BY <1>5 DEF Send, Answer
  <2>2. cpstate = 1
    BY <1>0, <1>02, <1>5, <2>1 DEF Send, Oddity, Plain, Attached
  <2>3. PICK s \in Shell : rs[s] = "wait"
    BY <2>1, <2>2 DEF Carried, StateInv, Asks
  <2>4. sh[s] = "asked" => TableOf(p) \in held[s]
    BY <2>1 DEF BaseInv, HeldInv, Alive, Runs
  <2>5. \A q \in Prog : q = p \/ cp'[q] \notin {"head", "tail", "outhead", "outtail"}
    BY <1>0, <1>01, <2>1 DEF Attached
  <2>6. cp'[p] = "head" /\ snap'[p] = TableOf(p)
    BY <1>0, <2>1
  <2>7. StateInv' /\ HasTable'
    BY <2>1 DEF Carried, StateInv, HasTable, Asks, Applies
  <2>8. DownInv'
    BY <2>1, <2>2, <2>3, <2>4, <2>5, <2>6 DEF DownInv
  <2>9. UpInv'
    BY <2>1, <2>5, <2>6 DEF Carried, UpInv
  <2>10. Fresh => Fresh'
    BY <2>1 DEF Fresh
  <2> QED
    BY <2>7, <2>8, <2>9, <2>10 DEF Carried
<1>6. CASE Reply(p)
  <2>1. /\ rsstate = 2 /\ cp[p] = "poll"
        /\ cp' = [cp EXCEPT ![p] = "outhead"]
        /\ UNCHANGED <<cpstate, rsstate, table, rs, sh, copy, held, snap>>
    BY <1>6 DEF Reply, Answer
  <2>2. PICK s \in Shell : (rs[s] = "applying" \/ (rs[s] = "end" /\ cpstate # 2)) /\ Applies(s)
    BY <2>1 DEF Carried, StateInv
  <2>3. Applies(s)' /\ (cpstate' = 1 \/ rs'[s] = "applying")
    BY <1>0, <1>02, <2>1, <2>2 DEF Applies, Attached
  <2>4. \A q \in Prog : q = p \/ cp'[q] \notin {"head", "tail", "outhead", "outtail"}
    BY <1>0, <1>01, <2>1 DEF Attached
  <2>5. cp'[p] = "outhead"
    BY <1>0, <2>1
  <2>6. StateInv' /\ HasTable'
    BY <2>1 DEF Carried, StateInv, HasTable, Asks, Applies
  <2>7. DownInv'
    BY <2>4, <2>5 DEF DownInv
  <2>8. UpInv'
    BY <2>1, <2>3, <2>4, <2>5 DEF Carried, UpInv
  <2>9. Fresh => Fresh'
    BY <2>1 DEF Fresh
  <2> QED
    BY <2>6, <2>7, <2>8, <2>9 DEF Carried
<1>7. CASE CPStoreHead(p)
  <2>1. /\ cp[p] = "head" /\ cp' = [cp EXCEPT ![p] = "tail"]
        /\ UNCHANGED <<cpstate, rsstate, rs, sh, copy, held, snap>>
    BY <1>7 DEF CPStoreHead, CPAt
  <2>2. table'.lay = snap[p].lay /\ table'.lo = snap[p].lo /\ table'.hi = table.hi
    BY <1>0, <1>00, <1>7 DEF CPStoreHead
  <2>3. PICK s \in Shell : rs[s] = "wait" /\ (sh[s] = "asked" => snap[p] \in held[s])
    BY <2>1 DEF Carried, DownInv
  <2>4. \A t \in Shell : t = s \/ rs[t] \in {"none", "gone"}
    BY <1>03, <2>3 DEF RSBusy
  <2>5. cpstate = 1
    BY <2>1 DEF Carried, DownInv
  <2>6. \A q \in Prog : q = p \/ cp'[q] \notin {"head", "tail", "outhead", "outtail"}
    BY <1>0, <1>01, <2>1 DEF Attached
  <2>7. cp'[p] = "tail"
    BY <1>0, <2>1
  <2>8. rsstate # 2
    BY <2>3, <2>4 DEF Carried, StateInv
  <2>9. StateInv' /\ HasTable'
    BY <2>1, <2>8 DEF Carried, StateInv, HasTable, Asks
  <2>10. DownInv'
    BY <2>1, <2>2, <2>3, <2>5, <2>6, <2>7 DEF DownInv
  <2>11. UpInv'
    BY <2>1, <2>3, <2>4, <2>6, <2>7 DEF UpInv
  <2>12. Fresh => Fresh'
    BY <2>1, <2>3, <2>4, <2>5 DEF Fresh
  <2> QED
    BY <2>9, <2>10, <2>11, <2>12 DEF Carried
<1>8. CASE CPStoreTail(p)
  <2>1. /\ cp[p] = "tail" /\ cp' = [cp EXCEPT ![p] = "poll"] /\ cpstate' = 2
        /\ UNCHANGED <<rsstate, rs, sh, copy, held>>
    BY <1>8 DEF CPStoreTail, CPAt
  <2>2. table.lay = snap[p].lay /\ table.lo = snap[p].lo
    BY <2>1 DEF Carried, DownInv
  <2>3. table' = snap[p]
    BY <1>0, <1>00, <1>8, <2>2 DEF CPStoreTail
  <2>4. PICK s \in Shell : rs[s] = "wait" /\ (sh[s] = "asked" => snap[p] \in held[s])
    BY <2>1 DEF Carried, DownInv
  <2>5. \A t \in Shell : t = s \/ rs[t] \in {"none", "gone"}
    BY <1>03, <2>4 DEF RSBusy
  <2>6. \A q \in Prog : cp'[q] \notin {"head", "tail", "outhead", "outtail"}
    BY <1>0, <1>01, <2>1 DEF Attached
  <2>7. rsstate # 2
    BY <2>4, <2>5 DEF Carried, StateInv
  <2>8. StateInv' /\ HasTable'
    BY <2>1, <2>4, <2>7 DEF StateInv, HasTable, Asks
  <2>9. DownInv'
    BY <2>6 DEF DownInv
  <2>10. UpInv'
    BY <2>1, <2>4, <2>5, <2>6 DEF UpInv
  <2>11. Fresh => Fresh'
    BY <2>1, <2>3, <2>4, <2>5 DEF Fresh
  <2> QED
    BY <2>8, <2>9, <2>10, <2>11 DEF Carried
<1>9. CASE CPOutHead(p)
  <2>1. /\ cp[p] = "outhead" /\ cp' = [cp EXCEPT ![p] = "outtail"]
        /\ UNCHANGED <<cpstate, rsstate, table, rs, sh, copy, held>>
    BY <1>9 DEF CPOutHead, CPAt
  <2>2. snap'[p].lo = table.lo
    BY <1>0, <1>00, <1>9 DEF CPOutHead
  <2>3. PICK s \in Shell : Applies(s) /\ (cpstate = 1 \/ rs[s] = "applying")
    BY <2>1 DEF Carried, UpInv
  <2>4. \A q \in Prog : q = p \/ cp'[q] \notin {"head", "tail", "outhead", "outtail"}
    BY <1>0, <1>01, <2>1 DEF Attached
  <2>5. cp'[p] = "outtail"
    BY <1>0, <2>1
  <2>6. StateInv' /\ HasTable'
    BY <2>1 DEF Carried, StateInv, HasTable, Asks, Applies
  <2>7. DownInv'
    BY <2>4, <2>5 DEF DownInv
  <2>8. UpInv'
    BY <2>1, <2>2, <2>3, <2>4, <2>5 DEF Carried, UpInv, Applies
  <2>9. Fresh => Fresh'
    BY <2>1 DEF Fresh
  <2> QED
    BY <2>6, <2>7, <2>8, <2>9 DEF Carried
<1>10. CASE CPOutTail(p)
  <2>1. /\ cp[p] = "outtail" /\ cp' = [cp EXCEPT ![p] = "poll"] /\ cpstate' = 1
        /\ UNCHANGED <<rsstate, table, rs, copy>>
    BY <1>10 DEF CPOutTail, CPAt
  <2>2. \A s \in Shell : held[s] \subseteq held'[s]
    BY <1>0, <1>10 DEF CPOutTail, Hold
  <2>3. \A s \in Shell : sh'[s] = sh[s] \/ (rs[s] = "applying" /\ sh'[s] = "taken")
    BY <1>0, <1>10 DEF CPOutTail
  <2>4. PICK s \in Shell : Applies(s) /\ (cpstate = 1 \/ rs[s] = "applying")
    BY <2>1 DEF Carried, UpInv
  <2>5. cpstate = 1 \/ \A t \in Shell : rs[t] \in {"none", "gone", "applying"}
    BY <1>03, <2>4 DEF RSBusy
  <2>6. \A q \in Prog : cp'[q] \notin {"head", "tail", "outhead", "outtail"}
    BY <1>0, <1>01, <2>1 DEF Attached
  <2>7. \A t \in Shell : Applies(t) => Applies(t)'
    BY <2>1, <2>3 DEF Applies
  <2>8. StateInv'
    <3>1. ASSUME rsstate = 1 PROVE \E t \in Shell : Asks(t)'
      <4>1. PICK t \in Shell : Asks(t)
        BY <3>1 DEF Carried, StateInv
      <4>2. cpstate = 1
        BY <2>5, <4>1 DEF Asks
      <4> QED
        BY <2>1, <4>1, <4>2 DEF Asks
    <3>2. ASSUME rsstate = 2 PROVE \E t \in Shell : (rs[t] = "applying" \/ rs[t] = "end") /\ Applies(t)'
      BY <2>7, <3>2 DEF Carried, StateInv
    <3> QED
      BY <2>1, <3>1, <3>2 DEF StateInv
  <2>9. HasTable'
    BY <2>1, <2>3, <2>5 DEF Carried, HasTable, BaseInv, StageInv
  <2>10. DownInv'
    BY <2>6 DEF DownInv
  <2>11. UpInv'
    <3>1. \A t \in Shell : sh'[t] = "sent" => sh[t] = "sent"
      BY <2>3
    <3> QED
      BY <2>1, <2>6, <3>1 DEF Carried, UpInv
  <2>12. Fresh => Fresh'
    BY <2>1, <2>2, <2>3 DEF Fresh
  <2> QED
    BY <2>8, <2>9, <2>10, <2>11, <2>12 DEF Carried
<1> QED
  BY <1>1, <1>2, <1>3, <1>4, <1>5, <1>6, <1>7, <1>8, <1>9, <1>10 DEF OperateCP

\* A step of a radar shell.
LEMMA ShellKeeps == ASSUME BaseInv, BaseInv', Alone, Carried, NEW s \in Shell, RadarShell(s), Plain'
                    PROVE  Carried' /\ (Fresh => Fresh')
<1> USE DEF memVars, progVars, histVars, shellVars
<1>0. /\ held \in [Shell -> SUBSET Table] /\ copy \in [Shell -> Table]
      /\ sh \in [Shell -> ShPlace] /\ rs \in [Shell -> RSPlace]
  BY DEF BaseInv, TypeOK, ShPlace, RSPlace
<1>00. StageInv
  BY DEF BaseInv
<1>1. CASE ShellStart(s)
  <2>1. /\ sh' = [sh EXCEPT ![s] = "asked"] /\ rs' = [rs EXCEPT ![s] = "start"] /\ sh[s] = "idle"
        /\ \A t \in Shell : t = s \/ held'[t] = held[t]
        /\ UNCHANGED <<cpstate, rsstate, table, copy, cp, snap>>
    BY <1>0, <1>1 DEF ShellStart
  <2>2. \A t \in Shell : rs[t] \in {"none", "gone"}
    BY <1>1 DEF ShellStart, Oddity, Plain, RSBusy
  <2>3. rsstate = 0
    BY <2>2, NobodyBusy DEF Carried, BaseInv, RSBusy
  <2>4. \A t \in Shell : t = s \/ (sh'[t] = sh[t] /\ rs'[t] = rs[t])
    BY <1>0, <2>1
  <2>5. sh'[s] = "asked" /\ rs'[s] = "start"
    BY <1>0, <2>1
  <2>6. \A t \in Shell : t = s \/ sh[t] \notin {"asked", "edit", "reply"}
    BY <1>00, <2>2 DEF StageInv
  <2>7. StateInv'
    BY <2>1, <2>3 DEF StateInv
  <2>8. HasTable'
    BY <2>2, <2>4, <2>5, <2>6 DEF HasTable
  <2>9. DownInv'
    BY <2>1, <2>2 DEF Carried, DownInv
  <2>10. UpInv'
    <3>1. \A t \in Shell : Applies(t) => t # s /\ Applies(t)'
      BY <2>1, <2>4 DEF Applies
    <3>2. \A t \in Shell : rs'[t] # "intail"
      BY <2>2, <2>4, <2>5
    <3> QED
      BY <2>1, <2>2, <3>1, <3>2 DEF Carried, UpInv
  <2>11. Fresh'
    BY <2>1, <2>2, <2>4, <2>5, <2>6 DEF Fresh
  <2> QED
    BY <2>7, <2>8, <2>9, <2>10, <2>11 DEF Carried
<1>2. CASE ShellReply(s) \/ (ShellKilled(s) /\ sh[s] # "sent")
  <2>1. /\ sh[s] \in {"asked", "edit"} /\ UNCHANGED <<cpstate, rsstate, table, rs, cp, snap>>
        /\ \A t \in Shell : t = s \/ (sh'[t] = sh[t] /\ copy'[t] = copy[t] /\ held'[t] = held[t])
        /\ sh'[s] = "over" \/ (sh'[s] = "reply" /\ sh[s] = "edit")
    BY <1>0, <1>2 DEF ShellReply, ShellKilled, Over
  <2>2. \A t \in Shell : Applies(t) => t # s /\ Applies(t)'
    BY <2>1 DEF Applies
  <2>3. StateInv'
    BY <2>1, <2>2 DEF Carried, StateInv, Asks
  <2>4. HasTable'
    BY <2>1 DEF Carried, HasTable
  <2>5. DownInv'
    BY <2>1 DEF Carried, DownInv
  <2>6. UpInv'
    <3>1. rs[s] # "intail"
      BY <1>00, <2>1 DEF StageInv
    <3> QED
      BY <2>1, <2>2, <3>1 DEF Carried, UpInv
  <2>7. Fresh => Fresh'
    BY <2>1 DEF Fresh
  <2> QED
    BY <2>3, <2>4, <2>5, <2>6, <2>7 DEF Carried
\* Nothing is asked of the program, nor on its way to it, when the shell is
\* killed while it sends its table.
<1>3. CASE ShellKilled(s) /\ sh[s] = "sent"
  <2>1. /\ rs[s] \in {"inhead", "intail"} /\ UNCHANGED <<cpstate, rsstate, table, rs, cp, snap>>
        /\ \A t \in Shell : t = s \/ (sh'[t] = sh[t] /\ copy'[t] = copy[t] /\ held'[t] = held[t])
        /\ sh'[s] = "over"
    BY <1>0, <1>3 DEF ShellKilled, Over
  <2>2. cpstate = 2 /\ \A t \in Shell : t = s \/ rs[t] \in {"none", "gone"}
    BY <2>1 DEF Carried, HasTable, Alone, OneShell, RSBusy
  <2>3. rsstate # 1 /\ rsstate # 2
    BY <2>1, <2>2 DEF Carried, StateInv, Asks
  <2>4. \A p \in Prog : cp[p] \notin {"outhead", "outtail"}
    BY <2>1, <2>2 DEF Carried, UpInv
  <2>5. StateInv' /\ HasTable' /\ DownInv'
    BY <2>1, <2>2, <2>3 DEF Carried, StateInv, HasTable, DownInv
  <2>6. UpInv'
    BY <2>1, <2>2, <2>4 DEF UpInv
  <2>7. Fresh => Fresh'
    BY <2>1 DEF Fresh
  <2> QED
    BY <2>5, <2>6, <2>7 DEF Carried
<1> QED
  BY <1>1, <1>2, <1>3 DEF RadarShell

\* A step of its child: it is the only one, so that an exchange is what it
\* makes of it.
LEMMA OperateRSKeeps == ASSUME BaseInv, BaseInv', Alone, Carried, NEW s \in Shell, OperateRS(s), Plain'
                        PROVE  Carried' /\ (odd' = {} /\ Fresh => Fresh')
<1> USE DEF memVars, progVars, histVars, shellVars
<1>0. /\ held \in [Shell -> SUBSET Table] /\ copy \in [Shell -> Table] /\ table \in Table /\ cp \in [Prog -> CPPlace]
      /\ sh \in [Shell -> ShPlace] /\ rs \in [Shell -> RSPlace] /\ cpstate \in 0 .. 2 /\ rsstate \in 0 .. 2
  BY DEF BaseInv, TypeOK, ShPlace, RSPlace, CPPlace
<1>00. \A t \in Table : t = [lay |-> t.lay, lo |-> t.lo, hi |-> t.hi]
  BY DEF Table
<1>01. StageInv
  BY DEF BaseInv
<1>02. RSBusy(s)
  BY <1>0 DEF OperateRS, RSStart, RSAsk, RSLookHasTable, RSLookNoProgram, RSLoadHead, RSLoadTail, RSReply,
       RSReplyNoProgram, RSStoreHead, RSStoreTail, RSApplied, RSBreak, RSEnd, RSAt, RSBusy
\* It is the only one, and what goes on is its doing.
<1>03. \A t \in Shell : t = s \/ rs[t] \in {"none", "gone"}
  BY <1>02 DEF Alone, OneShell, RSBusy
<1>04. /\ rsstate = 1 => Asks(s)
       /\ rsstate = 2 => (rs[s] = "applying" \/ (rs[s] = "end" /\ cpstate # 2)) /\ Applies(s)
  BY <1>03 DEF Carried, StateInv, Asks
<1>05. rs[s] # "wait" \/ cpstate # 1 => \A p \in Prog : cp[p] \notin {"head", "tail"}
  BY <1>03 DEF Carried, DownInv
<1>06. \A p \in Prog : cp[p] \in {"outhead", "outtail"} =>
         /\ cpstate = 1 \/ rs[s] = "applying"
         /\ cpstate # 0
         /\ \E t \in Shell : Applies(t) /\ (cp[p] = "outtail" => snap[p].lo = table.lo)
                             /\ (cpstate = 1 \/ (t = s /\ rs[s] = "applying"))
  BY <1>03 DEF Carried, UpInv, Alone, Seen, Attached
<1>07. \A t \in Shell : t = s \/ sh[t] \notin {"asked", "edit", "reply"}
  BY <1>01, <1>03 DEF StageInv
<1>08. rs[s] \in {"head", "tail", "inhead", "intail"} \/ sh[s] \in {"edit", "reply"} => cpstate = 2
  BY DEF Carried, HasTable
\* Steps that change nothing but the child, and its shell.
<1>09. ASSUME UNCHANGED <<cpstate, table, progVars>>,
              \A t \in Shell : t = s \/ (rs'[t] = rs[t] /\ sh'[t] = sh[t] /\ copy'[t] = copy[t] /\ held'[t] = held[t])
       PROVE  /\ (rs'[s] \in {"head", "tail", "inhead", "intail"} \/ sh'[s] \in {"edit", "reply"} => cpstate = 2) => HasTable'
              /\ (rs[s] # "wait" \/ cpstate # 1) => DownInv'
              /\ cpstate # 1 /\ rs[s] # "applying" /\ rs'[s] # "intail" => UpInv'
              /\ (/\ sh'[s] = "asked" /\ rs'[s] \in {"wait", "head", "tail"} /\ cpstate = 2 => table \in held'[s]
                  /\ sh'[s] = "asked" /\ rs'[s] = "tail" => copy'[s].lay = table.lay /\ copy'[s].lo = table.lo
                  /\ sh'[s] = "edit" => copy'[s] \in held'[s]) => Fresh'
  <2>1. (rs'[s] \in {"head", "tail", "inhead", "intail"} \/ sh'[s] \in {"edit", "reply"} => cpstate = 2) => HasTable'
    BY <1>03, <1>07, <1>09 DEF HasTable
  <2>2. (rs[s] # "wait" \/ cpstate # 1) => DownInv'
    BY <1>05, <1>09 DEF DownInv
  <2>3. cpstate # 1 /\ rs[s] # "applying" /\ rs'[s] # "intail" => UpInv'
    BY <1>03, <1>06, <1>09 DEF UpInv
  <2>4. (/\ sh'[s] = "asked" /\ rs'[s] \in {"wait", "head", "tail"} /\ cpstate = 2 => table \in held'[s]
         /\ sh'[s] = "asked" /\ rs'[s] = "tail" => copy'[s].lay = table.lay /\ copy'[s].lo = table.lo
         /\ sh'[s] = "edit" => copy'[s] \in held'[s]) => Fresh'
    BY <1>07, <1>09 DEF Fresh
  <2> QED
    BY <2>1, <2>2, <2>3, <2>4
<1>1. CASE RSStart(s)
  <2>1. /\ rs[s] = "start" /\ rs' = [rs EXCEPT ![s] = "loop"] /\ rsstate' = 0
        /\ UNCHANGED <<cpstate, table, progVars, sh, copy, held>>
    BY <1>1 DEF RSStart, RSAt
  <2>2. rs'[s] = "loop" /\ \A t \in Shell : t = s \/ rs'[t] = rs[t]
    BY <1>0, <2>1
  <2>3. sh[s] \notin {"edit", "reply"}
    BY <1>01, <2>1 DEF StageInv
  <2>4. StateInv'
    BY <2>1 DEF StateInv
  <2>5. HasTable' /\ DownInv' /\ Fresh'
    BY <1>09, <2>1, <2>2, <2>3
  <2>6. UpInv'
    BY <1>03, <1>06, <2>1, <2>2 DEF UpInv, Applies
  <2> QED
    BY <2>4, <2>5, <2>6 DEF Carried
<1>2. CASE RSAsk(s)
  <2>1. /\ rs[s] = "loop" /\ rs' = [rs EXCEPT ![s] = "wait"] /\ rsstate' = 1 /\ sh[s] = "asked"
        /\ UNCHANGED <<cpstate, table, progVars, sh, copy, held>>
    BY <1>2 DEF RSAsk, RSAt
  <2>2. rs'[s] = "wait" /\ \A t \in Shell : t = s \/ rs'[t] = rs[t]
    BY <1>0, <2>1
  <2>3. odd' = {} => cpstate # 2
    BY <1>2 DEF RSAsk, Oddity
  <2>4. StateInv'
    BY <2>1, <2>2 DEF StateInv, Asks
  <2>5. HasTable' /\ DownInv' /\ (odd' = {} => Fresh')
    BY <1>09, <2>1, <2>2, <2>3
  <2>6. UpInv'
    BY <1>03, <1>06, <2>1, <2>2 DEF UpInv, Applies
  <2> QED
    BY <2>4, <2>5, <2>6 DEF Carried
<1>3. CASE RSLookHasTable(s)
  <2>1. /\ rs[s] = "wait" /\ rs' = [rs EXCEPT ![s] = "head"] /\ cpstate = 2
        /\ UNCHANGED <<cpstate, rsstate, table, progVars, sh, copy, held>>
    BY <1>3 DEF RSLookHasTable, RSAt
  <2>2. rs'[s] = "head" /\ \A t \in Shell : t = s \/ rs'[t] = rs[t]
    BY <1>0, <2>1
  <2>3. StateInv'
    BY <1>04, <2>1, <2>2 DEF StateInv, Asks
  <2>4. HasTable' /\ DownInv' /\ UpInv'
    BY <1>09, <2>1, <2>2
  <2>5. Fresh => Fresh'
    BY <1>09, <2>1, <2>2 DEF Fresh
  <2> QED
    BY <2>3, <2>4, <2>5 DEF Carried
<1>4. CASE RSLookNoProgram(s)
  <2>1. /\ rs[s] = "wait" /\ rs' = [rs EXCEPT ![s] = "end"] /\ cpstate = 0
        /\ UNCHANGED <<cpstate, rsstate, table, progVars>> /\ Over(s)
    BY <1>4 DEF RSLookNoProgram, RSAt
  <2>2. /\ rs'[s] = "end" /\ sh'[s] = "over"
        /\ \A t \in Shell : t = s \/ (rs'[t] = rs[t] /\ sh'[t] = sh[t] /\ copy'[t] = copy[t] /\ held'[t] = held[t])
    BY <1>0, <2>1 DEF Over
  <2>3. StateInv'
    BY <1>04, <2>1, <2>2 DEF StateInv, Asks
  <2>4. HasTable' /\ DownInv' /\ UpInv' /\ Fresh'
    BY <1>09, <2>1, <2>2
  <2> QED
    BY <2>3, <2>4 DEF Carried
<1>5. CASE RSLoadHead(s)
  <2>1. /\ rs[s] = "head" /\ rs' = [rs EXCEPT ![s] = "tail"]
        /\ UNCHANGED <<cpstate, rsstate, table, progVars, sh, held>>
    BY <1>5 DEF RSLoadHead, RSAt
  <2>2. rs'[s] = "tail" /\ \A t \in Shell : t = s \/ (rs'[t] = rs[t] /\ copy'[t] = copy[t])
    BY <1>0, <1>5, <2>1 DEF RSLoadHead
  <2>3. cpstate = 2
    BY <1>08, <2>1
  <2>4. sh[s] = "asked" => copy'[s].lay = table.lay /\ copy'[s].lo = table.lo
    BY <1>0, <1>00, <1>5 DEF RSLoadHead
  <2>5. sh[s] # "edit"
    BY <1>01, <2>1 DEF StageInv
  <2>6. StateInv'
    BY <1>04, <2>1, <2>2, <2>3 DEF StateInv, Asks
  <2>7. HasTable' /\ DownInv' /\ UpInv'
    BY <1>09, <2>1, <2>2, <2>3
  <2>8. Fresh => Fresh'
    BY <1>09, <2>1, <2>2, <2>3, <2>4, <2>5 DEF Fresh
  <2> QED
    BY <2>6, <2>7, <2>8 DEF Carried
<1>6. CASE RSLoadTail(s)
  <2>1. /\ rs[s] = "tail" /\ rs' = [rs EXCEPT ![s] = "loop"] /\ rsstate' = 0
        /\ UNCHANGED <<cpstate, table, progVars, held>>
    BY <1>6 DEF RSLoadTail, RSAt
  <2>2. rs'[s] = "loop" /\ \A t \in Shell : t = s \/ (rs'[t] = rs[t] /\ sh'[t] = sh[t] /\ copy'[t] = copy[t])
    BY <1>0, <1>6, <2>1 DEF RSLoadTail
  <2>3. cpstate = 2
    BY <1>08, <2>1
  <2>4. sh[s] \notin {"edit", "reply"}
    BY <1>01, <2>1 DEF StageInv
  <2>5. sh'[s] = "edit" => sh[s] = "asked" /\ copy'[s].lay = copy[s].lay /\ copy'[s].lo = copy[s].lo /\ copy'[s].hi = table.hi
    BY <1>0, <1>00, <1>6, <2>4 DEF RSLoadTail
  <2>6. copy' \in [Shell -> Table]
    BY DEF BaseInv, TypeOK
  <2>7. ASSUME Fresh, sh'[s] = "edit" PROVE copy'[s] = table
    <3>1. copy'[s].lay = table.lay /\ copy'[s].lo = table.lo /\ copy'[s].hi = table.hi
      BY <2>1, <2>5, <2>7 DEF Fresh
    <3>2. copy'[s] \in Table
      BY <2>6
    <3> QED
      BY ONLY <1>0, <1>00, <3>1, <3>2
  <2>8. sh'[s] \in {sh[s], "edit"}
    BY <1>0, <1>6 DEF RSLoadTail
  <2>9. StateInv'
    BY <2>1 DEF StateInv
  <2>10. HasTable' /\ DownInv' /\ UpInv'
    BY <1>09, <2>1, <2>2, <2>3
  <2>11. ASSUME Fresh PROVE Fresh'
    <3>1. sh'[s] = "edit" => table \in held[s]
      BY <2>1, <2>3, <2>5, <2>11 DEF Fresh
    <3> QED
      BY <1>09, <2>1, <2>2, <2>3, <2>7, <2>11, <3>1
  <2> QED
    BY <2>9, <2>10, <2>11 DEF Carried
<1>7. CASE RSReply(s)
  <2>1. /\ rs[s] = "loop" /\ rs' = [rs EXCEPT ![s] = "inhead"] /\ sh[s] = "reply"
        /\ UNCHANGED <<cpstate, rsstate, table, progVars, copy, held>>
    BY <1>7 DEF RSReply, RSAt
  <2>2. rs'[s] = "inhead" /\ sh'[s] = "sent" /\ \A t \in Shell : t = s \/ (rs'[t] = rs[t] /\ sh'[t] = sh[t])
    BY <1>0, <1>7, <2>1 DEF RSReply
  <2>3. cpstate = 2
    BY <1>08, <2>1
  <2>4. StateInv'
    BY <1>04, <2>1 DEF StateInv, Asks
  <2>5. HasTable' /\ DownInv' /\ UpInv' /\ Fresh'
    BY <1>09, <2>1, <2>2, <2>3
  <2> QED
    BY <2>4, <2>5 DEF Carried
<1>8. CASE RSReplyNoProgram(s)
  BY <1>8, <1>08 DEF RSReplyNoProgram
<1>9. CASE RSStoreHead(s)
  <2>1. /\ rs[s] = "inhead" /\ rs' = [rs EXCEPT ![s] = "intail"] /\ sh[s] = "sent"
        /\ UNCHANGED <<cpstate, rsstate, progVars, sh, copy, held>>
    BY <1>9 DEF RSStoreHead, RSAt
  <2>2. rs'[s] = "intail" /\ (\A t \in Shell : t = s \/ rs'[t] = rs[t]) /\ table'.lo = copy[s].lo
    BY <1>0, <1>00, <1>9, <2>1 DEF RSStoreHead
  <2>3. cpstate = 2
    BY <1>08, <2>1
  <2>4. StateInv'
    BY <1>04, <2>1 DEF StateInv, Asks
  <2>5. HasTable'
    BY <2>1, <2>3 DEF HasTable
  <2>6. DownInv'
    BY <1>05, <2>1 DEF DownInv
  <2>7. UpInv'
    BY <1>03, <1>06, <2>1, <2>2, <2>3 DEF UpInv
  <2>8. Fresh'
    BY <1>07, <2>1 DEF Fresh
  <2> QED
    BY <2>4, <2>5, <2>6, <2>7, <2>8 DEF Carried
<1>10. CASE RSStoreTail(s)
  <2>1. /\ rs[s] = "intail" /\ rs' = [rs EXCEPT ![s] = "applying"] /\ rsstate' = 2
        /\ UNCHANGED <<cpstate, progVars, sh, copy, held>>
    BY <1>10 DEF RSStoreTail, RSAt
  <2>2. rs'[s] = "applying" /\ (\A t \in Shell : t = s \/ rs'[t] = rs[t]) /\ table'.lo = table.lo /\ table'.hi = copy[s].hi
    BY <1>0, <1>00, <1>10, <2>1 DEF RSStoreTail
  <2>3. cpstate = 2
    BY <1>08, <2>1
  <2>4. sh[s] = "sent" /\ table.lo = copy[s].lo
    BY <1>10, <2>1 DEF RSStoreTail, Carried, UpInv
  <2>5. StateInv'
    BY <2>1, <2>2, <2>4 DEF StateInv, Applies
  <2>6. HasTable'
    BY <2>1, <2>3 DEF HasTable
  <2>7. DownInv'
    BY <1>05, <2>1 DEF DownInv
  <2>8. UpInv'
    BY <1>03, <1>06, <2>1, <2>2, <2>3 DEF UpInv
  <2>9. Fresh'
    BY <1>07, <2>1, <2>4 DEF Fresh
  <2> QED
    BY <2>5, <2>6, <2>7, <2>8, <2>9 DEF Carried
<1>11. CASE RSApplied(s)
  <2>1. /\ rs[s] = "applying" /\ rs' = [rs EXCEPT ![s] = "end"] /\ cpstate # 2
        /\ UNCHANGED <<cpstate, rsstate, table, progVars, sh, copy, held>>
    BY <1>11 DEF RSApplied, RSAt
  <2>2. rs'[s] = "end" /\ \A t \in Shell : t = s \/ rs'[t] = rs[t]
    BY <1>0, <2>1
  <2>3. sh[s] \notin {"asked", "edit", "reply"}
    BY <1>01, <2>1 DEF StageInv
  <2>4. StateInv'
    BY <1>04, <2>1, <2>2 DEF StateInv, Asks, Applies
  <2>5. HasTable' /\ DownInv' /\ Fresh'
    BY <1>09, <2>1, <2>2, <2>3
  <2>6. \A p \in Prog : cp[p] \in {"outhead", "outtail"} => cpstate = 1
    BY <1>0, <1>06, <2>1
  <2>7. UpInv'
    BY <1>03, <1>06, <2>1, <2>2, <2>6 DEF UpInv, Applies
  <2> QED
    BY <2>4, <2>5, <2>7 DEF Carried
<1>12. CASE RSBreak(s)
  <2>1. /\ rs[s] \in {"loop", "head", "tail", "inhead", "intail"} /\ rs' = [rs EXCEPT ![s] = "end"] /\ sh[s] = "over"
        /\ UNCHANGED <<cpstate, rsstate, table, progVars, sh, copy, held>>
    BY <1>12 DEF RSBreak
  <2>2. rs'[s] = "end" /\ \A t \in Shell : t = s \/ rs'[t] = rs[t]
    BY <1>0, <2>1
  <2>3. StateInv'
    BY <1>04, <2>1, <2>2 DEF StateInv, Asks
  <2>4. HasTable' /\ DownInv' /\ Fresh'
    BY <1>09, <2>1, <2>2
  <2>5. UpInv'
    BY <1>03, <1>06, <2>1, <2>2 DEF UpInv, Applies
  <2> QED
    BY <2>3, <2>4, <2>5 DEF Carried
<1>13. CASE RSEnd(s)
  <2>1. /\ rs[s] = "end" /\ rs' = [rs EXCEPT ![s] = "gone"] /\ rsstate' = 0
        /\ UNCHANGED <<cpstate, table, progVars, sh, copy, held>>
    BY <1>13 DEF RSEnd, RSAt
  <2>2. rs'[s] = "gone" /\ \A t \in Shell : t = s \/ rs'[t] = rs[t]
    BY <1>0, <2>1
  <2>3. sh[s] \notin {"asked", "edit", "reply"}
    BY <1>01, <2>1 DEF StageInv
  <2>4. StateInv'
    BY <2>1 DEF StateInv
  <2>5. HasTable' /\ DownInv' /\ Fresh'
    BY <1>09, <2>1, <2>2, <2>3
  <2>6. UpInv'
    BY <1>03, <1>06, <2>1, <2>2 DEF UpInv, Applies
  <2> QED
    BY <2>4, <2>5, <2>6 DEF Carried
<1> QED
  BY <1>1, <1>2, <1>3, <1>4, <1>5, <1>6, <1>7, <1>8, <1>9, <1>10, <1>11, <1>12, <1>13 DEF OperateRS

-----------------------------------------------------------------------------
(* The theorems.                                                           *)

\* The invariant holds at first.
LEMMA InitHolds == ASSUME Init PROVE IInv
<1>1. BaseInv
  BY InitBase
<1>2. Alone
  BY DEF Init, Alone, OneShell, OneProg, Seen, RSBusy, Attached
<1>3. Carried /\ Fresh
  BY DEF Init, Carried, StateInv, HasTable, DownInv, UpInv, Fresh
<1> QED
  BY <1>1, <1>2, <1>3 DEF IInv, PlainInv, FreshInv

\* With the last trace of an exchange every exception is over.
LEMMA Reset == ASSUME BaseInv, BaseInv', NEW s \in Shell, RSEnd(s), LastTrace(s)
               PROVE  (Alone /\ Carried /\ Fresh)'
<1>0. cp \in [Prog -> CPPlace] /\ rs \in [Shell -> RSPlace]
  BY DEF BaseInv, TypeOK, CPPlace, RSPlace
<1>1. /\ rs' = [rs EXCEPT ![s] = "gone"] /\ rsstate' = 0 /\ UNCHANGED <<cpstate, cp>>
  BY DEF RSEnd, RSAt, progVars
<1>2. \A t \in Shell : rs'[t] \in {"none", "gone"}
  BY <1>0, <1>1 DEF LastTrace, RSBusy
<1>3. \A p \in Prog : cp'[p] \notin {"head", "tail", "outhead", "outtail"}
  BY <1>1 DEF LastTrace
<1>4. (\A t \in Shell : ~RSBusy(t))'
  BY <1>2 DEF RSBusy
<1>5. \A p \in Prog : Attached(p)' => cp[p] = "poll"
  BY <1>1 DEF LastTrace, Attached
<1>6. Alone'
  BY <1>1, <1>4, <1>5 DEF Alone, OneShell, OneProg, Seen, LastTrace
<1> QED
  BY <1>1, <1>3, <1>4, <1>6, Quiet DEF BaseInv

\* Every step keeps it.
LEMMA StepHolds == ASSUME IInv, [Next]_vars PROVE IInv'
<1>0. BaseInv /\ BaseInv' /\ PlainInv /\ FreshInv
  BY BaseKept DEF IInv
<1>1. CASE UNCHANGED vars
  <2>1. PlainInv'
    BY <1>0, <1>1 DEF vars, memVars, progVars, shellVars, histVars, PlainInv, Plain, Alone, OneShell, OneProg, Seen,
         Carried, StateInv, HasTable, DownInv, UpInv, RSBusy, Attached, Asks, Applies
  <2>2. FreshInv'
    BY <1>0, <1>1 DEF vars, memVars, progVars, shellVars, histVars, FreshInv, Fresh
  <2> QED
    BY <1>0, <2>1, <2>2 DEF IInv
<1>2. CASE Next /\ odd \subseteq odd'
  <2>1. ASSUME Plain' PROVE Alone' /\ Carried' /\ (odd' = {} => Fresh')
    <3>1. Alone /\ Carried
      BY <1>0, <1>2, <2>1 DEF PlainInv, Plain
    <3>2. odd' = {} => Fresh
      BY <1>0, <1>2 DEF FreshInv
    <3>3. Alone'
      BY <1>0, <1>2, <2>1, <3>1, AloneKept DEF BaseInv
    <3>4. CASE \E p \in Prog : ControlProgram(p) \/ OperateCP(p)
      BY <1>0, <2>1, <3>1, <3>2, <3>3, <3>4, ProgramKeeps, OperateCPKeeps
    <3>5. CASE \E s \in Shell : RadarShell(s) \/ OperateRS(s)
      BY <1>0, <2>1, <3>1, <3>2, <3>3, <3>5, ShellKeeps, OperateRSKeeps
    <3>6. CASE AllOver
      BY <1>0, <3>1, <3>2, <3>3, <3>6, Frame DEF AllOver, vars, memVars, progVars, shellVars, histVars
    <3> QED
      BY <1>2, <3>4, <3>5, <3>6 DEF Next
  <2> QED
    BY <1>0, <2>1 DEF IInv, PlainInv, FreshInv, Plain
<1>3. CASE \E s \in Shell : RSEnd(s) /\ LastTrace(s)
  BY <1>0, <1>3, Reset DEF IInv, PlainInv, FreshInv
<1> QED
  BY <1>1, <1>2, <1>3, Remembered

\* It holds in every state.
LEMMA Invariant == Spec => []IInv
<1>1. Init => IInv
  BY InitHolds
<1>2. IInv /\ [Next]_vars => IInv'
  BY StepHolds
<1> QED
  BY <1>1, <1>2, PTL DEF Spec

\* A radar shell is given the variables as one control program had them at one
\* moment since it asked (shellserver.c:94-109, 153-176).
THEOREM DownloadFreshHolds == Spec => []DownloadFresh
<1>1. IInv => DownloadFresh
  BY DEF IInv, FreshInv, Fresh, DownloadFresh
<1> QED
  BY <1>1, Invariant, PTL

\* What a step that changes the variables of a program gives them.
Whole ==
  odd \subseteq {"left"} =>
    \A p \in Prog : prog[p] = "take" /\ val'[p] # val[p] =>
      \E s \in Shell : sh[s] \in {"sent", "taken"} /\ val'[p] = Upload(s)

\* Only CPOutTail gives a program a table, which UpInv knows for an upload.
LEMMA WholeStep == ASSUME IInv, [Next]_vars PROVE Whole
<1> USE DEF memVars, progVars, shellVars, histVars
<1>0. val \in [Prog -> [lo : Var, hi : Var]]
  BY DEF IInv, BaseInv, TypeOK
<1> SUFFICES ASSUME odd \subseteq {"left"}, NEW p \in Prog, prog[p] = "take", val'[p] # val[p]
             PROVE  \E s \in Shell : sh[s] \in {"sent", "taken"} /\ val'[p] = Upload(s)
  BY DEF Whole
<1>1. Carried
  BY DEF IInv, PlainInv, Plain
<1>2. CPOutTail(p)
  <2>1. ASSUME NEW q \in Prog, ControlProgram(q) PROVE FALSE
    BY <1>0, <2>1 DEF ControlProgram, ProgStart, Change, ProgEnd
  <2>2. ASSUME NEW q \in Prog, OperateCP(q) PROVE CPOutTail(p)
    <3>1. CASE CPOutTail(q)
      <4>1. val' = val \/ \E v : val' = [val EXCEPT ![q] = v]
        BY <3>1 DEF CPOutTail
      <4>2. q = p
        BY <1>0, <4>1
      <4> QED
        BY <3>1, <4>2
    <3> QED
      BY <2>2, <3>1 DEF OperateCP, CPStart, Ignore, Send, Reply, Answer, CPStoreHead, CPStoreTail, CPOutHead, CPBreak, CPEnd
  <2>3. ASSUME NEW s \in Shell, RadarShell(s) PROVE FALSE
    BY <2>3 DEF RadarShell, ShellStart, ShellReply, ShellKilled
  <2>4. ASSUME NEW s \in Shell, OperateRS(s) PROVE FALSE
    BY <2>4 DEF OperateRS, RSStart, RSAsk, RSLookHasTable, RSLookNoProgram, RSLoadHead, RSLoadTail, RSReply,
       RSReplyNoProgram, RSStoreHead, RSStoreTail, RSApplied, RSBreak, RSEnd
  <2> QED
    BY <2>1, <2>2, <2>3, <2>4 DEF Next, AllOver, vars
<1>3. val'[p] = [lo |-> snap[p].lo, hi |-> table.hi]
  BY <1>0, <1>2 DEF CPOutTail
<1>4. PICK s \in Shell : Applies(s) /\ snap[p].lo = table.lo
  BY <1>1, <1>2 DEF CPOutTail, CPAt, Carried, UpInv
<1> QED
  BY <1>3, <1>4 DEF Applies, Upload

\* The values a control program takes over are all those of one upload
\* (shellserver.c:110-123, 184-200).
THEOREM UploadWholeHolds == Spec => UploadWhole
<1>1. IInv /\ [Next]_vars => [Whole]_vars
  BY WholeStep
<1>2. Spec => [][Whole]_vars
  BY <1>1, Invariant, PTL DEF Spec
<1> QED
  BY <1>2 DEF UploadWhole, Whole
=============================================================================
