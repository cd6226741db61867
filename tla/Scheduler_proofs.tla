--------------------------- MODULE Scheduler_proofs ---------------------------
(***************************************************************************)
(* What holds of the scheduler for every schedule file, every set of       *)
(* process numbers and every order in which programs end, signals arrive   *)
(* and the file is edited.                                                 *)
(***************************************************************************)
EXTENDS Scheduler, SequenceTheorems, FunctionTheorems, FiniteSetTheorems, TLAPS

\* Where check_program() is at work, with the entry chk.
CheckPC == {"check", "stop", "call", "wait", "waited", "disarm", "start", "default", "assign"}

\* Elsewhere its argument is forgotten: the table may change under it.
ChkForgotten == pc \notin CheckPC => chk = 1

TypeInv == TypeOK /\ ChkForgotten
-----------------------------------------------------------------------------
(* The schedule.                                                           *)

(***************************************************************************)
(* A file that has a default line gives a table that is neither empty nor  *)
(* larger than SCHED_MAX_ENTRIES (load_schedule.c:81-126).                 *)
(***************************************************************************)
LEMMA SortingsType ==
  ASSUME NEW f \in Files, Loadable(f), NEW e \in Sortings(f)
  PROVE  e \in Seq(Line) /\ Len(e) \in 1 .. MaxEntries
<1>1. /\ f \in Seq(Line) /\ Len(f) \in Nat /\ f \in Seq([stime : Nat \cup {-1}, cmd : STRING])
      /\ DOMAIN f = 1 .. Len(f)
  <2>1. f \in Seq([stime : Nat \cup {-1}, cmd : STRING])
    BY SchedulerAssumption DEF SchedulerAssumption
  <2>2. Len(f) \in Nat /\ DOMAIN f = 1 .. Len(f)
    BY <2>1, LenProperties
  <2>3. \A i \in 1 .. Len(f) : f[i] \in Line
    BY <2>2 DEF Line
  <2>4. f = [i \in 1 .. Len(f) |-> f[i]]
    BY <2>1, <2>2
  <2>5. f \in Seq(Line)
    BY <2>2, <2>3, <2>4, IsASeq
  <2> QED
    BY <2>1, <2>2, <2>5
<1> DEFINE m == IF Len(f) < MaxEntries THEN Len(f) ELSE MaxEntries
<1>2. m \in 0 .. Len(f) /\ m <= MaxEntries /\ MaxEntries \in Nat
  BY <1>1, SchedulerAssumption DEF SchedulerAssumption
<1>3. /\ Kept(f) \in Seq(Line) /\ Len(Kept(f)) = m
  <2> HIDE DEF m
  <2>1. m \in 1 - 1 .. Len(f) /\ 1 \in 1 .. Len(f) + 1
    BY <1>1, <1>2
  <2>2. SubSeq(f, 1, m) \in Seq(Line) /\ Len(SubSeq(f, 1, m)) = IF 1 <= m THEN m - 1 + 1 ELSE 0
    BY <1>1, <2>1, SubSeqProperties
  <2> QED
    BY <1>1, <1>2, <2>2 DEF Kept, m
<1> HIDE DEF m
<1>4. DOMAIN Kept(f) = 1 .. m /\ \A i \in 1 .. m : Kept(f)[i] \in Line
  BY <1>3, LenProperties, ElementOfSeq
<1>5. m # 0
  BY <1>1, <1>2, <1>4 DEF Loadable
<1>6. PICK p \in [1 .. m -> 1 .. m] : e = [i \in 1 .. m |-> Kept(f)[p[i]]]
  BY <1>4 DEF Sortings
<1>7. \A i \in 1 .. m : Kept(f)[p[i]] \in Line
  BY <1>4
<1>8. m \in Nat /\ m \in 1 .. MaxEntries
  BY <1>1, <1>2, <1>5
<1> QED
  BY <1>6, <1>7, <1>8, IsASeq

(***************************************************************************)
(* set_schedule() counts no more entries than there are                    *)
(* (set_schedule.c:21-30).                                                 *)
(***************************************************************************)
LEMMA DueCountType ==
  ASSUME NEW e, e \in Seq(Line), NEW t
  PROVE  DueCount(e, t) \in 0 .. Len(e)
<1>1. Len(e) \in Nat /\ DOMAIN e = 1 .. Len(e)
  BY LenProperties
<1>2. IsFiniteSet(1 .. Len(e)) /\ Cardinality(1 .. Len(e)) = Len(e)
  BY <1>1, FS_Interval
<1> DEFINE D == {i \in DOMAIN e : e[i].stime <= t}
<1>3. D \subseteq 1 .. Len(e)
  BY <1>1
<1> HIDE DEF D
<1>4. IsFiniteSet(D) /\ Cardinality(D) <= Len(e)
  BY <1>2, <1>3, FS_Subset
<1>5. Cardinality(D) \in Nat
  BY <1>4, FS_CardinalityType
<1> QED
  BY <1>1, <1>4, <1>5 DEF DueCount, D

\* test_refresh(): the interval of the day the clock is in.
LEMMA BoundaryType ==
  ASSUME TypeOK
  PROVE  Boundary \in 0 .. MaxTime
<1>1. now \in Nat /\ now <= MaxTime /\ Day \in Nat \ {0} /\ Refresh \in Nat \ {0}
      /\ MaxTime \in Nat
  BY SchedulerAssumption DEF SchedulerAssumption, TypeOK
<1> DEFINE s == now % Day
<1>2. s \in Nat /\ s <= now
  BY <1>1
<1> HIDE DEF s
<1>3. s \div Refresh \in Nat /\ s \div Refresh <= s
  BY <1>1, <1>2
<1> QED
  BY <1>1, <1>2, <1>3 DEF Boundary, s
-----------------------------------------------------------------------------
(* Types.                                                                  *)

LEMMA InitTypes == Init => TypeInv
<1> SUFFICES ASSUME Init PROVE TypeInv
  OBVIOUS
<1> USE SchedulerAssumption DEF SchedulerAssumption
<1>1. file \in Files /\ entry \in Seq(Line) /\ Len(entry) \in 1 .. MaxEntries
  BY SortingsType DEF Init
<1>2. cnt \in 0 .. Len(entry)
  BY <1>1, DueCountType DEF Init
<1>3. chk \in 1 .. Len(entry)
  BY <1>1, <1>2 DEF Init, AtLeastFirst
<1>4. ChkForgotten
  BY DEF Init, ChkForgotten, CheckPC
<1>5. /\ now \in 0 .. MaxTime /\ mtime \in 0 .. MaxTime
      /\ tval \in -1 .. MaxTime /\ then \in -1 .. MaxTime
      /\ nstat \in 0 .. MaxTime /\ seen \in 0 .. MaxTime /\ readAt \in 0 .. MaxTime
      /\ forkFails \in 0 .. MaxForkFail
  BY DEF Init
<1>6. /\ command \in Cmd \cup {"Null"}
      /\ {pid, savepid, target, newpid} \subseteq Pid \cup {NoPid}
      /\ proc \in [Pid -> {"free", "alive", "zombie"}]
      /\ prog \in [Pid -> Cmd \cup {"Null"}]
  BY DEF Init
<1>7. /\ sigchld \in BOOLEAN /\ armed \in BOOLEAN /\ resetflg \in BOOLEAN
      /\ pc \in PC /\ ret \in {"loop", "refresh", "test", "advance"}
      /\ excuse \subseteq {"missing", "slip", "fallback", "startup", "unreadable", "expired"}
  BY DEF Init, PC
<1> QED
  BY <1>1, <1>2, <1>3, <1>4, <1>5, <1>6, <1>7 DEF TypeInv, TypeOK

LEMMA EnvironmentKeepsTypes ==
  ASSUME TypeInv, Environment \/ ChildHandler
  PROVE  TypeInv'
<1> USE SchedulerAssumption
    DEF SchedulerAssumption, TypeInv, TypeOK, ChkForgotten, CheckPC, PC,
        fileVars, refreshVars, schedVars, progVars, procVars, timerVars,
        callVars, histVars
<1>1. CASE Tick
  BY <1>1 DEF Tick
<1>2. CASE Alarm
  BY <1>2 DEF Alarm
<1>3. CASE \E f \in Files \cup {NoFile} : Edit(f)
  BY <1>3 DEF Edit
<1>4. CASE \E p \in Pid : Exit(p)
  BY <1>4 DEF Exit
<1>5. CASE ChildHandler
  <2>1. proc' \in [Pid -> {"free", "alive", "zombie"}]
    <3>1. \/ proc' = proc
          \/ \E p \in Pid : proc' = [proc EXCEPT ![p] = "free"]
      BY <1>5 DEF ChildHandler
    <3> QED
      BY <3>1
  <2>2. /\ UNCHANGED <<now, fileVars, refreshVars, schedVars, command, savepid,
                       prog, forkFails, timerVars, pc, callVars, histVars>>
        /\ pid' = NoPid /\ sigchld' = FALSE
    BY <1>5 DEF ChildHandler
  <2> HIDE <1>5, SchedulerAssumption DEF SchedulerAssumption
  <2>3. {pid', savepid', target', newpid'} \subseteq Pid \cup {NoPid}
    BY <2>2
  <2>4. /\ entry' \in Seq(Line) /\ Len(entry') \in 1 .. MaxEntries
        /\ cnt' \in 0 .. Len(entry') /\ chk' \in 1 .. Len(entry')
        /\ prog' \in [Pid -> Cmd \cup {"Null"}]
    BY <2>2
  <2>5. ChkForgotten'
    BY <2>2
  <2>6. /\ now' \in 0 .. MaxTime
        /\ file' \in Files \cup {NoFile} /\ mtime' \in 0 .. MaxTime
        /\ tval' \in -1 .. MaxTime /\ then' \in -1 .. MaxTime
        /\ command' \in Cmd \cup {"Null"}
        /\ forkFails' \in 0 .. MaxForkFail
        /\ nstat' \in 0 .. MaxTime /\ seen' \in 0 .. MaxTime /\ readAt' \in 0 .. MaxTime
    BY <2>2
  <2>7. /\ sigchld' \in BOOLEAN /\ armed' \in BOOLEAN /\ resetflg' \in BOOLEAN
        /\ pc' \in PC /\ ret' \in {"loop", "refresh", "test", "advance"}
        /\ excuse' \subseteq {"missing", "slip", "fallback", "startup", "unreadable", "expired"}
    BY <2>2
  <2> HIDE <2>2 DEF ChkForgotten, PC, CheckPC
  <2> QED
    BY <2>1, <2>3, <2>4, <2>5, <2>6, <2>7
<1> QED
  BY <1>1, <1>2, <1>3, <1>4, <1>5 DEF Environment

LEMMA CheckProgramKeepsTypes ==
  ASSUME TypeInv, CheckProgram
  PROVE  TypeInv'
<1> USE SchedulerAssumption
    DEF SchedulerAssumption, TypeInv, TypeOK, ChkForgotten, CheckPC, PC,
        CheckFrame, Goto, Return,
        fileVars, refreshVars, schedVars, progVars, procVars, timerVars, callVars
<1>1. CASE CheckRunning
  BY <1>1 DEF CheckRunning
<1>2. CASE CheckMissing
  BY <1>2 DEF CheckMissing
<1>3. CASE CheckReplace
  BY <1>3 DEF CheckReplace
<1>4. CASE Terminate \/ EnterWait
  BY <1>4 DEF Terminate, EnterWait
<1>5. CASE Wait
  BY <1>5 DEF Wait, WaitedFor, Unreaped
<1>6. CASE ForceEnd
  BY <1>6 DEF ForceEnd
<1>7. CASE Disarm
  BY <1>7 DEF Disarm
<1>8. \A i \in 1 .. Len(entry) : entry[i].cmd \in Cmd
  <2>1. \A i \in 1 .. Len(entry) : entry[i] \in Line
    BY ElementOfSeq
  <2> QED
    BY <2>1 DEF Cmd
<1>9. chk \in 1 .. Len(entry) /\ 1 \in 1 .. Len(entry)
  OBVIOUS
<1>10. CASE \E p \in Pid : Start(p)
  BY <1>8, <1>9, <1>10 DEF Start, Fork, Due
<1>11. CASE \E p \in Pid : StartDefault(p)
  BY <1>8, <1>9, <1>11 DEF StartDefault, Fork
<1>12. CASE StartFails
  BY <1>12 DEF StartFails, ForkFails
<1>13. CASE DefaultFails
  BY <1>13 DEF DefaultFails, ForkFails
<1>14. CASE Assign
  BY <1>8, <1>9, <1>14 DEF Assign, Due
<1> QED
  BY <1>1, <1>2, <1>3, <1>4, <1>5, <1>6, <1>7, <1>10, <1>11, <1>12, <1>13,
     <1>14 DEF CheckProgram

LEMMA LoopKeepsTypes ==
  ASSUME TypeInv,
         \/ TestDied \/ RefreshNoFile \/ TestRefresh \/ Settle
         \/ LoadNoFile \/ Load \/ LoadFails \/ Restore
         \/ SetSchedule \/ TestSchedule \/ Advance \/ Wake
  PROVE  TypeInv'
<1> USE SchedulerAssumption
    DEF SchedulerAssumption, TypeInv, TypeOK, ChkForgotten, CheckPC, PC,
        LoopFrame, fileVars, refreshVars, schedVars, progVars, procVars,
        timerVars, callVars, histVars
<1>1. CASE TestDied
  BY <1>1 DEF TestDied, Check, AtLeastFirst
<1>2. CASE RefreshNoFile
  BY <1>2 DEF RefreshNoFile
<1>3. CASE TestRefresh
  BY <1>3, BoundaryType DEF TestRefresh
<1>4. CASE Settle
  BY <1>4 DEF Settle
<1>5. CASE LoadNoFile
  BY <1>5 DEF LoadNoFile
<1>6. CASE Load
  <2>1. entry' \in Seq(Line) /\ Len(entry') \in 1 .. MaxEntries
    BY <1>6, SortingsType DEF Load
  <2> QED
    BY <1>6, <2>1 DEF Load
<1>7. CASE LoadFails
  BY <1>7 DEF LoadFails
<1>8. CASE Restore
  BY <1>8 DEF Restore
<1>9. DueCount(entry, now) \in 0 .. Len(entry)
  BY DueCountType
<1>10. CASE SetSchedule
  BY <1>9, <1>10 DEF SetSchedule, Check, AtLeastFirst
<1>11. CASE TestSchedule
  BY <1>11 DEF TestSchedule, Check, AtLeastFirst
<1>12. CASE Advance
  BY <1>9, <1>12 DEF Advance
<1>13. CASE Wake
  BY <1>13 DEF Wake
<1> QED
  BY <1>1, <1>2, <1>3, <1>4, <1>5, <1>6, <1>7, <1>8, <1>10, <1>11, <1>12, <1>13

LEMMA NextTypes == TypeInv /\ [Next]_vars => TypeInv'
<1> SUFFICES ASSUME TypeInv, [Next]_vars PROVE TypeInv'
  OBVIOUS
<1>1. CASE UNCHANGED vars
  BY <1>1 DEF vars, fileVars, refreshVars, schedVars, progVars, procVars,
     timerVars, callVars, histVars, TypeInv, TypeOK, ChkForgotten
<1>2. CASE Environment \/ ChildHandler
  BY <1>2, EnvironmentKeepsTypes
<1>3. CASE Main
  BY <1>3, CheckProgramKeepsTypes, LoopKeepsTypes DEF Main
<1> QED
  BY <1>1, <1>2, <1>3 DEF Next

(***************************************************************************)
(* For every schedule and every table size: the table always has an entry, *)
(* and the entries counted due and the entry being checked are in it, also *)
(* while a shorter file replaces a longer one (schedule.c:141-178,         *)
(* check_program.c:39-48).                                                 *)
(***************************************************************************)
THEOREM TypeCorrect == Spec => []TypeOK
<1>1. TypeInv => TypeOK
  BY DEF TypeInv
<1> QED
  BY <1>1, InitTypes, NextTypes, PTL DEF Spec
-----------------------------------------------------------------------------
(* One program at a time.                                                  *)

Alive(p) == proc[p] = "alive"
NoneAlive == \A p \in Pid : ~Alive(p)

(***************************************************************************)
(* Why no program is lost, place by place in the loop: the one that is     *)
(* alive is the one of schedule.pid, or of fork() just now; SIGCHLD is     *)
(* pending only when none is alive, so that the handler may forget pid;    *)
(* terminate() waits for the one that is alive, if any, and gives it up    *)
(* only to kill it; while a failed load is being undone, the copy of the   *)
(* block names it too.                                                     *)
(***************************************************************************)
OneProgram ==
  /\ \A p \in Pid : Alive(p) => IF pc = "assign" THEN newpid = p ELSE pid = p
  /\ sigchld => NoneAlive
  /\ pc \in {"disarm", "start", "default"} => NoneAlive
  /\ pc \in {"call", "wait", "waited"} => \A p \in Pid : Alive(p) => target = p
  /\ pc = "waited" => NoneAlive \/ resetflg
  /\ pc = "restore" => \A p \in Pid : Alive(p) => savepid = p

LEMMA InitOneProgram == Init => OneProgram
  BY DEF Init, OneProgram, NoneAlive, Alive

LEMMA EnvironmentKeepsOneProgram ==
  ASSUME TypeInv, OneProgram, Environment \/ ChildHandler
  PROVE  OneProgram'
<1> USE DEF TypeInv, TypeOK, OneProgram, NoneAlive, Alive, fileVars, refreshVars,
    schedVars, progVars, procVars, timerVars, callVars, histVars
<1>1. CASE Tick
  BY <1>1 DEF Tick
<1>2. CASE Alarm
  BY <1>2 DEF Alarm
<1>3. CASE \E f \in Files \cup {NoFile} : Edit(f)
  BY <1>3 DEF Edit
<1>4. CASE \E p \in Pid : Exit(p)
  BY <1>4 DEF Exit
<1>5. CASE ChildHandler
  BY <1>5 DEF ChildHandler
<1> QED
  BY <1>1, <1>2, <1>3, <1>4, <1>5 DEF Environment

LEMMA CheckProgramKeepsOneProgram ==
  ASSUME TypeInv, OneProgram, CheckProgram
  PROVE  OneProgram'
<1> USE SchedulerAssumption
    DEF SchedulerAssumption, TypeInv, TypeOK, OneProgram, NoneAlive, Alive,
        CheckFrame, Goto, Return, procVars, timerVars
<1>1. CASE CheckRunning
  BY <1>1 DEF CheckRunning
<1>2. CASE CheckMissing
  BY <1>2 DEF CheckMissing
<1>3. CASE CheckReplace
  BY <1>3 DEF CheckReplace
<1>4. CASE Terminate \/ EnterWait
  BY <1>4 DEF Terminate, EnterWait
<1>5. CASE Wait
  BY <1>5 DEF Wait, WaitedFor, Unreaped
<1>6. CASE ForceEnd
  BY <1>6 DEF ForceEnd, WaitedFor, Unreaped
<1>7. CASE Disarm
  BY <1>7 DEF Disarm
<1>8. CASE \E p \in Pid : Start(p) \/ StartDefault(p)
  BY <1>8 DEF Start, StartDefault, Fork
<1>9. CASE StartFails \/ DefaultFails
  BY <1>9 DEF StartFails, DefaultFails, ForkFails
<1>10. CASE Assign
  BY <1>10 DEF Assign
<1> QED
  BY <1>1, <1>2, <1>3, <1>4, <1>5, <1>6, <1>7, <1>8, <1>9, <1>10 DEF CheckProgram

LEMMA LoopKeepsOneProgram ==
  ASSUME TypeInv, OneProgram,
         \/ TestDied \/ RefreshNoFile \/ TestRefresh \/ Settle
         \/ LoadNoFile \/ Load \/ LoadFails \/ Restore
         \/ SetSchedule \/ TestSchedule \/ Advance \/ Wake
  PROVE  OneProgram'
<1> USE DEF OneProgram, NoneAlive, Alive, LoopFrame, procVars, timerVars, progVars
<1>1. CASE Restore
  BY <1>1 DEF Restore
<1>2. CASE LoadFails
  BY <1>2 DEF LoadFails
<1>3. CASE ~Restore /\ ~LoadFails
  <2>1. /\ UNCHANGED <<proc, pid, sigchld>>
        /\ pc \in {"loop", "refresh", "settle", "load", "set", "test", "advance", "sleep"}
        /\ pc' \in {"check", "loop", "refresh", "settle", "load", "set", "test", "sleep"}
    BY <1>3 DEF TestDied, RefreshNoFile, TestRefresh, Settle, LoadNoFile, Load,
       SetSchedule, TestSchedule, Advance, Wake, Check
  <2> QED
    BY <2>1
<1> QED
  BY <1>1, <1>2, <1>3

LEMMA NextOneProgram == TypeInv /\ OneProgram /\ [Next]_vars => OneProgram'
<1> SUFFICES ASSUME TypeInv, OneProgram, [Next]_vars PROVE OneProgram'
  OBVIOUS
<1>1. CASE UNCHANGED vars
  BY <1>1 DEF vars, progVars, procVars, timerVars, callVars,
     OneProgram, NoneAlive, Alive
<1>2. CASE Environment \/ ChildHandler
  BY <1>2, EnvironmentKeepsOneProgram
<1>3. CASE Main
  BY <1>3, CheckProgramKeepsOneProgram, LoopKeepsOneProgram DEF Main
<1> QED
  BY <1>1, <1>2, <1>3 DEF Next

(***************************************************************************)
(* Whatever is in the schedule, whenever programs end, and wherever the    *)
(* main loop is when SIGCHLD or SIGALRM arrives: no two control programs   *)
(* are alive (check_program.c:57-63, execute.c:41-87, schedule.c:45-49).   *)
(***************************************************************************)
THEOREM OneAtATime == Spec => []AtMostOneAlive
<1>1. OneProgram => AtMostOneAlive
  BY DEF OneProgram, Alive, AtMostOneAlive
<1> QED
  BY <1>1, InitTypes, NextTypes, InitOneProgram, NextOneProgram, PTL DEF Spec

(***************************************************************************)
(* Nor is a program alive that the scheduler does not know of, though pid  *)
(* is overwritten by the handler at any moment and from the saved copy of  *)
(* the block after a failed load (schedule.c:45-49,152-163).               *)
(***************************************************************************)
THEOREM NoneForgotten == Spec => []NeverForgotten
<1>1. OneProgram => NeverForgotten
  BY DEF OneProgram, Alive, NeverForgotten
<1> QED
  BY <1>1, InitTypes, NextTypes, InitOneProgram, NextOneProgram, PTL DEF Spec
-----------------------------------------------------------------------------
(* The program of the entry that is due.                                   *)

Ordered(e) == \A i, j \in 1 .. Len(e) : i < j => e[i].stime <= e[j].stime

LEMMA LineTime == \A l \in Line : l.stime \in Int /\ l.stime >= -1
<1> SUFFICES ASSUME NEW g \in Files, NEW i \in DOMAIN g
             PROVE  g[i].stime \in Nat \cup {-1}
  BY DEF Line
<1>1. g \in Seq([stime : Nat \cup {-1}, cmd : STRING])
  BY SchedulerAssumption DEF SchedulerAssumption
<1>2. /\ DOMAIN g = 1 .. Len(g)
      /\ \A j \in 1 .. Len(g) : g[j] \in [stime : Nat \cup {-1}, cmd : STRING]
  BY <1>1, LenProperties, ElementOfSeq
<1> QED
  BY <1>2

\* A table as load_schedule() leaves it: sorted, the default line first.
GoodTable(e) == Ordered(e) /\ e[1].stime = -1

(***************************************************************************)
(* qsort() loses no line, so that the default line, which is before all    *)
(* times of the day, comes first (load_schedule.c:81-126).                 *)
(***************************************************************************)
LEMMA SortingsGood ==
  ASSUME NEW f \in Files, Loadable(f), NEW e \in Sortings(f)
  PROVE  GoodTable(e)
<1>1. e \in Seq(Line) /\ Len(e) \in Nat \ {0} /\ DOMAIN e = 1 .. Len(e)
  <2>1. e \in Seq(Line) /\ Len(e) \in 1 .. MaxEntries
    BY SortingsType
  <2> QED
    BY <2>1, LenProperties, SchedulerAssumption DEF SchedulerAssumption
<1>2. \A i \in 1 .. Len(e) : e[i].stime \in Int /\ e[i].stime >= -1
  BY <1>1, LineTime, ElementOfSeq
<1> DEFINE D == DOMAIN Kept(f)
<1>3. PICK p \in [D -> D] :
        /\ \A i, j \in D : i # j => p[i] # p[j]
        /\ \A i, j \in D : i < j => Kept(f)[p[i]].stime <= Kept(f)[p[j]].stime
        /\ e = [i \in D |-> Kept(f)[p[i]]]
  BY DEF Sortings
<1>4. D = 1 .. Len(e)
  BY <1>1, <1>3
<1>5. PICK k \in D : Kept(f)[k].stime = -1
  BY DEF Loadable
<1>6. \E i \in D : p[i] = k
  <2>1. IsFiniteSet(D)
    BY <1>1, <1>4, FS_Interval
  <2>2. p \in Injection(D, D)
    BY <1>3 DEF Injection, IsInjective
  <2>3. p \in Surjection(D, D)
    BY <2>1, <2>2, FS_Injection
  <2> QED
    BY <1>5, <2>3, Fun_SurjectionProperties
<1> HIDE DEF D
<1>7. PICK i \in 1 .. Len(e) : e[i].stime = -1
  BY <1>3, <1>4, <1>5, <1>6
<1>8. Ordered(e)
  BY <1>3, <1>4 DEF Ordered
<1>9. 1 \in 1 .. Len(e) /\ (i = 1 \/ 1 < i)
  BY <1>1
<1>10. e[1].stime <= -1
  BY <1>2, <1>7, <1>8, <1>9 DEF Ordered
<1> QED
  BY <1>2, <1>8, <1>9, <1>10 DEF GoodTable

(***************************************************************************)
(* In a sorted table the entries that set_schedule() counts are the first  *)
(* ones, the default line at least (set_schedule.c:21-30).                 *)
(***************************************************************************)
LEMMA DueCountIs ==
  ASSUME NEW e \in Seq(Line), Len(e) # 0, GoodTable(e), NEW t \in Nat
  PROVE  /\ DueCount(e, t) \in 1 .. Len(e)
         /\ \A i \in 1 .. Len(e) : e[i].stime <= t <=> i <= DueCount(e, t)
<1>1. /\ Len(e) \in Nat /\ DOMAIN e = 1 .. Len(e) /\ 1 \in 1 .. Len(e)
      /\ \A i \in 1 .. Len(e) : e[i].stime \in Int
  <2>1. Len(e) \in Nat /\ DOMAIN e = 1 .. Len(e)
    BY LenProperties
  <2>2. \A l \in Line : l.stime \in Int
    BY LineTime
  <2> QED
    BY <2>1, <2>2, ElementOfSeq
<1> DEFINE D == {i \in DOMAIN e : e[i].stime <= t}
           c == DueCount(e, t)
<1>2. D \subseteq 1 .. Len(e) /\ 1 \in D
  BY <1>1 DEF GoodTable
<1>3. \A i, j \in 1 .. Len(e) : j \in D /\ i < j => i \in D
  BY <1>1 DEF GoodTable, Ordered
<1>4. c = Cardinality(D) /\ c \in 0 .. Len(e)
  BY DueCountType DEF DueCount
<1>5. \A i \in 1 .. Len(e) : i \in D <=> e[i].stime <= t
  BY <1>1
<1> HIDE DEF D, c
<1>6. IsFiniteSet(D)
  <2>1. IsFiniteSet(1 .. Len(e))
    BY <1>1, FS_Interval
  <2> QED
    BY <1>2, <2>1, FS_Subset
<1>7. ASSUME NEW i \in D PROVE i <= c
  <2>1. 1 .. i \subseteq D
    BY <1>1, <1>2, <1>3
  <2>2. Cardinality(1 .. i) = i /\ i \in Nat
    BY <1>1, <1>2, FS_Interval
  <2> QED
    BY <1>4, <1>6, <2>1, <2>2, FS_Subset
<1>8. ASSUME NEW i \in 1 .. c PROVE i \in D
  <2> SUFFICES ASSUME i \notin D PROVE FALSE
    OBVIOUS
  <2>1. i \in 1 .. Len(e)
    BY <1>1, <1>4
  <2>2. D \subseteq 1 .. i - 1
    BY <1>1, <1>2, <1>3, <2>1
  <2>3. IsFiniteSet(1 .. i - 1) /\ Cardinality(1 .. i - 1) = i - 1
    <3>1. i - 1 \in Int /\ 1 \in Int /\ i - 1 >= 0
      BY <1>1, <2>1
    <3> QED
      BY <3>1, FS_Interval
  <2>4. c <= i - 1
    <3> DEFINE below == 1 .. i - 1
    <3> HIDE DEF below
    <3>1. IsFiniteSet(below) /\ D \subseteq below
      BY <2>2, <2>3 DEF below
    <3>2. Cardinality(D) <= Cardinality(below)
      BY <3>1, FS_Subset
    <3> QED
      BY <1>4, <2>3, <3>2 DEF below
  <2> QED
    BY <1>1, <1>4, <2>1, <2>4
<1>9. \A i \in 1 .. Len(e) : i \in D <=> i <= c
  BY <1>1, <1>4, <1>7, <1>8
<1>10. 1 <= c
  BY <1>2, <1>7
<1> QED
  BY <1>4, <1>5, <1>9, <1>10 DEF c

\* As long as the next entry is not due, the count stays what it is.
LEMMA DueCountStays ==
  ASSUME NEW e \in Seq(Line), Len(e) # 0, GoodTable(e),
         NEW t \in Nat, NEW u \in Nat, t <= u,
         DueCount(e, t) = Len(e) \/ ~(u >= e[DueCount(e, t) + 1].stime)
  PROVE  DueCount(e, u) = DueCount(e, t)
<1> DEFINE c == DueCount(e, t)
           d == DueCount(e, u)
<1>1. /\ c \in 1 .. Len(e) /\ d \in 1 .. Len(e) /\ Len(e) \in Nat
      /\ \A i \in 1 .. Len(e) : e[i].stime <= t <=> i <= c
      /\ \A i \in 1 .. Len(e) : e[i].stime <= u <=> i <= d
  BY DueCountIs, LenProperties
<1>2. \A i \in 1 .. Len(e) : e[i].stime \in Int
  BY LineTime, ElementOfSeq
<1>3. c = Len(e) \/ ~(u >= e[c + 1].stime)
  OBVIOUS
<1> HIDE DEF c, d
<1>4. c <= d
  BY <1>1, <1>2
<1>5. ~(c < d)
  <2> SUFFICES ASSUME c < d PROVE FALSE
    OBVIOUS
  <2>1. c + 1 \in 1 .. Len(e) /\ c + 1 <= d
    BY <1>1
  <2> QED
    BY <1>1, <1>2, <1>3, <2>1
<1>6. c = d
  BY <1>1, <1>4, <1>5
<1> QED
  BY <1>6 DEF c, d

\* While test_schedule() has the next entry started, cnt is behind.
Advancing == pc = "advance" \/ (pc \in CheckPC /\ ret = "advance")

\* The entry that is to run while no entry is being checked.
Wanted == entry[IF pc = "advance" THEN cnt + 1 ELSE cnt].cmd

Excused(e) == e \in excuse

(***************************************************************************)
(* Why the program that is due runs: the entries counted are those due     *)
(* when the clock was last read, what is being checked is the last of      *)
(* them or the one after; command is the program that runs, unless the     *)
(* default was started in its place; and between two checks command is     *)
(* that of the entry to run.                                               *)
(***************************************************************************)
Scheduled ==
  /\ GoodTable(entry)
  /\ seen <= now
  /\ ~Advancing /\ pc # "set" => cnt = DueCount(entry, seen)
  /\ pc \in CheckPC => chk = IF ret = "advance" THEN cnt + 1 ELSE cnt
  /\ \A p \in Pid : Alive(p) /\ ~Excused("fallback") =>
       prog[p] = IF pc = "assign" THEN entry[chk].cmd ELSE command
  /\ pc \notin CheckPC /\ pc # "set" /\ ~Excused("missing") /\ ~Excused("slip") =>
       \A p \in Pid : Alive(p) => command = Wanted

LEMMA InitScheduled == Init => Scheduled
<1> SUFFICES ASSUME Init PROVE Scheduled
  OBVIOUS
<1>1. entry \in Seq(Line) /\ Len(entry) # 0 /\ GoodTable(entry)
  BY SortingsType, SortingsGood, SchedulerAssumption DEF SchedulerAssumption, Init
<1>2. cnt \in 1 .. Len(entry) /\ cnt = DueCount(entry, seen)
  BY <1>1, DueCountIs DEF Init
<1>3. chk = cnt
  BY <1>1, <1>2, LenProperties DEF Init, AtLeastFirst
<1> QED
  BY <1>1, <1>2, <1>3 DEF Init, Scheduled, Advancing, CheckPC, Alive

LEMMA EnvironmentKeepsScheduled ==
  ASSUME TypeInv, Scheduled, Environment \/ ChildHandler
  PROVE  Scheduled'
<1> USE DEF TypeInv, TypeOK, Scheduled, Advancing, Wanted, Excused, Alive,
    fileVars, refreshVars, schedVars, progVars, procVars, timerVars, callVars,
    histVars, CheckPC
<1>1. CASE Tick
  BY <1>1 DEF Tick
<1>2. CASE Alarm
  BY <1>2 DEF Alarm
<1>3. CASE \E f \in Files \cup {NoFile} : Edit(f)
  BY <1>3 DEF Edit
<1>4. CASE \E p \in Pid : Exit(p)
  BY <1>4 DEF Exit
<1>5. CASE ChildHandler
  BY <1>5 DEF ChildHandler
<1> QED
  BY <1>1, <1>2, <1>3, <1>4, <1>5 DEF Environment

LEMMA CheckProgramKeepsScheduled ==
  ASSUME TypeInv, OneProgram, Scheduled, CheckProgram
  PROVE  Scheduled'
<1> USE DEF TypeInv, TypeOK, OneProgram, NoneAlive, Scheduled, Advancing, Wanted,
    Excused, Alive, CheckPC, CheckFrame, Goto, Return, schedVars, procVars, timerVars
<1>1. CASE CheckRunning
  BY <1>1 DEF CheckRunning, Running, Due
<1>2. CASE CheckMissing
  BY <1>2 DEF CheckMissing
<1>3. CASE CheckReplace
  BY <1>3 DEF CheckReplace
<1>4. CASE Terminate \/ EnterWait
  BY <1>4 DEF Terminate, EnterWait
<1>5. CASE Wait
  BY <1>5 DEF Wait, WaitedFor, Unreaped
<1>6. CASE ForceEnd
  BY <1>6 DEF ForceEnd
<1>7. CASE Disarm
  BY <1>7 DEF Disarm
<1>8. CASE \E p \in Pid : Start(p)
  BY <1>8 DEF Start, Fork, Due
<1>9. CASE \E p \in Pid : StartDefault(p)
  BY <1>9 DEF StartDefault, Fork
<1>10. CASE StartFails \/ DefaultFails
  BY <1>10 DEF StartFails, DefaultFails, ForkFails
<1>11. CASE Assign
  BY <1>11 DEF Assign, Due
<1> QED
  BY <1>1, <1>2, <1>3, <1>4, <1>5, <1>6, <1>7, <1>8, <1>9, <1>10, <1>11
  DEF CheckProgram

LEMMA LoopKeepsScheduled ==
  ASSUME TypeInv, OneProgram, Scheduled,
         \/ TestDied \/ RefreshNoFile \/ TestRefresh \/ Settle
         \/ LoadNoFile \/ Load \/ LoadFails \/ Restore
         \/ SetSchedule \/ TestSchedule \/ Advance \/ Wake
  PROVE  Scheduled'
<1>1. /\ entry \in Seq(Line) /\ Len(entry) \in Nat /\ Len(entry) # 0
      /\ GoodTable(entry) /\ now \in Nat /\ seen \in Nat /\ seen <= now
      /\ cnt \in Nat /\ pc \notin CheckPC
  BY SchedulerAssumption
  DEF SchedulerAssumption, TypeInv, TypeOK, Scheduled, CheckPC, TestDied,
      RefreshNoFile, TestRefresh, Settle, LoadNoFile, Load, LoadFails, Restore,
      SetSchedule, TestSchedule, Advance, Wake
<1>2. DueCount(entry, now) \in 1 .. Len(entry) /\ DueCount(entry, seen) \in 1 .. Len(entry)
  BY <1>1, DueCountIs
<1> USE <1>1 DEF Scheduled, Advancing, Wanted, Excused, Alive, LoopFrame, CheckPC,
        schedVars, procVars, timerVars, histVars
<1>3. CASE TestDied
  <2>1. cnt = DueCount(entry, seen) /\ AtLeastFirst(cnt) = cnt
    BY <1>2, <1>3 DEF TestDied, AtLeastFirst
  <2>2. pid = NoPid => \A p \in Pid : ~Alive(p)
    BY <1>3, SchedulerAssumption DEF SchedulerAssumption, OneProgram, TestDied
  <2> QED
    BY <1>3, <2>1, <2>2 DEF TestDied, Check
<1>4. CASE RefreshNoFile
  BY <1>4 DEF RefreshNoFile
<1>5. CASE TestRefresh
  BY <1>5 DEF TestRefresh
<1>6. CASE Settle
  BY <1>6 DEF Settle
<1>7. CASE LoadNoFile
  BY <1>7 DEF LoadNoFile
<1>8. CASE Load
  <2>1. GoodTable(entry')
    BY <1>8, SortingsGood DEF Load, TypeInv, TypeOK
  <2> QED
    BY <1>8, <2>1 DEF Load
<1>9. CASE LoadFails
  BY <1>9 DEF LoadFails
<1>10. CASE Restore
  BY <1>10 DEF Restore
<1>11. CASE SetSchedule
  BY <1>2, <1>11 DEF SetSchedule, Check, AtLeastFirst
<1>12. CASE TestSchedule
  <2>1. cnt = DueCount(entry, seen)
    BY <1>12 DEF TestSchedule
  <2>2. CASE cnt \notin {0, Len(entry)} /\ now >= entry[cnt + 1].stime
    <3>1. AtLeastFirst(cnt + 1) = cnt + 1
      BY DEF AtLeastFirst
    <3> QED
      BY <1>12, <2>2, <3>1 DEF TestSchedule, Check
  <2>3. CASE ~(cnt \notin {0, Len(entry)} /\ now >= entry[cnt + 1].stime)
    <3>1. cnt = Len(entry) \/ ~(now >= entry[cnt + 1].stime)
      BY <1>2, <2>1, <2>3
    <3>2. DueCount(entry, now) = cnt
      BY <2>1, <3>1, DueCountStays
    <3> QED
      BY <1>12, <2>3, <3>2 DEF TestSchedule
  <2> QED
    BY <2>2, <2>3
<1>13. CASE Advance
  BY <1>2, <1>13 DEF Advance
<1>14. CASE Wake
  BY <1>14 DEF Wake
<1> QED
  BY <1>3, <1>4, <1>5, <1>6, <1>7, <1>8, <1>9, <1>10, <1>11, <1>12, <1>13, <1>14

LEMMA NextScheduled ==
  TypeInv /\ OneProgram /\ Scheduled /\ [Next]_vars => Scheduled'
<1> SUFFICES ASSUME TypeInv, OneProgram, Scheduled, [Next]_vars PROVE Scheduled'
  OBVIOUS
<1>1. CASE UNCHANGED vars
  BY <1>1 DEF vars, schedVars, progVars, procVars, callVars, histVars,
     Scheduled, Advancing, Wanted, Excused, Alive, CheckPC
<1>2. CASE Environment \/ ChildHandler
  BY <1>2, EnvironmentKeepsScheduled
<1>3. CASE Main
  BY <1>3, CheckProgramKeepsScheduled, LoopKeepsScheduled DEF Main
<1> QED
  BY <1>1, <1>2, <1>3 DEF Next

(***************************************************************************)
(* For every schedule: unless a program file is missing, fork() fails or   *)
(* the clock passes two entries between two looks at it, what runs when    *)
(* the loop goes to sleep is the last entry due, however the entries       *)
(* follow each other and whatever was reloaded in between                  *)
(* (schedule.c:135-178, check_program.c:39-77, test_schedule.c:21-30).     *)
(***************************************************************************)
THEOREM InStepCorrect == Spec => []InStep
<1>1. TypeInv /\ Scheduled => InStep
  <2> SUFFICES ASSUME TypeInv, Scheduled, pc = "sleep",
                      excuse \cap {"missing", "slip", "fallback"} = {},
                      pid # NoPid, proc[pid] = "alive", pid \in Pid
               PROVE  prog[pid] = entry[DueCount(entry, seen)].cmd
    BY DEF InStep, TypeInv, TypeOK
  <2> QED
    BY DEF Scheduled, Advancing, Wanted, Excused, Alive, CheckPC
<1> QED
  BY <1>1, InitTypes, NextTypes, InitOneProgram, NextOneProgram, InitScheduled,
     NextScheduled, PTL DEF Spec
-----------------------------------------------------------------------------
(* Edits of the schedule file.                                             *)

(***************************************************************************)
(* What test_refresh() remembers is no later than the last load, unless a  *)
(* load is about to follow; before its first look it is the file that is   *)
(* no later.                                                               *)
(***************************************************************************)
Remembered ==
  /\ mtime <= now /\ readAt <= now /\ tval <= now
  /\ ~Excused("startup") =>
       IF tval = -1 THEN mtime <= readAt
                    ELSE tval <= readAt \/ pc \in {"settle", "load"}

LEMMA InitRemembered == Init => Remembered
  BY DEF Init, Remembered, Excused

LEMMA NextRemembered == TypeInv /\ Remembered /\ [Next]_vars => Remembered'
<1> SUFFICES ASSUME TypeInv, Remembered, [Next]_vars PROVE Remembered'
  OBVIOUS
<1>0. now \in Int /\ mtime \in Nat /\ readAt \in Int /\ tval \in Int
  BY SchedulerAssumption DEF SchedulerAssumption, TypeInv, TypeOK
<1> USE <1>0 DEF Remembered, Excused, fileVars, refreshVars, callVars, histVars
<1>1. CASE UNCHANGED vars
  BY <1>1 DEF vars
<1>2. CASE Tick
  BY <1>2 DEF Tick
<1>3. CASE \E f \in Files \cup {NoFile} : Edit(f)
  BY <1>3 DEF Edit
<1>4. CASE Alarm \/ (\E p \in Pid : Exit(p)) \/ ChildHandler
  BY <1>4 DEF Alarm, Exit, ChildHandler
<1>5. CASE CheckProgram
  <2>1. /\ UNCHANGED <<now, mtime, readAt, tval>>
        /\ pc \notin {"settle", "load"}
        /\ "startup" \notin excuse' => "startup" \notin excuse
    BY <1>5 DEF CheckProgram, CheckRunning, CheckMissing, CheckReplace, Terminate,
       EnterWait, Wait, ForceEnd, Disarm, Start, StartDefault, StartFails, DefaultFails,
       Fork, ForkFails, Assign, CheckFrame
  <2> QED
    BY <2>1
<1>6. CASE TestRefresh
  BY <1>6 DEF TestRefresh, LoopFrame
<1>7. CASE RefreshNoFile \/ Settle
  BY <1>7 DEF RefreshNoFile, Settle, LoopFrame
<1>8. CASE LoadNoFile \/ Load \/ LoadFails
  BY <1>8 DEF LoadNoFile, Load, LoadFails, LoopFrame
<1>9. CASE TestDied \/ Restore \/ SetSchedule \/ TestSchedule \/ Advance \/ Wake
  <2>1. /\ UNCHANGED <<now, mtime, readAt, tval>>
        /\ pc \notin {"settle", "load"}
        /\ "startup" \notin excuse' => "startup" \notin excuse
    BY <1>9 DEF TestDied, Restore, SetSchedule, TestSchedule, Advance, Wake, LoopFrame
  <2> QED
    BY <2>1
<1> QED
  BY <1>1, <1>2, <1>3, <1>4, <1>5, <1>6, <1>7, <1>8, <1>9
  DEF Next, Environment, Main

(***************************************************************************)
(* For every schedule file and every moment of an edit: an edit in a later *)
(* second than the last load is noticed, whatever test_refresh() has been  *)
(* shown in between, a missing file included (refresh.c:29-63,             *)
(* schedule.c:141-165).                                                    *)
(***************************************************************************)
THEOREM EditsCorrect == Spec => []EditsNoticed
<1>1. TypeInv /\ Remembered => EditsNoticed
  BY SchedulerAssumption
  DEF SchedulerAssumption, TypeInv, TypeOK, Remembered, Excused, EditsNoticed
<1> QED
  BY <1>1, InitTypes, NextTypes, InitRemembered, NextRemembered, PTL DEF Spec
=============================================================================
