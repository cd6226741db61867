------------------------------ MODULE Scheduler ------------------------------
(***************************************************************************)
(* The scheduler of radar control programs, src.bin/os/schedule.1.4: one   *)
(* process that keeps the program the schedule asks for running, replaces  *)
(* it when an entry falls due, when it dies and when the schedule file     *)
(* changes.  Its state is the scd_blk "schedule" and the statics of        *)
(* refresh.c and execute.c; the handler of SIGCHLD writes schedule.pid     *)
(* between any two steps of the main loop.                                 *)
(*                                                                         *)
(* Time is counted in seconds, the granularity of st_mtime.  A sleep() may *)
(* be cut short by SIGCHLD, so no step waits for the clock.  Indices of    *)
(* entry[] are one more than in C.  Not modelled: job control (SIGCHLD for *)
(* a stopped program), process numbers taken by other programs.            *)
(***************************************************************************)
EXTENDS Integers, Sequences, FiniteSets

CONSTANTS
  Files,       \* the contents the schedule file may have: sequences of lines
  NoFile,      \* no such file: stat() and fopen() fail
  Missing,     \* the commands whose program file is not there
  MaxEntries,  \* SCHED_MAX_ENTRIES
  Refresh,     \* schedule.refresh, the seconds between forced refreshes
  Day,         \* the seconds of a day
  NoPid,       \* the value -1 of schedule.pid
  Pid,         \* the process numbers the kernel hands out
  MaxTime,     \* bound: the last second of a behaviour
  MaxForkFail  \* bound: how often fork() fails in a behaviour

\* A line that load_schedule() keeps: stime is -1 for "default".
Line == UNION {{f[i] : i \in DOMAIN f} : f \in Files}
Cmd == {l.cmd : l \in Line}

ASSUME SchedulerAssumption ==
  /\ \A f \in Files : /\ f \in Seq([stime : Nat \cup {-1}, cmd : STRING])
                      /\ f # <<>>
  /\ NoFile \notin Files
  /\ NoPid \notin Pid
  /\ MaxEntries \in Nat \ {0}
  /\ Refresh \in Nat \ {0}
  /\ Day \in Nat \ {0}
  /\ MaxTime \in Nat
  /\ MaxForkFail \in Nat

VARIABLES
  now,                  \* the clock
  file, mtime,          \* the schedule file and its st_mtime
  tval, then,           \* test_refresh(): st_mtime and boundary last seen
  entry, cnt,           \* the loaded schedule and how many entries are due
  pid, command,         \* the program believed to run, and its command
  savepid,              \* save_sched.pid
  proc, prog,           \* the children, as the kernel sees them, and their commands
  sigchld,              \* SIGCHLD is pending
  armed, resetflg,      \* the interval timer, and what its handler sets
  forkFails,            \* fork() failures so far
  pc, ret,              \* where the main loop is; where check_program() returns
  chk, target, newpid,  \* the entry checked; terminate()'s argument; fork()'s result
  nstat,                \* nstat1.st_mtime
  seen, excuse, readAt  \* history, see the properties

fileVars == <<file, mtime>>
refreshVars == <<tval, then>>
schedVars == <<entry, cnt>>
progVars == <<pid, command, savepid>>
procVars == <<proc, prog, forkFails>>
timerVars == <<armed, resetflg>>
callVars == <<ret, chk, target, newpid, nstat>>
histVars == <<seen, excuse, readAt>>
vars == <<now, fileVars, refreshVars, schedVars, progVars, procVars, sigchld,
          timerVars, pc, callVars, histVars>>
-----------------------------------------------------------------------------
(* load_schedule(), set_schedule(), test_schedule().                       *)

\* The entries read before the table is full.
Kept(f) == SubSeq(f, 1, IF Len(f) < MaxEntries THEN Len(f) ELSE MaxEntries)

Loadable(f) == \E i \in DOMAIN Kept(f) : Kept(f)[i].stime = -1

\* qsort() by stime: it promises nothing about entries of the same time.
Sortings(f) ==
  LET D == DOMAIN Kept(f)
      Orders == {p \in [D -> D] : \A i, j \in D : i # j => p[i] # p[j]}
  IN {[i \in D |-> Kept(f)[p[i]]] : p \in
        {p \in Orders : \A i, j \in D :
           i < j => Kept(f)[p[i]].stime <= Kept(f)[p[j]].stime}}

\* set_schedule(): the entries are sorted, so it counts those due at t.
DueCount(e, t) == Cardinality({i \in DOMAIN e : e[i].stime <= t})

\* check_program(): if (cnt<0) cnt=0
AtLeastFirst(c) == IF c < 1 THEN 1 ELSE c

\* The interval of the day: always 0 when Refresh is a whole day (-d).
Boundary == (now % Day) \div Refresh

Unreaped(p) == proc[p] \in {"alive", "zombie"}

\* The children waitpid(p) waits for: all of them when p is -1.
WaitedFor(p) == {q \in Pid : Unreaped(q) /\ (p = NoPid \/ p = q)}
-----------------------------------------------------------------------------
\* main(): the first load, up to the first call of check_program().
Init ==
  /\ now = 0
  /\ file \in {f \in Files : Loadable(f)} /\ mtime = 0
  /\ tval = -1 /\ then = -1
  /\ entry \in Sortings(file)
  /\ cnt = DueCount(entry, 0)
  /\ pid = NoPid /\ command = "Null" /\ savepid = NoPid
  /\ proc = [p \in Pid |-> "free"] /\ prog = [p \in Pid |-> "Null"]
  /\ sigchld = FALSE /\ armed = FALSE /\ resetflg = FALSE
  /\ forkFails = 0
  /\ pc = "check" /\ ret = "loop" /\ chk = AtLeastFirst(cnt)
  /\ target = NoPid /\ newpid = NoPid /\ nstat = 0
  /\ seen = 0 /\ excuse = {} /\ readAt = 0
-----------------------------------------------------------------------------
(* The environment: the clock, the editor of the file, the programs.       *)

Tick ==
  /\ now < MaxTime
  /\ now' = now + 1
  /\ UNCHANGED <<fileVars, refreshVars, schedVars, progVars, procVars, sigchld,
                 timerVars, pc, callVars, histVars>>

\* Bound: no edit in the last second.
Edit(f) ==
  /\ now < MaxTime /\ f # file
  /\ file' = f
  /\ mtime' = now
  /\ excuse' = IF tval = -1 THEN excuse \cup {"startup"} ELSE excuse
  /\ UNCHANGED <<now, refreshVars, schedVars, progVars, procVars, sigchld,
                 timerVars, pc, callVars, seen, readAt>>

\* A program ends by itself, on SIGUSR1, or because execv() failed.
Exit(p) ==
  /\ proc[p] = "alive"
  /\ proc' = [proc EXCEPT ![p] = "zombie"]
  /\ sigchld' = TRUE
  /\ UNCHANGED <<now, fileVars, refreshVars, schedVars, progVars, prog, forkFails,
                 timerVars, pc, callVars, histVars>>

\* Mutant: the alarm does not interrupt waitpid() (SA_RESTART).
AlarmRestarts ==
  /\ armed /\ pc \in {"call", "wait", "waited", "disarm"}
  /\ armed' = FALSE /\ resetflg' = TRUE
  /\ UNCHANGED <<now, fileVars, refreshVars, schedVars, progVars, procVars, sigchld,
                 pc, callVars, histVars>>

\* SIGALRM: waitpid() is interrupted, has already returned, or has not been
\* called yet.  In the last case nothing will interrupt it.
Alarm ==
  /\ armed /\ pc \in {"call", "wait", "waited", "disarm"}
  /\ armed' = FALSE /\ resetflg' = TRUE
  /\ pc' = IF pc = "wait" THEN "waited" ELSE pc
  /\ excuse' = IF pc = "call" THEN excuse \cup {"expired"} ELSE excuse
  /\ UNCHANGED <<now, fileVars, refreshVars, schedVars, progVars, procVars, sigchld,
                 callVars, seen, readAt>>
-----------------------------------------------------------------------------
(* child_handler().                                                        *)

ChildHandler ==
  /\ sigchld
  /\ IF pid # NoPid /\ \E p \in Pid : Unreaped(p)
     THEN \E p \in Pid : proc[p] = "zombie" /\ proc' = [proc EXCEPT ![p] = "free"]
     ELSE UNCHANGED proc
  /\ pid' = NoPid
  /\ sigchld' = FALSE
  /\ UNCHANGED <<now, fileVars, refreshVars, schedVars, command, savepid, prog,
                 forkFails, timerVars, pc, callVars, histVars>>
-----------------------------------------------------------------------------
(* check_program(), execute() and terminate().  A step of the main loop is *)
(* taken only when the handler has run for a signal that is pending.       *)

\* What a step of check_program() leaves alone.
CheckFrame == UNCHANGED <<now, fileVars, refreshVars, schedVars, savepid,
                          nstat, seen, readAt>>

\* One more step inside check_program(), or back to its caller, which
\* forgets the argument.
Goto(l) == pc' = l /\ UNCHANGED <<chk, ret>>
Return == pc' = ret /\ chk' = 1 /\ ret' = "loop"

Due == entry[chk].cmd

\* Mutant: the commands are not compared.
RunningAnything == pid # NoPid /\ Unreaped(pid)

\* getpriority() finds the process, a zombie too, and the command is right.
Running == pid # NoPid /\ Unreaped(pid) /\ command = Due

CheckRunning ==
  /\ pc = "check" /\ ~sigchld
  /\ Running
  /\ excuse' = excuse \ {"missing", "slip"}
  /\ Return
  /\ CheckFrame
  /\ UNCHANGED <<pid, command, procVars, sigchld, timerVars, target, newpid>>

\* confirm_program() fails: what runs, if anything, is left running.
CheckMissing ==
  /\ pc = "check" /\ ~sigchld
  /\ ~Running /\ Due \in Missing
  /\ excuse' = excuse \cup {"missing"}
  /\ Return
  /\ CheckFrame
  /\ UNCHANGED <<pid, command, procVars, sigchld, timerVars, target, newpid>>

\* After this test of pid a line is logged, and pid is read again.
CheckReplace ==
  /\ pc = "check" /\ ~sigchld
  /\ ~Running /\ Due \notin Missing
  /\ Goto(IF pid # NoPid THEN "stop" ELSE "start")
  /\ CheckFrame
  /\ UNCHANGED <<pid, command, procVars, sigchld, timerVars, target, newpid, excuse>>

\* terminate(): the timer is set and SIGUSR1 is sent.
Terminate ==
  /\ pc = "stop" /\ ~sigchld
  /\ target' = pid
  /\ armed' = TRUE
  /\ Goto("call")
  /\ CheckFrame
  /\ UNCHANGED <<pid, command, procVars, sigchld, resetflg, newpid, excuse>>

\* waitpid() is called, and blocks if it has to.
EnterWait ==
  /\ pc = "call" /\ ~sigchld
  /\ Goto("wait")
  /\ CheckFrame
  /\ UNCHANGED <<pid, command, procVars, sigchld, timerVars, target, newpid, excuse>>

\* Mutant: waitpid() is called with WNOHANG.
WaitNoHang ==
  /\ pc = "wait" /\ ~sigchld
  /\ Goto("waited")
  /\ CheckFrame
  /\ UNCHANGED <<pid, command, procVars, sigchld, timerVars, target, newpid, excuse>>

\* waitpid() returns: a child has ended (seen before its SIGCHLD is handled,
\* or with no SIGCHLD to come), or there is no child to wait for.
Wait ==
  /\ pc = "wait"
  /\ \/ \E p \in WaitedFor(target) :
          proc[p] = "zombie" /\ proc' = [proc EXCEPT ![p] = "free"]
     \/ ~sigchld /\ WaitedFor(target) = {} /\ UNCHANGED proc
  /\ Goto("waited")
  /\ CheckFrame
  /\ UNCHANGED <<pid, command, prog, forkFails, sigchld, timerVars, target, newpid, excuse>>

\* SIGKILL, if the timer has expired; waitpid() then returns in a moment.
ForceEnd ==
  /\ pc = "waited" /\ ~sigchld
  /\ IF resetflg
     THEN proc' = [p \in Pid |-> IF p \in WaitedFor(target) THEN "free" ELSE proc[p]]
     ELSE proc' = proc
  /\ sigchld' = (resetflg /\ \E p \in WaitedFor(target) : proc[p] = "alive")
  /\ resetflg' = FALSE
  /\ Goto("disarm")
  /\ CheckFrame
  /\ UNCHANGED <<pid, command, prog, forkFails, armed, target, newpid, excuse>>

Disarm ==
  /\ pc = "disarm" /\ ~sigchld
  /\ armed' = FALSE
  /\ target' = NoPid
  /\ excuse' = excuse \ {"expired"}
  /\ Goto("start")
  /\ CheckFrame
  /\ UNCHANGED <<pid, command, procVars, sigchld, resetflg, newpid>>

\* fork(): the kernel gives a number that nobody refers to any more.
Fork(p, c) ==
  /\ proc[p] = "free" /\ p \notin {pid, savepid}
  /\ proc' = [proc EXCEPT ![p] = "alive"]
  /\ prog' = [prog EXCEPT ![p] = c]
  /\ newpid' = p
  /\ Goto("assign")
  /\ CheckFrame
  /\ UNCHANGED <<pid, command, forkFails, sigchld, timerVars, target>>

Start(p) ==
  /\ pc = "start" /\ ~sigchld
  /\ Fork(p, Due)
  /\ excuse' = excuse \ {"missing", "slip", "fallback"}

ForkFails ==
  /\ ~sigchld
  /\ forkFails < MaxForkFail /\ forkFails' = forkFails + 1
  /\ pid' = NoPid
  /\ CheckFrame
  /\ UNCHANGED <<command, proc, prog, sigchld, timerVars, target, newpid, excuse>>

StartFails ==
  /\ pc = "start"
  /\ ForkFails
  /\ IF entry[1].cmd \in Missing THEN Return ELSE Goto("default")

StartDefault(p) ==
  /\ pc = "default" /\ ~sigchld
  /\ Fork(p, entry[1].cmd)
  /\ excuse' = (excuse \ {"missing", "slip"}) \cup {"fallback"}

DefaultFails ==
  /\ pc = "default"
  /\ ForkFails
  /\ Return

\* The entry's command is recorded, whichever program was started.
Assign ==
  /\ pc = "assign" /\ ~sigchld
  /\ pid' = newpid /\ newpid' = NoPid
  /\ command' = Due
  /\ Return
  /\ CheckFrame
  /\ UNCHANGED <<procVars, sigchld, timerVars, target, excuse>>
-----------------------------------------------------------------------------
(* The loop of main().                                                     *)

LoopFrame == UNCHANGED <<now, fileVars, command, procVars, sigchld, timerVars,
                         target, newpid>>

\* check_program(&schedule,c), to come back to r.
Check(c, r) ==
  /\ pc' = "check" /\ chk' = AtLeastFirst(c) /\ ret' = r

\* Mutant: the test of pid is dropped from the loop.
TestDiedNever ==
  /\ pc = "loop" /\ ~sigchld
  /\ pc' = "refresh" /\ UNCHANGED <<chk, ret>>
  /\ LoopFrame
  /\ UNCHANGED <<refreshVars, schedVars, pid, savepid, nstat, histVars>>

TestDied ==
  /\ pc = "loop" /\ ~sigchld
  /\ IF pid = NoPid THEN Check(cnt, "refresh") ELSE pc' = "refresh" /\ UNCHANGED <<chk, ret>>
  /\ LoopFrame
  /\ UNCHANGED <<refreshVars, schedVars, pid, savepid, nstat, histVars>>

\* stat() failed: test_refresh() returns -1, which starts a refresh too.
RefreshNoFile ==
  /\ pc = "refresh" /\ ~sigchld /\ file = NoFile
  /\ pc' = "settle"
  /\ nstat' \in 0 .. MaxTime
  /\ LoopFrame
  /\ UNCHANGED <<refreshVars, schedVars, pid, savepid, chk, ret, histVars>>

\* Mutant: an altered file is not taken for a reason to refresh.
TestRefreshByBoundary ==
  /\ pc = "refresh" /\ ~sigchld /\ file # NoFile
  /\ tval' = mtime /\ then' = Boundary
  /\ LET due == then # -1 /\ then # Boundary IN
     /\ pc' = IF due THEN "settle" ELSE "test"
     /\ nstat' = IF due THEN mtime ELSE nstat
  /\ LoopFrame
  /\ UNCHANGED <<schedVars, pid, savepid, chk, ret, histVars>>

\* The file was altered since test_refresh() last looked, or a boundary has
\* passed.  The first call only takes note of both.
TestRefresh ==
  /\ pc = "refresh" /\ ~sigchld /\ file # NoFile
  /\ tval' = mtime /\ then' = Boundary
  /\ LET altered == tval # -1 /\ tval # mtime
         due == then # -1 /\ then # Boundary
     IN /\ pc' = IF altered \/ due THEN "settle" ELSE "test"
        /\ nstat' = IF altered \/ due THEN mtime ELSE nstat
  /\ LoopFrame
  /\ UNCHANGED <<schedVars, pid, savepid, chk, ret, histVars>>

\* Until st_mtime is the same before and after a sleep.  With no file the two
\* stat buffers are not written: they hold anything, equal or not.
Settle ==
  /\ pc = "settle" /\ ~sigchld
  /\ \/ (nstat = mtime \/ file = NoFile) /\ pc' = "load" /\ nstat' = 0
     \/ nstat # mtime /\ file # NoFile /\ pc' = pc /\ nstat' = mtime
     \/ file = NoFile /\ pc' = pc /\ nstat' = nstat
  /\ LoopFrame
  /\ UNCHANGED <<refreshVars, schedVars, pid, savepid, chk, ret, histVars>>

LoadNoFile ==
  /\ pc = "load" /\ ~sigchld /\ file = NoFile
  /\ readAt' = now
  /\ pc' = "set"
  /\ LoopFrame
  /\ UNCHANGED <<refreshVars, schedVars, pid, savepid, chk, ret, nstat, seen, excuse>>

\* Mutant: load_schedule() does not reset cnt.
LoadKeepsCnt ==
  /\ pc = "load" /\ ~sigchld /\ file # NoFile /\ Loadable(file)
  /\ entry' \in Sortings(file) /\ cnt' = cnt
  /\ savepid' = pid
  /\ readAt' = now
  /\ excuse' = excuse \ {"startup", "unreadable"}
  /\ pc' = "set"
  /\ LoopFrame
  /\ UNCHANGED <<refreshVars, pid, chk, ret, nstat, seen>>

Load ==
  /\ pc = "load" /\ ~sigchld /\ file # NoFile /\ Loadable(file)
  /\ entry' \in Sortings(file) /\ cnt' = 0
  /\ savepid' = pid
  /\ readAt' = now
  /\ excuse' = excuse \ {"startup", "unreadable"}
  /\ pc' = "set"
  /\ LoopFrame
  /\ UNCHANGED <<refreshVars, pid, chk, ret, nstat, seen>>

\* Mutant: the block is not saved before the load.
LoadFailsUnsaved ==
  /\ pc = "load" /\ ~sigchld /\ file # NoFile /\ ~Loadable(file)
  /\ savepid' = savepid
  /\ readAt' = now
  /\ excuse' = (excuse \ {"startup"}) \cup {"unreadable"}
  /\ pc' = "restore"
  /\ LoopFrame
  /\ UNCHANGED <<refreshVars, schedVars, pid, chk, ret, nstat, seen>>

\* load_schedule() fails, and what it has spoilt is to be restored.
LoadFails ==
  /\ pc = "load" /\ ~sigchld /\ file # NoFile /\ ~Loadable(file)
  /\ savepid' = pid
  /\ readAt' = now
  /\ excuse' = (excuse \ {"startup"}) \cup {"unreadable"}
  /\ pc' = "restore"
  /\ LoopFrame
  /\ UNCHANGED <<refreshVars, schedVars, pid, chk, ret, nstat, seen>>

\* memcpy(&schedule,&save_sched): pid too gets its earlier value.
Restore ==
  /\ pc = "restore" /\ ~sigchld
  /\ pid' = savepid
  /\ pc' = "set"
  /\ LoopFrame
  /\ UNCHANGED <<refreshVars, schedVars, savepid, chk, ret, nstat, histVars>>

SetSchedule ==
  /\ pc = "set" /\ ~sigchld
  /\ cnt' = DueCount(entry, now) /\ seen' = now
  /\ savepid' = NoPid
  /\ Check(cnt', "test")
  /\ LoopFrame
  /\ UNCHANGED <<refreshVars, entry, pid, nstat, excuse, readAt>>

TestSchedule ==
  /\ pc = "test" /\ ~sigchld
  /\ IF cnt \notin {0, Len(entry)} /\ now >= entry[cnt + 1].stime
     THEN Check(cnt + 1, "advance")
     ELSE pc' = "sleep" /\ UNCHANGED <<chk, ret>>
  /\ seen' = now
  /\ LoopFrame
  /\ UNCHANGED <<refreshVars, schedVars, pid, savepid, nstat, excuse, readAt>>

\* The entry just started may not be the last one due: nothing starts that.
Advance ==
  /\ pc = "advance" /\ ~sigchld
  /\ cnt' = DueCount(entry, now) /\ seen' = now
  /\ excuse' = IF cnt' # cnt + 1 THEN excuse \cup {"slip"} ELSE excuse
  /\ pc' = "sleep"
  /\ LoopFrame
  /\ UNCHANGED <<refreshVars, entry, pid, savepid, chk, ret, nstat, readAt>>

Wake ==
  /\ pc = "sleep" /\ ~sigchld
  /\ pc' = "loop"
  /\ LoopFrame
  /\ UNCHANGED <<refreshVars, schedVars, pid, savepid, chk, ret, nstat, histVars>>
-----------------------------------------------------------------------------
Environment ==
  \/ Tick \/ Alarm
  \/ \E f \in Files \cup {NoFile} : Edit(f)
  \/ \E p \in Pid : Exit(p)

CheckProgram ==
  \/ CheckRunning \/ CheckMissing \/ CheckReplace
  \/ Terminate \/ EnterWait \/ Wait \/ ForceEnd \/ Disarm
  \/ \E p \in Pid : Start(p) \/ StartDefault(p)
  \/ StartFails \/ DefaultFails \/ Assign

Main ==
  \/ TestDied \/ RefreshNoFile \/ TestRefresh \/ Settle
  \/ LoadNoFile \/ Load \/ LoadFails \/ Restore
  \/ SetSchedule \/ TestSchedule \/ Advance \/ Wake
  \/ CheckProgram

Next == Environment \/ ChildHandler \/ Main

Spec == Init /\ [][Next]_vars

\* The kernel runs the process, delivers its signals and expires its timer;
\* nothing is assumed of the programs or of whoever edits the file.
FairSpec ==
  Spec /\ WF_vars(Main) /\ WF_vars(ChildHandler) /\ WF_vars(Alarm)
-----------------------------------------------------------------------------
PC == {"check", "stop", "call", "wait", "waited", "disarm", "start", "default", "assign",
       "loop", "refresh", "settle", "load", "restore", "set", "test", "advance",
       "sleep"}

TypeOK ==
  /\ now \in 0 .. MaxTime
  /\ file \in Files \cup {NoFile} /\ mtime \in 0 .. MaxTime
  /\ tval \in -1 .. MaxTime /\ then \in -1 .. MaxTime
  /\ entry \in Seq(Line) /\ Len(entry) \in 1 .. MaxEntries
  /\ cnt \in 0 .. Len(entry) /\ chk \in 1 .. Len(entry)
  /\ command \in Cmd \cup {"Null"}
  /\ {pid, savepid, target, newpid} \subseteq Pid \cup {NoPid}
  /\ proc \in [Pid -> {"free", "alive", "zombie"}]
  /\ prog \in [Pid -> Cmd \cup {"Null"}]
  /\ sigchld \in BOOLEAN /\ armed \in BOOLEAN /\ resetflg \in BOOLEAN
  /\ forkFails \in 0 .. MaxForkFail
  /\ pc \in PC /\ ret \in {"loop", "refresh", "test", "advance"}
  /\ nstat \in 0 .. MaxTime /\ seen \in 0 .. MaxTime /\ readAt \in 0 .. MaxTime
  /\ excuse \subseteq {"missing", "slip", "fallback", "startup", "unreadable", "expired"}

(***************************************************************************)
(* Two control programs never drive the radar together, whichever moments  *)
(* programs choose to die and the handler to run: a program is started     *)
(* only when the one before it has ended (check_program.c:57-63,           *)
(* execute.c:60-68, schedule.c:45-49).                                     *)
(***************************************************************************)
AtMostOneAlive ==
  \A p, q \in Pid : proc[p] = "alive" /\ proc[q] = "alive" => p = q

(***************************************************************************)
(* A program that is alive is the one schedule.pid names, so that it can   *)
(* be replaced: neither the handler, nor the restored copy of the block    *)
(* after a failed load, makes the scheduler lose it (schedule.c:45-49 and  *)
(* 159-163).                                                               *)
(***************************************************************************)
NeverForgotten ==
  \A p \in Pid :
    proc[p] = "alive" => pid = p \/ (pc = "assign" /\ newpid = p)

(***************************************************************************)
(* When the loop goes to sleep, the program that runs is the one of the    *)
(* last entry that was due when the clock was last read, unless its file   *)
(* was missing, fork() failed, or the clock passed two entries at once     *)
(* (schedule.c:135-178, check_program.c:39-77).                            *)
(***************************************************************************)
InStep ==
  /\ pc = "sleep" /\ excuse \cap {"missing", "slip", "fallback"} = {}
  /\ pid # NoPid /\ proc[pid] = "alive"
  => prog[pid] = entry[DueCount(entry, seen)].cmd

(***************************************************************************)
(* When the table is not that of the schedule file, the loop can still     *)
(* notice: st_mtime differs from what test_refresh() remembers.  It may    *)
(* not when the file was written again in the second of the last load, or  *)
(* between the first load and the first test_refresh(), and a file without *)
(* a default line is not loaded ("unreadable") (refresh.c:41-47,           *)
(* schedule.c:141-165).                                                    *)
(***************************************************************************)
EditsNoticed ==
  /\ pc = "sleep" /\ file # NoFile /\ entry \notin Sortings(file)
  /\ excuse \cap {"startup", "unreadable"} = {}
  => mtime # tval \/ mtime <= readAt

(***************************************************************************)
(* A program that has died is replaced (schedule.c:136-139), unless the    *)
(* schedule file is gone, when the loop may wait for ever for two          *)
(* uninitialized buffers to agree (schedule.c:142-152), or the schedule    *)
(* asks for a program that is missing: then not even the default program   *)
(* is started (check_program.c:52-54).                                     *)
(***************************************************************************)
DeadReplaced ==
  (pc = "loop" /\ pid = NoPid)
    ~> (file = NoFile \/ "missing" \in excuse \/ \E p \in Pid : proc[p] = "alive")

(***************************************************************************)
(* A program that does not heed SIGUSR1 holds terminate() up no longer     *)
(* than its timer runs, whether SIGALRM or SIGCHLD comes during waitpid()  *)
(* or after it, or SIGCHLD before it; except that a timer that expires     *)
(* before waitpid() is called interrupts nothing, and terminate() waits as *)
(* long as the program likes (execute.c:53-68).                            *)
(***************************************************************************)
TerminateReturns == (pc = "call") ~> (pc = "start" \/ "expired" \in excuse)

(***************************************************************************)
(* What the comment at execute.c:51 says of the signal: it is sent to a    *)
(* program, never to every process there is (kill(-1,...)).                *)
(***************************************************************************)
KillsOnlyProgram == pc = "call" => target # NoPid
=============================================================================
