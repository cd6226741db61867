# A verification project for the SuperDARN Radar Software Toolkit

The repository is the SuperDARN RST, release 3.2 beta: the programs that run a
radar (`codebase/superdarn/src.bin/os`, `src.lib/os`, the site and control
programs under `usr/`), the servers that carry its data over TCP/IP
(`codebase/base`, `codebase/general`, `src.bin/tk/tcpip`), and a large toolkit
that processes files after the fact. This project models the first two: they
are concurrent programs, made of processes that fork, share pipes, sockets and
memory, take signals, and run unattended for months. Paths below are relative
to `codebase/superdarn/src.bin/os` unless they start with `codebase/`, `lib/`
(for `codebase/superdarn/src.lib/os`) or `usr/`
(for `usr/codebase/superdarn`).

Contents: 1 the system; 2 the modules and the code; 3 the runs; 4 fairness;
5 what the runs found in the code; 6 the proofs; 7 what is not modelled;
8 the plan.

## 1. The system

```
                    schedule (schedule.1.4)
                        | fork/exec, SIGUSR1, SIGKILL
                        v
  radar, site <---> control program (normalscan ...) <---> shellserver <---> radarshell
                        | RMsgSnd*: Reset, Open, Data, Close, one answer each
        +---------------+----------------+-----------------+
        v               v                v                 v
   rawacfwrite     iqwrite         fitacfwrite          rtserver
   (child per connection: operate(), files)             operate()
                                                          | ConnexWriteIP, pipe
                                                          v
                                                    pool: procsocket()
                                                          | ConnexReadIP
                                             ipclient, rtmultiplex, fitacfserver ...
```

All of them also send lines to `errlog`.

| component | state it keeps | operations | what is hard | what makes it correct | module |
|---|---|---|---|---|---|
| client pool: `rtserver.1.5/{socket,connect,msgmem}.c`, copied in ipserver, rtmultiplex, fitacfserver, rtfittofitacf, rtfitacftofit | `client[]` with an output buffer per slot, `msgmax`, `poll`, `runloop` | accept, refuse, relay the pipe, partial write, hang-up, exit | clients that stall, hang up, or come in any order; buffers that overflow; signals | slots and connections in step; streams in order, gaps by overflow only; slots given back | ClientPool |
| record stream: `operate()` of rtserver, `fork.c`, `cnx/msg.c` | pipe, frame under way, child, reader's position | `ConnexWriteIP`, `ConnexReadIP`, fork and restart | non-blocking pipe, cut frames, a child that is gone | records whole and in order, the control program not held up | RecordStream |
| scheduler: `schedule.1.4` | `schedule` (`entry`, `cnt`, `pid`, `command`), statics of `refresh.c` and `execute.c` | load, refresh, check and replace the program, two signal handlers | SIGCHLD between any two steps, timer against death, edits | one program at a time, never lost, the one asked for, replaced when dead | Scheduler |
| writers and their messages: `rawacfwrite`, `iqwrite`, `fitacfwrite`, `lib/rmsgsnd`, `rmsgrcv`, `fio` | `filename`, `flg`, the block received | Reset, Open, Data, Close | a control program killed in mid-message, the answer before the write, disk and name failures | no file mixes two requests, no record is lost without a failed call, no call hangs | TaskWriter |
| shell server: `shellserver.1.3`, `lib/rshell`, `radarshell.1.1` | `cpstate`, `rsstate`, the table in shared memory | a control program offers variables, a shell reads and sets them | two processes with no lock on the memory; children of earlier programs and shells | a shell gets one table of one moment, a program takes one upload, nobody waits for ever | ShellServer |
| site library and radar: `usr/src.lib/os/site.tst.1.5`, `radar.1.3`, `lib/rosmsg` | the socket, the message under way | set up, register, clear frequency, sequence, QUIT | no result of `recv()` is looked at; signals inside an exchange; a radar that dies | both ends in step, the end of either seen by the other | RadarLink |
| control program and operation library: `usr/src.bin/os/cp/normalscan.1.6-*`, `usr/src.lib/os/ops.1.10` | beams, counters and the clock in globals | start beam, integrate, reopen, wait for the boundary | integer overflow, wraps at midnight, edits of the operator, tests for equality | beams on time, no scan twice, files of the right block, scans that end | ScanLoop |
| other sites and control programs, frequency table | the same | the same | the same | the same | not modelled |
| error log: `errlog.1.3`, `lib/errlog` | one socket per program, shared with its children | five parts and an answer per line | two writers on a socket | lines arrive whole | not modelled |
| multiplexer and clients: `codebase/general/src.bin/tcpip`, `src.bin/tk/tcpip` | the pool, a `ConnexRead()` over several streams | restart of streams and of the child | the same as pool and stream | the same | not modelled |
| files and data maps, shared memory | none between calls, or a file | encode, decode, search | no concurrency of their own | decode inverts encode | not modelled |
| physics, gridding, plotting, options, time, text, XML | none between calls | | none a model checker reaches | | not modelled |

The hazards that this code is exposed to are listed with their lines in
`PROJECT.json`; the properties below are aimed at them.

## 2. The modules and the code

In each module an action is one stretch of a process between two points where
another process, a signal or a failure can come between. Comments in the
modules give the correspondence action by action and `PROJECT.json` ("map") the
lines. Definitions marked *Mutant* are plausible bugs of the definition that
follows them; no specification uses them, they show that a property can fail.

**ClientPool** is the loop of `procsocket()`. `sock`, `outbuf` and `msgmax` are
`client[i].sock`, `client[i].out_buf` with `out_sze`, and `msgmax`; `pc` and
`idx` say where in the loop the process is; `fdset` is what `select()` returned
(its parts for the listening socket and the pipe are cleared once they have been looked
at, since nothing looks at them again),
so that what changes after it is seen in the next round only. `fd`, `hup` and
`talk` are the connection as the kernel has it, `written`, `taken` and `eof` the
pipe. `Select`, `Accept`, `AcceptFails`, `Refuse`, `ReadPipe`, `PipeClosed`,
`WriteSome`, `WriteWouldBlock`, `WriteFails`, `ReadInput`, `ReadClosed`,
`CloseAll` and the rest are the calls of that loop and their outcomes. Bytes are
named by their position in the stream, which is all that order and loss depend
on. `last`, `acc` and `over` are history variables. Two details of the code
are kept because they matter: `writeraw()` tests `sock !=0`, which is true of a
closed slot too, so closed slots below `msgmax` go on filling; and `opensock()`
does not empty the buffer of a slot it reuses.

**RecordStream** puts `operate()` of rtserver, the pipe, one client of the pool
and `ConnexReadIP()` together. A frame is `IdLen` units of identifier, one unit
of length and `BodyLen[r]` units of body. `WriteHeader`, `WriteBody` and their
failures follow `ConnexWriteIP()` on a pipe with `O_NONBLOCK`: at most
`PIPE_BUF` bytes go whole or not at all, more may go in part. The pool is
reduced to what `ClientPool` shows of one client: what comes from the pipe is
appended, and the oldest is dropped when it does not fit. The reader is out of
step with the frames after a cut, and the model follows it through the bodies it
then takes for headers.

**Scheduler** is the main loop of `schedule.c` with `check_program()`,
`terminate()`, `execute()`, `test_refresh()` and the loads as program counters,
`ChildHandler` (SIGCHLD) and `Alarm` (SIGALRM) as actions of their own.
`terminate()` sets its timer in `Terminate`, calls `waitpid()` in `EnterWait` and
comes back from it in `Wait`: an alarm in between sets `resetflg` and interrupts
nothing. `entry`,
`cnt`, `pid`, `command` are the fields of `schedule`, `savepid` that of the copy
which is restored when a load fails. `proc` is the kernel's view of the
children, a zombie among them; `chk`, `target` and `newpid` are values read
before and used after a signal may have changed what they were read from.

**TaskWriter** is a control program and the child of a writer for each of its
sessions. A call is the list of parts it sends, one `send()` each (`SendPart`),
and an answer; the socket holds how many parts of the present message are in
it. The child takes a whole message (`TaskOpen`, `TaskClose`, `TaskData`), or
finds it cut when the control program was killed (`Cut`), answers, and then
makes the file (`MakeFile`, with `O_EXCL`) and appends to it (`WriteRecord`,
`WriteFails`, `OpenFails`). The name of a file and the records are those of one Open of one session
(`sent`); `miss` names the Opens for which a system call has failed. `Start` has
the three ways a connection can begin: accepted and served, accepted and closed
because the writer could not fork, refused. After a cut message the code
processes the block of the message before, with pointers to freed memory; the model lets that be
anything: a crash, nothing, or a record that nobody sent. Writing to a child
that is gone follows TCP: the first `send()` is accepted and answered by a reset,
after which `send()` fails or raises SIGPIPE, for which `SiteTstExit()` leaves
the program.

**LossyStream** is what the pool promises, with no slots, loops or system
calls: per client a set of bytes that wait, of which the newest `Capacity`
survive, and which is given out from the oldest on. `ClientPool` instantiates
it: `Attachment`, `Pending` and `Given` are the refinement mapping
(`RefinesLossyStream`). A client is attached while its connection is open; what
waits for it is what is in the buffer of its slot, wherever in the table that
is; `Attach` may hand out a part of the past, because of the buffer that
`opensock()` does not empty. So one chunk read from the pipe is a single
`Produce`, though the loop writes it to slot after slot, and the search for a
slot, the closing of the ones before it and the reuse are invisible.
`RecordStream` relies on exactly this of its one client.

**ShellServer** is the server between control programs and radar shells: one
child per connection, `operateCP()` or `operateRS()`, that share `struct membuf`
(`cpstate`, `rsstate`, `table`) without a lock. A table is a layout and two
variables `lo` and `hi`, copied in two steps (`CPStoreHead`, `CPStoreTail`,
`RSLoadHead`, ...), so that a torn one can be told from a whole one. The looks of
the two waiting loops of `operateRS()` are `RSLookHasTable`, `RSLookNoProgram`
and `RSApplied`; what the control program is told when it polls is `Ignore`,
`Send` or `Reply`. `held` and `odd` are history: the tables a shell may be
given, and what has come in the way of a simple exchange ("resend", "left",
"two", "change", "late"), for the code is only right in its absence.
`ShellKilled` ends a shell at any moment, between the parts of its upload too,
which leaves half of it in the table and `cpstate` at 2.

**RadarLink** is one connection between a control program and the radar: the
exchanges as the site library writes them down (`Sends`, `Receives`) and as the
switch of the server does (`Takes`, `Gives`), word by word of four bytes, so
that a difference between the two or a message taken for data would show.
`Signal` is `SiteTstExit()` called by SIGINT or SIGUSR1 wherever the program
is, once more within itself if the other of the two comes while it waits for the
answer to QUIT; `SigPipe` is the same by SIGPIPE, `Killed` the scheduler's
SIGKILL (and a signal before there is a connection, which ends the program with
nothing sent), `RadarDies` the end of the child.

**ScanLoop** extends it: the main loop of normalscan with `OpsFindSkip()`,
`OpsReOpen()`, `SiteTstIntegrate()` and `SiteTstEndScan()`. Each call of the
library is a step that begins its exchanges (`Do`), after which the steps of
RadarLink go on until they are over. The clock is that of the day, goes round at
its end, and moves only while a sequence is played (`Sum`) and in `usleep()`
(`Wait`). `TimeIsUp` keeps seconds and microseconds apart as the code does,
which never carries between them; `Tv` is an `int` of microseconds.
`RecordAndEdit` is the operator at the radar shell.

## 3. The runs

| run | instance | asks |
|---|---|---|
| pool_safety | 2 slots, 3 clients (symmetric), buffers of 2, 3 bytes | `SlotsTrackConnections`, `StreamOrder`, `NoLossUnlessOverflow`, `AllClosedAtExit`; the refinement `RefinesLossyStream` |
| pool_live | 2 slots, 2 clients, buffers of 2, 2 bytes | `HangUpReaped` |
| stream_records | 3 records with bodies of 1, 4 and 2 units, PIPE_BUF 3, pipe 8, buffer 7 | `InOrder`, `NoneMissing`, `WriterReturns`, `Delivered` |
| stream_cut | the same | the comment on the non-blocking pipe is violated |
| stream_restart | the same | no child is ever replaced |
| sched_safety | 3 files, 1 program missing, 2 process numbers (symmetric), 3 seconds, 1 failing fork | `AtMostOneAlive`, `NeverForgotten`, `InStep`, `EditsNoticed` |
| sched_live | 2 files, 1 program missing, 1 second, 2 failing forks | `DeadReplaced`, `TerminateReturns` |
| sched_kill | as sched_safety, nothing missing | `kill(-1,...)` is reached |
| writer | 2 sessions, 3 records, 2 Opens, 2 times, 1 directory | `OneOpenPerFile`, `UnsentIsLast`, `NothingMissing`, `CallsReturn`, `ChildrenEnd` |
| writer_goes_on | 1 session, 2 records | a file that cannot be opened ends the writer and the control program |
| shell | 2 control programs, 2 shells, 3 connections between them, 1 change of the variables | `DownloadFresh`, `UploadWhole`, `ShellAnswered`, `UploadReaches` |
| scan | 2 beams a scan, 2 scans an hour and a block, 3 hours and 3 blocks a day, 4 times to begin at, 1 edit | `InStep`, `QuitReturns`, `ChildEnds` of the link; `NotBehind`, `FilesFollow`, `OneLateRecord`, `NoScanTwice`, `ScanEnds`, `XcfComesRound` |

Each safety run also has the module's type invariant.

Why the bounds are enough:

* Pool. Two slots are the least for which the middle and the top of the table
  differ; a third client makes refusal and reuse happen while two are attached.
  With a buffer of two bytes and a stream of three, a buffer is empty, partly
  full, full and overflowing, a write is whole or cut, and a reused slot still
  holds bytes; all of that is in pool_safety, and so is the refinement, for which
  the overflow is what matters most. That neither the invariants nor the
  refinement depend on these numbers is proved (section 6). pool_live may not use
  symmetry and makes do with two clients and two bytes: a buffer is filled but
  never overflows there, and `HangUpReaped` is not about what is in it.
* Stream. PIPE_BUF lies between the first body and the second: one is written
  whole or not at all, the other is cut. The pipe of eight holds one long frame
  and a part of the next, the buffer of the pool is one unit short of it, so it
  overflows in the middle of a frame. Three records let a reader get out of
  step and back.
* Scheduler. With two process numbers one program can be dying while the next
  is started. The three files are one that fits, one with two entries that fall
  due together, one with no default. A boundary of the refresh is passed; the end of
  the day is not (`Day` is 3 and the clock stops at 2), so that nothing is said of
  a schedule that goes round. Fork fails once (twice where the failure of the
  default must be seen). In sched_live a program file is missing, so that
  `DeadReplaced` has its exception, and the clock needs to move only once.
* Writer. In three records, two sessions and two Opens a session sees a file,
  a record of the old file still unwritten when the next Open comes (an Open is
  spent by each session, or both by the first), a kill between any two parts
  with a block before it to be processed again, and a successor that asks for
  the same name. Two times in one directory make two names that depend on the
  record; the search through SD_RAW_PATH is the same choice among names that are
  not there yet.
* Shell. Three connections are two programs and a shell or two shells and a
  program: a program that ends while a shell waits and another that comes, a
  shell whose child is still there when the next one asks. One change of the
  variables is enough to tell two tables apart, and the halves of two.
* Scan. Every ratio that the arithmetic depends on is there: the beams do not
  fill the scan, a beam is no multiple of a second or of a sequence, a sequence
  may overrun its beam and the scans their boundary, `tv` overflows in the
  second scan of an hour, an hour is also a block of OpsReOpen(), and the clock
  passes the end of the day. The program begins at a boundary, late in the first
  beam, after the last beam and where `tv` overflows. `Big` is the least
  structure longer than QUIT. One edit can do all that an operator can do to
  `sbm`, `ebm`, `bmnum` and `xcnt`.

Deadlock is checked in every run. The modules say where the program may stop:
`Exited` in ClientPool, `Over` in ScanLoop, and where it only runs into a
bound: `AllGiven`, `AllDone`, `AllOver`.

Symmetry is used in runs without liveness properties only.

## 4. Fairness

* ClientPool: `WF(ProcSocket)`, the kernel runs the process. Nothing is assumed
  of clients, of the parent or of the outcome of a call: a client may never
  read again, and SIGUSR1, which wakes `select()` too (`SelectInterrupted`), is a
  step of the environment and need never come. A hang-up has to be seen by
  `select()` itself.
* RecordStream: `WF(Write)`, `operate()` is run. For `Delivered` alone the child
  and the client are assumed to run too, as a premise of the property
  (`ReadersRun`); `WriterReturns` must hold without that, for this is the point
  of `O_NONBLOCK`.
* Scheduler: `WF(Main)`, `WF(ChildHandler)`, `WF(Alarm)`: the process runs,
  signals are delivered, the timer that was set expires, at any moment after it
  was set. A program need not heed SIGUSR1 nor ever end. With the schedule file gone, the wait for
  `st_mtime` compares uninitialized buffers and need not end, so `DeadReplaced`
  excuses it.
* TaskWriter: `WF(ControlProgram)` for the calls under way, `WF(Operate(s))`
  for each child: both processes are run and a system call returns. When the
  control program starts, sends or is killed is left open.
* ShellServer: `WF(OperateCP(p))` and `WF(OperateRS(s))`, one per child. The
  first contains the call of `RadarShell()` at the other end, which a control
  program that runs makes once a beam. Users may leave a session open for ever.
* ScanLoop: the control program is run, in its loop or in a call of the site
  library, and so is the child of the radar. Signals need not come, a radar need
  not die, operators need do nothing. SIGKILL has no fairness either: where
  QUIT is lost (`cut`) the two processes do wait for each other until it comes,
  and `QuitReturns` says so.

## 5. What the runs found in the code

Four runs expect a violation; each checks a statement of the repository that
the code does not keep. `PROJECT.json` quotes the lines.

1. `stream_cut`: the comment at `codebase/base/src.bin/tcpip/ipserver.1.10/fork.c:43`
   says a message is either sent or discarded. Header and body are written
   apart, and a body longer than PIPE_BUF in parts: a full pipe cuts the frame
   and the readers lose step.
2. `stream_restart`: rtserver means to start a new child when the old one has
   died (`rtserver.c:162`), but nothing ever sets `outpipe` to -1: once the
   child has ended nobody is served again. ipserver and rtmultiplex do it in
   their handler of SIGPIPE.
3. `sched_kill`: `check_program()` tests `pid` at line 57 and reads it again at
   line 59; SIGCHLD in between makes `terminate(-1)` of it, and
   `kill(-1,SIGUSR1)` reaches every process the scheduler may signal.
4. `writer_goes_on`: `rawacfwrite.c:173` tests for a file that `fopen()` cannot
   open, logs it, and has the record written in the else branch only, but
   `fclose()` at line 180 is called with NULL all the same, and the child dies.
   It has answered before that (line 129), so the control program is in its next
   `RMsgSndSend()`: in the trace the first of its parts is in the socket when the
   child dies, and the `send()` of the second meets the reset. That `send()`
   returns -1 or raises SIGPIPE, for which `SiteTstExit()` ends the control
   program.

More that the models contain; the properties excuse it by name or are stated
with it:

* `writesock()` does not count a client whose socket is full, and `select()` has
  no write set: with all sockets full the loop sleeps though output is waiting
  (`rtserver.1.5/msgmem.c:93`).
* Two entries of the schedule that fall due together make the scheduler start
  the wrong one until the next refresh ("slip"), a fallback to the default is
  recorded as the command of the entry ("fallback"), and when a program file is
  missing not even the default program is started ("missing").
* A timer of `terminate()` that expires before `waitpid()` is called (the
  scheduler is stopped or swapped out for ten seconds between `execute.c:58` and
  61) interrupts nothing: `waitpid()` then waits as long as the program lives
  ("expired"; `TerminateReturns`).
* An edit of the schedule between the first load and the first
  `test_refresh()` is not noticed until the next boundary ("startup").
* A failed `RawFwrite()` leaves the file open (`left` in `TaskWriter`), and
  when `FIOMakeFile()` fails (`MakeFails`) all records up to the next Open are
  silently discarded, each answered with TASK_OK (`miss`).
* When `fork()` fails in a writer its parent closes the connection it has just
  accepted: the control program goes on with a task that keeps nothing, and
  meets SIGPIPE.
* `tv` of `OpsFindSkip()` overflows 35 minutes and 47 seconds into an hour: a
  program that begins a scan late after that does not pass over the beams that
  are over ("overflow").
* `OpsReOpen()` looks at the time of the last beam, so the first scan of a block
  goes to the files of the block before (`FilesFollow` allows one).
* `bmnum` and `cnt` are compared with `ebm` and `xcnt` for equality: an operator
  who sets these to what is past makes the beam count on for ever ("runaway") or
  ends the measurement of the cross correlation ("xcnt").
* A signal between a message to the radar and its data makes QUIT a part of the
  data, and both sides wait (`cut`), until the scheduler's SIGKILL ten seconds
  later.
* A shell whose predecessor's child is still there, or was killed in the middle
  of its upload, or whose control program is replaced under it, may be given a torn or an old table, or lose its upload
  (`odd` in `ShellServer`).

## 6. The proofs

Each theorem is of the form `Spec => []P`, or says that `Spec` implements
another specification, for every value of the constants that the module's
assumption admits. For each there are the three facts: the initial states, one
lemma per group of actions, and a last step that puts them together in temporal
logic.

**ClientPool_proofs** and **ClientPoolStream_proofs**, for every number of
slots, buffer size, set of connections and length of the stream. The only
assumption is `ClientPoolAssumption`: `ClientMax` and `BufSize` are positive,
`NoSock` is no connection.

| theorem | property | inductive invariant |
|---|---|---|
| `TypeCorrect` | `TypeOK` | `TypeInv`: `TypeOK` and `CountBound`, without which `cnt` could pass the end of the table |
| `SlotsCorrect` | `SlotsTrackConnections` | itself, over `TypeInv`: no occupied slot from `msgmax` up, no connection in two slots, and, until the process has ended, open exactly if held |
| `StreamCorrect` | `StreamOrder` | `StreamInv`: `StreamOrder` and `SentSoFar`. What a client has been sent is never beyond what was read from the pipe, without which a chunk read later could not be shown to lie above it |
| `ExitCorrect` | `AllClosedAtExit` | itself, over `SlotsTrackConnections`: the closing loop stops at `msgmax`, and nothing occupied lies beyond |
| `LossCorrect` | `NoLossUnlessOverflow` | itself, over `PoolInv` (types, slots and stream together): what `writeraw()` drops sets `over`, what `writesock()` takes moves `last` |
| `Refinement` | `RefinesLossyStream` | none further: over `PoolInv` each step of the loop is a step of LossyStream under the mapping, or none |

The lemmas about data are `ChunkType`, `PushProperties` (what `writeraw()` keeps
and drops), `DropProperties` (the `memmove()` after a partial write),
`PushAscends` and `DropAscends` (both keep a buffer in the order of the stream);
for the refinement, `LaterCount` (in an ascending buffer, as many bytes are later
than the j-th as stand behind it), by which the newest bytes of a sequence and
of a set are the same.

**Scheduler_proofs**, for every set of schedule files, every interval of
refresh, any number of process numbers, failures and seconds.
`SchedulerAssumption`: a file is a sequence of lines and not empty, `NoFile` and
`NoPid` are none of theirs, the numbers are positive where they must be.

| theorem | property | inductive invariant |
|---|---|---|
| `TypeCorrect` | `TypeOK` | `TypeInv`: `TypeOK` and `ChkForgotten`. The table may shrink in a load, so `chk` must be known to be 1 whenever no check is under way |
| `OneAtATime` | `AtMostOneAlive` | `OneProgram`: for each `pc`, what may be alive and who knows it. SIGCHLD is pending only when nothing lives, so the handler may forget `pid`; nothing lives from the end of `terminate()` to the fork; `target` names what lives while it waits, and `savepid` while a failed load is undone |
| `NoneForgotten` | `NeverForgotten` | the same |
| `InStepCorrect` | `InStep` | `Scheduled`: the table is sorted and begins with the default, `cnt` counts the entries due when the clock was last read, `command` is what runs and is what is wanted, each with its exceptions |
| `EditsCorrect` | `EditsNoticed` | `Remembered`: what `test_refresh()` remembers is not later than the last load, unless a load is about to come |

For `Scheduled` the lemmas about sorted tables matter: `DueCountIs` (as the
entries are sorted, the number of those due is the place of the last of them)
and `DueCountStays` (if the next entry is not due, no later one is).

**RecordStream_proofs**, for records of every length, every size of the pipe and
of the pool's buffer. `RecordStreamAssumption`: a body is not empty, a header
fits `PIPE_BUF`, and that fits the pipe.

| theorem | property | inductive invariant |
|---|---|---|
| `TypeCorrect` | `TypeOK` | `TypeInv`: `TypeOK` and `WriterInv`, without which a body could be written of a record that is not there |
| `InOrderHolds` | `InOrder` | `OrderInv`: `TypeInv`, `PipeInv` and `SyncInv` |
| `NoneMissingHolds` | `NoneMissing` | the same |

Neither property is about what is on its way, and neither is inductive for that
reason. `Sync` is about all of it, the buffer and the pipe in one sequence
(`Stream`), seen by a client that has missed nothing: each unit is followed by
the next of its frame or by the first of a later record's; the unit the client
reads next is the one it expects (`InPlace`), and the writer's is the one that
comes behind the last; every record that was written whole has been received or
has its last unit in the stream. A client can attach at any time, so the pipe
needs its order with no client too (`PipeInv`). The lemmas are about sequences
that grow at one end and shrink at the other.

**TaskWriter_proofs** and **TaskWriterRecords_proofs**, for any number of
sessions, records, Opens and files, wherever a control program is killed.
`TaskWriterAssumption`: there is a time to ask for a file at, and `NoFile` is the
name of none.

| theorem | property | inductive invariant |
|---|---|---|
| `TypeCorrect` | `TypeOK` | `TypeInv`: `TypeOK` and `ProgramInv`, the lists of calls there are and the part each is at |
| `UnsentIsLastHolds` | `UnsentIsLast` | `FileInv`: a file has one writer (`O_EXCL`); a child that has written a record nobody sent, or is about to, has lost its connection |
| `OneOpenPerFileHolds` | `OneOpenPerFile` | `OrderInv`: what a child has in its file or in its hands comes before what is in its socket, and is of the same Open |
| `NothingMissingHolds` | `NothingMissing` | `KeepInv`: a record of the session is in the socket, in the child or whole in a file, or its Open is in `miss`; over `OrderInv`, for what is in the child's hands must be known to be of the Open it counts for |

All but the first stand on `SessionInv`, which relates a call to the parts in the
socket, to the message in the child and to the answer, for sessions that are up
and for those that were cut. The order of the modules is that of the argument:
`TypeInv`, `SessionInv`, `FileInv`, then `OrderInv` and `KeepInv`, each over the
one before.

**ShellServer_proofs**, for any number of control programs, shells, connections
and changes. `ShellServerAssumption`: there is a control program (with none
there is no table).

| theorem | property | inductive invariant |
|---|---|---|
| `TypeCorrect` | `TypeOK` | itself |
| `DownloadFreshHolds` | `DownloadFresh` | `IInv` |
| `UploadWholeHolds` | `UploadWhole`, an action property | `IInv`, and one lemma about a step from it |

With no lock, all that keeps an upload and a download from each other is what
`cpstate` and `rsstate` mean, and that is what `IInv` says, as long as there is
no exception but "left". One child at most serves a shell and one a program.
`rsstate` is 1 because a child still wants the table and 2 because an upload is
there (`StateInv`). `cpstate` stays 2 from the moment a shell sees the table to
the end of its upload (`HasTable`), so that no program can be sending one.
A table half received is half of one that a waiting shell may be given
(`DownInv`), a table half taken over half of one upload (`UpInv`); a shell that is
killed in the middle of its upload leaves half of that, and `rsstate` at 0, so that
no program is given it. That a shell
is told nothing old (`Fresh`) needs that nothing was left. The proof found the
model wrong once: `odd` used to be emptied as soon as the last child of a shell
was gone, but when the child of a program that has ended sets `cpstate` to 0
after the next program has attached, the exception lasts: a shell is told that
there is no program while a table is on its way to it, and the next shell, some
thirty steps later, is given that old table. TLC does not see it with the two
shells of the run. `LastTrace` now waits until `cpstate` is right again.

**ScanLoop_proofs**, for every length of a structure, of a day, a scan and a
beam. `RadarLinkAssumption` and `ScanLoopAssumption`: a structure is longer than
QUIT, an hour divides the day and a scan the hour, the beams are the numbers from
0 on, and the values the operator gives `xcnt` and the times of a sequence have a
greatest. `TimesAssumption` is what the properties about time need: the beams of a
scan last as long as the scan or a little less, as `normalscan.c:228-239` sees to;
those of a scan that is begun early last until its boundary; no scan, the beams an
operator adds included, lasts a day but for a block. The values of normalscan (one
to 24 beams in a minute less three seconds or in two minutes less three, sequences
of a tenth of a second, blocks of two hours) satisfy it with up to 25 edits
of the operator (`MaxEdit`, which bounds the beams a scan may have), and TLC
evaluates it on those of the run.

| theorem | property | inductive invariant |
|---|---|---|
| `InStepHolds` | `InStep` (of RadarLink) | `LinkInv`: the remainder of an exchange at one end, the job at the other and the words between them are those of one message, k parts on (`Talk`), or there is no exchange (`Idle`), or the connection is being given up. `InStep` is what `Talk` and `Idle` say of the next step of each side, for a program that no signal has reached |
| `OneLateRecordHolds` | `OneLateRecord` | `LateInv`: after a record made without a radar the next message is refused, and at the one after that SIGPIPE is raised before another record can be made |
| `TypeCorrect` | `TypeOK` (with that of RadarLink) | `TypeInv`: `LoopTypeOK` and `BeamInv`, for `bmnum` is out of range only between two beams |
| `NotBehindHolds` | `NotBehind` | `BehindInv`: at each place in a beam, how far behind its time it may be: what it began with, the time it has run, and at the end its integration time and one sequence |
| `FilesFollowHolds` | `FilesFollow` | `FilesInv`: when the clock was last read, when the present scan began, and that less than a day, less a block, lies between; without that a new block could come round to the number of the old one |
| `NoScanTwiceHolds` | `NoScanTwice`, an action property | `PeriodInv`: how long the scan has lasted at least (so many beams, each of nearly its integration time) and at most, so that the boundary `SiteEndScan()` waits for is the next one and the scan after it another |

The clock goes round, so the last two speak of a moment `x` of the day and of the
time gone since, which does not; the lemmas on the way (`Divided`, `DivOrder`,
`LaterInDay`, `BlockBetween`, `ReachType`, `LongEnough`, `BeamTimes`,
`AnotherScan`) are those about quotients and remainders by a scan, an hour, a
block and a day. The proof found a property that was too strong: `NotBehind` used
to allow each beam the difference between the longest and the shortest sequence.
The loop leaves a beam when the average of its sequences says that the next would
end too late (`site.c:334-368`), so after short ones a long one may run over by
more than that; a beam may be late by a whole sequence, and `Slip` is that now.
The day of the run had to be longer, too: in two blocks `TimesAssumption` fails.

What is only model-checked, and why:

* The liveness properties of every module: the prover does neither fairness nor
  ENABLED.
* The runs that end in a violation: a counterexample is their result.

What a recursive definition computes for every input could not be proved either,
since the induction theorems of the library take operators the installed provers
cannot instantiate; no module here declares a RECURSIVE operator.

## 7. What is not modelled

* In ClientPool: what clients send, beyond the fact that there is some. Nothing
  ever reads `in_buf`, but all connections of a slot together fill it, and once
  BUF_SIZE (10 kbytes) are exceeded line 77 of `msgmem.c` sets `out_sze` where
  `in_sze` must be meant and line 79 copies beyond the end of `in_buf`: from there
  on the behaviour is undefined and nothing can be said. All that the module says
  holds while a slot stays below that. The clients of the repository send one
  byte at most in a connection (`dmapclient.c:87`), so it takes ten thousand
  connections in one slot. A `select()` that fails while polling is left out too.
* In RecordStream: several clients (ClientPool has them), the messages from
  the control program, and two `operate()` processes on one port.
* In Scheduler: a clock that passes the end of the day, job control, reuse of process numbers by other programs, the
  text of a schedule line, the log.
* In TaskWriter: a `malloc()` that fails in a call or in the child, TASK_QUIT (no program sends it),
  several records with different tags in one message, and a control program
  with several writers, which gets them one after the other in the same calls.
* In ShellServer: the commands of the shell, which change its own copy; the fork
  of `main()` and its reaping of children; two users at a time.
* In RadarLink and ScanLoop: what is in the structures, frequencies, ranges,
  pulse tables and samples; the hardware; the other sites, whose libraries make
  the same exchanges; the other control programs, which are variations of the
  loop; the tasks that records go to (TaskWriter has one).
* Error log: no program reads what it keeps. Date server, multiplexer, real-time
  fit servers: copies of the pool and the pipe under other names, but for the
  handlers of SIGPIPE that restart the child.
* The rest, with reasons, in `PROJECT.json`. Of the lines of the repository
  by far the most are physics (AACGM, IGRF, geopack, fitting), gridding, mapping
  and plotting: sequential and numeric, in floating point, with no state between
  calls; there is nothing in it for interleavings to disturb, no integer
  arithmetic with a specification apart from the code, and a translation of it
  would check the translation against itself. What is modelled is the part that
  runs as processes.

## 8. The plan

Done: ClientPool with LossyStream, Scheduler, RecordStream, TaskWriter,
ShellServer, RadarLink with ScanLoop; of each of them the proofs of its types
and of all the safety properties the runs check, and of the refinement of
LossyStream. What remains with TLC alone is liveness.

Models, should there be room for more: the restart of child and stream in the
multiplexer, with `ConnexRead()` over several sockets; a parent and its child on
the socket of the error log; a wait of the scheduler over days (-d).
