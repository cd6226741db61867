------------------------------ MODULE ScanLoop ------------------------------
(***************************************************************************)
(* The main loop of a control program, normalscan, over the operation      *)
(* library (ops.1.10) and the connection to the radar (RadarLink): scans   *)
(* that are to begin at the boundaries of the day, beams in each of them,  *)
(* pulse sequences in each beam.  pcodescan, tauscan, normalsound and      *)
(* themisscan are variations of it.                                        *)
(*                                                                         *)
(* The clock is that of the day and goes round.  It advances while the     *)
(* radar plays a sequence and in usleep(); the rest takes no time.  The    *)
(* edits are those of the radar shell, which RadarShell() applies after a  *)
(* beam.  backward and scannowait are 0, and exitpoll, which nothing sets, *)
(* is too.  Frequencies, ranges and what is measured are left out.         *)
(***************************************************************************)
EXTENDS RadarLink

CONSTANTS
  Day,       \* the length of the day, in any fraction of a second
  Sec,       \* a second
  Hour,      \* an hour
  Half,      \* 2^31 microseconds
  Block,     \* the interval of OpsReOpen()
  Scan,      \* scnsc and scnus
  Intt,      \* intsc and intus: the time a beam is integrated
  Lead,      \* the 100 ms OpsFindSkip() takes off
  Nap,       \* how long SiteEndScan() sleeps at a time
  Dur,       \* the times a sequence may take
  Begins,    \* the times the program may begin at
  Beam,      \* the numbers an operator may set sbm, ebm and bmnum to
  FirstBeam, \* sbm at the start
  LastBeam,  \* ebm at the start
  XcfEvery,  \* xcnt at the start
  XcfEdit,   \* the numbers an operator may set xcnt to
  MaxEdit    \* bound: how many edits an operator makes

ASSUME ScanLoopAssumption ==
  /\ {Day, Sec, Hour, Half, Block, Scan, Intt, Nap} \subseteq Nat \ {0}
  /\ Lead \in Nat /\ MaxEdit \in Nat
  /\ Dur \subseteq Nat \ {0} /\ \E n \in Dur : \A d \in Dur : d <= n
  /\ \A t \in {Sec, Hour, Block, Scan} : Day % t = 0
  /\ Hour % Scan = 0 /\ Hour + Intt <= 2 * Half
  /\ Begins \subseteq 0 .. Day - 1
  /\ Beam \subseteq Nat /\ \E n \in Beam : Beam = 0 .. n
  /\ {FirstBeam, LastBeam} \subseteq Beam /\ FirstBeam <= LastBeam
  /\ XcfEvery \in Nat /\ XcfEdit \subseteq Nat
  /\ \E n \in XcfEdit \cup {XcfEvery} : \A x \in XcfEdit \cup {XcfEvery} : x <= n

VARIABLES
  pc,       \* where the program is, once the exchanges of a call are over
  now,      \* the clock
  clk,      \* the block of the day in yr, mo, ..., us, the time last read
  then,     \* the static variable of OpsReOpen()
  sbm, ebm, bmnum,
  xcnt, cnt, xcf,
  ran,      \* tick - tack: the time since the integration began
  nave,     \* the sequences there were in it
  left,     \* the time to the boundary SiteEndScan() waits for
  edits,    \* how many edits there were
  files,    \* history: the block of the day the files were opened in
  old,      \* history: how many scans in a row began in another block
  period,   \* history: the scan of the day the last scan was
  first,    \* history: when it began, before or after its boundary
  age,      \* history: how long it has run
  late,     \* history: how many records were made after the radar was gone
  excuse    \* history: what keeps the loop from its promises

beamVars == <<sbm, ebm, bmnum>>
xcfVars == <<xcnt, cnt, xcf>>
fileVars == <<then, files, old>>
inttVars == <<ran, nave>>
scanVars == <<period, first>>
vars == <<linkVars, pc, now, clk, beamVars, xcfVars, fileVars, inttVars, left,
          edits, scanVars, age, late, excuse>>

PC == {"radar", "timeseq", "scan", "beam", "intt", "fclr", "sequence", "sum",
       "record", "endscan", "wait"}
Excuse == {"overflow", "beams", "runaway", "xcnt"}
-----------------------------------------------------------------------------
(* The operation library.                                                  *)

Largest(S) == CHOOSE x \in S : \A y \in S : y <= x
Distance(a, b) == IF a > b THEN a - b ELSE b - a

\* Bounds: a scan whose bmnum is past every ebm is not followed further, and
\* cnt past every xcnt is not counted on, nor the age of a scan past MaxAge.
Past == Largest(Beam) + 1
MaxCnt == Largest(XcfEdit \cup {XcfEvery}) + 1
MaxAge == 2 * Scan

\* The most a beam may run over its integration time: a sequence.  It is begun
\* when the average of those before it says it would end in time.
Slip == Largest(Dur)

Beams == LastBeam - FirstBeam + 1

\* The beams there may be in a scan: after an edit of bmnum they go on from its
\* successor.
MostBeams == MaxEdit * (Past - 1) + Past

\* What the properties need of the times: the beams of a scan last as long as
\* the scan or a little less (normalscan.c:228-239), those of a scan begun early
\* until its boundary, and no scan lasts a day.
ASSUME TimesAssumption ==
  /\ Beams * Intt <= Scan
  /\ Beams * ((Intt + 2) - (Sec + Slip)) >= Scan - (Beams * Intt + Lead) + (Intt \div 2)
  /\ Beams * (Intt + Slip) + 3 * Scan < Day
  /\ MostBeams * (Intt + Slip) + Scan + 1 <= Day - Block

\* nowsec / bndsec
BlockOf(t) == t \div Block

\* The time of the scan, on the way to the nearest beam.
Nearest(t) == (t % Hour) + (Intt \div 2) - Lead

\* tv of OpsFindSkip() is a signed int of microseconds.
Overflows(t) == Nearest(t) >= Half
Tv(t) == IF Overflows(t) THEN Nearest(t) - 2 * Half ELSE Nearest(t)

\* Mutant: the time is rounded down to a beam, not to the nearest one.
FindSkipRoundsDown(t) ==
  LET skip == (t % Scan) \div Intt IN IF skip > Distance(ebm, sbm) THEN 0 ELSE skip

\* OpsFindSkip(): how many beams of the scan are over.
FindSkip(t) ==
  LET skip == IF Tv(t) < 0 THEN 0 ELSE (Tv(t) % Scan) \div Intt
  IN IF skip > Distance(ebm, sbm) THEN 0 ELSE skip

StartBeam(skip) == IF sbm + skip > ebm THEN sbm ELSE sbm + skip

\* History: the scan whose beams are due at time t, the next one when all of
\* this one are over.
BeamsOver(t) == (t % Scan) + (Intt \div 2) - Lead >= Beams * Intt
PeriodOf(t) == ((t \div Scan) + IF BeamsOver(t) THEN 1 ELSE 0) % (Day \div Scan)
FirstAt(t) == IF BeamsOver(t) THEN (t % Scan) - Scan ELSE t % Scan
-----------------------------------------------------------------------------
Init ==
  /\ LinkInit
  /\ pc = "radar" /\ now \in Begins /\ clk = BlockOf(now)
  /\ sbm = FirstBeam /\ ebm = LastBeam /\ bmnum = FirstBeam
  /\ xcnt = XcfEvery /\ cnt = 0 /\ xcf = 0
  /\ then = -1 /\ files = clk /\ old = 0
  /\ ran = 0 /\ nave = 0 /\ left = 0 /\ edits = 0
  /\ period = -1 /\ first = 0 /\ age = 0 /\ late = 0 /\ excuse = {}

\* SiteTstExit() does not come back to the loop, whose variables are of no use
\* from then on and are set to anything.
Forgotten ==
  /\ pc' = "radar" /\ now' = 0 /\ clk' = 0
  /\ sbm' = FirstBeam /\ ebm' = LastBeam /\ bmnum' = FirstBeam
  /\ xcnt' = XcfEvery /\ cnt' = 0 /\ xcf' = 0
  /\ then' = -1 /\ files' = 0 /\ old' = 0
  /\ ran' = 0 /\ nave' = 0 /\ left' = 0 /\ edits' = 0
  /\ period' = -1 /\ first' = 0 /\ age' = 0 /\ late' = 0 /\ excuse' = {}

\* At a, the exchanges of the next call begin; when they are over, at b.
Do(a, list, b) ==
  /\ pc = a /\ Begin(list) /\ pc' = b
  /\ UNCHANGED <<prog, sock, radar, job, up, down, cut>>

Pass(d) ==
  /\ now' = (now + d) % Day
  /\ age' = IF age + d > MaxAge THEN MaxAge ELSE age + d

SetupRadar ==
  /\ Do("radar", Exchange("SET_RADAR_CHAN") \o Exchange("GET_PARAMETERS"), "timeseq")
  /\ UNCHANGED <<now, clk, beamVars, xcfVars, fileVars, inttVars, left, edits,
                 scanVars, age, late, excuse>>

\* The first files are opened, OpsFitACFStart() reads the clock, SiteTimeSeq()
\* registers the only sequence there is.
TimeSeq ==
  /\ Do("timeseq", Exchange("REGISTER_SEQ"), "scan")
  /\ clk' = BlockOf(now) /\ files' = BlockOf(now)
  /\ UNCHANGED <<now, beamVars, xcfVars, then, old, inttVars, left, edits,
                 scanVars, age, late, excuse>>

\* Mutant: the block is noted before it is compared.
ReOpenNever ==
  /\ then' = clk
  /\ files' = files
  /\ old' = IF files' = BlockOf(now) THEN 0 ELSE old + 1

\* OpsReOpen(), and new files when it says so.  It looks at the time of the
\* last beam.
ReOpen ==
  /\ then' = clk
  /\ files' = IF then # -1 /\ then # clk THEN BlockOf(now) ELSE files
  /\ old' = IF files' = BlockOf(now) THEN 0 ELSE old + 1

\* Mutant: cnt is not set back.
XcfOnce ==
  /\ xcf' = IF xcnt > 0 /\ cnt + 1 = xcnt THEN 1 ELSE 0
  /\ cnt' = IF xcnt = 0 \/ cnt = MaxCnt THEN cnt ELSE cnt + 1

\* Every xcnt-th scan measures the cross correlation.
Xcf ==
  /\ xcf' = IF xcnt > 0 /\ cnt + 1 = xcnt THEN 1 ELSE 0
  /\ cnt' = IF xcf' = 1 THEN 0
            ELSE IF xcnt = 0 \/ cnt = MaxCnt THEN cnt ELSE cnt + 1

\* What excuses the scan before does not excuse this one, unless sbm and ebm
\* are still altered.
Passing ==
  {"overflow"} \cup (IF sbm = FirstBeam /\ ebm = LastBeam THEN {"beams"} ELSE {})

StartScan ==
  /\ Do("scan", <<>>, "beam")
  /\ ReOpen /\ Xcf
  /\ clk' = BlockOf(now)
  /\ bmnum' = StartBeam(FindSkip(now))
  /\ period' = PeriodOf(now) /\ first' = FirstAt(now) /\ age' = 0
  /\ excuse' = (excuse \ Passing) \cup (IF Overflows(now) THEN {"overflow"} ELSE {})
  /\ UNCHANGED <<now, sbm, ebm, xcnt, inttVars, left, edits, late>>

\* TimeReadClock() and SiteStartIntt()
StartIntt ==
  /\ bmnum # Past
  /\ Do("beam", Exchange("PING") \o Exchange("GET_PARAMETERS")
                  \o Exchange("SET_PARAMETERS"), "intt")
  /\ clk' = BlockOf(now)
  /\ UNCHANGED <<now, beamVars, xcfVars, fileVars, inttVars, left, edits,
                 scanVars, age, late, excuse>>

\* SiteFCLR()
FCLR ==
  /\ Do("intt", Exchange("REQUEST_CLEAR_FREQ_SEARCH")
                  \o Exchange("REQUEST_ASSIGNED_FREQ"), "fclr")
  /\ UNCHANGED <<now, clk, beamVars, xcfVars, fileVars, inttVars, left, edits,
                 scanVars, age, late, excuse>>

\* SiteIntegrate(): the head.
Integrate ==
  /\ Do("fclr", <<>>, "sequence")
  /\ ran' = 0 /\ nave' = 0
  /\ UNCHANGED <<now, clk, beamVars, xcfVars, fileVars, left, edits,
                 scanVars, age, late, excuse>>

\* One more sequence as long as the average would end after tock.  Neither
\* tick nor tock is brought back to less than a second of tv_usec.
TimeIsUp ==
  LET start == (now - ran) % Sec
      tavg == IF nave > 0 THEN ran \div nave ELSE 0
      tick == [sec  |-> ((start + ran) \div Sec) + (tavg \div Sec),
               usec |-> ((start + ran) % Sec) + (tavg % Sec)]
      tock == [sec |-> Intt \div Sec, usec |-> start + (Intt % Sec)]
  IN tick.sec > tock.sec \/ (tick.sec >= tock.sec /\ tick.usec > tock.usec)

Sequence ==
  /\ ~TimeIsUp
  /\ Do("sequence", Exchange("SET_PARAMETERS") \o Exchange("SET_READY_FLAG")
                      \o Exchange("GET_DATA") \o Exchange("GET_PARAMETERS"), "sum")
  /\ UNCHANGED <<now, clk, beamVars, xcfVars, fileVars, inttVars, left, edits,
                 scanVars, age, late, excuse>>

\* The sequence is added up.  The radar has played it, if it is there.  If it
\* is not there any more it may have.
Sum(d) ==
  /\ Do("sum", <<>>, "sequence")
  /\ sock = "up" => d > 0
  /\ nave' = nave + 1 /\ ran' = ran + d
  /\ Pass(d)
  /\ UNCHANGED <<clk, beamVars, xcfVars, fileVars, left, edits, scanVars, late, excuse>>

IntegrateDone ==
  /\ TimeIsUp
  /\ Do("sequence", <<>>, "record")
  /\ ran' = 0 /\ nave' = 0
  /\ UNCHANGED <<now, clk, beamVars, xcfVars, fileVars, left, edits,
                 scanVars, age, late, excuse>>

\* The record goes to the tasks, and RadarShell() may change sbm, ebm, bmnum
\* and xcnt to s, e, b and x.
Record(s, e, b, x) ==
  /\ Do("record", <<>>, IF b = e THEN "endscan" ELSE "beam")
  /\ late' = IF sock = "up" THEN late ELSE late + 1
  /\ sbm' = s /\ ebm' = e /\ xcnt' = x
  /\ bmnum' = IF b = e THEN b ELSE b + 1
  /\ UNCHANGED <<now, clk, cnt, xcf, fileVars, inttVars, left, scanVars, age>>

\* Mutant: bmnum is counted before it is compared with ebm.
RecordCountsFirst ==
  /\ Do("record", <<>>, IF bmnum + 1 = ebm THEN "endscan" ELSE "beam")
  /\ late' = IF sock = "up" THEN late ELSE late + 1
  /\ bmnum' = bmnum + 1
  /\ UNCHANGED <<now, clk, sbm, ebm, xcfVars, fileVars, inttVars, left, edits,
                 scanVars, age, excuse>>

RecordOnly ==
  /\ Record(sbm, ebm, bmnum, xcnt)
  /\ UNCHANGED <<edits, excuse>>

RecordAndEdit ==
  /\ edits < MaxEdit /\ edits' = edits + 1
  /\ \/ /\ \E v \in Beam \ {sbm} : Record(v, ebm, bmnum, xcnt)
        /\ excuse' = excuse \cup {"beams"} \cup (IF sbm' > ebm THEN {"runaway"} ELSE {})
     \/ /\ \E v \in Beam \ {ebm} : Record(sbm, v, bmnum, xcnt)
        /\ excuse' = excuse \cup {"beams"}
                       \cup (IF sbm > ebm' \/ bmnum > ebm' THEN {"runaway"} ELSE {})
     \/ /\ \E v \in Beam \ {bmnum} : Record(sbm, ebm, v, xcnt)
        /\ excuse' = excuse \cup {"beams"} \cup (IF bmnum' > ebm THEN {"runaway"} ELSE {})
     \/ /\ \E v \in XcfEdit \ {xcnt} : Record(sbm, ebm, bmnum, v)
        /\ excuse' = excuse \cup (IF xcnt' \in 1 .. cnt THEN {"xcnt"} ELSE {})

\* Mutant: SiteEndScan() waits for the boundary that is past.
EndScanPast ==
  /\ Do("endscan", <<>>, "wait")
  /\ left' = -(now % Scan)
  /\ UNCHANGED <<now, clk, beamVars, xcfVars, fileVars, inttVars, edits,
                 scanVars, age, late, excuse>>

EndScan ==
  /\ Do("endscan", <<>>, "wait")
  /\ left' = Scan - (now % Scan)
  /\ UNCHANGED <<now, clk, beamVars, xcfVars, fileVars, inttVars, edits,
                 scanVars, age, late, excuse>>

\* A sleep stands for several of the 50 ms of the code, the last of which end
\* within a unit of time after the boundary.
Sleep == IF left < Nap THEN left + 1 ELSE Nap

Wait ==
  /\ left >= 0
  /\ Do("wait", Exchange("PING"), "wait")
  /\ Pass(Sleep) /\ left' = left - Sleep
  /\ UNCHANGED <<clk, beamVars, xcfVars, fileVars, inttVars, edits,
                 scanVars, late, excuse>>

Boundary ==
  /\ left < 0
  /\ Do("wait", <<>>, "scan")
  /\ left' = 0
  /\ UNCHANGED <<now, clk, beamVars, xcfVars, fileVars, inttVars, edits,
                 scanVars, age, late, excuse>>
-----------------------------------------------------------------------------
Loop ==
  \/ SetupRadar \/ TimeSeq \/ StartScan \/ StartIntt \/ FCLR
  \/ Integrate \/ Sequence \/ (\E d \in Dur \cup {0} : Sum(d)) \/ IntegrateDone
  \/ RecordOnly \/ RecordAndEdit \/ EndScan \/ Wait \/ Boundary

Link ==
  /\ LinkStep
  /\ IF prog' # "run" THEN Forgotten
     ELSE UNCHANGED <<pc, now, clk, beamVars, xcfVars, fileVars, inttVars, left,
                      edits, scanVars, age, late, excuse>>

Over == prog = "over" /\ radar = "gone" /\ UNCHANGED vars

Next == Loop \/ Link \/ Over

Spec == Init /\ [][Next]_vars

\* Both processes are run.  No signal has to come, and no child to die.
FairSpec ==
  /\ Spec
  /\ WF_vars(Loop \/ (Link /\ Communicate))
  /\ WF_vars(Link /\ Operate)
-----------------------------------------------------------------------------
TypeOK ==
  /\ LinkTypeOK
  /\ pc \in PC /\ now \in 0 .. Day - 1
  /\ {clk, files} \subseteq 0 .. Day \div Block - 1 /\ then \in -1 .. Day \div Block - 1
  /\ sbm \in Beam /\ ebm \in Beam /\ bmnum \in Beam \cup {Past}
  /\ xcnt \in XcfEdit \cup {XcfEvery} /\ cnt \in 0 .. MaxCnt /\ xcf \in {0, 1}
  /\ ran \in Nat /\ nave \in Nat /\ left \in -1 .. Scan
  /\ edits \in 0 .. MaxEdit /\ old \in Nat /\ late \in Nat
  /\ period \in -1 .. Day \div Scan - 1 /\ first \in -Scan .. Scan /\ age \in 0 .. MaxAge
  /\ excuse \subseteq Excuse

(***************************************************************************)
(* No beam begins more than half a beam after its time in the scan, but    *)
(* for a sequence that each beam before it may have run over, though a     *)
(* program may begin at any moment and scans run over their boundary:      *)
(* OpsFindSkip() passes over the beams that are past.  Not so in the last  *)
(* 24 minutes of an hour, when its int overflows, nor after the operator   *)
(* has altered the beams (sync.c:47-63, normalscan.c:289-297,390-393,      *)
(* site.c:334-368).                                                        *)
(***************************************************************************)
NotBehind ==
  pc = "beam" /\ excuse \cap {"overflow", "beams"} = {} =>
    first + age - (bmnum - sbm) * Intt
      <= (Intt \div 2) + Lead + (bmnum - sbm) * Slip

(***************************************************************************)
(* No scan of the day is made twice: a scan begun before its boundary      *)
(* crosses it, and SiteEndScan() waits for the one after that, unless the  *)
(* operator has cut the scan short (site.c:512-550, normalscan.c:289-297,  *)
(* 387-398).                                                               *)
(***************************************************************************)
NoScanTwice == [][StartScan => "beams" \in excuse \/ period' # period]_vars

(***************************************************************************)
(* New files are opened one scan after a new block of two hours at the     *)
(* latest: OpsReOpen() looks at the time of the last beam, not of the scan *)
(* that begins, so the first scan of a block still goes to the files of    *)
(* the block before (reopen.c:31-47, normalscan.c:269-275,301).            *)
(***************************************************************************)
FilesFollow == old <= 1

(***************************************************************************)
(* A radar that is gone is the end of the program after one more record at *)
(* most, though no recv() of the site library is looked at: SIGPIPE comes  *)
(* before a second one, made of nothing that was received, could be        *)
(* (site.c:43-72, 404-436).                                                *)
(***************************************************************************)
OneLateRecord == late <= 1

(***************************************************************************)
(* Every scan comes to an end, whatever its sequences take, unless the     *)
(* operator sets ebm to a beam that is past or sbm or bmnum to one beyond  *)
(* ebm: then bmnum counts on for ever (normalscan.c:387-393).              *)
(***************************************************************************)
ScanEnds ==
  (pc = "beam") ~> (pc = "endscan" \/ prog # "run" \/ "runaway" \in excuse)

(***************************************************************************)
(* As long as xcnt is not 0, a scan with xcf comes round, unless the       *)
(* operator sets xcnt to a number cnt has already reached: the two are     *)
(* tested for equality (normalscan.c:281-287).                             *)
(***************************************************************************)
XcfComesRound ==
  (pc = "scan" /\ xcnt > 0)
    ~> (xcf = 1 \/ xcnt = 0 \/ prog # "run" \/ excuse \cap {"xcnt", "runaway"} # {})
=============================================================================
