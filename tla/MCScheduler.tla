----------------------------- MODULE MCScheduler -----------------------------
(***************************************************************************)
(* Scheduler for TLC: schedule files over three commands.  Two is a file   *)
(* of a default and one entry, Twice has two entries of the same time,     *)
(* NoDefault cannot be loaded, and ByDay has an entry whose program is     *)
(* missing in the run with liveness.                                       *)
(***************************************************************************)
EXTENDS Scheduler, TLC

Default == [stime |-> -1, cmd |-> "default"]
At(t, c) == [stime |-> t, cmd |-> c]

Two == <<At(1, "night"), Default>>
Twice == <<Default, At(1, "night"), At(1, "day")>>
NoDefault == <<At(1, "day")>>
ByDay == <<Default, At(1, "day")>>

PidSymmetry == Permutations(Pid)

MCFiles == {Two, Twice, NoDefault}
MCFilesFew == {Two, ByDay, NoDefault}
=============================================================================
