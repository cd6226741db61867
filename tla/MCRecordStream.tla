--------------------------- MODULE MCRecordStream ---------------------------
(***************************************************************************)
(* RecordStream for TLC: the first record fits PIPE_BUF, the second does   *)
(* not.                                                                    *)
(***************************************************************************)
EXTENDS RecordStream, TLC

MCBodyLen == 1 :> 1 @@ 2 :> 4 @@ 3 :> 2
=============================================================================
