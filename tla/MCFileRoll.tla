---------------------------- MODULE MCFileRoll ----------------------------
(***************************************************************************)
(* FileRoll with minutes of two seconds and days of two minutes, records   *)
(* up to a second late, and files of one or two records.                   *)
(***************************************************************************)
EXTENDS FileRollProps

MCLimits == {-1, 1}
===========================================================================
