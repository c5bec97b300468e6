---------------------------- MODULE LogService ----------------------------
(***************************************************************************)
(* What the logger promises to the threads that log, with none of its      *)
(* buffers, locks or double queue: records wait in one FIFO, the worker     *)
(* takes the oldest and finishes it before it takes the next one, and,     *)
(* once asked to stop, it goes away only at an instant when nothing waits. *)
(***************************************************************************)
EXTENDS SequencesExt

CONSTANTS
  Records,    (* the log records that can be accepted                      *)
  NoRecord    (* the worker has no record in hand                          *)

VARIABLES
  queue,      (* accepted records, the oldest first                        *)
  current,    (* the record the worker has taken                           *)
  phase       (* "down", "up", or "draining" once stop() was called        *)

vars == <<queue, current, phase>>

Init ==
  /\ queue = <<>>
  /\ current = NoRecord
  /\ phase = "down"

(* A push() that returns 0. It may come at any time: a thread that passed  *)
(* the last test of _active before stop() enqueues after the worker left.  *)
Accept(r) ==
  /\ r \notin Range(queue) \cup {current}
  /\ queue' = Append(queue, r)
  /\ UNCHANGED <<current, phase>>

Take ==
  /\ phase # "down"
  /\ current = NoRecord
  /\ queue # <<>>
  /\ current' = Head(queue)
  /\ queue' = Tail(queue)
  /\ UNCHANGED phase

Finish ==
  /\ current # NoRecord
  /\ current' = NoRecord
  /\ UNCHANGED <<queue, phase>>

ComeUp ==
  /\ phase = "down"
  /\ phase' = "up"
  /\ UNCHANGED <<queue, current>>

AskToStop ==
  /\ phase = "up"
  /\ phase' = "draining"
  /\ UNCHANGED <<queue, current>>

Quit ==
  /\ phase = "draining"
  /\ queue = <<>>
  /\ current = NoRecord
  /\ phase' = "down"
  /\ UNCHANGED <<queue, current>>

Next ==
  \/ \E r \in Records : Accept(r)
  \/ Take \/ Finish
  \/ ComeUp \/ AskToStop \/ Quit

Spec == Init /\ [][Next]_vars
===========================================================================
