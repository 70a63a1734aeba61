---------------------------- MODULE FrameStream ----------------------------
(***************************************************************************)
(* What a screen recording promises of the file, whatever threads, queues  *)
(* and buffers lie between the device and it: frames are numbered as they  *)
(* are taken, and the file grows by the next one that was not refused.     *)
(***************************************************************************)
EXTENDS Integers, Sequences

VARIABLES
  taken,    (* the number of frames taken so far                             *)
  refused,  (* the frames that will not come into the file                   *)
  file      (* the frames in the file                                        *)

vars == <<taken, refused, file>>

Last == IF file = <<>> THEN 0 ELSE file[Len(file)]

(* Frames that have neither come into the file nor been refused.           *)
OnTheWay == (Last + 1 .. taken) \ refused

Init ==
  /\ taken = 0
  /\ refused = {}
  /\ file = <<>>

Take ==
  /\ taken' = taken + 1
  /\ UNCHANGED <<refused, file>>

Refuse(n) ==
  /\ n \in OnTheWay
  /\ refused' = refused \union {n}
  /\ UNCHANGED <<taken, file>>

Write(n) ==
  /\ n \in OnTheWay
  /\ Last + 1 .. n - 1 \subseteq refused
  /\ file' = Append(file, n)
  /\ UNCHANGED <<taken, refused>>

Next ==
  \/ Take
  \/ \E n \in OnTheWay : Refuse(n) \/ Write(n)

Spec == Init /\ [][Next]_vars
=============================================================================
