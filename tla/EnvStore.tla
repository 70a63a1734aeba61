------------------------------ MODULE EnvStore ------------------------------
(***************************************************************************)
(* What the service promises of the boot loader's environment: a store     *)
(* with one value per key that is written through.  It knows no threads,   *)
(* retries or buffers.  One value at a time is set in memory and saved;    *)
(* what the boot loader reads changes only to the whole of what is in      *)
(* memory, and in one step; a save may fail, and the power may go.         *)
(***************************************************************************)
CONSTANTS Key, Value, Empty

VARIABLES
  disk,     (* the environment the boot loader reads                         *)
  torn,     (* and cannot read, since a write of it did not end              *)
  up,       (* the service runs                                              *)
  memory,   (* the values it answers with                                    *)
  saving    (* the key whose new value is being saved, if any                *)

vars == <<disk, torn, up, memory, saving>>

Nothing == [k \in Key |-> Empty]

Init ==
  /\ disk \in [Key -> Value]
  /\ torn = FALSE
  /\ up = FALSE
  /\ memory = Nothing
  /\ saving = {}

Start ==
  /\ ~up /\ ~torn
  /\ up' = TRUE
  /\ memory' = disk
  /\ UNCHANGED <<disk, torn, saving>>

(* The environment could not be read.                                      *)
StartEmpty ==
  /\ ~up
  /\ up' = TRUE
  /\ UNCHANGED <<disk, torn, memory, saving>>

Set(k, v) ==
  /\ up /\ saving = {}
  /\ memory' = [memory EXCEPT ![k] = v]
  /\ saving' = {k}
  /\ UNCHANGED <<disk, torn, up>>

BeginWrite ==
  /\ saving # {}
  /\ torn' = TRUE
  /\ UNCHANGED <<disk, up, memory, saving>>

EndWrite ==
  /\ saving # {} /\ torn
  /\ disk' = memory
  /\ torn' = FALSE
  /\ saving' = {}
  /\ UNCHANGED <<up, memory>>

(* Every save failed, or one was cut short without a word.                 *)
GiveUp ==
  /\ saving # {}
  /\ saving' = {}
  /\ UNCHANGED <<disk, torn, up, memory>>

Crash ==
  /\ up' = FALSE
  /\ memory' = Nothing
  /\ saving' = {}
  /\ UNCHANGED <<disk, torn>>

Next ==
  \/ Start \/ StartEmpty
  \/ \E k \in Key, v \in Value : Set(k, v)
  \/ BeginWrite \/ EndWrite \/ GiveUp
  \/ Crash

Spec == Init /\ [][Next]_vars
=============================================================================
