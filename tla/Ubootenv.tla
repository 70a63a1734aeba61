------------------------------ MODULE Ubootenv ------------------------------
(***************************************************************************)
(* The environment of the boot loader as the system control service keeps  *)
(* it (services/systemcontrol/ubootenv/Ubootenv.cpp): a list of values in  *)
(* memory, loaded when the service starts, and a partition that is         *)
(* rewritten whole at every update.  Threads of the service update values  *)
(* at the same time; reads and writes of the partition fail; the power may *)
(* go at any step.                                                         *)
(*                                                                         *)
(* getValue and printValues change nothing and are left out, as is reInit, *)
(* which nothing in the running service calls, and the branch of save for  *)
(* mtd devices, whose names init never chooses.                            *)
(***************************************************************************)
EXTENDS Integers

CONSTANTS
  Thread,   (* the threads of the service that update values                 *)
  NoThread, (* the owner of mEnvLock when it is free                         *)
  Key,      (* names after "ubootenv.var."                                   *)
  Value,
  Empty,    (* the empty string: the value of a key that is not in the list  *)
  Retry     (* MAX_UBOOT_RWRETRY (5 in the code)                             *)

ASSUME EnvAssumption ==
  /\ NoThread \notin Thread
  /\ Key # {}
  /\ Empty \in Value
  /\ Retry \in Nat \ {0}

Env == [Key -> Value]
Nothing == [k \in Key |-> Empty]

VARIABLES
  part,         (* the partition: the last environment written completely    *)
  torn,         (* the partition's checksum is wrong: a write has begun and  *)
                (* has not ended                                             *)
  service,      (* "down", "init" in the constructor, "up"                   *)
  mEnvInitDone,
  list,         (* mEnvAttrHeader and the attributes behind it               *)
  image,        (* mEnvData.image: what save writes                          *)
  mEnvLock,
  i,            (* the counter of the loop, of reads or of saves, under way  *)
  pc,           (* where each thread is in updateValue                       *)
  arg,          (* the name and the value it updates                         *)
  result,       (* what its last call returned                               *)
  unsaved,      (* history: the keys whose value every save failed to write, *)
                (* or one wrote in part, and none completely since           *)
  blind         (* history: the service has started without an environment,  *)
                (* and has not saved one                                     *)

memory == <<list, image>>
storage == <<part, torn>>
threads == <<pc, arg, result>>
history == <<unsaved, blind>>
vars == <<storage, service, mEnvInitDone, memory, mEnvLock, i, threads, history>>

(* A key that is absent and a key with the empty value look the same.      *)
Init ==
  /\ part \in Env
  /\ torn = FALSE
  /\ service = "down"
  /\ mEnvInitDone = FALSE
  /\ list = Nothing
  /\ image = Nothing
  /\ mEnvLock = NoThread
  /\ i = 0
  /\ pc = [t \in Thread |-> "idle"]
  /\ arg = [t \in Thread |-> [key |-> CHOOSE k \in Key : TRUE, value |-> Empty]]
  /\ result = [t \in Thread |-> "none"]
  /\ unsaved = {} /\ blind = FALSE

(***************************************************************************)
(* The constructor                                                         *)
(***************************************************************************)

(* Nothing gives mEnvInitDone a value before init does.                    *)
construct ==
  /\ service = "down"
  /\ service' = "init"
  /\ mEnvInitDone' \in BOOLEAN
  /\ i' = 0
  /\ UNCHANGED <<storage, memory, mEnvLock, threads, history>>

(* A read that succeeds at the last try fills the list, and init takes it  *)
(* for a failure all the same.                                             *)
readPartition ==
  /\ service = "init"
  /\ ~torn
  /\ list' = part
  /\ image' = part
  /\ i' = i + 1
  /\ mEnvInitDone' = IF i + 1 < Retry THEN TRUE ELSE mEnvInitDone
  /\ service' = "up"
  /\ UNCHANGED <<storage, mEnvLock, threads, history>>

(* The partition cannot be opened or read, or its checksum is wrong.  The  *)
(* service starts without an environment after the last try.               *)
readFailed ==
  /\ service = "init"
  /\ i' = i + 1
  /\ service' = IF i + 1 < Retry THEN "init" ELSE "up"
  /\ blind' = (service' = "up")
  /\ UNCHANGED <<storage, mEnvInitDone, memory, mEnvLock, threads, unsaved>>

(***************************************************************************)
(* updateValue                                                             *)
(***************************************************************************)
Updating(k) == mEnvLock # NoThread /\ arg[mEnvLock].key = k

return(t, r) ==
  /\ pc' = [pc EXCEPT ![t] = "idle"]
  /\ result' = [result EXCEPT ![t] = r]

updateValue(t, k, v) ==
  /\ service = "up"
  /\ pc[t] = "idle"
  /\ pc' = [pc EXCEPT ![t] = "compare"]
  /\ arg' = [arg EXCEPT ![t] = [key |-> k, value |-> v]]
  /\ result' = [result EXCEPT ![t] = "none"]
  /\ UNCHANGED <<storage, service, mEnvInitDone, memory, mEnvLock, i, history>>

(* Without the lock: while another thread copies a value to the same key,  *)
(* the comparison may have either outcome.                                 *)
BeingSet(k) == Updating(k) /\ pc[mEnvLock] = "set"

(* MUTANT: the value is set before the lock is taken. *)
compareAndSet(t) ==
  /\ pc[t] = "compare"
  /\ mEnvInitDone
  /\ list' = [list EXCEPT ![arg[t].key] = arg[t].value]
  /\ pc' = [pc EXCEPT ![t] = "lock"]
  /\ UNCHANGED <<storage, service, mEnvInitDone, image, mEnvLock, i, arg, result, history>>

compare(t) ==
  /\ pc[t] = "compare"
  /\ \/ ~mEnvInitDone /\ return(t, "refused")
     \/ /\ mEnvInitDone
        /\ list[arg[t].key] = arg[t].value \/ BeingSet(arg[t].key)
        /\ return(t, "ok")
     \/ /\ mEnvInitDone
        /\ list[arg[t].key] # arg[t].value \/ BeingSet(arg[t].key)
        /\ pc' = [pc EXCEPT ![t] = "lock"]
        /\ UNCHANGED result
  /\ UNCHANGED <<storage, service, mEnvInitDone, memory, mEnvLock, i, arg, history>>

lock(t) ==
  /\ pc[t] = "lock"
  /\ mEnvLock = NoThread
  /\ mEnvLock' = t
  /\ pc' = [pc EXCEPT ![t] = "set"]
  /\ UNCHANGED <<storage, service, mEnvInitDone, memory, i, arg, result, history>>

set(t) ==
  /\ pc[t] = "set"
  /\ list' = [list EXCEPT ![arg[t].key] = arg[t].value]
  /\ i' = 0
  /\ pc' = [pc EXCEPT ![t] = "save"]
  /\ UNCHANGED <<storage, service, mEnvInitDone, image, mEnvLock, arg, result, history>>

(* MUTANT: the loop has no limit. *)
saveFailedForever(t) ==
  /\ pc' = [pc EXCEPT ![t] = "save"]
  /\ UNCHANGED <<i, mEnvLock, result, history>>

saveFailed(t) ==
  /\ i' = i + 1
  /\ IF i + 1 < Retry
     THEN /\ pc' = [pc EXCEPT ![t] = "save"]
          /\ UNCHANGED <<mEnvLock, result, unsaved>>
     ELSE /\ return(t, "failed")
          /\ mEnvLock' = NoThread
          /\ unsaved' = unsaved \cup {arg[t].key}
  /\ UNCHANGED blind

(* The write is over and counts as done, but only a part of the image was  *)
(* written, or nothing: save looks for a result below 0 only.              *)
saveCut(t) ==
  /\ return(t, "ok")
  /\ mEnvLock' = NoThread
  /\ unsaved' = unsaved \cup {arg[t].key}
  /\ UNCHANGED <<i, blind>>

(* MUTANT: the image is not built again for every save. *)
openStale(t) ==
  /\ pc[t] = "save"
  /\ image' = IF image = Nothing THEN list ELSE image
  /\ \/ /\ torn' = TRUE
        /\ pc' = [pc EXCEPT ![t] = "write"]
        /\ UNCHANGED <<mEnvLock, i, result, history>>
     \/ (saveFailed(t) \/ saveCut(t)) /\ UNCHANGED torn
  /\ UNCHANGED <<part, service, mEnvInitDone, list, arg>>

(* save up to the write: the list becomes the image, and the partition is  *)
(* opened.  The checksum comes first in the image, so the partition is     *)
(* torn as soon as the write has begun; open and write may fail before,    *)
(* and write may end before.                                               *)
open(t) ==
  /\ pc[t] = "save"
  /\ image' = list
  /\ \/ /\ torn' = TRUE
        /\ pc' = [pc EXCEPT ![t] = "write"]
        /\ UNCHANGED <<mEnvLock, i, result, history>>
     \/ (saveFailed(t) \/ saveCut(t)) /\ UNCHANGED torn
  /\ UNCHANGED <<part, service, mEnvInitDone, list, arg>>

writeDone(t) ==
  /\ part' = image
  /\ torn' = FALSE
  /\ return(t, "ok")
  /\ mEnvLock' = NoThread
  /\ unsaved' = {} /\ blind' = FALSE
  /\ UNCHANGED i

(* MUTANT: an error of the write is not looked at. *)
writeUnchecked(t) ==
  /\ pc[t] = "write"
  /\ \/ writeDone(t)
     \/ saveCut(t) /\ UNCHANGED storage
     \/ /\ return(t, "ok")
        /\ mEnvLock' = NoThread
        /\ UNCHANGED <<storage, i, history>>
  /\ UNCHANGED <<service, mEnvInitDone, memory, arg>>

write(t) ==
  /\ pc[t] = "write"
  /\ \/ writeDone(t)
     \/ (saveFailed(t) \/ saveCut(t)) /\ UNCHANGED storage
  /\ UNCHANGED <<service, mEnvInitDone, memory, arg>>

(***************************************************************************)
(* The power goes, or the service dies: memory is lost, and a write that   *)
(* has begun stays where it is.                                            *)
(***************************************************************************)
crash ==
  /\ service # "down"
  /\ service' = "down"
  /\ list' = Nothing
  /\ image' = Nothing
  /\ mEnvLock' = NoThread
  /\ i' = 0
  /\ pc' = [t \in Thread |-> "idle"]
  /\ result' = [t \in Thread |-> "none"]
  /\ unsaved' = {} /\ blind' = FALSE
  /\ UNCHANGED <<storage, mEnvInitDone, arg>>

Locked(t) == set(t) \/ open(t) \/ write(t)

Next ==
  \/ construct \/ readPartition \/ readFailed \/ crash
  \/ \E t \in Thread :
       \/ \E k \in Key, v \in Value : updateValue(t, k, v)
       \/ compare(t) \/ lock(t) \/ Locked(t)

Spec == Init /\ [][Next]_vars

(* A thread with the lock goes on, whatever the device answers.            *)
FairSpec ==
  /\ Spec
  /\ \A t \in Thread : WF_vars(Locked(t))
(***************************************************************************)
(* Properties                                                              *)
(***************************************************************************)
TypeOK ==
  /\ part \in Env
  /\ torn \in BOOLEAN
  /\ service \in {"down", "init", "up"}
  /\ mEnvInitDone \in BOOLEAN
  /\ list \in Env
  /\ image \in Env
  /\ mEnvLock \in Thread \cup {NoThread}
  /\ i \in 0..Retry
  /\ pc \in [Thread -> {"idle", "compare", "lock", "set", "save", "write"}]
  /\ arg \in [Thread -> [key : Key, value : Value]]
  /\ result \in [Thread -> {"none", "ok", "failed", "refused"}]
  /\ unsaved \in SUBSET Key
  /\ blind \in BOOLEAN

(* What the service started with: the partition, or nothing.               *)
Loaded == IF blind THEN Nothing ELSE part

(* save rewrites everything, so a value that is in the list only by        *)
(* mistake reaches the partition with the next update of another key.      *)
(* While the service runs, the list differs from the partition, or from    *)
(* nothing after a start without an environment (line 212), only in the    *)
(* value being saved and in those every save of which failed or was cut    *)
(* short (line 433); and the partition is torn only in the middle of an    *)
(* update, after such a save, or since before such a start.                *)
ListFollowsPartition ==
  service = "up" =>
    /\ \A k \in Key : list[k] # Loaded[k] => k \in unsaved \/ Updating(k)
    /\ torn => mEnvLock # NoThread \/ unsaved # {} \/ blind

(* When updateValue returns 0 the value is on the partition, unless the    *)
(* save of it was cut short, an update of the same key by another thread   *)
(* is under way or has failed, or nothing was set by a service without an  *)
(* environment: what is compared before the lock is taken is the list.     *)
SuccessMeansStored ==
  [][\A t \in Thread :
       pc[t] # "idle" /\ result'[t] = "ok" =>
         \/ part'[arg[t].key] = arg[t].value
         \/ arg[t].key \in unsaved'
         \/ mEnvLock # t /\ Updating(arg[t].key)
         \/ blind /\ arg[t].value = Empty]_vars

(* The key that the thread with the lock saves.                            *)
Saving == IF mEnvLock # NoThread /\ pc[mEnvLock] \in {"save", "write"}
            THEN {arg[mEnvLock].key} ELSE {}

Store == INSTANCE EnvStore
           WITH disk <- part, up <- (service = "up"), memory <- list, saving <- Saving

(* For the boot loader and for readers the service is the store EnvStore   *)
(* describes: the loop of saves, the image and its checksum, the threads   *)
(* that update at the same time, failed reads and losses of power never    *)
(* make anything else of the partition than the whole list of one moment.  *)
KeepsStore == Store!Spec

(* A device that fails does not keep the other threads out: the saves of   *)
(* an update are limited, and the lock is given back after the last.       *)
LockIsFreed == []<>(mEnvLock = NoThread)
=============================================================================
