--------------------------- MODULE UbootenvProofs ---------------------------
(***************************************************************************)
(* Proofs about Ubootenv, for any threads, keys and values and any limit   *)
(* of the retries.  One invariant serves all three theorems.               *)
(***************************************************************************)
EXTENDS Ubootenv, TLAPS

(* Threads run only in a service that is up; those past the lock hold it,  *)
(* and the loop that counts with i has not ended.                          *)
LockInv ==
  /\ service = "init" => i < Retry
  /\ \A t \in Thread :
       /\ pc[t] # "idle" => service = "up" /\ result[t] = "none"
       /\ pc[t] \in {"set", "save", "write"} <=> mEnvLock = t
       /\ pc[t] \in {"save", "write"} => i < Retry

(* What the thread with the lock saves is the list with its value in it;   *)
(* all else on the list was loaded, or a save of it failed or was cut      *)
(* short.  Until the service is up it has loaded nothing.                  *)
SaveInv ==
  /\ \A t \in Thread :
       /\ pc[t] \in {"save", "write"} => list[arg[t].key] = arg[t].value
       /\ pc[t] = "write" => image = list
  /\ service # "up" => list = Nothing /\ blind = FALSE /\ unsaved = {}
  /\ service = "up" =>
       /\ \A k \in Key : list[k] # Loaded[k] => k \in unsaved \/ Updating(k)
       /\ torn => mEnvLock # NoThread \/ unsaved # {} \/ blind

IInv == TypeOK /\ LockInv /\ SaveInv

LEMMA InitHolds == Init => IInv
<1> SUFFICES ASSUME Init PROVE IInv
  OBVIOUS
<1>1. (CHOOSE k \in Key : TRUE) \in Key
  BY EnvAssumption
<1>2. Nothing \in Env
  BY EnvAssumption DEF Nothing, Env
<1>3. arg \in [Thread -> [key : Key, value : Value]]
  BY <1>1, EnvAssumption DEF Init
<1>4. TypeOK
  <2>1. pc \in [Thread -> {"idle", "compare", "lock", "set", "save", "write"}]
    BY DEF Init
  <2>2. result \in [Thread -> {"none", "ok", "failed", "refused"}]
    BY DEF Init
  <2>3. i \in 0..Retry
    BY EnvAssumption DEF Init
  <2> QED
    BY <1>2, <1>3, <2>1, <2>2, <2>3, Zenon DEF Init, TypeOK
<1>5. LockInv
  BY EnvAssumption DEF Init, LockInv
<1>6. SaveInv
  BY EnvAssumption DEF Init, SaveInv
<1> QED
  BY <1>4, <1>5, <1>6 DEF IInv

LEMMA TypeStep == IInv /\ [Next]_vars => TypeOK'
<1> SUFFICES ASSUME TypeOK, LockInv, [Next]_vars PROVE TypeOK'
  BY DEF IInv
<1> QED
  <2> USE EnvAssumption DEF TypeOK, LockInv, memory, storage, threads, history
  <2>1. CASE construct
    BY <2>1 DEF construct
  <2>2. CASE readPartition
    <3>1. mEnvInitDone' \in BOOLEAN
      BY <2>2, Zenon DEF readPartition
    <3>2. i' \in 0..Retry
      BY <2>2 DEF readPartition
    <3> QED
      BY <2>2, <3>1, <3>2, Zenon DEF readPartition
  <2>3. CASE readFailed
    <3>1. blind' \in BOOLEAN
      BY <2>3, Zenon DEF readFailed
    <3>2. i' \in 0..Retry /\ service' \in {"down", "init", "up"}
      BY <2>3 DEF readFailed
    <3> QED
      BY <2>3, <3>1, <3>2 DEF readFailed
  <2>4. CASE crash
    <3>1. list' \in Env /\ image' \in Env
      BY <2>4 DEF crash, Nothing, Env
    <3>2. i' \in 0..Retry
      BY <2>4 DEF crash
    <3>5. unsaved' = {} /\ blind' = FALSE
      BY <2>4 DEF crash
    <3>3. /\ pc' \in [Thread -> {"idle", "compare", "lock", "set", "save", "write"}]
          /\ result' \in [Thread -> {"none", "ok", "failed", "refused"}]
      BY <2>4 DEF crash
    <3> QED
      BY <2>4, <3>1, <3>2, <3>3, <3>5 DEF crash
  <2>5. ASSUME NEW t \in Thread, NEW k \in Key, NEW v \in Value, updateValue(t, k, v)
        PROVE  TypeOK'
    BY <2>5 DEF updateValue
  <2>6. ASSUME NEW t \in Thread, compare(t) PROVE TypeOK'
    BY <2>6 DEF compare, return, BeingSet
  <2>7. ASSUME NEW t \in Thread, lock(t) PROVE TypeOK'
    BY <2>7 DEF lock
  <2>8. ASSUME NEW t \in Thread, set(t) PROVE TypeOK'
    BY <2>8 DEF set, Env
  <2>9. ASSUME NEW t \in Thread, open(t) PROVE TypeOK'
    <3>1. CASE torn' = TRUE /\ pc' = [pc EXCEPT ![t] = "write"] /\ UNCHANGED <<mEnvLock, i, result, history>>
      BY <2>9, <3>1 DEF open
    <3>2. CASE saveFailed(t) /\ UNCHANGED torn /\ i + 1 < Retry
      BY <2>9, <3>2 DEF open, saveFailed
    <3>3. CASE saveFailed(t) /\ UNCHANGED torn /\ ~(i + 1 < Retry)
      BY <2>9, <3>3 DEF open, saveFailed, return
    <3>4. CASE saveCut(t) /\ UNCHANGED torn
      BY <2>9, <3>4 DEF open, saveCut, return
    <3> QED
      BY <2>9, <3>1, <3>2, <3>3, <3>4 DEF open, saveFailed
  <2>10. ASSUME NEW t \in Thread, write(t) PROVE TypeOK'
    <3>1. CASE writeDone(t)
      BY <2>10, <3>1 DEF write, writeDone, return
    <3>2. CASE saveFailed(t) /\ UNCHANGED storage /\ i + 1 < Retry
      BY <2>10, <3>2 DEF write, saveFailed
    <3>3. CASE saveFailed(t) /\ UNCHANGED storage /\ ~(i + 1 < Retry)
      BY <2>10, <3>3 DEF write, saveFailed, return
    <3>4. CASE saveCut(t) /\ UNCHANGED storage
      BY <2>10, <3>4 DEF write, saveCut, return
    <3> QED
      BY <2>10, <3>1, <3>2, <3>3, <3>4 DEF write, saveFailed
  <2>11. CASE UNCHANGED vars
    BY <2>11 DEF vars
  <2> QED
    BY <2>1, <2>2, <2>3, <2>4, <2>5, <2>6, <2>7, <2>8, <2>9, <2>10, <2>11 DEF Next, Locked

LEMMA LockStep == IInv /\ [Next]_vars => LockInv'
<1> SUFFICES ASSUME TypeOK, LockInv, [Next]_vars PROVE LockInv'
  BY DEF IInv
<1> QED
  <2> USE EnvAssumption DEF TypeOK, LockInv, memory, storage, threads, history
  <2>1. CASE construct
    BY <2>1 DEF construct
  <2>2. CASE readPartition
    BY <2>2 DEF readPartition
  <2>3. CASE readFailed
    BY <2>3 DEF readFailed
  <2>4. CASE crash
    BY <2>4 DEF crash
  <2>5. ASSUME NEW t \in Thread, NEW k \in Key, NEW v \in Value, updateValue(t, k, v)
        PROVE  LockInv'
    BY <2>5 DEF updateValue
  <2>6. ASSUME NEW t \in Thread, compare(t) PROVE LockInv'
    BY <2>6 DEF compare, return, BeingSet
  <2>7. ASSUME NEW t \in Thread, lock(t) PROVE LockInv'
    BY <2>7 DEF lock
  <2>8. ASSUME NEW t \in Thread, set(t) PROVE LockInv'
    BY <2>8 DEF set
  <2>9. ASSUME NEW t \in Thread, open(t) PROVE LockInv'
    <3>1. CASE torn' = TRUE /\ pc' = [pc EXCEPT ![t] = "write"] /\ UNCHANGED <<mEnvLock, i, result, history>>
      BY <2>9, <3>1 DEF open
    <3>2. CASE saveFailed(t) /\ UNCHANGED torn /\ i + 1 < Retry
      BY <2>9, <3>2 DEF open, saveFailed
    <3>3. CASE saveFailed(t) /\ UNCHANGED torn /\ ~(i + 1 < Retry)
      BY <2>9, <3>3 DEF open, saveFailed, return
    <3>4. CASE saveCut(t) /\ UNCHANGED torn
      BY <2>9, <3>4 DEF open, saveCut, return
    <3> QED
      BY <2>9, <3>1, <3>2, <3>3, <3>4 DEF open, saveFailed
  <2>10. ASSUME NEW t \in Thread, write(t) PROVE LockInv'
    <3>1. CASE writeDone(t)
      BY <2>10, <3>1 DEF write, writeDone, return
    <3>2. CASE saveFailed(t) /\ UNCHANGED storage /\ i + 1 < Retry
      BY <2>10, <3>2 DEF write, saveFailed
    <3>3. CASE saveFailed(t) /\ UNCHANGED storage /\ ~(i + 1 < Retry)
      BY <2>10, <3>3 DEF write, saveFailed, return
    <3>4. CASE saveCut(t) /\ UNCHANGED storage
      BY <2>10, <3>4 DEF write, saveCut, return
    <3> QED
      BY <2>10, <3>1, <3>2, <3>3, <3>4 DEF write, saveFailed
  <2>11. CASE UNCHANGED vars
    BY <2>11 DEF vars
  <2> QED
    BY <2>1, <2>2, <2>3, <2>4, <2>5, <2>6, <2>7, <2>8, <2>9, <2>10, <2>11 DEF Next, Locked

LEMMA SaveStep == IInv /\ [Next]_vars => SaveInv'
<1> SUFFICES ASSUME TypeOK, LockInv, SaveInv, [Next]_vars PROVE SaveInv'
  BY DEF IInv
<1> QED
  <2> USE EnvAssumption DEF TypeOK, LockInv, SaveInv, Updating, Loaded, memory, storage, threads, history
  <2>1. CASE construct
    BY <2>1 DEF construct
  <2>2. CASE readPartition
    BY <2>2 DEF readPartition
  <2>3. CASE readFailed
    BY <2>3 DEF readFailed
  <2>4. CASE crash
    BY <2>4 DEF crash, Nothing, Env
  <2>5. ASSUME NEW t \in Thread, NEW k \in Key, NEW v \in Value, updateValue(t, k, v)
        PROVE  SaveInv'
    BY <2>5 DEF updateValue
  <2>6. ASSUME NEW t \in Thread, compare(t) PROVE SaveInv'
    BY <2>6 DEF compare, return, BeingSet
  <2>7. ASSUME NEW t \in Thread, lock(t) PROVE SaveInv'
    BY <2>7 DEF lock
  <2>8. ASSUME NEW t \in Thread, set(t) PROVE SaveInv'
    BY <2>8 DEF set, Env
  <2>9. ASSUME NEW t \in Thread, open(t) PROVE SaveInv'
    <3>1. CASE torn' = TRUE /\ pc' = [pc EXCEPT ![t] = "write"] /\ UNCHANGED <<mEnvLock, i, result, history>>
      BY <2>9, <3>1 DEF open
    <3>2. CASE saveFailed(t) /\ UNCHANGED torn /\ i + 1 < Retry
      BY <2>9, <3>2 DEF open, saveFailed
    <3>3. CASE saveFailed(t) /\ UNCHANGED torn /\ ~(i + 1 < Retry)
      <4>1. \A u \in Thread : pc'[u] \notin {"save", "write"}
        BY <2>9, <3>3 DEF open, saveFailed, return
      <4>2. ASSUME NEW k \in Key, list[k] # Loaded[k] PROVE k \in unsaved'
        BY <2>9, <3>3, <4>2 DEF open, saveFailed
      <4>3. unsaved' # {} /\ UNCHANGED <<list, part, torn, blind, service>>
        BY <2>9, <3>3 DEF open, saveFailed
      <4>4. service = "up"
        BY <2>9 DEF open
      <4>5. \A k \in Key : list'[k] # Loaded'[k] => k \in unsaved'
        BY <4>2, <4>3
      <4> QED BY <4>1, <4>3, <4>4, <4>5
    <3>4. CASE saveCut(t) /\ UNCHANGED torn
      BY <2>9, <3>4 DEF open, saveCut, return
    <3> QED
      BY <2>9, <3>1, <3>2, <3>3, <3>4 DEF open, saveFailed
  <2>10. ASSUME NEW t \in Thread, write(t) PROVE SaveInv'
    <3>1. CASE writeDone(t)
      BY <2>10, <3>1 DEF write, writeDone, return
    <3>2. CASE saveFailed(t) /\ UNCHANGED storage /\ i + 1 < Retry
      BY <2>10, <3>2 DEF write, saveFailed
    <3>3. CASE saveFailed(t) /\ UNCHANGED storage /\ ~(i + 1 < Retry)
      <4>1. \A u \in Thread : pc'[u] \notin {"save", "write"}
        BY <2>10, <3>3 DEF write, saveFailed, return
      <4>2. ASSUME NEW k \in Key, list[k] # Loaded[k] PROVE k \in unsaved'
        BY <2>10, <3>3, <4>2 DEF write, saveFailed
      <4>3. unsaved' # {} /\ UNCHANGED <<list, part, torn, blind, service>>
        BY <2>10, <3>3 DEF write, saveFailed
      <4>4. service = "up"
        BY <2>10 DEF write
      <4>5. \A k \in Key : list'[k] # Loaded'[k] => k \in unsaved'
        BY <4>2, <4>3
      <4> QED BY <4>1, <4>3, <4>4, <4>5
    <3>4. CASE saveCut(t) /\ UNCHANGED storage
      BY <2>10, <3>4 DEF write, saveCut, return
    <3> QED
      BY <2>10, <3>1, <3>2, <3>3, <3>4 DEF write, saveFailed
  <2>11. CASE UNCHANGED vars
    BY <2>11 DEF vars
  <2> QED
    BY <2>1, <2>2, <2>3, <2>4, <2>5, <2>6, <2>7, <2>8, <2>9, <2>10, <2>11 DEF Next, Locked

(* The conjunction of the invariants of the lock and of what its holder    *)
(* saves is inductive, and so holds in every state.                        *)
THEOREM Invariance == Spec => []IInv
<1>1. IInv /\ [Next]_vars => IInv'
  BY TypeStep, LockStep, SaveStep DEF IInv
<1> QED
  BY InitHolds, <1>1, PTL DEF Spec

(* Type correctness of the environment, its partition and its threads.     *)
THEOREM TypeCorrect == Spec => []TypeOK
<1>1. IInv => TypeOK
  BY DEF IInv
<1> QED
  BY Invariance, <1>1, PTL

(* The list differs from the partition, or from nothing after a start      *)
(* without an environment, only in the value being saved and in those      *)
(* every save of which failed or was cut short.                            *)
THEOREM ListFollowsPartitionAlways == Spec => []ListFollowsPartition
<1>1. IInv => ListFollowsPartition
  BY DEF IInv, SaveInv, ListFollowsPartition
<1> QED
  BY Invariance, <1>1, PTL

(* A return of 0 from updateValue means that the value is on the           *)
(* partition, unless the save was cut short, another update of the same    *)
(* key is under way or failed, or nothing was set without an environment.  *)
THEOREM SuccessMeansStoredAlways == Spec => SuccessMeansStored
<1> DEFINE Stored(t) ==
      pc[t] # "idle" /\ result'[t] = "ok" =>
        \/ part'[arg[t].key] = arg[t].value
        \/ arg[t].key \in unsaved'
        \/ mEnvLock # t /\ Updating(arg[t].key)
        \/ blind /\ arg[t].value = Empty
<1>1. ASSUME IInv, [Next]_vars, NEW t \in Thread PROVE Stored(t)
  <2> SUFFICES ASSUME pc[t] # "idle", result'[t] = "ok" PROVE Stored(t)
    OBVIOUS
  <2>1. result[t] = "none" /\ arg[t].key \in Key
    BY <1>1 DEF IInv, TypeOK, LockInv
  <2> USE <1>1, <2>1 DEF IInv, TypeOK, LockInv, SaveInv
  <2>2. PICK u \in Thread : compare(u) \/ open(u) \/ write(u) \/ lock(u) \/ set(u)
                             \/ \E k \in Key, v \in Value : updateValue(u, k, v)
    BY DEF Next, Locked, construct, readPartition, readFailed, crash, vars, threads
  <2>3. u = t
    BY <2>2 DEF compare, open, write, writeDone, saveFailed, saveCut, lock, set, updateValue, return
  <2>4. CASE compare(t)
    <3>1. list[arg[t].key] = arg[t].value \/ BeingSet(arg[t].key)
      BY <2>4 DEF compare, return
    <3>2. mEnvLock # t /\ part' = part /\ unsaved' = unsaved /\ service = "up"
      BY <2>4 DEF compare, storage, history
    <3>3. CASE BeingSet(arg[t].key)
      BY <3>2, <3>3 DEF BeingSet
    <3>4. CASE list[arg[t].key] = arg[t].value
      <4>1. list[arg[t].key] # Loaded[arg[t].key] =>
              arg[t].key \in unsaved \/ Updating(arg[t].key)
        BY <3>2
      <4>2. Loaded[arg[t].key] = IF blind THEN Empty ELSE part[arg[t].key]
        BY DEF Loaded, Nothing
      <4> QED
        BY <3>2, <3>4, <4>1, <4>2
    <3> QED
      BY <3>1, <3>3, <3>4
  <2>5. CASE open(t) \/ write(t)
    <3>1. CASE writeDone(t) /\ write(t)
      <4>1. list[arg[t].key] = arg[t].value /\ image = list
        BY <3>1 DEF write
      <4>2. part' = image
        BY <3>1 DEF writeDone
      <4> QED
        BY <4>1, <4>2
    <3>2. saveCut(t) => arg[t].key \in unsaved'
      BY DEF saveCut
    <3>3. ~(writeDone(t) /\ write(t)) /\ ~saveCut(t) => result'[t] # "ok"
      BY <2>5 DEF open, write, saveFailed, return
    <3> QED
      BY <3>1, <3>2, <3>3
  <2> QED
    BY <2>2, <2>3, <2>4, <2>5 DEF lock, set, updateValue
<1>2. IInv /\ [Next]_vars => [\A t \in Thread : Stored(t)]_vars
  BY <1>1
<1> QED
  BY Invariance, <1>2, PTL DEF Spec, SuccessMeansStored

(***************************************************************************)
(* The refinement of EnvStore                                              *)
(***************************************************************************)

(* The partition is torn from the beginning of a write to its end.         *)
StoreInv == \A t \in Thread : pc[t] = "write" => torn

LEMMA StoreStep == IInv /\ StoreInv /\ [Next]_vars => StoreInv'
<1> SUFFICES ASSUME TypeOK, LockInv, StoreInv, [Next]_vars PROVE StoreInv'
  BY DEF IInv
<1> USE EnvAssumption DEF TypeOK, LockInv, StoreInv, memory, storage, threads, history
<1>1. CASE construct \/ readPartition \/ readFailed \/ crash \/ UNCHANGED vars
  BY <1>1 DEF construct, readPartition, readFailed, crash, vars
<1>2. ASSUME NEW t \in Thread, NEW k \in Key, NEW v \in Value, updateValue(t, k, v)
      PROVE  StoreInv'
  BY <1>2 DEF updateValue
<1>3. ASSUME NEW t \in Thread, compare(t) \/ lock(t) \/ set(t) PROVE StoreInv'
  BY <1>3 DEF compare, lock, set, return
<1>4. ASSUME NEW t \in Thread, open(t) PROVE StoreInv'
  BY <1>4 DEF open, saveFailed, saveCut, return
<1>5. ASSUME NEW t \in Thread, write(t) PROVE StoreInv'
  <2>1. \A u \in Thread : u # t => pc[u] # "write"
    BY <1>5 DEF write
  <2>2. pc'[t] # "write" /\ \A u \in Thread : u # t => pc'[u] = pc[u]
    BY <1>5 DEF write, writeDone, saveFailed, saveCut, return
  <2> QED
    BY <2>1, <2>2
<1> QED
  BY <1>1, <1>2, <1>3, <1>4, <1>5 DEF Next, Locked

LEMMA StoreInvariance == Spec => [](IInv /\ StoreInv)
<1>1. Init => StoreInv
  BY DEF Init, StoreInv
<1> QED
  BY <1>1, StoreStep, Invariance, PTL DEF Spec

(* Until the service is up nobody saves, and a thread that is not between  *)
(* set and the end of its saves is not the one that does.                  *)
LEMMA SavingIs ==
  ASSUME TypeOK, LockInv
  PROVE  /\ service # "up" => Saving = {}
         /\ \A t \in Thread : pc[t] = "set" => Saving = {}
         /\ \A t \in Thread : pc[t] \in {"save", "write"} => Saving = {arg[t].key}
BY EnvAssumption DEF TypeOK, LockInv, Saving

LEMMA StoreInit == Init => Store!Init
BY DEF Init, Store!Init, Nothing, Store!Nothing, Saving, Env

(* A save that failed changes nothing a user sees, unless it was the last; *)
(* one that was cut short is the last.                                     *)
LEMMA FailedIsGiveUp ==
  ASSUME TypeOK, LockInv, NEW t \in Thread, pc[t] \in {"save", "write"},
         saveFailed(t) \/ saveCut(t), UNCHANGED <<storage, service, list, arg>>
  PROVE  [Store!Next]_(Store!vars)
<1> USE EnvAssumption DEF TypeOK, LockInv, storage
<1>1. mEnvLock = t /\ Saving = {arg[t].key}
  BY SavingIs
<1>2. CASE saveFailed(t) /\ i + 1 < Retry
  <2>1. Saving' = Saving
    BY <1>1, <1>2 DEF saveFailed, Saving
  <2> QED
    BY <2>1 DEF Store!vars
<1>3. CASE (saveFailed(t) /\ ~(i + 1 < Retry)) \/ saveCut(t)
  <2>1. Saving' = {}
    BY <1>1, <1>3 DEF saveFailed, saveCut, Saving
  <2>2. Store!GiveUp
    BY <1>1, <2>1 DEF Store!GiveUp
  <2> QED
    BY <2>2 DEF Store!Next
<1> QED
  BY <1>2, <1>3

LEMMA StoreNext ==
  ASSUME IInv, StoreInv, [Next]_vars
  PROVE  [Store!Next]_(Store!vars)
<1> USE EnvAssumption DEF IInv, TypeOK, LockInv, memory, storage, threads, history
<1>1. CASE construct
  BY <1>1, SavingIs DEF construct, Saving, Store!vars
<1>2. CASE readPartition
  <2>1. Saving = {} /\ Saving' = {}
    BY <1>2, SavingIs DEF readPartition, Saving
  <2>2. Store!Start
    BY <1>2, <2>1 DEF readPartition, Store!Start
  <2> QED
    BY <2>2 DEF Store!Next
<1>3. CASE readFailed
  <2>1. Saving' = Saving
    BY <1>3 DEF readFailed, Saving
  <2>2. CASE i + 1 < Retry
    BY <1>3, <2>1, <2>2 DEF readFailed, Store!vars
  <2>3. CASE ~(i + 1 < Retry)
    <3>1. Store!StartEmpty
      BY <1>3, <2>1, <2>3 DEF readFailed, Store!StartEmpty
    <3> QED
      BY <3>1 DEF Store!Next
  <2> QED
    BY <2>2, <2>3
<1>4. CASE crash
  <2>1. Store!Crash
    BY <1>4 DEF crash, Saving, Store!Crash, Nothing, Store!Nothing
  <2> QED
    BY <2>1 DEF Store!Next
<1>5. ASSUME NEW t \in Thread, NEW k \in Key, NEW v \in Value, updateValue(t, k, v)
      PROVE  UNCHANGED Store!vars
  <2>1. mEnvLock # t
    BY <1>5 DEF updateValue
  <2>2. mEnvLock # NoThread =>
          pc'[mEnvLock] = pc[mEnvLock] /\ arg'[mEnvLock] = arg[mEnvLock]
    BY <1>5, <2>1 DEF updateValue
  <2>3. mEnvLock' = mEnvLock
    BY <1>5 DEF updateValue
  <2>4. Saving' = Saving
    BY <2>2, <2>3, Zenon DEF Saving
  <2> QED
    BY <1>5, <2>4 DEF updateValue, Store!vars
<1>6. ASSUME NEW t \in Thread, compare(t) \/ lock(t) PROVE UNCHANGED Store!vars
  <2>1. CASE compare(t)
    <3>1. mEnvLock # t /\ UNCHANGED <<mEnvLock, arg>>
      BY <2>1 DEF compare
    <3>2. PICK to \in {"idle", "lock"} : pc' = [pc EXCEPT ![t] = to]
      BY <2>1 DEF compare, return
    <3>3. mEnvLock # NoThread => pc'[mEnvLock] = pc[mEnvLock]
      BY <3>1, <3>2
    <3>4. Saving' = Saving
      BY <3>1, <3>3, Zenon DEF Saving
    <3> QED
      BY <2>1, <3>4 DEF compare, Store!vars
  <2>2. CASE lock(t)
    <3>1. pc'[t] = "set"
      BY <2>2 DEF lock
    <3>2. mEnvLock = NoThread /\ mEnvLock' = t
      BY <2>2 DEF lock
    <3>3. Saving = {} /\ Saving' = {}
      BY <3>1, <3>2 DEF Saving
    <3> QED
      BY <2>2, <3>3 DEF lock, Store!vars
  <2> QED
    BY <1>6, <2>1, <2>2
<1>7. ASSUME NEW t \in Thread, set(t) PROVE Store!Next
  <2>1. arg[t].key \in Key /\ arg[t].value \in Value /\ mEnvLock = t
    BY <1>7 DEF set
  <2>2. Saving = {} /\ Saving' = {arg[t].key}
    BY <1>7, <2>1, SavingIs DEF set, Saving
  <2>3. Store!Set(arg[t].key, arg[t].value)
    BY <1>7, <2>2 DEF set, Store!Set
  <2> QED
    BY <2>1, <2>3 DEF Store!Next
<1>8. ASSUME NEW t \in Thread, open(t) PROVE [Store!Next]_(Store!vars)
  <2>1. CASE torn' = TRUE /\ pc' = [pc EXCEPT ![t] = "write"] /\ UNCHANGED mEnvLock
    <3>1. Saving = {arg[t].key} /\ Saving' = Saving
      BY <1>8, <2>1, SavingIs DEF open, Saving
    <3>2. Store!BeginWrite
      BY <1>8, <2>1, <3>1 DEF open, Store!BeginWrite
    <3> QED
      BY <3>2 DEF Store!Next
  <2>2. CASE (saveFailed(t) \/ saveCut(t)) /\ UNCHANGED torn
    BY <1>8, <2>2, FailedIsGiveUp DEF open
  <2> QED
    BY <1>8, <2>1, <2>2 DEF open
<1>9. ASSUME NEW t \in Thread, write(t) PROVE [Store!Next]_(Store!vars)
  <2>1. CASE writeDone(t)
    <3>1. Saving = {arg[t].key} /\ Saving' = {}
      BY <1>9, <2>1, SavingIs DEF write, writeDone, Saving
    <3>2. torn /\ image = list
      BY <1>9 DEF write, StoreInv, SaveInv
    <3>3. Store!EndWrite
      BY <1>9, <2>1, <3>1, <3>2 DEF write, writeDone, Store!EndWrite
    <3> QED
      BY <3>3 DEF Store!Next
  <2>2. CASE (saveFailed(t) \/ saveCut(t)) /\ UNCHANGED storage
    BY <1>9, <2>2, FailedIsGiveUp DEF write
  <2> QED
    BY <1>9, <2>1, <2>2 DEF write
<1>10. CASE UNCHANGED vars
  BY <1>10 DEF vars, Saving, Store!vars
<1> QED
  BY <1>1, <1>2, <1>3, <1>4, <1>5, <1>6, <1>7, <1>8, <1>9, <1>10 DEF Next, Locked

(* Ubootenv.cpp implements EnvStore: whatever threads update at the same   *)
(* time and however reads, writes and the power fail, the partition        *)
(* changes in one step, to the whole list of that moment.                  *)
THEOREM KeepsStoreAlways == Spec => KeepsStore
<1>1. IInv /\ StoreInv /\ [Next]_vars => [Store!Next]_(Store!vars)
  BY StoreNext
<1> QED
  BY <1>1, StoreInit, StoreInvariance, PTL DEF Spec, KeepsStore, Store!Spec
(***************************************************************************)
(* The end of an update: what LockIsFreed needs besides fairness           *)
(***************************************************************************)

(* How many steps the thread with the lock has before it at most: two for  *)
(* each try, the open and the write.                                       *)
HolderLeft ==
  IF mEnvLock = NoThread THEN 0
  ELSE CASE pc[mEnvLock] = "set"   -> 2 * Retry + 1
         [] pc[mEnvLock] = "save"  -> 2 * (Retry - i)
         [] pc[mEnvLock] = "write" -> 2 * (Retry - i) - 1
         [] OTHER                  -> 0

(* Whatever the device answers, every step of the thread that holds the    *)
(* lock brings it nearer to giving it back, and nobody else keeps it       *)
(* there; a thread without the lock never does what the lock protects.     *)
HolderNearsEnd ==
  /\ \A t \in Thread : Locked(t) => mEnvLock = t /\ HolderLeft' < HolderLeft
  /\ mEnvLock # NoThread => HolderLeft > 0 /\ HolderLeft' <= HolderLeft

HolderPlaces ==
  /\ HolderLeft \in Nat
  /\ mEnvLock = NoThread => HolderLeft = 0
  /\ mEnvLock # NoThread => HolderLeft > 0
  /\ \A t \in Thread :
       /\ pc[t] = "set" => mEnvLock = t /\ HolderLeft = 2 * Retry + 1
       /\ pc[t] = "save" => mEnvLock = t /\ HolderLeft = 2 * (Retry - i)
       /\ pc[t] = "write" => mEnvLock = t /\ HolderLeft = 2 * (Retry - i) - 1

LEMMA HolderAt == TypeOK /\ LockInv => HolderPlaces
<1> SUFFICES ASSUME TypeOK, LockInv PROVE HolderPlaces
  OBVIOUS
<1> USE EnvAssumption DEF TypeOK, LockInv
<1>1. CASE mEnvLock = NoThread
  BY <1>1 DEF HolderLeft, HolderPlaces
<1>2. CASE mEnvLock # NoThread
  <2>1. mEnvLock \in Thread /\ pc[mEnvLock] \in {"set", "save", "write"}
    BY <1>2
  <2>2. pc[mEnvLock] \in {"save", "write"} => i < Retry
    BY <2>1
  <2>3. \A t \in Thread : pc[t] \in {"set", "save", "write"} => mEnvLock = t
    BY DEF LockInv
  <2>4. i \in Nat /\ Retry \in Nat
    BY DEF TypeOK
  <2>5. /\ pc[mEnvLock] = "set" => HolderLeft = 2 * Retry + 1
        /\ pc[mEnvLock] = "save" => HolderLeft = 2 * (Retry - i)
        /\ pc[mEnvLock] = "write" => HolderLeft = 2 * (Retry - i) - 1
    BY <1>2 DEF HolderLeft
  <2> HIDE DEF TypeOK, LockInv
  <2> QED
    BY <1>2, <2>1, <2>2, <2>3, <2>4, <2>5 DEF HolderPlaces
<1> QED
  BY <1>1, <1>2

LEMMA HolderAtNext == (TypeOK /\ LockInv => HolderPlaces)'
<1>1. TypeOK /\ LockInv => HolderPlaces
  BY HolderAt
<1> QED
  BY <1>1, PTL

(* A step that does not touch the lock, the counter or the holder's place. *)
LEMMA HolderKept ==
  ASSUME mEnvLock' = mEnvLock, i' = i, mEnvLock # NoThread => pc'[mEnvLock] = pc[mEnvLock]
  PROVE  HolderLeft' = HolderLeft
BY Zenon DEF HolderLeft

LEMMA HolderStep ==
  ASSUME IInv, IInv', NEW t \in Thread, Locked(t)
  PROVE  mEnvLock = t /\ HolderLeft' < HolderLeft
<1>1. TypeOK /\ LockInv /\ TypeOK' /\ LockInv'
  BY DEF IInv
<1>2. /\ HolderLeft \in Nat
      /\ pc[t] = "set" => mEnvLock = t /\ HolderLeft = 2 * Retry + 1
      /\ pc[t] = "save" => mEnvLock = t /\ HolderLeft = 2 * (Retry - i)
      /\ pc[t] = "write" => mEnvLock = t /\ HolderLeft = 2 * (Retry - i) - 1
      /\ mEnvLock # NoThread => HolderLeft > 0
  BY <1>1, HolderAt DEF HolderPlaces
<1>3. (/\ mEnvLock = NoThread => HolderLeft = 0
       /\ \A u \in Thread :
            /\ pc[u] = "save" => HolderLeft = 2 * (Retry - i)
            /\ pc[u] = "write" => HolderLeft = 2 * (Retry - i) - 1)'
  BY <1>1, HolderAtNext DEF HolderPlaces
<1>4. i \in Nat /\ Retry \in Nat /\ t # NoThread /\ Retry > 0
  BY <1>1, EnvAssumption DEF TypeOK
<1>5. pc[t] \in {"set", "save", "write"}
  BY DEF Locked, set, open, write
<1>6. CASE set(t)
  <2>1. pc[t] = "set" /\ pc'[t] = "save" /\ i' = 0
    BY <1>1, <1>6 DEF set, TypeOK
  <2> QED
    BY <1>2, <1>3, <1>4, <2>1
<1>7. ASSUME saveFailed(t), pc[t] \in {"save", "write"} PROVE HolderLeft' < HolderLeft
  <2>1. CASE i + 1 < Retry
    <3>1. pc'[t] = "save" /\ i' = i + 1
      BY <1>1, <1>7, <2>1 DEF saveFailed, TypeOK
    <3> QED
      BY <1>2, <1>3, <1>4, <1>7, <3>1
  <2>2. CASE ~(i + 1 < Retry)
    <3>1. mEnvLock' = NoThread
      BY <1>7, <2>2 DEF saveFailed
    <3> QED
      BY <1>2, <1>3, <1>4, <1>7, <3>1
  <2> QED
    BY <2>1, <2>2
<1>10. ASSUME saveCut(t), pc[t] \in {"save", "write"} PROVE HolderLeft' < HolderLeft
  <2>1. mEnvLock' = NoThread
    BY <1>10 DEF saveCut
  <2> QED
    BY <1>2, <1>3, <1>4, <1>10, <2>1
<1>8. CASE open(t)
  <2>1. pc[t] = "save"
    BY <1>8 DEF open
  <2>2. CASE pc' = [pc EXCEPT ![t] = "write"] /\ i' = i
    <3>1. pc'[t] = "write"
      BY <1>1, <2>2 DEF TypeOK
    <3> QED
      BY <1>2, <1>3, <1>4, <2>1, <2>2, <3>1
  <2> QED
    BY <1>2, <1>7, <1>8, <1>10, <2>1, <2>2 DEF open
<1>9. CASE write(t)
  <2>1. pc[t] = "write"
    BY <1>9 DEF write
  <2>2. CASE writeDone(t)
    <3>1. mEnvLock' = NoThread
      BY <2>2 DEF writeDone
    <3> QED
      BY <1>2, <1>3, <1>4, <2>1, <3>1
  <2> QED
    BY <1>2, <1>7, <1>9, <1>10, <2>1, <2>2 DEF write
<1> QED
  BY <1>2, <1>5, <1>6, <1>8, <1>9 DEF Locked

(* An update gives the lock back after a bounded number of its own steps,  *)
(* whatever the device answers (updateValue and save in ubootenv.c).       *)
THEOREM UpdatesAlwaysNearEnd == Spec => [][HolderNearsEnd]_vars
<1>1. IInv /\ IInv' /\ [Next]_vars => [HolderNearsEnd]_vars
  <2> SUFFICES ASSUME IInv, IInv', Next PROVE HolderNearsEnd
    OBVIOUS
  <2>1. HolderLeft \in Nat /\ (mEnvLock # NoThread => HolderLeft > 0)
    BY HolderAt DEF IInv, HolderPlaces
  <2>2. HolderLeft' \in Nat /\ (mEnvLock' = NoThread => HolderLeft' = 0)
    BY HolderAtNext DEF IInv, HolderPlaces
  <2> SUFFICES ASSUME mEnvLock # NoThread PROVE HolderLeft' <= HolderLeft
    BY <2>1, HolderStep DEF HolderNearsEnd
  <2>3. mEnvLock \in Thread /\ service = "up" /\ pc[mEnvLock] \in {"set", "save", "write"}
    BY EnvAssumption DEF IInv, TypeOK, LockInv
  <2>4. ~construct /\ ~readPartition /\ ~readFailed
    BY <2>3 DEF construct, readPartition, readFailed
  <2>5. CASE crash
    BY <2>1, <2>2, <2>5 DEF crash
  <2>6. ASSUME NEW t \in Thread, Locked(t) PROVE HolderLeft' <= HolderLeft
    BY <2>1, <2>2, <2>6, HolderStep
  <2>7. ASSUME NEW t \in Thread, NEW k \in Key, NEW v \in Value, updateValue(t, k, v)
        PROVE  HolderLeft' <= HolderLeft
    <3>1. mEnvLock # t /\ mEnvLock' = mEnvLock /\ i' = i
      BY <2>3, <2>7 DEF updateValue
    <3>2. pc'[mEnvLock] = pc[mEnvLock]
      BY <2>3, <2>7, <3>1 DEF updateValue, IInv, TypeOK
    <3> QED
      BY <2>1, <3>1, <3>2, HolderKept
  <2>8. ASSUME NEW t \in Thread, compare(t) PROVE HolderLeft' <= HolderLeft
    <3>1. mEnvLock # t /\ mEnvLock' = mEnvLock /\ i' = i
      BY <2>3, <2>8 DEF compare
    <3>2. pc'[mEnvLock] = pc[mEnvLock]
      BY <2>3, <2>8, <3>1 DEF compare, return, IInv, TypeOK
    <3> QED
      BY <2>1, <3>1, <3>2, HolderKept
  <2>9. ASSUME NEW t \in Thread, lock(t) PROVE HolderLeft' <= HolderLeft
    BY <2>9 DEF lock
  <2> QED
    BY <2>4, <2>5, <2>6, <2>7, <2>8, <2>9 DEF Next
<1> QED
  BY <1>1, Invariance, PTL DEF Spec

=============================================================================
