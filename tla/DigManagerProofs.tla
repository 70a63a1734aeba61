-------------------------- MODULE DigManagerProofs --------------------------
(***************************************************************************)
(* Theorems of DigManager, for any limit of the count, any interval of the *)
(* system check, and any number of faults.                                 *)
(***************************************************************************)
EXTENDS DigManager, TLAPS

(* The boots for which a count may stand.                                  *)
Earned == failed + carried

(* The file never holds more than was earned.  A completed boot has earned *)
(* nothing, but its 0 may not be written yet.                              *)
CountInv ==
  /\ ~Resetting => stored <= Earned
  /\ Resetting => mBootCompleted /\ count = 0
  /\ pc \in {"open", "write"} => count <= Earned
  /\ pc \in {"open", "write"} /\ after # "reboot" => count = 0

(* On its way to the recovery system the thread has counted enough boots.  *)
ToRecovery == pc \in {"command", "writeWipe", "wipe"} \/ (pc \in {"open", "write"} /\ after = "command")

ToReboot == pc = "reboot" \/ (pc \in {"open", "write"} /\ after = "reboot")

(* The same boot is counted once: a boot that was counted and is not being *)
(* restarted is one with which the limit was passed.                       *)
PassedInv ==
  /\ ToRecovery => Earned > Max
  /\ seen /\ phase = "up" /\ ~mBootCompleted /\ ~isRebooting /\ ~ToReboot => Earned > Max

(* The file has this command, or none because /cache has failed.           *)
Found(text) == command = text \/ (command = "none" /\ cache # "rw")

(* Between the command and the restart nothing changes what was counted,   *)
(* and the thread does not come back to the beginning of its loop.         *)
CommandInv ==
  /\ pc = "command" /\ Opens => stored = 0
  /\ pc \in {"writeWipe", "wipe"} => stored = 0
  /\ pc \in {"writeWipe", "writeRestore"} => command = "none"
  /\ pc = "wipe" => Found("data_ro_wipe")
  /\ pc = "restore" => Found("restore_system")
  /\ phase # "up" => pc = "exited"
  /\ (phase = "up" /\ powerctl = "recovery") \/ phase = "recovery" =>
       /\ pc \in {"system", "end", "exited"}
       /\ Found(asked)
       /\ command = "data_ro_wipe" => stored = 0 /\ Earned > Max

DigInv == CountInv /\ PassedInv /\ CommandInv

IInv == TypeOK /\ DigInv

LEMMA CarriedSuffices ==
  ASSUME NEW x \in Nat, NEW y \in Nat
  PROVE  x <= y + x
OBVIOUS

(* Every step keeps the types.                                             *)
LEMMA TypeStep ==
  ASSUME IInv, [Next]_vars
  PROVE  TypeOK'
<1> USE DigAssumption DEF IInv, TypeOK, Command
<1>1. CASE checkBoot
  <2>1. CASE ~mBootCompleted /\ completed
    BY <1>1, <2>1 DEF checkBoot, setDataRoCount, config, disk, system
  <2>2. CASE ~(~mBootCompleted /\ completed)
    BY <1>1, <2>2 DEF checkBoot, config, disk, system
  <2>3. QED
    BY <2>1, <2>2
<1>2. CASE openCount
  BY <1>2 DEF openCount, go, config, disk, system
<1>3. CASE writeCount
  BY <1>3 DEF writeCount, go, config, system
<1>4. CASE checkCache
  BY <1>4 DEF checkCache, go, config, disk, system, history
<1>5. CASE repairCache
  BY <1>5 DEF repairCache, go, Format, config, history
<1>6. CASE checkData
  <2>1. CASE dataRo /\ ~isRebooting /\ ~mBootCompleted
    <3>1. getDataRoCount \in 0..Max
      BY DEF getDataRoCount
    <3>2. handleDataRo /\ seen' = TRUE /\ failed' \in 0..(Max + 1)
      BY <1>6, <2>1 DEF checkData
    <3>3. count' \in 0..Max /\ after' \in {"reboot", "command", "system"} /\ pc' = "open"
      BY <3>1, <3>2 DEF handleDataRo, setDataRoCount
    <3>4. QED
      BY <1>6, <3>2, <3>3 DEF checkData, config, disk, system
  <2>2. CASE ~(dataRo /\ ~isRebooting /\ ~mBootCompleted)
    BY <1>6, <2>2 DEF checkData, config, disk, system
  <2>3. QED
    BY <2>1, <2>2
<1>7. CASE doReboot
  BY <1>7 DEF doReboot, go, config, disk, history
<1>8. CASE doRebootRecoveryTipDataro
  BY <1>8 DEF doRebootRecoveryTipDataro, openCommand, writeCommand, rebootRecovery, go, config, disk, system,
     history
<1>9. CASE checkSystem
  BY <1>9 DEF checkSystem, SysChksumError, config, disk, system, history
<1>10. CASE doRestoreSystem
  BY <1>10 DEF doRestoreSystem, openCommand, writeCommand, rebootRecovery, go, config, disk, system, history
<1>11. CASE endLoop
  BY <1>11 DEF endLoop, go, config, disk, system, history
<1>12. CASE Boot
  <2>1. cache' \in {"rw", "ro", "null", "full"}
    BY <1>12 DEF Boot
  <2>2. mCheckSystemCount' \in 1..CHECK_SYSTEM_COUNT
    BY <1>12 DEF Boot
  <2>3. UNCHANGED <<config, disk, faults, failed, carried, asked>>
    BY <1>12 DEF Boot
  <2>4. /\ phase' = "up" /\ completed' = FALSE /\ powerctl' = "none" /\ dataRo' = dataBad
        /\ pc' = "top" /\ count' = 0 /\ after' = "cache" /\ mBootCompleted' = FALSE
        /\ seen' = FALSE
    BY <1>12 DEF Boot
  <2>5. /\ phase' \in {"off", "up", "recovery"}
        /\ powerctl' \in {"none", "reboot", "recovery", "other", "off"}
        /\ completed' \in BOOLEAN /\ dataRo' \in BOOLEAN
        /\ mBootCompleted' \in BOOLEAN /\ seen' \in BOOLEAN
    BY <2>4
  <2>6. count' \in 0..Max /\ pc' = "top" /\ after' = "cache"
    BY <2>4
  <2>7. QED
    BY <2>1, <2>2, <2>3, <2>5, <2>6 DEF config, disk
<1>13. CASE CompleteBoot
  BY <1>13 DEF CompleteBoot, config, disk, thread, history
<1>14. CASE Reboot
  BY <1>14 DEF Reboot, config, disk
<1>15. CASE Recover
  BY <1>15 DEF Recover, config, thread
<1>16. CASE DataFails
  <2>1. faults' \in 0..MaxFaults
    BY <1>16 DEF DataFails, Fault
  <2>2. /\ dataRo' = TRUE
        /\ UNCHANGED <<config, stored, command, sysBad, phase, completed, powerctl, cache, thread,
                       history>>
    BY <1>16 DEF DataFails
  <2>3. dataBad' = TRUE \/ dataBad' = dataBad
    BY <1>16 DEF DataFails
  <2>4. dataBad' \in BOOLEAN /\ dataRo' \in BOOLEAN
    BY <2>2, <2>3
  <2>5. QED
    BY <2>1, <2>2, <2>4 DEF config, thread, history
<1>17. CASE SystemFails
  BY <1>17 DEF SystemFails, Fault, config, system, thread, history
<1>18. CASE CacheFails
  BY <1>18 DEF CacheFails, Fault, config, disk, thread, history
<1>19. CASE PowerLoss
  BY <1>19 DEF PowerLoss, Fault, config
<1>20. CASE Shutdown
  BY <1>20 DEF Shutdown, Fault, config, disk, thread, history
<1>21. CASE repairCacheFails
  BY <1>21 DEF repairCacheFails, Fault, go, Format, config, history
<1>22. CASE UNCHANGED vars
  BY <1>22 DEF vars, config, disk, system, thread, history
<1>23. QED
  BY <1>1, <1>2, <1>3, <1>4, <1>5, <1>6, <1>7, <1>8, <1>9, <1>10, <1>11, <1>12, <1>13, <1>14,
     <1>15, <1>16, <1>17, <1>18, <1>19, <1>20, <1>21, <1>22 DEF Next, workThread, Failure

(* No step lets the file hold more than was earned: what a loss of power   *)
(* or an error of /cache leaves of a write is the old count, 0 or the new. *)
LEMMA CountStep ==
  ASSUME IInv, [Next]_vars
  PROVE  CountInv'
<1> USE DigAssumption DEF IInv, TypeOK, Command, DigInv, CountInv, PassedInv, CommandInv,
   ToRecovery, ToReboot, Earned, Resetting, isRebooting, Found, Opens
<1>1. CASE checkBoot
  BY <1>1 DEF checkBoot, setDataRoCount, disk
<1>2. CASE openCount
  BY <1>2 DEF openCount, go, disk
<1>3. CASE writeCount
  <2>1. CASE after = "cache"
    <3>1. stored' \in 0..Max /\ carried' = stored' /\ failed' = failed
      BY <1>3, <2>1 DEF writeCount
    <3>2. stored' \in Nat /\ failed' \in Nat
      BY <3>1
    <3>3. stored' <= failed' + carried'
      BY <3>1, <3>2, CarriedSuffices
    <3>4. pc' = "cache"
      BY <1>3, <2>1 DEF writeCount, go
    <3>5. QED
      BY <3>3, <3>4
  <2>2. CASE after # "cache"
    <3>1. stored' \in {stored, 0, count} /\ stored <= Earned /\ count <= Earned
      BY <1>3, <2>2 DEF writeCount
    <3>2. stored' <= Earned
      BY <3>1
    <3>3. UNCHANGED <<failed, carried>> /\ pc' = after
      BY <1>3, <2>2 DEF writeCount, go
    <3>4. QED
      BY <3>2, <3>3
  <2>3. QED
    BY <2>1, <2>2
<1>4. CASE checkCache
  BY <1>4 DEF checkCache, go, disk, history
<1>5. CASE repairCache
  BY <1>5 DEF repairCache, go, Format, history
<1>6. CASE checkData
  BY <1>6 DEF checkData, handleDataRo, getDataRoCount, setDataRoCount, disk, isRebooting
<1>7. CASE doReboot
  BY <1>7 DEF doReboot, go, disk, history
<1>8. CASE doRebootRecoveryTipDataro
  BY <1>8 DEF doRebootRecoveryTipDataro, openCommand, writeCommand, rebootRecovery, go, disk, history
<1>9. CASE checkSystem
  BY <1>9 DEF checkSystem, SysChksumError, disk, history
<1>10. CASE doRestoreSystem
  BY <1>10 DEF doRestoreSystem, openCommand, writeCommand, rebootRecovery, go, disk, history
<1>11. CASE endLoop
  BY <1>11 DEF endLoop, go, disk, history
<1>12. CASE Boot
  BY <1>12 DEF Boot, disk
<1>13. CASE CompleteBoot
  BY <1>13 DEF CompleteBoot, disk, thread, history
<1>14. CASE Reboot
  <2>1. stored' \in 0..Max /\ failed' = failed /\ pc' = "exited"
    BY <1>14 DEF Reboot
  <2>2. CASE Resetting
    <3>1. carried' = stored'
      BY <1>14, <2>2 DEF Reboot
    <3>2. stored' \in Nat /\ failed' \in Nat
      BY <2>1
    <3>3. stored' <= failed' + carried'
      BY <2>1, <3>1, <3>2, CarriedSuffices
    <3>4. QED
      BY <2>1, <3>3
  <2>3. CASE ~Resetting
    <3>1. carried' = carried
      BY <1>14, <2>3 DEF Reboot
    <3>2. stored <= Earned /\ (pc = "write" => count <= Earned)
      BY <2>3
    <3>3. stored' <= Earned
      BY <1>14, <3>2 DEF Reboot
    <3>4. QED
      BY <2>1, <3>1, <3>3
  <2>4. QED
    BY <2>2, <2>3
<1>15. CASE Recover
  BY <1>15 DEF Recover, thread
<1>16. CASE DataFails
  BY <1>16 DEF DataFails, thread, history
<1>17. CASE SystemFails
  BY <1>17 DEF SystemFails, thread, history
<1>18. CASE CacheFails
  BY <1>18 DEF CacheFails, disk, thread, history
<1>19. CASE PowerLoss
  <2>1. stored' \in 0..Max /\ failed' = failed /\ pc' = "exited"
    BY <1>19 DEF PowerLoss
  <2>2. CASE Resetting
    <3>1. carried' = stored'
      BY <1>19, <2>2 DEF PowerLoss
    <3>2. stored' \in Nat /\ failed' \in Nat
      BY <2>1
    <3>3. stored' <= failed' + carried'
      BY <2>1, <3>1, <3>2, CarriedSuffices
    <3>4. QED
      BY <2>1, <3>3
  <2>3. CASE ~Resetting
    <3>1. carried' = carried
      BY <1>19, <2>3 DEF PowerLoss
    <3>2. stored <= Earned /\ (pc = "write" => count <= Earned)
      BY <2>3
    <3>3. stored' <= Earned
      BY <1>19, <3>2 DEF PowerLoss
    <3>4. QED
      BY <2>1, <3>1, <3>3
  <2>4. QED
    BY <2>2, <2>3
<1>20. CASE Shutdown
  BY <1>20 DEF Shutdown, disk, thread, history
<1>21. CASE repairCacheFails
  BY <1>21 DEF repairCacheFails, go, Format, history
<1>22. CASE UNCHANGED vars
  BY <1>22 DEF vars, disk, thread, history
<1>23. QED
  BY <1>1, <1>2, <1>3, <1>4, <1>5, <1>6, <1>7, <1>8, <1>9, <1>10, <1>11, <1>12, <1>13, <1>14,
     <1>15, <1>16, <1>17, <1>18, <1>19, <1>20, <1>21, <1>22 DEF Next, workThread, Failure

(* No step counts a boot twice or takes it for one that passed the limit.  *)
LEMMA PassedStep ==
  ASSUME IInv, [Next]_vars
  PROVE  PassedInv'
<1> USE DigAssumption DEF IInv, TypeOK, Command, DigInv, CountInv, PassedInv, CommandInv,
   ToRecovery, ToReboot, Earned, Resetting, isRebooting, Found, Opens
<1>1. CASE checkBoot
  BY <1>1 DEF checkBoot, setDataRoCount, system
<1>2. CASE openCount
  BY <1>2 DEF openCount, go, system
<1>3. CASE writeCount
  BY <1>3 DEF writeCount, go, system
<1>4. CASE checkCache
  BY <1>4 DEF checkCache, go, system, history
<1>5. CASE repairCache
  BY <1>5 DEF repairCache, go, Format, history
<1>6. CASE checkData
  BY <1>6 DEF checkData, handleDataRo, getDataRoCount, setDataRoCount, system, isRebooting
<1>7. CASE doReboot
  BY <1>7 DEF doReboot, go
<1>8. CASE doRebootRecoveryTipDataro
  BY <1>8 DEF doRebootRecoveryTipDataro, openCommand, writeCommand, rebootRecovery, history
<1>9. CASE checkSystem
  BY <1>9 DEF checkSystem, SysChksumError, system, history
<1>10. CASE doRestoreSystem
  BY <1>10 DEF doRestoreSystem, openCommand, writeCommand, rebootRecovery, go, system, history
<1>11. CASE endLoop
  BY <1>11 DEF endLoop, go, system, history
<1>12. CASE Boot
  BY <1>12 DEF Boot
<1>13. CASE CompleteBoot
  BY <1>13 DEF CompleteBoot, thread, history
<1>14. CASE Reboot
  BY <1>14 DEF Reboot
<1>15. CASE Recover
  BY <1>15 DEF Recover, thread
<1>16. CASE DataFails
  BY <1>16 DEF DataFails, thread, history
<1>17. CASE SystemFails
  BY <1>17 DEF SystemFails, system, thread, history
<1>18. CASE CacheFails
  BY <1>18 DEF CacheFails, thread, history
<1>19. CASE PowerLoss
  BY <1>19 DEF PowerLoss
<1>20. CASE Shutdown
  BY <1>20 DEF Shutdown, thread, history
<1>21. CASE repairCacheFails
  BY <1>21 DEF repairCacheFails, go, Format, history
<1>22. CASE UNCHANGED vars
  BY <1>22 DEF vars, system, thread, history
<1>23. QED
  BY <1>1, <1>2, <1>3, <1>4, <1>5, <1>6, <1>7, <1>8, <1>9, <1>10, <1>11, <1>12, <1>13, <1>14,
     <1>15, <1>16, <1>17, <1>18, <1>19, <1>20, <1>21, <1>22 DEF Next, workThread, Failure

(* No step comes between the command and the restart.                      *)
LEMMA CommandStep ==
  ASSUME IInv, [Next]_vars
  PROVE  CommandInv'
<1> USE DigAssumption DEF IInv, TypeOK, Command, DigInv, CountInv, PassedInv, CommandInv,
   ToRecovery, ToReboot, Earned, Resetting, isRebooting, Found, Opens
<1>1. CASE checkBoot
  BY <1>1 DEF checkBoot, setDataRoCount, system
<1>2. CASE openCount
  BY <1>2 DEF openCount, go, system
<1>3. CASE writeCount
  BY <1>3 DEF writeCount, go, system
<1>4. CASE checkCache
  BY <1>4 DEF checkCache, go, system
<1>5. CASE repairCache
  BY <1>5 DEF repairCache, go, Format
<1>6. CASE checkData
  BY <1>6 DEF checkData, handleDataRo, getDataRoCount, setDataRoCount, system
<1>7. CASE doReboot
  BY <1>7 DEF doReboot, go
<1>8. CASE doRebootRecoveryTipDataro
  BY <1>8 DEF doRebootRecoveryTipDataro, openCommand, writeCommand, rebootRecovery, go, disk, system
<1>9. CASE checkSystem
  BY <1>9 DEF checkSystem, SysChksumError, disk, system, history, isRebooting
<1>10. CASE doRestoreSystem
  BY <1>10 DEF doRestoreSystem, openCommand, writeCommand, rebootRecovery, go, disk, system
<1>11. CASE endLoop
  BY <1>11 DEF endLoop, go, disk, system, history, isRebooting
<1>12. CASE Boot
  BY <1>12 DEF Boot
<1>13. CASE CompleteBoot
  BY <1>13 DEF CompleteBoot, disk, thread, history
<1>14. CASE Reboot
  BY <1>14 DEF Reboot, disk
<1>15. CASE Recover
  BY <1>15 DEF Recover, thread
<1>16. CASE DataFails
  BY <1>16 DEF DataFails, thread, history
<1>17. CASE SystemFails
  BY <1>17 DEF SystemFails, system, thread, history
<1>18. CASE CacheFails
  BY <1>18 DEF CacheFails, disk, thread, history
<1>19. CASE PowerLoss
  BY <1>19 DEF PowerLoss
<1>20. CASE Shutdown
  BY <1>20 DEF Shutdown, Fault, disk, thread
<1>21. CASE repairCacheFails
  BY <1>21 DEF repairCacheFails, go, Format
<1>22. CASE UNCHANGED vars
  BY <1>22 DEF vars, disk, system, thread, history
<1>23. QED
  BY <1>1, <1>2, <1>3, <1>4, <1>5, <1>6, <1>7, <1>8, <1>9, <1>10, <1>11, <1>12, <1>13, <1>14,
     <1>15, <1>16, <1>17, <1>18, <1>19, <1>20, <1>21, <1>22 DEF Next, workThread, Failure

(* What the thread relies on holds at every moment: the file holds no more *)
(* than was earned, a boot is counted once, and nothing comes between the  *)
(* command and the restart (workThread with everything it calls).          *)
THEOREM Invariance == Spec => []IInv
<1>1. Init => IInv
  <2> SUFFICES ASSUME Init
               PROVE  IInv
    OBVIOUS
  <2>1. stored = 0 /\ failed = 0 /\ carried = 0 /\ pc = "exited"
    BY DEF Init
  <2>2. phase = "off" /\ ~seen
    BY DEF Init
  <2>3. TypeOK
    <3>1. /\ ab \in BOOLEAN /\ mSupportSysBak \in BOOLEAN
          /\ dataBad \in BOOLEAN /\ sysBad \in BOOLEAN
          /\ completed \in BOOLEAN /\ dataRo \in BOOLEAN
          /\ mBootCompleted \in BOOLEAN /\ seen \in BOOLEAN
      BY DEF Init
    <3>2. /\ stored \in 0..Max /\ count \in 0..Max /\ carried \in 0..Max /\ failed \in 0..(Max + 1)
          /\ faults \in 0..MaxFaults /\ mCheckSystemCount \in 1..CHECK_SYSTEM_COUNT
      BY DigAssumption DEF Init
    <3>3. /\ command = "none" /\ asked = "none" /\ phase = "off" /\ powerctl = "none"
          /\ cache = "null" /\ pc = "exited" /\ after = "cache"
      BY DEF Init
    <3>4. QED
      BY <3>1, <3>2, <3>3 DEF TypeOK, Command
  <2>4. DigInv
    BY <2>1, <2>2 DEF DigInv, CountInv, PassedInv, CommandInv, ToRecovery, ToReboot, Earned,
       Resetting
  <2>5. QED
    BY <2>3, <2>4 DEF IInv
<1>2. IInv /\ [Next]_vars => IInv'
  BY TypeStep, CountStep, PassedStep, CommandStep DEF IInv, DigInv
<1>3. QED
  BY <1>1, <1>2, PTL DEF Spec

(* Type correctness: the count stays within mDataRoCountMax, and every     *)
(* other variable of the device and of DigManager keeps its type.          *)
THEOREM TypeCorrect == Spec => []TypeOK
<1>1. IInv => TypeOK
  BY DEF IInv
<1>2. QED
  BY <1>1, Invariance, PTL

(* /data is wiped only after more than mDataRoCountMax boots with          *)
(* read-only data, for any limit and any faults (handleDataRo and          *)
(* doRebootRecoveryTipDataro).                                             *)
THEOREM WipeAlwaysAfterFailures == Spec => []WipeOnlyAfterFailures
<1>1. IInv => WipeOnlyAfterFailures
  BY DEF IInv, DigInv, CommandInv, Earned, WipeOnlyAfterFailures
<1>2. QED
  BY <1>1, Invariance, PTL

(* The recovery system always finds the command for which the thread has   *)
(* restarted the device, or none if /cache has failed, and never another   *)
(* one (isRebooting in the handlers, and the end of the loop).             *)
THEOREM RecoveryAlwaysFindsCommand == Spec => []RecoveryFindsCommand
<1>1. IInv => RecoveryFindsCommand
  BY DEF IInv, DigInv, CommandInv, Found, RecoveryFindsCommand
<1>2. QED
  BY <1>1, Invariance, PTL
=============================================================================
