----------------------------- MODULE DigManager -----------------------------
(***************************************************************************)
(* The data integrity guard (services/data_integrity_guard/DigManager.cpp) *)
(* through boots, reboots and losses of power.  During a boot its one      *)
(* thread restarts a device whose /data was mounted read-only.  How often  *)
(* it did so is counted in a file on /cache, for only that survives the    *)
(* restart; when it did so often enough it lets the recovery system wipe   *)
(* /data, unless the device has A/B updates.  It repairs /cache on the     *)
(* way, and a system partition whose checksums are wrong is restored.      *)
(*                                                                         *)
(* Outside the module are init, which restarts the device, the recovery    *)
(* system, which does what /cache/recovery/command says, and the disks.    *)
(***************************************************************************)
EXTENDS Integers

CONSTANTS
  Max,                 (* mDataRoCountMax                                    *)
  CHECK_SYSTEM_COUNT,
  MaxFaults            (* bound: failures of disks, losses of power          *)

ASSUME DigAssumption ==
  /\ Max \in Nat /\ CHECK_SYSTEM_COUNT \in Nat \ {0} /\ MaxFaults \in Nat

VARIABLES
  ab,                  (* ro.build.ab_update                                 *)
  mSupportSysBak,
  stored,              (* the count in the file, 0 when there is none        *)
  command,             (* /cache/recovery/command                            *)
  dataBad,             (* /data is damaged: every boot mounts it read-only   *)
  sysBad,              (* a checksum of the system partition is wrong        *)
  phase,               (* "off", "up" or "recovery"                          *)
  completed,           (* sys.boot_completed                                 *)
  powerctl,            (* sys.powerctl                                       *)
  dataRo,              (* /data is mounted read-only                         *)
  cache,               (* /cache is mounted "rw" or "ro", or not: "null", or *)
                       (* it is "full": files can be emptied, not written    *)
  pc,                  (* workThread                                         *)
  count, after,        (* setDataRoCount: its argument, where it returns to  *)
  mBootCompleted, mCheckSystemCount,
  faults,              (* how many there were                                *)
  failed,              (* history: boots with read-only data since the last  *)
                       (* one that the thread saw completed, up to Max + 1   *)
  seen,                (* history: the present boot is one of them           *)
  carried,             (* history: a count that could not be reset           *)
  asked                (* history: the command the thread wants followed     *)

config == <<ab, mSupportSysBak>>
disk == <<stored, command, dataBad, sysBad>>
system == <<phase, completed, powerctl, dataRo, cache>>
thread == <<pc, count, after, mBootCompleted, mCheckSystemCount>>
history == <<failed, seen, carried, asked>>
vars == <<config, disk, system, thread, faults, history>>

Command == {"none", "data_ro_wipe", "restore_system"}

Init ==
  /\ ab \in BOOLEAN /\ mSupportSysBak \in BOOLEAN
  /\ stored = 0 /\ command = "none" /\ dataBad = FALSE /\ sysBad = FALSE
  /\ phase = "off" /\ completed = FALSE /\ powerctl = "none" /\ dataRo = FALSE /\ cache = "null"
  /\ pc = "exited" /\ count = 0 /\ after = "cache"
  /\ mBootCompleted = FALSE /\ mCheckSystemCount = CHECK_SYSTEM_COUNT
  /\ faults = 0
  /\ failed = 0 /\ seen = FALSE /\ carried = 0 /\ asked = "none"

(* Of the values with which the device is turned off, "shutdown" is known  *)
(* only when no reason follows it; "off" is "shutdown,<reason>".           *)
isRebooting == powerctl \notin {"none", "off"}

(* The thread writes the 0 that a completed boot earns.                    *)
Resetting == pc \in {"open", "write"} /\ after = "cache"

----------------------------------------------------------------------------
(* init, the kernel and the recovery system *)

Boot ==
  /\ phase = "off"
  /\ phase' = "up"
  /\ completed' = FALSE /\ powerctl' = "none"
  /\ dataRo' = dataBad
  /\ cache' \in IF ab THEN {"rw", "null"} ELSE {"rw"}
  /\ pc' = "top" /\ count' = 0 /\ after' = "cache"
  /\ mBootCompleted' = FALSE /\ mCheckSystemCount' = CHECK_SYSTEM_COUNT
  /\ seen' = FALSE
  /\ UNCHANGED <<config, disk, faults, failed, carried, asked>>

CompleteBoot ==
  /\ phase = "up" /\ ~completed
  /\ completed' = TRUE
  /\ UNCHANGED <<config, disk, phase, powerctl, dataRo, cache, thread, faults, history>>

(* Only the restore command is not synchronised: it may be lost with a     *)
(* /cache that has failed since.                                           *)
Unsynced == command = "restore_system"

(* init writes to the disks what can be written.  fopen has emptied a file *)
(* that was opened for writing.                                            *)
Reboot ==
  /\ phase = "up" /\ powerctl # "none"
  /\ phase' = IF powerctl = "recovery" THEN "recovery" ELSE "off"
  /\ pc' = "exited"
  /\ stored' \in IF pc # "write" THEN {stored}
                 ELSE IF cache = "rw" THEN {0, count} ELSE {stored, 0, count}
  /\ command' \in IF Unsynced /\ cache # "rw" THEN {command, "none"} ELSE {command}
  /\ carried' = IF Resetting THEN stored' ELSE carried
  /\ UNCHANGED <<config, dataBad, sysBad, completed, powerctl, dataRo, cache, count, after,
                 mBootCompleted, mCheckSystemCount, faults, failed, seen, asked>>

Recover ==
  /\ phase = "recovery"
  /\ phase' = "off"
  /\ command' = "none"
  /\ dataBad' = (dataBad /\ command # "data_ro_wipe")
  /\ sysBad' = (sysBad /\ command # "restore_system")
  /\ IF command = "data_ro_wipe"
       THEN failed' = 0 /\ carried' = 0
       ELSE UNCHANGED <<failed, carried>>
  /\ UNCHANGED <<config, stored, completed, powerctl, dataRo, cache, thread, faults, seen, asked>>

Fault == phase = "up" /\ faults < MaxFaults /\ faults' = faults + 1

(* An error of the file system; the next boot may repair it or not.        *)
DataFails ==
  /\ Fault
  /\ dataRo' = TRUE
  /\ dataBad' \in {TRUE, dataBad}
  /\ UNCHANGED <<config, stored, command, sysBad, phase, completed, powerctl, cache, thread,
                 history>>

SystemFails ==
  /\ Fault
  /\ sysBad' = TRUE
  /\ UNCHANGED <<config, stored, command, dataBad, system, thread, history>>

CacheFails ==
  /\ Fault
  /\ cache' \in {"ro", "null"} \/ (cache = "rw" /\ cache' = "full")
  /\ UNCHANGED <<config, disk, phase, completed, powerctl, dataRo, thread, history>>

(* The count that was opened for writing and not synchronised yet has its  *)
(* old value, its new one, or none, and the restore command may be lost.   *)
(* (That the command file has its contents from before it was opened is as *)
(* if the power had gone then.)                                            *)
PowerLoss ==
  /\ Fault
  /\ phase' = "off" /\ pc' = "exited"
  /\ stored' \in IF pc = "write" THEN {stored, 0, count} ELSE {stored}
  /\ command' \in IF Unsynced THEN {command, "none"} ELSE {command}
  /\ carried' = IF Resetting THEN stored' ELSE carried
  /\ UNCHANGED <<config, dataBad, sysBad, completed, powerctl, dataRo, cache, count, after,
                 mBootCompleted, mCheckSystemCount, failed, seen, asked>>

(* Somebody else turns the device off or restarts it.  The thread may not  *)
(* see it and ask for a restart after that, which is then what happens; or *)
(* the device goes off first, which is as if the power had gone.           *)
Shutdown ==
  /\ Fault
  /\ powerctl = "none"
  /\ powerctl' \in {"other", "off"}
  /\ UNCHANGED <<config, disk, phase, completed, dataRo, cache, thread, history>>

----------------------------------------------------------------------------
(* workThread *)

go(place) == pc' = place /\ UNCHANGED <<count, after, mBootCompleted, mCheckSystemCount>>

(* Calls setDataRoCount(n), which returns to place.                        *)
setDataRoCount(n, place) == pc' = "open" /\ count' = n /\ after' = place

(* MUTANT: the count is left as it is. *)
checkBootNoReset ==
  /\ pc = "top"
  /\ IF ~mBootCompleted /\ completed
       THEN /\ mBootCompleted' = TRUE
            /\ failed' = 0
            /\ pc' = "cache" /\ UNCHANGED <<count, after>>
       ELSE /\ pc' = "cache"
            /\ UNCHANGED <<count, after, mBootCompleted, failed>>
  /\ UNCHANGED <<config, disk, system, mCheckSystemCount, faults, seen, carried, asked>>

checkBoot ==
  /\ pc = "top"
  /\ IF ~mBootCompleted /\ completed
       THEN /\ mBootCompleted' = TRUE
            /\ failed' = 0
            /\ setDataRoCount(0, "cache")
       ELSE /\ pc' = "cache"
            /\ UNCHANGED <<count, after, mBootCompleted, failed>>
  /\ UNCHANGED <<config, disk, system, mCheckSystemCount, faults, seen, carried, asked>>

(* fopen for writing succeeds, and empties the file.                       *)
Opens == cache \in {"rw", "full"}

(* fopen: nothing is said of a failure.                                    *)
openCount ==
  /\ pc = "open"
  /\ IF Opens
       THEN go("write") /\ UNCHANGED carried
       ELSE go(after) /\ carried' = IF after = "cache" THEN stored ELSE carried
  /\ UNCHANGED <<config, disk, system, faults, failed, seen, asked>>

writeCount ==
  /\ pc = "write"
  /\ stored' \in CASE cache = "rw" -> {count} [] cache = "full" -> {0} [] OTHER -> {stored, 0}
  /\ carried' = IF after = "cache" THEN stored' ELSE carried
  /\ go(after)
  /\ UNCHANGED <<config, command, dataBad, sysBad, system, faults, failed, seen, asked>>

CacheIsFine == ab \/ Opens \/ isRebooting

checkCache ==
  /\ pc = "cache" /\ CacheIsFine
  /\ go("data")
  /\ UNCHANGED <<config, disk, system, faults, history>>

Format == stored' = 0 /\ command' = "none"

(* handleCacheRo formats the partition, handleCacheNull mounts it.         *)
repairCache ==
  /\ pc = "cache" /\ ~CacheIsFine
  /\ cache' = "rw"
  /\ IF cache = "ro" THEN Format ELSE UNCHANGED <<stored, command>>
  /\ go("data")
  /\ UNCHANGED <<config, dataBad, sysBad, phase, completed, powerctl, dataRo, faults, history>>

(* Any of their steps may fail: what is mounted then, and whether what was *)
(* on it is left, is open.                                                 *)
repairCacheFails ==
  /\ pc = "cache" /\ ~CacheIsFine
  /\ Fault
  /\ cache' \in {"rw", "ro", "null"}
  /\ Format \/ UNCHANGED <<stored, command>>
  /\ go("data")
  /\ UNCHANGED <<config, dataBad, sysBad, phase, completed, powerctl, dataRo, history>>

getDataRoCount == IF cache = "null" THEN 0 ELSE stored

(* MUTANT: the restart comes before the count is written. *)
handleDataRoUncounted ==
  IF getDataRoCount < Max
    THEN pc' = "reboot" /\ UNCHANGED <<count, after>>
    ELSE setDataRoCount(0, IF ab THEN "system" ELSE "command")

handleDataRo ==
  IF getDataRoCount < Max
    THEN setDataRoCount(getDataRoCount + 1, "reboot")
    ELSE setDataRoCount(0, IF ab THEN "system" ELSE "command")

(* A completed boot is left running, and an application shows a warning.   *)
checkData ==
  /\ pc = "data"
  /\ IF dataRo /\ ~isRebooting /\ ~mBootCompleted
       THEN /\ handleDataRo
            /\ seen' = TRUE
            /\ failed' = IF seen \/ failed > Max THEN failed ELSE failed + 1
       ELSE pc' = "system" /\ UNCHANGED <<count, after, seen, failed>>
  /\ UNCHANGED <<config, disk, system, mBootCompleted, mCheckSystemCount, faults, carried, asked>>

doReboot ==
  /\ pc = "reboot"
  /\ powerctl' = "reboot"
  /\ go("system")
  /\ UNCHANGED <<config, disk, phase, completed, dataRo, cache, faults, history>>

(* fopen of the command file, which empties it; without it there is no     *)
(* recovery.                                                               *)
openCommand(place, then, otherwise) ==
  /\ pc = place
  /\ IF Opens
       THEN command' = "none" /\ go(then)
       ELSE UNCHANGED command /\ go(otherwise)
  /\ UNCHANGED <<config, stored, dataBad, sysBad, system, faults, history>>

(* fprintf, fsync: whether they fail is not looked at.                     *)
writeCommand(place, text, then) ==
  /\ pc = place
  /\ command' \in CASE cache = "rw" -> {text}
                   [] cache = "full" -> {"none"}
                   [] OTHER -> {text, "none"}
  /\ go(then)
  /\ UNCHANGED <<config, stored, dataBad, sysBad, system, faults, history>>

rebootRecovery(place, text, next) ==
  /\ pc = place
  /\ powerctl' = "recovery"
  /\ asked' = text
  /\ go(next)
  /\ UNCHANGED <<config, disk, phase, completed, dataRo, cache, faults, failed, seen, carried>>

doRebootRecoveryTipDataro ==
  \/ openCommand("command", "writeWipe", "system")
  \/ writeCommand("writeWipe", "data_ro_wipe", "wipe")
  \/ rebootRecovery("wipe", "data_ro_wipe", "system")

(* MUTANT: a restart that was asked for is not looked at. *)
SysChksumErrorHurried == sysBad /\ ~mBootCompleted /\ ~ab

(* HanldeSysChksumError: after the boot there is a warning only.           *)
SysChksumError == sysBad /\ ~isRebooting /\ ~mBootCompleted /\ ~ab

checkSystem ==
  LET due == mSupportSysBak /\ mCheckSystemCount = CHECK_SYSTEM_COUNT IN
  /\ pc = "system"
  /\ mCheckSystemCount' = IF due THEN 1
                          ELSE IF mSupportSysBak THEN mCheckSystemCount + 1
                          ELSE mCheckSystemCount
  /\ pc' = IF due /\ SysChksumError THEN "restoreCommand" ELSE "end"
  /\ UNCHANGED <<config, disk, system, count, after, mBootCompleted, faults, history>>

doRestoreSystem ==
  \/ openCommand("restoreCommand", "writeRestore", "end")
  \/ writeCommand("writeRestore", "restore_system", "restore")
  \/ rebootRecovery("restore", "restore_system", "end")

endLoop ==
  /\ pc = "end"
  /\ go(IF isRebooting THEN "exited" ELSE "top")
  /\ UNCHANGED <<config, disk, system, faults, history>>

workThread ==
  \/ checkBoot \/ openCount \/ writeCount
  \/ checkCache \/ repairCache
  \/ checkData \/ doReboot \/ doRebootRecoveryTipDataro
  \/ checkSystem \/ doRestoreSystem
  \/ endLoop

Failure == DataFails \/ SystemFails \/ CacheFails \/ PowerLoss \/ Shutdown \/ repairCacheFails

Next == workThread \/ Boot \/ CompleteBoot \/ Reboot \/ Recover \/ Failure

Spec == Init /\ [][Next]_vars

(* The thread runs on, init and the recovery system do what they are asked *)
(* for.  No boot needs to complete, and nothing needs to fail.             *)
Fairness == WF_vars(workThread) /\ WF_vars(Boot) /\ WF_vars(Reboot) /\ WF_vars(Recover)

FairSpec == Spec /\ Fairness

----------------------------------------------------------------------------
(* Type correctness; a count never exceeds the limit.                      *)
TypeOK ==
  /\ ab \in BOOLEAN /\ mSupportSysBak \in BOOLEAN
  /\ stored \in 0..Max /\ command \in Command
  /\ dataBad \in BOOLEAN /\ sysBad \in BOOLEAN
  /\ phase \in {"off", "up", "recovery"} /\ completed \in BOOLEAN
  /\ powerctl \in {"none", "reboot", "recovery", "other", "off"}
  /\ dataRo \in BOOLEAN /\ cache \in {"rw", "ro", "null", "full"}
  /\ pc \in {"top", "open", "write", "cache", "data", "reboot", "command", "writeWipe", "wipe",
             "system", "restoreCommand", "writeRestore", "restore", "end", "exited"}
  /\ count \in 0..Max /\ after \in {"cache", "reboot", "command", "system"}
  /\ mBootCompleted \in BOOLEAN /\ mCheckSystemCount \in 1..CHECK_SYSTEM_COUNT
  /\ faults \in 0..MaxFaults
  /\ failed \in 0..(Max + 1) /\ seen \in BOOLEAN /\ carried \in 0..Max
  /\ asked \in Command

(* /data is wiped only after more than Max boots in a row that found it    *)
(* read-only, over any losses of power, formats of /cache and restores of  *)
(* the system in between.  Only a count that the last completed boot could *)
(* not reset adds to them, because setDataRoCount fails in silence.        *)
WipeOnlyAfterFailures ==
  phase = "recovery" /\ command = "data_ro_wipe" => failed + carried > Max

(* The recovery system finds the command for the sake of which the thread  *)
(* has restarted the device (doRebootRecoveryTipDataro, doRestoreSystem),  *)
(* never another one: neither a command that an earlier loss of power left *)
(* over, nor the check of the system partition, nor the repair of /cache   *)
(* comes between the two.  It finds none only when /cache had failed under *)
(* the thread by the time the device went down, for fprintf and fsync may  *)
(* fail in silence.                                                        *)
RecoveryFindsCommand ==
  phase = "recovery" => command = asked \/ (command = "none" /\ cache # "rw")

(* A device without A/B updates whose data is damaged for good gets it     *)
(* wiped, unless it comes up in spite of it, however often (but finitely   *)
(* often) the count is lost, the power goes, or /cache cannot be written.  *)
BadDataEndsInRecovery ==
  ~ab /\ dataBad ~>
    \/ phase = "recovery" /\ command = "data_ro_wipe"
    \/ completed \/ ~dataBad
=============================================================================
