----------------------------- MODULE HdcpTxAuth -----------------------------
(***************************************************************************)
(* HDCP authentication of the HDMI output                                  *)
(* (services/systemcontrol/HDCP/HDCPTxAuth.cpp) and everyone who restarts  *)
(* it: the thread of the TX uevents, the thread of the RX uevents          *)
(* (HDCPRxAuth.cpp) and the binder threads that set an output mode         *)
(* (DisplayMode.cpp) or a 3D mode (Dimension.cpp).                         *)
(*                                                                         *)
(* pthreadTxMutex excludes nobody: it is only tried, and the result is     *)
(* compared with EDEADLK, which trylock never returns.  So it is left out, *)
(* and every access to a shared variable is an action of its own.          *)
(***************************************************************************)
EXTENDS Integers, FiniteSets

CONSTANTS
  Caller,   (* the threads that call start and stop                          *)
  OpsOf,    (* what each of them does                                        *)
  Threads,  (* bound: how many authentication threads are created            *)
  Polls     (* how often authLoop asks (40 in the code)                      *)

(* The TX uevent, the three RX uevents, setSourceOutputMode by the state   *)
(* it is called with, with a mode of CVBS, a panel or a quiescent boot,    *)
(* and set3DMode.                                                          *)
Op == {"hdrExit", "rxPlugIn", "rxPlugOut", "rxAuth", "modeInit", "modePower",
       "modeSwitch", "modeCvbs", "set3DMode"}

ASSUME AuthAssumption ==
  /\ IsFiniteSet(Caller)
  /\ OpsOf \in [Caller -> SUBSET Op]
  /\ Threads \in Nat
  /\ Polls \in Nat

Mutes == {"hdrExit", "rxAuth", "modePower", "modeSwitch", "modeCvbs", "set3DMode"}
StopsEarly == {"hdrExit", "modeSwitch", "set3DMode"}
UnmutesAfterStop == {"modePower", "modeSwitch"}
Starts == Op \ {"rxPlugIn", "modeCvbs"}
EndsBoot == {"modeInit", "modePower", "modeSwitch"}

Thread == 1..Threads
NoThread == 0   (* pthreadIdHdcpTx == 0 *)

VARIABLES
  mBootAnimFinished, mExitHdcpTxThread, pthreadIdHdcpTx,
  pthreadTxSem,
  created,     (* the number of threads created                              *)
  thread,      (* each authentication thread: where it is, the version it    *)
               (* believes to run, count, and whether pthread_join was       *)
               (* called for it                                              *)
  caller,      (* each caller: where it is, what it does, its thread         *)
  hdcp,        (* the version that runs, "off" after stopVerAll              *)
  muted,       (* DISPLAY_HDMI_AVMUTE                                        *)
  overlapped,  (* history: an operation began while another was under way    *)
  givenUp      (* history: an authentication was refused, or ended by an     *)
               (* operation that does not start a new one                    *)

flags == <<mBootAnimFinished, mExitHdcpTxThread, pthreadIdHdcpTx, pthreadTxSem>>
output == <<hdcp, muted>>
history == <<overlapped, givenUp>>
vars == <<flags, created, thread, caller, output, history>>

Version == {"14", "22"}

ThreadState == [pc : {"none", "new", "boot", "init", "start", "loop", "poll", "done"},
                ver : Version \union {"off"}, count : 0..Polls, joined : BOOLEAN]

CallerState == [pc : {"idle", "mute", "early", "unmute3D", "stop", "test", "exit", "join",
                      "joined", "clear", "unmute", "create", "wait", "publish", "boot"},
                op : Op \union {"none"}, t : Thread \union {NoThread}]

Init ==
  /\ mBootAnimFinished = FALSE
  /\ mExitHdcpTxThread \in BOOLEAN   (* never initialised *)
  /\ pthreadIdHdcpTx = NoThread
  /\ pthreadTxSem = 0
  /\ created = 0
  /\ thread = [t \in Thread |-> [pc |-> "none", ver |-> "off", count |-> 0, joined |-> FALSE]]
  /\ caller = [c \in Caller |-> [pc |-> "idle", op |-> "none", t |-> NoThread]]
  /\ hdcp = "off"
  /\ muted = FALSE
  /\ overlapped = FALSE
  /\ givenUp = FALSE

Live(t) == thread[t].pc \notin {"none", "done"}
Idle == \A c \in Caller : caller[c].pc = "idle"

go(c, pc) == caller' = [caller EXCEPT ![c].pc = pc]
at(c, pc) == caller[c].pc = pc
run(t, pc) == thread' = [thread EXCEPT ![t].pc = pc]
return(c) == caller' = [caller EXCEPT ![c] = [pc |-> "idle", op |-> "none", t |-> NoThread]]
end(t) == thread' = [thread EXCEPT ![t] = [pc |-> "done", ver |-> "off", count |-> 0,
                                           joined |-> @.joined]]


----------------------------------------------------------------------------
(* The operations: mute, stop, unmute, start, as far as each goes *)

(* A mode of CVBS set at the start does not mute.                          *)
First(op) ==
  IF op = "modeCvbs" THEN {"mute", "stop"} ELSE {IF op \in Mutes THEN "mute" ELSE "stop"}

begin(c, op) ==
  /\ at(c, "idle")
  /\ created + Cardinality({d \in Caller : ~at(d, "idle") /\ caller[d].op \in Starts}) < Threads
  /\ \E pc \in First(op) : caller' = [caller EXCEPT ![c] = [pc |-> pc, op |-> op, t |-> NoThread]]
  /\ overlapped' = (overlapped \/ ~Idle)
  /\ givenUp' = (givenUp \/ op \notin Starts)
  /\ UNCHANGED <<flags, created, thread, output>>

mute(c) ==
  /\ at(c, "mute")
  /\ muted' = TRUE
  /\ go(c, IF caller[c].op \in StopsEarly THEN "early" ELSE "stop")
  /\ UNCHANGED <<flags, created, thread, hdcp, history>>

(* A stopVerAll, or "-1" for DISPLAY_HDMI_HDCP_MODE, before stop itself.   *)
early(c) ==
  /\ at(c, "early")
  /\ hdcp' = "off"
  /\ go(c, IF caller[c].op = "set3DMode" THEN "unmute3D" ELSE "stop")
  /\ UNCHANGED <<flags, created, thread, muted, history>>

unmute3D(c) ==
  /\ at(c, "unmute3D")
  /\ muted' = FALSE
  /\ go(c, "stop")
  /\ UNCHANGED <<flags, created, thread, hdcp, history>>

(* What the operation does when stop has returned, whatever it returned.   *)
afterStop(c) ==
  IF caller[c].op \notin Starts THEN return(c)
  ELSE caller' = [caller EXCEPT ![c].t = NoThread,
                                ![c].pc = IF caller[c].op \in UnmutesAfterStop
                                            THEN "unmute" ELSE "create"]

unmute(c) ==
  /\ at(c, "unmute")
  /\ muted' = FALSE
  /\ go(c, "create")
  /\ UNCHANGED <<flags, created, thread, hdcp, history>>

setBootAnimFinished(c) ==
  /\ at(c, "boot")
  /\ mBootAnimFinished' = TRUE
  /\ return(c)
  /\ UNCHANGED <<mExitHdcpTxThread, pthreadIdHdcpTx, pthreadTxSem, created, thread, output, history>>

----------------------------------------------------------------------------
(* stop *)

stop(c) ==
  /\ at(c, "stop")
  /\ hdcp' = "off"
  /\ go(c, "test")
  /\ UNCHANGED <<flags, created, thread, muted, history>>

stopTest(c) ==
  /\ at(c, "test")
  /\ IF pthreadIdHdcpTx # NoThread THEN go(c, "exit") ELSE afterStop(c)
  /\ UNCHANGED <<flags, created, thread, output, history>>

stopExit(c) ==
  /\ at(c, "exit")
  /\ mExitHdcpTxThread' = TRUE
  /\ go(c, "join")
  /\ UNCHANGED <<mBootAnimFinished, pthreadIdHdcpTx, pthreadTxSem, created, thread, output, history>>

(* pthread_join of a thread that somebody else joins, or of none, fails,   *)
(* and pthreadIdHdcpTx stays.                                              *)
stopJoin(c) ==
  /\ at(c, "join")
  /\ LET t == pthreadIdHdcpTx
     IN IF t = NoThread \/ (t \in Thread /\ thread[t].joined)
          THEN afterStop(c) /\ UNCHANGED thread
          ELSE /\ caller' = [caller EXCEPT ![c].pc = "joined", ![c].t = t]
               /\ thread' = [thread EXCEPT ![t].joined = TRUE]
  /\ UNCHANGED <<flags, created, output, history>>

(* MUTANT: the thread is told to end, but not waited for.                  *)
stopJoinedNoWait(c) ==
  /\ at(c, "joined")
  /\ go(c, "clear")
  /\ UNCHANGED <<flags, created, thread, output, history>>

stopJoined(c) ==
  /\ at(c, "joined")
  /\ thread[caller[c].t].pc = "done"
  /\ go(c, "clear")
  /\ UNCHANGED <<flags, created, thread, output, history>>

(* MUTANT: the id of the joined thread is kept.                            *)
stopClearKept(c) ==
  /\ at(c, "clear")
  /\ afterStop(c)
  /\ UNCHANGED <<flags, created, thread, output, history>>

stopClear(c) ==
  /\ at(c, "clear")
  /\ pthreadIdHdcpTx' = NoThread
  /\ afterStop(c)
  /\ UNCHANGED <<mBootAnimFinished, mExitHdcpTxThread, pthreadTxSem, created, thread, output,
                 history>>

----------------------------------------------------------------------------
(* start; pthread_create is taken to succeed *)

(* MUTANT: the request to end is not taken back.                           *)
startCreateStillExit(c) ==
  /\ at(c, "create")
  /\ created < Threads
  /\ created' = created + 1
  /\ run(created + 1, "new")
  /\ caller' = [caller EXCEPT ![c].pc = "wait", ![c].t = created + 1]
  /\ UNCHANGED <<flags, output, history>>

startCreate(c) ==
  /\ at(c, "create")
  /\ created < Threads
  /\ mExitHdcpTxThread' = FALSE
  /\ created' = created + 1
  /\ run(created + 1, "new")
  /\ caller' = [caller EXCEPT ![c].pc = "wait", ![c].t = created + 1]
  /\ UNCHANGED <<mBootAnimFinished, pthreadIdHdcpTx, pthreadTxSem, output, history>>

startWait(c) ==
  /\ at(c, "wait")
  /\ pthreadTxSem > 0
  /\ pthreadTxSem' = pthreadTxSem - 1
  /\ go(c, "publish")
  /\ UNCHANGED <<mBootAnimFinished, mExitHdcpTxThread, pthreadIdHdcpTx, created, thread, output,
                 history>>

startPublish(c) ==
  /\ at(c, "publish")
  /\ pthreadIdHdcpTx' = caller[c].t
  /\ IF caller[c].op \in EndsBoot THEN go(c, "boot") ELSE return(c)
  /\ UNCHANGED <<mBootAnimFinished, mExitHdcpTxThread, pthreadTxSem, created, thread, output,
                 history>>

----------------------------------------------------------------------------
(* authThread *)

threadEntry(t) ==
  /\ thread[t].pc = "new"
  /\ pthreadTxSem' = pthreadTxSem + 1
  /\ run(t, "boot")
  /\ UNCHANGED <<mBootAnimFinished, mExitHdcpTxThread, pthreadIdHdcpTx, created, caller, output,
                 history>>

(* mExitHdcpTxThread is not looked at here.                                *)
bootWait(t) ==
  /\ thread[t].pc = "boot"
  /\ mBootAnimFinished
  /\ run(t, "init")
  /\ UNCHANGED <<flags, created, caller, output, history>>

(* authInit up to its stopVerAll: a missing key of either side refuses.    *)
authInit(t) ==
  /\ thread[t].pc = "init"
  /\ \/ /\ end(t)
        /\ givenUp' = TRUE
        /\ UNCHANGED hdcp
     \/ /\ run(t, "start")
        /\ hdcp' = "off"
        /\ UNCHANGED givenUp
  /\ UNCHANGED <<flags, created, caller, muted, overlapped>>

(* The rest of authInit.  The version depends on the keys of both sides,   *)
(* the firmware and mRepeaterRxVer: any is possible, and none.             *)
authStart(t) ==
  /\ thread[t].pc = "start"
  /\ \/ /\ end(t)
        /\ givenUp' = TRUE
        /\ UNCHANGED hdcp
     \/ \E v \in Version :
          /\ hdcp' = v
          /\ thread' = [thread EXCEPT ![t].pc = "loop", ![t].ver = v]
          /\ UNCHANGED givenUp
  /\ UNCHANGED <<flags, created, caller, muted, overlapped>>

authLoop(t) ==
  /\ thread[t].pc = "loop"
  /\ IF mExitHdcpTxThread THEN end(t) ELSE run(t, "poll")
  /\ UNCHANGED <<flags, created, caller, output, history>>

authSuccess(t) ==
  /\ thread[t].pc = "poll"
  /\ muted' = FALSE
  /\ end(t)
  /\ UNCHANGED <<flags, created, caller, hdcp, history>>

(* MUTANT: count is not incremented.                                       *)
authPendingForever(t) ==
  /\ thread[t].pc = "poll"
  /\ run(t, "loop")
  /\ UNCHANGED <<flags, created, caller, output, history>>

(* MUTANT: authLoop goes on with 1.4 but does not start it.                *)
authPendingNoStart(t) ==
  /\ thread[t].pc = "poll"
  /\ \/ /\ thread[t].count < Polls
        /\ thread' = [thread EXCEPT ![t].pc = "loop", ![t].count = @ + 1]
        /\ UNCHANGED output
     \/ /\ thread[t].count = Polls
        /\ thread' = [thread EXCEPT ![t].pc = "loop", ![t].ver = "14", ![t].count = 0]
        /\ UNCHANGED output
  /\ UNCHANGED <<flags, created, caller, history>>

(* MUTANT: the break after the limit is missing for 1.4.                   *)
authPendingNoBreak(t) ==
  /\ thread[t].pc = "poll"
  /\ \/ /\ thread[t].count < Polls
        /\ thread' = [thread EXCEPT ![t].pc = "loop", ![t].count = @ + 1]
        /\ UNCHANGED output
     \/ /\ thread[t].count = Polls
        /\ hdcp' = "14"
        /\ thread' = [thread EXCEPT ![t].pc = "loop", ![t].ver = "14", ![t].count = 0]
        /\ UNCHANGED muted
  /\ UNCHANGED <<flags, created, caller, history>>

(* Not authenticated yet; when count exceeds the limit, 1.4 takes the      *)
(* place of 2.2, or 1.4 is started again and the loop ends.                *)
authPending(t) ==
  /\ thread[t].pc = "poll"
  /\ \/ /\ thread[t].count < Polls
        /\ thread' = [thread EXCEPT ![t].pc = "loop", ![t].count = @ + 1]
        /\ UNCHANGED output
     \/ /\ thread[t].count = Polls
        /\ hdcp' = "14"
        /\ IF thread[t].ver = "22"
             THEN /\ thread' = [thread EXCEPT ![t].pc = "loop", ![t].ver = "14", ![t].count = 0]
                  /\ UNCHANGED muted
             ELSE end(t) /\ muted' = FALSE
  /\ UNCHANGED <<flags, created, caller, history>>

----------------------------------------------------------------------------
(* A caller that has begun goes on. *)
Continue(c) ==
  \/ mute(c) \/ early(c) \/ unmute3D(c) \/ unmute(c) \/ setBootAnimFinished(c)
  \/ stop(c) \/ stopTest(c) \/ stopExit(c) \/ stopJoin(c) \/ stopJoined(c) \/ stopClear(c)
  \/ startCreate(c) \/ startWait(c) \/ startPublish(c)

authThread(t) ==
  \/ threadEntry(t) \/ bootWait(t) \/ authInit(t) \/ authStart(t)
  \/ authLoop(t) \/ authSuccess(t) \/ authPending(t)

Next ==
  \/ \E c \in Caller : Continue(c) \/ \E op \in OpsOf[c] : begin(c, op)
  \/ \E t \in Thread : authThread(t)

Spec == Init /\ [][Next]_vars

(* The threads run; no event or call is assumed to come.                   *)
FairSpec ==
  /\ Spec
  /\ \A c \in Caller : WF_vars(Continue(c))
  /\ \A t \in Thread : WF_vars(authThread(t))

----------------------------------------------------------------------------
(* Properties *)

(* Every variable keeps its type; the semaphore counts entries not waited  *)
(* for yet.                                                                *)
TypeOK ==
  /\ mBootAnimFinished \in BOOLEAN /\ mExitHdcpTxThread \in BOOLEAN
  /\ pthreadIdHdcpTx \in Thread \union {NoThread}
  /\ pthreadTxSem \in Nat
  /\ created \in 0..Threads
  /\ thread \in [Thread -> ThreadState]
  /\ caller \in [Caller -> CallerState]
  /\ hdcp \in Version \union {"off"} /\ muted \in BOOLEAN
  /\ overlapped \in BOOLEAN /\ givenUp \in BOOLEAN

(* As long as no operation began during another, one authentication runs   *)
(* at most, and stop can still reach it: without that two threads write    *)
(* the same sysfs entries, and one of them is never joined (start          *)
(* overwrites pthreadIdHdcpTx, line 103).                                  *)
OneAuthThread ==
  ~overlapped =>
    /\ \A t, u \in Thread : Live(t) /\ Live(u) => t = u
    /\ Idle => \A t \in Thread : Live(t) => t = pthreadIdHdcpTx

(* A thread is joined twice, and stop returns -1, only after operations    *)
(* that overlapped (line 122).                                             *)
JoinSucceeds ==
  \A c \in Caller :
    at(c, "join") /\ ~overlapped =>
      pthreadIdHdcpTx # NoThread /\ ~thread[pthreadIdHdcpTx].joined

(* Between operations the version that runs is the one authLoop asks for.  *)
VersionFollowsThread ==
  ~overlapped /\ Idle =>
    \A t \in Thread : thread[t].pc \in {"loop", "poll"} => hdcp = thread[t].ver

(* Once the boot animation has finished, every operation returns, however  *)
(* the callers overlap: no join waits for ever, no semaphore is missed.    *)
OperationsReturn ==
  \A c \in Caller : ~at(c, "idle") /\ mBootAnimFinished ~> at(c, "idle")

(* Once the boot animation has finished, every authentication thread ends: *)
(* "max 200msx40 = 8s it will authenticate completely" (line 265).         *)
AuthenticationEnds ==
  \A t \in Thread : Live(t) /\ mBootAnimFinished ~> ~Live(t)

(* The picture comes back, unless an authentication was refused (authInit) *)
(* or stopped for good: whichever operation mutes, and whoever stops its   *)
(* thread, the last thread to be started is not stopped any more.          *)
MuteEnds == muted /\ mBootAnimFinished ~> ~muted \/ givenUp

(* "stop HDCP TX authenticate" (HDCPTxAuth.cpp:109), "2.stop hdcp tx"      *)
(* (DisplayMode.cpp:654): after stop no version of HDCP runs.              *)
StopLeavesHdcpOff ==
  [][\A c \in Caller : at(c, "clear") /\ caller'[c].pc # "clear" => hdcp = "off"]_vars

=============================================================================
