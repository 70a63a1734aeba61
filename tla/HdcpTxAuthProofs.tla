-------------------------- MODULE HdcpTxAuthProofs --------------------------
(***************************************************************************)
(* Proofs about HdcpTxAuth: its type invariant, and what holds as long as  *)
(* operations do not overlap, for any callers, any number of threads and   *)
(* any number of polls.                                                    *)
(***************************************************************************)
EXTENDS HdcpTxAuth, FiniteSetTheorems, TLAPS

(* Type correctness of HDCPTxAuth, its threads and its callers.            *)
THEOREM TypeCorrect == Spec => []TypeOK
<1>1. Init => TypeOK
  <2> SUFFICES ASSUME Init PROVE TypeOK
    OBVIOUS
  <2> USE AuthAssumption
  <2>1. thread \in [Thread -> ThreadState]
    BY DEF Init, ThreadState, Version
  <2>2. caller \in [Caller -> CallerState]
    BY DEF Init, CallerState, NoThread
  <2>3. created \in 0..Threads /\ pthreadTxSem \in Nat
    BY DEF Init
  <2> QED
    BY <2>1, <2>2, <2>3, Zenon DEF Init, TypeOK
<1>2. TypeOK /\ [Next]_vars => TypeOK'
  <2> SUFFICES ASSUME TypeOK, [Next]_vars PROVE TypeOK'
    OBVIOUS
  <2> USE AuthAssumption DEF flags, output, history
  <2>1. ASSUME NEW c \in Caller, NEW op \in OpsOf[c], begin(c, op) PROVE TypeOK'
    <3>1. op \in Op
      OBVIOUS
    <3>2. First(op) \subseteq {"mute", "stop"}
      BY DEF First
    <3>3. caller' \in [Caller -> CallerState]
      BY <2>1, <3>1, <3>2 DEF TypeOK, begin, CallerState
    <3>4. overlapped' \in BOOLEAN /\ givenUp' \in BOOLEAN
      BY <2>1, Zenon DEF TypeOK, begin
    <3> QED
      BY <2>1, <3>3, <3>4 DEF TypeOK, begin
  <2>2. ASSUME NEW c \in Caller, Continue(c) PROVE TypeOK'
    <3>1. ASSUME NEW pc \in {"mute", "early", "unmute3D", "stop", "test", "exit", "join", "joined",
                             "clear", "unmute", "create", "wait", "publish", "boot"}, go(c, pc)
          PROVE  caller' \in [Caller -> CallerState]
      BY <3>1 DEF go, TypeOK, CallerState
    <3>2. return(c) => caller' \in [Caller -> CallerState]
      BY DEF return, TypeOK, CallerState
    <3>3. afterStop(c) => caller' \in [Caller -> CallerState]
      BY <3>2 DEF afterStop, TypeOK, CallerState
    <3>4. CASE mute(c)
      BY <3>4, <3>1 DEF mute, TypeOK
    <3>5. CASE early(c)
      BY <3>5, <3>1 DEF early, TypeOK
    <3>6. CASE unmute3D(c)
      BY <3>6, <3>1 DEF unmute3D, TypeOK
    <3>7. CASE unmute(c)
      BY <3>7, <3>1 DEF unmute, TypeOK
    <3>8. CASE setBootAnimFinished(c)
      BY <3>8, <3>2 DEF setBootAnimFinished, TypeOK
    <3>9. CASE stop(c)
      BY <3>9, <3>1 DEF stop, TypeOK
    <3>10. CASE stopTest(c)
      BY <3>10, <3>1, <3>3 DEF stopTest, TypeOK
    <3>11. CASE stopExit(c)
      BY <3>11, <3>1 DEF stopExit, TypeOK
    <3>12. CASE stopJoin(c)
      <4>1. CASE afterStop(c) /\ UNCHANGED thread
        BY <3>12, <3>3, <4>1 DEF stopJoin, TypeOK
      <4>2. CASE ~(afterStop(c) /\ UNCHANGED thread)
        <5>1. /\ pthreadIdHdcpTx \in Thread
              /\ caller' = [caller EXCEPT ![c].pc = "joined", ![c].t = pthreadIdHdcpTx]
              /\ thread' = [thread EXCEPT ![pthreadIdHdcpTx].joined = TRUE]
          BY <3>12, <4>2 DEF stopJoin, TypeOK
        <5>2. caller' \in [Caller -> CallerState]
          BY <5>1 DEF TypeOK, CallerState
        <5>3. thread' \in [Thread -> ThreadState]
          BY <5>1 DEF TypeOK, ThreadState
        <5> QED
          BY <3>12, <5>2, <5>3 DEF stopJoin, TypeOK
      <4> QED BY <4>1, <4>2
    <3>13. CASE stopJoined(c)
      BY <3>13, <3>1 DEF stopJoined, TypeOK
    <3>14. CASE stopClear(c)
      BY <3>14, <3>3 DEF stopClear, TypeOK
    <3>15. CASE startCreate(c)
      <4>1. created + 1 \in Thread
        BY <3>15 DEF startCreate, TypeOK, Thread
      <4>2. caller' \in [Caller -> CallerState]
        BY <3>15, <4>1 DEF startCreate, TypeOK, CallerState
      <4>3. thread' \in [Thread -> ThreadState]
        BY <3>15, <4>1 DEF startCreate, run, TypeOK, ThreadState
      <4>4. created' \in 0..Threads
        BY <3>15 DEF startCreate, TypeOK
      <4> QED
        BY <3>15, <4>2, <4>3, <4>4 DEF startCreate, TypeOK
    <3>16. CASE startWait(c)
      BY <3>16, <3>1 DEF startWait, TypeOK
    <3>17. CASE startPublish(c)
      <4>1. caller[c].t \in Thread \union {NoThread}
        BY DEF TypeOK, CallerState
      <4> QED
        BY <3>17, <4>1, <3>1, <3>2 DEF startPublish, TypeOK
    <3> QED
      BY <2>2, <3>4, <3>5, <3>6, <3>7, <3>8, <3>9, <3>10, <3>11, <3>12, <3>13, <3>14, <3>15,
         <3>16, <3>17 DEF Continue
  <2>3. ASSUME NEW t \in Thread, authThread(t) PROVE TypeOK'
    <3>1. ASSUME NEW pc \in {"boot", "init", "start", "poll"}, run(t, pc)
          PROVE  thread' \in [Thread -> ThreadState]
      BY <3>1 DEF run, TypeOK, ThreadState
    <3>2. end(t) => thread' \in [Thread -> ThreadState]
      BY DEF end, TypeOK, ThreadState, Version
    <3>3. CASE threadEntry(t)
      BY <3>3, <3>1 DEF threadEntry, TypeOK
    <3>4. CASE bootWait(t)
      BY <3>4, <3>1 DEF bootWait, TypeOK
    <3>5. CASE authInit(t)
      BY <3>5, <3>1, <3>2 DEF authInit, TypeOK
    <3>6. CASE authStart(t)
      <4>1. thread' \in [Thread -> ThreadState]
        BY <3>6, <3>2 DEF authStart, TypeOK, ThreadState, Version
      <4>2. hdcp' \in Version \union {"off"} /\ givenUp' \in BOOLEAN
        BY <3>6 DEF authStart, TypeOK
      <4> QED
        BY <3>6, <4>1, <4>2 DEF authStart, TypeOK
    <3>7. CASE authLoop(t)
      BY <3>7, <3>1, <3>2 DEF authLoop, TypeOK
    <3>8. CASE authSuccess(t)
      BY <3>8, <3>2 DEF authSuccess, TypeOK
    <3>9. CASE authPending(t)
      <4>1. thread[t].count \in 0..Polls
        BY DEF TypeOK, ThreadState
      <4>2. thread' \in [Thread -> ThreadState]
        BY <3>9, <3>2, <4>1 DEF authPending, TypeOK, ThreadState, Version
      <4>3. hdcp' \in Version \union {"off"} /\ muted' \in BOOLEAN
        BY <3>9 DEF authPending, TypeOK, Version
      <4> QED
        BY <3>9, <4>2, <4>3 DEF authPending, TypeOK
    <3> QED
      BY <2>3, <3>3, <3>4, <3>5, <3>6, <3>7, <3>8, <3>9 DEF authThread
  <2>4. CASE UNCHANGED vars
    BY <2>4 DEF TypeOK, vars
  <2> QED
    BY <2>1, <2>2, <2>3, <2>4 DEF Next
<1> QED BY <1>1, <1>2, PTL DEF Spec

----------------------------------------------------------------------------
(* The invariant: what a caller that is alone may rely on, by how far it   *)
(* is.  Calm is where the thread, if one runs, can be stopped.             *)
Calm == {"idle", "mute", "early", "unmute3D", "stop", "test", "exit", "join", "boot"}

Only(u) == \A t \in Thread : Live(t) => t = u

Agrees == \A t \in Thread : thread[t].pc \in {"loop", "poll"} => hdcp = thread[t].ver

Stage(s) ==
  /\ s.pc \in Calm =>
       /\ Only(pthreadIdHdcpTx)
       /\ pthreadIdHdcpTx # NoThread => ~thread[pthreadIdHdcpTx].joined
  /\ s.pc \in {"exit", "join"} => pthreadIdHdcpTx # NoThread
  /\ s.pc = "joined" => pthreadIdHdcpTx = s.t /\ s.t \in Thread /\ Only(s.t)
  /\ s.pc = "clear" => Only(NoThread)
  /\ s.pc \in {"unmute", "create"} => Only(NoThread) /\ pthreadIdHdcpTx = NoThread
  /\ s.pc \in {"wait", "publish"} =>
       s.t \in Thread /\ ~thread[s.t].joined /\ Only(s.t) /\ pthreadIdHdcpTx = NoThread
  /\ s.pc \in {"idle", "wait", "publish", "boot"} => Agrees

Resting == [pc |-> "idle", op |-> "none", t |-> NoThread]

Alone ==
  ~overlapped =>
    /\ \A c, d \in Caller : ~at(c, "idle") /\ ~at(d, "idle") => c = d
    /\ \A c \in Caller : ~at(c, "idle") => Stage(caller[c])
    /\ Idle => Stage(Resting)

Fresh ==
  /\ \A t \in Thread : t > created => thread[t].pc = "none" /\ ~thread[t].joined
  /\ pthreadIdHdcpTx <= created
  /\ \A c \in Caller : caller[c].t <= created

(* A step of the only caller under way, to a state s whose stage holds.    *)
LEMMA GoesOn ==
  ASSUME TypeOK, Alone, NEW c \in Caller, ~overlapped, ~at(c, "idle"),
         NEW s \in CallerState, caller' = [caller EXCEPT ![c] = s], Stage(s)'
  PROVE  Alone'
<1>1. \A d \in Caller : d # c => at(d, "idle")
  BY DEF Alone
<1>2. \A d \in Caller : caller'[d] = IF d = c THEN s ELSE caller[d]
  BY DEF TypeOK
<1>3. \A d \in Caller : ~at(d, "idle")' => d = c
  BY <1>1, <1>2 DEF at
<1>4. \A d \in Caller : ~at(d, "idle")' => Stage(caller[d])'
  <2> SUFFICES ASSUME NEW d \in Caller, ~at(d, "idle")' PROVE Stage(caller[d])'
    OBVIOUS
  <2>1. caller'[d] = s'
    BY <1>2, <1>3
  <2> QED BY <2>1 DEF Stage
<1>5. Idle' => Stage(Resting)'
  <2> SUFFICES ASSUME Idle' PROVE Stage(Resting)'
    OBVIOUS
  <2>1. s'.pc = "idle"
    BY <1>2 DEF Idle, at
  <2> QED BY <2>1 DEF Stage, Resting
<1> QED BY <1>3, <1>4, <1>5 DEF Alone

(* A step of an authentication thread: none comes to life, none is joined. *)
LEMMA ThreadStep ==
  ASSUME TypeOK, Alone, NEW t \in Thread, authThread(t)
  PROVE  Alone'
<1> USE DEF flags, output, history
<1>1. UNCHANGED <<caller, pthreadIdHdcpTx, overlapped, created>>
  BY DEF authThread, threadEntry, bootWait, authInit, authStart, authLoop, authSuccess, authPending
<1>2. Live(t)
  BY DEF authThread, threadEntry, bootWait, authInit, authStart, authLoop, authSuccess,
         authPending, Live
<1>3. \A u \in Thread : u # t => thread'[u] = thread[u]
  BY DEF TypeOK, authThread, threadEntry, bootWait, authInit, authStart, authLoop, authSuccess,
         authPending, run, end
<1>4. thread'[t].joined = thread[t].joined
  BY DEF TypeOK, ThreadState, authThread, threadEntry, bootWait, authInit, authStart, authLoop,
         authSuccess, authPending, run, end
<1>5. \A u \in Thread : Live(u)' => Live(u)
  BY <1>2, <1>3 DEF Live
<1>6. \A u : Only(u) => Only(u)'
  BY <1>5 DEF Only
<1>7. Agrees /\ (\E u : Only(u)) => Agrees'
  <2> SUFFICES ASSUME Agrees, NEW u, Only(u) PROVE Agrees'
    OBVIOUS
  <2>1. \A v \in Thread : v # t => ~Live(v)
    BY <1>2 DEF Only
  <2>2. \A v \in Thread : v # t => thread'[v].pc \notin {"loop", "poll"}
    BY <1>3, <2>1 DEF Live
  <2>3. thread'[t].pc \in {"loop", "poll"} => hdcp' = thread'[t].ver
    BY DEF Agrees, TypeOK, ThreadState, authThread, threadEntry, bootWait, authInit, authStart,
           authLoop, authSuccess, authPending, run, end
  <2> QED BY <2>2, <2>3 DEF Agrees
<1>8. ASSUME NEW s, Stage(s) PROVE Stage(s)'
  <2>1. \A u \in Thread : thread'[u].joined = thread[u].joined
    BY <1>3, <1>4
  <2>2. s.pc \in {"idle", "wait", "publish", "boot"} => Agrees'
    BY <1>7, <1>8 DEF Stage, Calm
  <2>3. pthreadIdHdcpTx \in Thread \union {NoThread}
    BY DEF TypeOK
  <2> QED BY <1>1, <1>6, <1>8, <2>1, <2>2, <2>3 DEF Stage
<1>9. \A c \in Caller : caller'[c] = caller[c] /\ (at(c, "idle")' <=> at(c, "idle"))
  BY <1>1 DEF at
<1>10. Idle' <=> Idle
  BY <1>9 DEF Idle, at
<1>11. \A c \in Caller : Stage(caller[c]) => Stage(caller[c])'
  <2> SUFFICES ASSUME NEW c \in Caller, Stage(caller[c]) PROVE Stage(caller[c])'
    OBVIOUS
  <2>1. Stage(caller[c]) => Stage(caller'[c])
    BY <1>9
  <2> QED BY <1>8, <1>9 DEF Stage
<1> QED BY <1>1, <1>8, <1>9, <1>10, <1>11 DEF Alone

(* Where a step of a caller leads (go, return, afterStop).                 *)
LEMMA GoMoves ==
  ASSUME TypeOK, NEW c \in Caller,
         NEW pc \in {"early", "unmute3D", "stop", "test", "exit", "join", "clear", "unmute",
                     "create", "publish", "boot"}, go(c, pc)
  PROVE  \E s \in CallerState :
           caller' = [caller EXCEPT ![c] = s] /\ s.pc = pc /\ s.t = caller[c].t
<1> DEFINE s == [caller[c] EXCEPT !.pc = pc]
<1>1. s \in CallerState /\ s.pc = pc /\ s.t = caller[c].t
  BY DEF TypeOK, CallerState
<1>2. caller' = [caller EXCEPT ![c] = s]
  BY DEF go, TypeOK
<1> QED BY <1>1, <1>2

LEMMA ReturnMoves ==
  ASSUME NEW c \in Caller, return(c)
  PROVE  \E s \in CallerState : caller' = [caller EXCEPT ![c] = s] /\ s.pc = "idle"
<1> DEFINE s == [pc |-> "idle", op |-> "none", t |-> NoThread]
<1>1. s \in CallerState /\ s.pc = "idle"
  BY DEF CallerState
<1> QED BY <1>1 DEF return

LEMMA AfterStopMoves ==
  ASSUME TypeOK, NEW c \in Caller, afterStop(c)
  PROVE  \E s \in CallerState :
           caller' = [caller EXCEPT ![c] = s] /\ s.pc \in {"idle", "unmute", "create"}
<1>1. CASE caller[c].op \notin Starts
  BY <1>1, ReturnMoves DEF afterStop
<1>2. CASE caller[c].op \in Starts
  <2> DEFINE pc == IF caller[c].op \in UnmutesAfterStop THEN "unmute" ELSE "create"
             s == [caller[c] EXCEPT !.t = NoThread, !.pc = pc]
  <2>1. s \in CallerState /\ s.pc \in {"unmute", "create"}
    BY DEF TypeOK, CallerState
  <2>2. caller' = [caller EXCEPT ![c] = s]
    BY <1>2 DEF afterStop, TypeOK
  <2> QED BY <2>1, <2>2
<1> QED BY <1>1, <1>2

(* A step of the only caller keeps the invariant.                          *)
LEMMA CallerStep ==
  ASSUME TypeOK, Alone, Fresh, NEW c \in Caller, Continue(c)
  PROVE  Alone'
<1> USE DEF flags, output, history
<1>1. overlapped' = overlapped
  BY DEF Continue, mute, early, unmute3D, unmute, setBootAnimFinished, stop, stopTest, stopExit,
         stopJoin, stopJoined, stopClear, startCreate, startWait, startPublish
<1>2. ~at(c, "idle")
  BY DEF Continue, mute, early, unmute3D, unmute, setBootAnimFinished, stop, stopTest, stopExit,
         stopJoin, stopJoined, stopClear, startCreate, startWait, startPublish, at
<1> SUFFICES ASSUME ~overlapped PROVE Alone'
  BY <1>1 DEF Alone
<1>3. Stage(caller[c])
  BY <1>2 DEF Alone
<1>4. pthreadIdHdcpTx \in Thread \union {NoThread} /\ NoThread \notin Thread
  BY DEF TypeOK, Thread, NoThread
<1>5. CASE mute(c)
  <2>1. UNCHANGED <<thread, pthreadIdHdcpTx>>
    BY <1>5 DEF mute
  <2>2. PICK s \in CallerState :
          caller' = [caller EXCEPT ![c] = s] /\ s.pc \in {"early", "stop"}
    BY <1>5, GoMoves DEF mute
  <2>3. Stage(s)'
    BY <1>3, <1>4, <1>5, <2>1, <2>2 DEF mute, at, Stage, Calm, Only, Live
  <2> QED BY <1>2, <2>2, <2>3, GoesOn
<1>6. CASE early(c)
  <2>1. UNCHANGED <<thread, pthreadIdHdcpTx>>
    BY <1>6 DEF early
  <2>2. PICK s \in CallerState :
          caller' = [caller EXCEPT ![c] = s] /\ s.pc \in {"unmute3D", "stop"}
    BY <1>6, GoMoves DEF early
  <2>3. Stage(s)'
    BY <1>3, <1>4, <1>6, <2>1, <2>2 DEF early, at, Stage, Calm, Only, Live
  <2> QED BY <1>2, <2>2, <2>3, GoesOn
<1>7. CASE unmute3D(c)
  <2>1. UNCHANGED <<thread, pthreadIdHdcpTx>>
    BY <1>7 DEF unmute3D
  <2>2. PICK s \in CallerState :
          caller' = [caller EXCEPT ![c] = s] /\ s.pc \in {"stop"}
    BY <1>7, GoMoves DEF unmute3D
  <2>3. Stage(s)'
    BY <1>3, <1>4, <1>7, <2>1, <2>2 DEF unmute3D, at, Stage, Calm, Only, Live
  <2> QED BY <1>2, <2>2, <2>3, GoesOn
<1>8. CASE unmute(c)
  <2>1. UNCHANGED <<thread, pthreadIdHdcpTx>>
    BY <1>8 DEF unmute
  <2>2. PICK s \in CallerState :
          caller' = [caller EXCEPT ![c] = s] /\ s.pc \in {"create"}
    BY <1>8, GoMoves DEF unmute
  <2>3. Stage(s)'
    BY <1>3, <1>4, <1>8, <2>1, <2>2 DEF unmute, at, Stage, Calm, Only, Live
  <2> QED BY <1>2, <2>2, <2>3, GoesOn
<1>9. CASE setBootAnimFinished(c)
  <2>1. UNCHANGED <<thread, pthreadIdHdcpTx, hdcp>>
    BY <1>9 DEF setBootAnimFinished
  <2>2. PICK s \in CallerState :
          caller' = [caller EXCEPT ![c] = s] /\ s.pc \in {"idle"}
    BY <1>9, ReturnMoves DEF setBootAnimFinished
  <2>3. Stage(s)'
    BY <1>3, <1>4, <1>9, <2>1, <2>2 DEF setBootAnimFinished, at, Stage, Calm, Only, Live, Agrees
  <2> QED BY <1>2, <2>2, <2>3, GoesOn
<1>10. CASE stop(c)
  <2>1. UNCHANGED <<thread, pthreadIdHdcpTx>>
    BY <1>10 DEF stop
  <2>2. PICK s \in CallerState :
          caller' = [caller EXCEPT ![c] = s] /\ s.pc \in {"test"}
    BY <1>10, GoMoves DEF stop
  <2>3. Stage(s)'
    BY <1>3, <1>4, <1>10, <2>1, <2>2 DEF stop, at, Stage, Calm, Only, Live
  <2> QED BY <1>2, <2>2, <2>3, GoesOn
<1>11. CASE stopTest(c)
  <2>1. UNCHANGED <<thread, pthreadIdHdcpTx, hdcp>>
    BY <1>11 DEF stopTest
  <2>2. CASE pthreadIdHdcpTx # NoThread
    <3>1. PICK s \in CallerState : caller' = [caller EXCEPT ![c] = s] /\ s.pc = "exit"
      BY <1>11, <2>2, GoMoves DEF stopTest
    <3>2. Stage(s)'
      BY <1>3, <1>11, <2>1, <2>2, <3>1 DEF stopTest, at, Stage, Calm, Only, Live
    <3> QED BY <1>2, <3>1, <3>2, GoesOn
  <2>3. CASE pthreadIdHdcpTx = NoThread
    <3>1. PICK s \in CallerState :
            caller' = [caller EXCEPT ![c] = s] /\ s.pc \in {"idle", "unmute", "create"}
      BY <1>11, <2>3, AfterStopMoves DEF stopTest
    <3>2. Only(NoThread) /\ Only(NoThread)'
      BY <1>3, <1>11, <2>1, <2>3 DEF stopTest, at, Stage, Calm, Only, Live
    <3>3. Agrees'
      BY <1>4, <3>2 DEF Only, Live, Agrees
    <3>4. Stage(s)'
      BY <1>4, <2>1, <2>3, <3>1, <3>2, <3>3 DEF Stage, Calm
    <3> QED BY <1>2, <3>1, <3>4, GoesOn
  <2> QED BY <2>2, <2>3
<1>12. CASE stopExit(c)
  <2>1. UNCHANGED <<thread, pthreadIdHdcpTx>>
    BY <1>12 DEF stopExit
  <2>2. PICK s \in CallerState :
          caller' = [caller EXCEPT ![c] = s] /\ s.pc \in {"join"}
    BY <1>12, GoMoves DEF stopExit
  <2>3. Stage(s)'
    BY <1>3, <1>4, <1>12, <2>1, <2>2 DEF stopExit, at, Stage, Calm, Only, Live
  <2> QED BY <1>2, <2>2, <2>3, GoesOn
<1>13. CASE stopJoin(c)
  <2>1. pthreadIdHdcpTx \in Thread /\ ~thread[pthreadIdHdcpTx].joined /\ Only(pthreadIdHdcpTx)
    BY <1>3, <1>4, <1>13 DEF stopJoin, at, Stage, Calm
  <2>2. /\ caller' = [caller EXCEPT ![c].pc = "joined", ![c].t = pthreadIdHdcpTx]
        /\ thread' = [thread EXCEPT ![pthreadIdHdcpTx].joined = TRUE]
        /\ pthreadIdHdcpTx' = pthreadIdHdcpTx
    BY <1>13, <2>1, <1>4 DEF stopJoin
  <2>3. PICK s \in CallerState :
          caller' = [caller EXCEPT ![c] = s] /\ s.pc = "joined" /\ s.t = pthreadIdHdcpTx
    <3> DEFINE s == [caller[c] EXCEPT !.pc = "joined", !.t = pthreadIdHdcpTx]
    <3>1. s \in CallerState /\ s.pc = "joined" /\ s.t = pthreadIdHdcpTx
      BY <1>4 DEF TypeOK, CallerState
    <3>2. caller' = [caller EXCEPT ![c] = s]
      BY <2>2 DEF TypeOK
    <3> QED BY <3>1, <3>2
  <2>4. \A t \in Thread : thread'[t].pc = thread[t].pc
    BY <2>1, <2>2 DEF TypeOK, ThreadState
  <2>5. Only(pthreadIdHdcpTx)'
    BY <2>1, <2>2, <2>4 DEF Only, Live
  <2>6. Stage(s)'
    BY <2>1, <2>2, <2>3, <2>5 DEF Stage, Calm
  <2> QED BY <1>2, <2>3, <2>6, GoesOn
<1>14. CASE stopJoined(c)
  <2>1. UNCHANGED <<thread, pthreadIdHdcpTx>>
    BY <1>14 DEF stopJoined
  <2>2. PICK s \in CallerState : caller' = [caller EXCEPT ![c] = s] /\ s.pc = "clear"
    BY <1>14, GoMoves DEF stopJoined
  <2>3. Only(NoThread)'
    BY <1>3, <1>14, <2>1 DEF stopJoined, at, Stage, Only, Live
  <2>4. Stage(s)'
    BY <2>2, <2>3 DEF Stage, Calm
  <2> QED BY <1>2, <2>2, <2>4, GoesOn
<1>15. CASE stopClear(c)
  <2>1. thread' = thread /\ pthreadIdHdcpTx' = NoThread
    BY <1>15 DEF stopClear
  <2>2. PICK s \in CallerState :
          caller' = [caller EXCEPT ![c] = s] /\ s.pc \in {"idle", "unmute", "create"}
    BY <1>15, AfterStopMoves DEF stopClear
  <2>3. Only(NoThread) /\ Only(NoThread)'
    BY <1>3, <1>15, <2>1 DEF stopClear, at, Stage, Only, Live
  <2>4. Agrees'
    BY <1>4, <2>3 DEF Only, Live, Agrees
  <2>5. Stage(s)'
    BY <2>1, <2>2, <2>3, <2>4 DEF Stage, Calm
  <2> QED BY <1>2, <2>2, <2>5, GoesOn
<1>16. CASE startCreate(c)
  <2>1. Only(NoThread) /\ pthreadIdHdcpTx = NoThread
    BY <1>3, <1>16 DEF startCreate, at, Stage
  <2>2. created + 1 \in Thread /\ created \in Nat
    BY <1>16, AuthAssumption DEF startCreate, TypeOK, Thread
  <2>3. thread[created + 1].pc = "none" /\ ~thread[created + 1].joined
    BY <2>2 DEF Fresh
  <2>4. PICK s \in CallerState :
          caller' = [caller EXCEPT ![c] = s] /\ s.pc = "wait" /\ s.t = created + 1
    <3> DEFINE s == [caller[c] EXCEPT !.pc = "wait", !.t = created + 1]
    <3>1. s \in CallerState /\ s.pc = "wait" /\ s.t = created + 1
      BY <2>2 DEF TypeOK, CallerState
    <3>2. caller' = [caller EXCEPT ![c] = s]
      BY <1>16 DEF startCreate, TypeOK
    <3> QED BY <3>1, <3>2
  <2>5. /\ thread'[created + 1].pc = "new" /\ ~thread'[created + 1].joined
        /\ \A t \in Thread : t # created + 1 => thread'[t] = thread[t]
        /\ pthreadIdHdcpTx' = pthreadIdHdcpTx
    BY <1>16, <2>2, <2>3 DEF startCreate, run, TypeOK, ThreadState
  <2>6. \A t \in Thread : t # created + 1 => thread'[t].pc \in {"none", "done"}
    BY <1>4, <2>1, <2>5 DEF Only, Live
  <2>7. Only(s.t)' /\ Agrees'
    BY <2>4, <2>5, <2>6 DEF Only, Live, Agrees
  <2>8. Stage(s)'
    BY <2>1, <2>2, <2>4, <2>5, <2>7 DEF Stage, Calm
  <2> QED BY <1>2, <2>4, <2>8, GoesOn
<1>17. CASE startWait(c)
  <2>1. UNCHANGED <<thread, pthreadIdHdcpTx, hdcp>>
    BY <1>17 DEF startWait
  <2>2. PICK s \in CallerState :
          caller' = [caller EXCEPT ![c] = s] /\ s.pc = "publish" /\ s.t = caller[c].t
    BY <1>17, GoMoves DEF startWait
  <2>3. Stage(s)'
    BY <1>3, <1>17, <2>1, <2>2 DEF startWait, at, Stage, Calm, Only, Live, Agrees
  <2> QED BY <1>2, <2>2, <2>3, GoesOn
<1>18. CASE startPublish(c)
  <2>1. UNCHANGED <<thread, hdcp>> /\ pthreadIdHdcpTx' = caller[c].t
    BY <1>18 DEF startPublish
  <2>2. PICK s \in CallerState :
          caller' = [caller EXCEPT ![c] = s] /\ s.pc \in {"idle", "boot"}
    BY <1>18, GoMoves, ReturnMoves DEF startPublish
  <2>3. Stage(s)'
    BY <1>3, <1>18, <2>1, <2>2 DEF startPublish, at, Stage, Calm, Only, Live, Agrees
  <2> QED BY <1>2, <2>2, <2>3, GoesOn
<1> QED
  BY <1>5, <1>6, <1>7, <1>8, <1>9, <1>10, <1>11, <1>12, <1>13, <1>14, <1>15, <1>16, <1>17, <1>18
     DEF Continue

(* Threads beyond the last one created have not begun and are not joined.  *)
LEMMA FreshStep ==
  ASSUME TypeOK, Fresh, [Next]_vars
  PROVE  Fresh'
<1> USE DEF flags, output, history
<1>t. created \in Nat /\ NoThread <= created /\ (\A t \in Thread : t \in Nat)
  BY AuthAssumption DEF TypeOK, Thread, NoThread
<1>1. ASSUME NEW c \in Caller, Continue(c) PROVE Fresh'
  <2>1. CASE startCreate(c)
    <3>1. created' = created + 1 /\ pthreadIdHdcpTx' = pthreadIdHdcpTx
      BY <2>1 DEF startCreate
    <3>2. \A t \in Thread : t # created + 1 => thread'[t] = thread[t]
      BY <2>1 DEF startCreate, run, TypeOK
    <3>3. \A d \in Caller : caller'[d].t = IF d = c THEN created + 1 ELSE caller[d].t
      BY <2>1 DEF startCreate, TypeOK, CallerState
    <3>4. \A d \in Caller : caller[d].t \in Nat
      BY <1>t DEF TypeOK, CallerState, NoThread
    <3>5. pthreadIdHdcpTx \in Nat
      BY <1>t DEF TypeOK, NoThread
    <3>6. pthreadIdHdcpTx' <= created' /\ \A d \in Caller : caller'[d].t <= created'
      BY <1>t, <3>1, <3>3, <3>4, <3>5 DEF Fresh
    <3>7. \A t \in Thread : t > created' => thread'[t].pc = "none" /\ ~thread'[t].joined
      BY <1>t, <3>1, <3>2 DEF Fresh
    <3> QED BY <3>6, <3>7 DEF Fresh
  <2>2. CASE ~startCreate(c)
    <3>1. created' = created
      BY <1>1, <2>2 DEF Continue, mute, early, unmute3D, unmute, setBootAnimFinished, stop,
           stopTest, stopExit, stopJoin, stopJoined, stopClear, startWait, startPublish
    <3>2. pthreadIdHdcpTx' \in {pthreadIdHdcpTx, NoThread, caller[c].t}
      BY <1>1, <2>2 DEF Continue, mute, early, unmute3D, unmute, setBootAnimFinished, stop,
           stopTest, stopExit, stopJoin, stopJoined, stopClear, startWait, startPublish
    <3>3. \A d \in Caller : caller'[d].t \in {caller[d].t, NoThread, pthreadIdHdcpTx}
      <4>1. ASSUME NEW pc, go(c, pc) PROVE \A d \in Caller : caller'[d].t = caller[d].t
        BY <4>1 DEF go, TypeOK, CallerState
      <4>2. return(c) => \A d \in Caller : caller'[d].t \in {caller[d].t, NoThread}
        BY DEF return, TypeOK
      <4>3. afterStop(c) => \A d \in Caller : caller'[d].t \in {caller[d].t, NoThread}
        BY <4>2 DEF afterStop, TypeOK, CallerState
      <4>4. CASE stopJoin(c)
        BY <4>3, <4>4 DEF stopJoin, TypeOK, CallerState
      <4> QED
        BY <1>1, <2>2, <4>1, <4>2, <4>3, <4>4
           DEF Continue, mute, early, unmute3D, unmute, setBootAnimFinished, stop, stopTest,
               stopExit, stopJoined, stopClear, startWait, startPublish
    <3>4. \A t \in Thread : t > created => thread'[t] = thread[t]
      <4>1. CASE stopJoin(c) /\ thread' # thread
        <5>1. thread' = [thread EXCEPT ![pthreadIdHdcpTx].joined = TRUE]
          BY <4>1 DEF stopJoin
        <5>2. \A t \in Thread : t > created => t # pthreadIdHdcpTx
          BY <1>t DEF Fresh
        <5> QED BY <5>1, <5>2 DEF TypeOK
      <4>2. CASE ~(stopJoin(c) /\ thread' # thread)
        BY <1>1, <2>2, <4>2 DEF Continue, mute, early, unmute3D, unmute, setBootAnimFinished, stop,
             stopTest, stopExit, stopJoined, stopClear, startWait, startPublish
      <4> QED BY <4>1, <4>2
    <3> QED BY <1>t, <3>1, <3>2, <3>3, <3>4 DEF Fresh
  <2> QED BY <2>1, <2>2
<1>2. ASSUME NEW c \in Caller, NEW op \in OpsOf[c], begin(c, op) PROVE Fresh'
  <2>1. UNCHANGED <<thread, created, pthreadIdHdcpTx>>
    BY <1>2 DEF begin
  <2>2. \A d \in Caller : caller'[d].t \in {caller[d].t, NoThread}
    BY <1>2 DEF begin, TypeOK
  <2> QED BY <1>t, <2>1, <2>2 DEF Fresh
<1>3. ASSUME NEW t \in Thread, authThread(t) PROVE Fresh'
  <2>1. UNCHANGED <<caller, created, pthreadIdHdcpTx>>
    BY <1>3 DEF authThread, threadEntry, bootWait, authInit, authStart, authLoop, authSuccess,
                authPending
  <2>2. thread[t].pc # "none"
    BY <1>3 DEF authThread, threadEntry, bootWait, authInit, authStart, authLoop, authSuccess,
                authPending
  <2>3. \A u \in Thread : u # t => thread'[u] = thread[u]
    BY <1>3 DEF TypeOK, authThread, threadEntry, bootWait, authInit, authStart, authLoop,
                authSuccess, authPending, run, end
  <2> QED BY <2>1, <2>2, <2>3 DEF Fresh
<1>4. CASE UNCHANGED vars
  BY <1>4 DEF vars, Fresh
<1> QED BY <1>1, <1>2, <1>3, <1>4 DEF Next

(* An operation that begins while none is under way keeps the invariant.   *)
LEMMA BeginStep ==
  ASSUME TypeOK, Alone, NEW c \in Caller, NEW op \in OpsOf[c], begin(c, op)
  PROVE  Alone'
<1> USE DEF flags, output, history
<1> SUFFICES ASSUME ~overlapped' PROVE Alone'
  BY DEF Alone
<1>1. ~overlapped /\ Idle
  BY DEF begin
<1>2. PICK pc \in {"mute", "stop"} :
        caller' = [caller EXCEPT ![c] = [pc |-> pc, op |-> op, t |-> NoThread]]
  BY DEF begin, First
<1>3. UNCHANGED <<thread, pthreadIdHdcpTx>>
  BY DEF begin
<1>4. /\ \A d \in Caller : d # c => caller'[d].pc = "idle"
      /\ caller'[c].pc \in {"mute", "stop"}
  BY <1>1, <1>2 DEF Idle, TypeOK
<1>5. Stage(Resting)
  BY <1>1 DEF Alone
<1>6. Stage(caller[c])'
  BY <1>3, <1>4, <1>5 DEF Stage, Resting, Calm, Only, Live
<1>7. \A d \in Caller : ~at(d, "idle")' => d = c
  BY <1>4 DEF at
<1>8. ~Idle'
  BY <1>4 DEF Idle, at
<1>9. \A d \in Caller : ~at(d, "idle")' => Stage(caller[d])'
  BY <1>6, <1>7
<1> QED BY <1>7, <1>8, <1>9 DEF Alone

LEMMA AloneInvariant == Spec => [](Alone /\ Fresh)
<1>1. Init => Alone /\ Fresh
  <2> SUFFICES ASSUME Init PROVE Alone /\ Fresh
    OBVIOUS
  <2>1. \A t \in Thread : thread[t].pc = "none" /\ ~thread[t].joined
    BY DEF Init
  <2>2. Alone
    BY <2>1 DEF Init, Alone, Stage, Resting, Calm, Only, Live, Agrees, at
  <2>3. Fresh
    BY <2>1 DEF Init, Fresh, NoThread
  <2> QED BY <2>2, <2>3
<1>2. TypeOK /\ Alone /\ Fresh /\ [Next]_vars => Alone' /\ Fresh'
  <2> SUFFICES ASSUME TypeOK, Alone, Fresh, [Next]_vars PROVE Alone' /\ Fresh'
    OBVIOUS
  <2>1. CASE UNCHANGED vars
    <3>1. UNCHANGED <<thread, caller, pthreadIdHdcpTx, hdcp, overlapped>>
      BY <2>1 DEF vars, flags, output, history
    <3>2. \A s : Stage(s) => Stage(s)'
      BY <3>1 DEF Stage, Only, Live, Agrees
    <3>3. (\A c \in Caller : \A pc : at(c, pc)' <=> at(c, pc)) /\ (Idle' <=> Idle)
      BY <3>1, Zenon DEF at, Idle
    <3>4. ~overlapped' <=> ~overlapped
      BY <3>1, Zenon
    <3>5. (Idle => Stage(Resting)) => (Idle' => Stage(Resting)')
      BY <3>2, <3>3, Zenon DEF Resting
    <3>6. \A c \in Caller : Stage(caller[c]) => Stage(caller[c])'
      BY <3>1, <3>2, Zenon
    <3> QED
      BY <3>1, <3>3, <3>4, <3>5, <3>6, FreshStep DEF Alone
  <2> QED BY <2>1, CallerStep, ThreadStep, BeginStep, FreshStep DEF Next
<1> QED BY <1>1, <1>2, TypeCorrect, PTL DEF Spec

(* As long as operations do not overlap, one authentication runs at most,  *)
(* and stop() can still reach it (HDCPTxAuth::start and stop).             *)
THEOREM OneAtATime == Spec => []OneAuthThread
<1>1. TypeOK /\ Alone => OneAuthThread
  <2> SUFFICES ASSUME TypeOK, Alone, ~overlapped PROVE OneAuthThread
    BY DEF OneAuthThread
  <2>1. PICK u : Only(u) /\ (Idle => u = pthreadIdHdcpTx)
    <3>1. CASE Idle
      BY <3>1 DEF Alone, Stage, Resting, Calm
    <3>2. CASE ~Idle
      <4>1. PICK c \in Caller : ~at(c, "idle")
        BY <3>2 DEF Idle, at
      <4>2. Stage(caller[c]) /\ caller[c] \in CallerState
        BY <4>1 DEF Alone, TypeOK
      <4> QED BY <3>2, <4>2 DEF Stage, Calm, CallerState
    <3> QED BY <3>1, <3>2
  <2> QED BY <2>1 DEF OneAuthThread, Only
<1> QED BY <1>1, AloneInvariant, TypeCorrect, PTL

(* stop() joins a thread twice only after operations that overlapped       *)
(* (HDCPTxAuth::stop).                                                     *)
THEOREM JoinsOnce == Spec => []JoinSucceeds
<1>1. Alone => JoinSucceeds
  BY DEF Alone, JoinSucceeds, Stage, Calm, at
<1> QED BY <1>1, AloneInvariant, PTL

(* Between operations the version that runs is the one the thread asks for *)
(* (HDCPTxAuth::authLoop).                                                 *)
THEOREM VersionsAgree == Spec => []VersionFollowsThread
<1>1. Alone => VersionFollowsThread
  BY DEF Alone, VersionFollowsThread, Stage, Resting, Agrees
<1> QED BY <1>1, AloneInvariant, PTL

----------------------------------------------------------------------------
(* Nobody waits in vain, and nobody goes on for ever, also when operations *)
(* overlap: what AuthenticationEnds and OperationsReturn need besides      *)
(* fairness.                                                               *)

(* Two polls and a test for each count, once for each version.             *)
Round == 2 * (Polls + 1)

(* How many steps an authentication thread has before it at most.          *)
StepsLeft(t) ==
  LET s == thread[t]
      round == 2 * (Polls - s.count) + 2 + (IF s.ver = "22" THEN Round ELSE 0)
  IN CASE s.pc = "new"   -> 2 * Round + 4
       [] s.pc = "boot"  -> 2 * Round + 3
       [] s.pc = "init"  -> 2 * Round + 2
       [] s.pc = "start" -> 2 * Round + 1
       [] s.pc = "loop"  -> round
       [] s.pc = "poll"  -> round - 1
       [] OTHER          -> 0

(* How many steps an operation has before it at most.                      *)
PlacesLeft(c) ==
  CASE at(c, "mute")     -> 14
    [] at(c, "early")    -> 13
    [] at(c, "unmute3D") -> 12
    [] at(c, "stop")     -> 11
    [] at(c, "test")     -> 10
    [] at(c, "exit")     -> 9
    [] at(c, "join")     -> 8
    [] at(c, "joined")   -> 7
    [] at(c, "clear")    -> 6
    [] at(c, "unmute")   -> 5
    [] at(c, "create")   -> 4
    [] at(c, "wait")     -> 3
    [] at(c, "publish")  -> 2
    [] at(c, "boot")     -> 1
    [] OTHER             -> 0

(* An authentication thread takes at most 4 steps and two rounds, "max     *)
(* 200msx40 = 8s it will authenticate completely" for each version (line   *)
(* 265): every step of its own brings it nearer to its end, and no step of *)
(* anybody else, however operations overlap, takes it back.                *)
EachStepCounts ==
  \A t \in Thread :
    /\ authThread(t) => StepsLeft(t)' < StepsLeft(t)
    /\ thread[t].pc # "none" => StepsLeft(t)' <= StepsLeft(t)

(* Each step of an operation brings it nearer to its return, and nobody    *)
(* else moves it.                                                          *)
EachPlaceOnce ==
  \A c \in Caller :
    /\ Continue(c) => PlacesLeft(c)' < PlacesLeft(c)
    /\ ~at(c, "idle") => PlacesLeft(c)' <= PlacesLeft(c)

Waiting == {c \in Caller : at(c, "wait")}
Entering == {t \in Thread : thread[t].pc = "new"}
ToCreate == {c \in Caller : caller[c].op \in Starts /\ ~at(c, "idle")
                            /\ ~at(c, "wait") /\ ~at(c, "publish") /\ ~at(c, "boot")}

(* pthreadTxSem is posted by each thread once and waited for by each start *)
(* once, but not every wait by the start of that thread (lines 100, 164).  *)
SemaphoreCounts == Cardinality(Waiting) = pthreadTxSem + Cardinality(Entering)

(* Two callers of stop do not wait for the same thread, and whoever waits  *)
(* waits for one that was created and that somebody had to join.           *)
JoinsWhatRuns ==
  \A c \in Caller : at(c, "joined") =>
    /\ caller[c].t \in 1..created
    /\ thread[caller[c].t].pc # "none" /\ thread[caller[c].t].joined
    /\ \A d \in Caller : at(d, "joined") /\ caller[d].t = caller[c].t => c = d

(* Whoever waits waits for somebody who comes: in start for a thread that  *)
(* has entered or will, in stop for a thread that still runs or has ended; *)
(* and the bound on the threads stops no operation that has begun.         *)
NobodyWaitsInVain ==
  \A c \in Caller :
    /\ at(c, "wait") => pthreadTxSem > 0 \/ Entering # {}
    /\ at(c, "joined") => Live(caller[c].t) \/ thread[caller[c].t].pc = "done"
    /\ at(c, "create") => created < Threads

(* What a step of an authentication thread leaves alone.                   *)
LEMMA ThreadFrame ==
  ASSUME TypeOK, NEW t \in Thread, authThread(t)
  PROVE  /\ UNCHANGED <<caller, created, pthreadIdHdcpTx>>
         /\ \A u \in Thread : u # t => thread'[u] = thread[u]
         /\ thread'[t].joined = thread[t].joined
         /\ thread[t].pc # "none" /\ thread'[t].pc \notin {"none", "new"}
<1> USE DEF flags, output, history
<1>1. UNCHANGED <<caller, created, pthreadIdHdcpTx>> /\ thread[t].pc # "none"
  BY DEF authThread, threadEntry, bootWait, authInit, authStart, authLoop, authSuccess, authPending
<1>2. /\ \A u \in Thread : u # t => thread'[u] = thread[u]
      /\ thread'[t].joined = thread[t].joined
      /\ thread'[t].pc \notin {"none", "new"}
  BY DEF TypeOK, ThreadState, authThread, threadEntry, bootWait, authInit, authStart, authLoop,
         authSuccess, authPending, run, end
<1> QED BY <1>1, <1>2

(* What a step of a caller leaves alone.                                   *)
LEMMA CallerFrame ==
  ASSUME TypeOK, NEW c \in Caller, Continue(c)
  PROVE  /\ \A d \in Caller : d # c => caller'[d] = caller[d]
         /\ caller'[c].op \in {caller[c].op, "none"}
         /\ ~at(c, "idle")
<1> USE DEF flags, output, history
<1>1. ASSUME NEW pc, go(c, pc)
      PROVE  /\ \A d \in Caller : d # c => caller'[d] = caller[d]
             /\ caller'[c].op = caller[c].op
  BY <1>1 DEF go, TypeOK, CallerState
<1>2. return(c) => (\A d \in Caller : d # c => caller'[d] = caller[d]) /\ caller'[c].op = "none"
  BY DEF return, TypeOK
<1>3. afterStop(c) => /\ \A d \in Caller : d # c => caller'[d] = caller[d]
                      /\ caller'[c].op \in {caller[c].op, "none"}
  BY <1>2 DEF afterStop, TypeOK, CallerState
<1>4. stopJoin(c) => /\ \A d \in Caller : d # c => caller'[d] = caller[d]
                     /\ caller'[c].op \in {caller[c].op, "none"}
  BY <1>3 DEF stopJoin, TypeOK, CallerState
<1>5. startCreate(c) => /\ \A d \in Caller : d # c => caller'[d] = caller[d]
                        /\ caller'[c].op = caller[c].op
  BY DEF startCreate, TypeOK, CallerState
<1>6. ~at(c, "idle")
  BY DEF Continue, mute, early, unmute3D, unmute, setBootAnimFinished, stop, stopTest, stopExit,
         stopJoin, stopJoined, stopClear, startCreate, startWait, startPublish, at
<1> QED
  BY <1>1, <1>2, <1>3, <1>4, <1>5, <1>6
     DEF Continue, mute, early, unmute3D, unmute, setBootAnimFinished, stop, stopTest, stopExit,
         stopJoined, stopClear, startWait, startPublish

(* Each step of a caller goes to a later place.                            *)
LEMMA CallerAdvances ==
  ASSUME TypeOK, NEW c \in Caller, Continue(c)
  PROVE  PlacesLeft(c)' < PlacesLeft(c)
<1> USE DEF at, PlacesLeft
<1>1. ASSUME NEW pc, go(c, pc) PROVE caller'[c].pc = pc
  BY <1>1 DEF go, TypeOK, CallerState
<1>2. return(c) => caller'[c].pc = "idle"
  BY DEF return, TypeOK
<1>3. afterStop(c) => caller'[c].pc \in {"idle", "unmute", "create"}
  BY <1>2 DEF afterStop, TypeOK, CallerState
<1>4. CASE mute(c)
  BY <1>1, <1>4 DEF mute
<1>5. CASE early(c)
  BY <1>1, <1>5 DEF early
<1>6. CASE unmute3D(c)
  BY <1>1, <1>6 DEF unmute3D
<1>7. CASE unmute(c)
  BY <1>1, <1>7 DEF unmute
<1>8. CASE setBootAnimFinished(c)
  BY <1>2, <1>8 DEF setBootAnimFinished
<1>9. CASE stop(c)
  BY <1>1, <1>9 DEF stop
<1>10. CASE stopTest(c)
  BY <1>1, <1>3, <1>10 DEF stopTest
<1>11. CASE stopExit(c)
  BY <1>1, <1>11 DEF stopExit
<1>12. CASE stopJoin(c)
  <2>1. caller'[c].pc \in {"idle", "unmute", "create", "joined"}
    BY <1>3, <1>12 DEF stopJoin, TypeOK, CallerState
  <2> QED BY <2>1, <1>12 DEF stopJoin
<1>13. CASE stopJoined(c)
  BY <1>1, <1>13 DEF stopJoined
<1>14. CASE stopClear(c)
  BY <1>3, <1>14 DEF stopClear
<1>15. CASE startCreate(c)
  <2>1. caller'[c].pc = "wait"
    BY <1>15 DEF startCreate, TypeOK, CallerState
  <2> QED BY <2>1, <1>15 DEF startCreate
<1>16. CASE startWait(c)
  BY <1>1, <1>16 DEF startWait
<1>17. CASE startPublish(c)
  BY <1>1, <1>2, <1>17 DEF startPublish
<1> QED
  BY <1>4, <1>5, <1>6, <1>7, <1>8, <1>9, <1>10, <1>11, <1>12, <1>13, <1>14, <1>15, <1>16, <1>17
     DEF Continue

(* Every step of an operation brings it nearer to its return, and nobody   *)
(* else moves it (HDCPTxAuth::start and stop and whoever calls them).      *)
THEOREM OperationsAdvance == Spec => [][EachPlaceOnce]_vars
<1>1. TypeOK /\ [Next]_vars => [EachPlaceOnce]_vars
  <2> SUFFICES ASSUME TypeOK, Next, NEW c \in Caller
               PROVE  /\ Continue(c) => PlacesLeft(c)' < PlacesLeft(c)
                      /\ ~at(c, "idle") => PlacesLeft(c)' <= PlacesLeft(c)
    BY DEF EachPlaceOnce
  <2>1. PlacesLeft(c) \in Int /\ (caller'[c] = caller[c] => PlacesLeft(c)' = PlacesLeft(c))
    BY DEF PlacesLeft, at
  <2>2. PlacesLeft(c)' \in Int
    BY DEF PlacesLeft, at
  <2>3. ASSUME NEW d \in Caller, Continue(d), ~at(c, "idle")
        PROVE  PlacesLeft(c)' <= PlacesLeft(c)
    BY <2>1, <2>2, <2>3, CallerFrame, CallerAdvances
  <2>4. ASSUME NEW d \in Caller, NEW op \in OpsOf[d], begin(d, op), ~at(c, "idle")
        PROVE  PlacesLeft(c)' <= PlacesLeft(c)
    <3>1. d # c /\ caller'[c] = caller[c]
      BY <2>4 DEF begin, at, TypeOK
    <3> QED BY <2>1, <2>2, <3>1
  <2>5. ASSUME NEW t \in Thread, authThread(t)
        PROVE  PlacesLeft(c)' <= PlacesLeft(c)
    BY <2>1, <2>2, <2>5, ThreadFrame
  <2> QED BY <2>3, <2>4, <2>5, CallerAdvances DEF Next
<1> QED BY <1>1, TypeCorrect, PTL DEF Spec

----------------------------------------------------------------------------
(* The threads *)

(* Only the two loops count, and what StepsLeft says at each place.        *)
CountsInLoops == \A t \in Thread : thread[t].pc \notin {"loop", "poll"} => thread[t].count = 0

LEMMA StepsAt ==
  ASSUME TypeOK, NEW t \in Thread
  PROVE  /\ Round \in Nat /\ Round >= 2 /\ thread[t].count \in Nat /\ thread[t].count <= Polls
         /\ StepsLeft(t) \in Nat
         /\ thread[t].pc = "new"   => StepsLeft(t) = 2 * Round + 4
         /\ thread[t].pc = "boot"  => StepsLeft(t) = 2 * Round + 3
         /\ thread[t].pc = "init"  => StepsLeft(t) = 2 * Round + 2
         /\ thread[t].pc = "start" => StepsLeft(t) = 2 * Round + 1
         /\ thread[t].pc = "loop"  =>
              StepsLeft(t) = 2 * (Polls - thread[t].count) + 2
                             + (IF thread[t].ver = "22" THEN Round ELSE 0)
         /\ thread[t].pc = "poll"  =>
              StepsLeft(t) = 2 * (Polls - thread[t].count) + 1
                             + (IF thread[t].ver = "22" THEN Round ELSE 0)
         /\ thread[t].pc \in {"none", "done"} => StepsLeft(t) = 0
<1>1. Round \in Nat /\ Round >= 2
  BY AuthAssumption DEF Round
<1>2. /\ thread[t].count \in Nat /\ thread[t].count <= Polls
      /\ thread[t].pc \in {"none", "new", "boot", "init", "start", "loop", "poll", "done"}
  BY AuthAssumption DEF TypeOK, ThreadState
<1> QED BY <1>1, <1>2, AuthAssumption DEF StepsLeft

LEMMA CountsInLoopsInvariant == Spec => []CountsInLoops
<1>1. Init => CountsInLoops
  BY DEF Init, CountsInLoops
<1>2. TypeOK /\ Fresh /\ CountsInLoops /\ [Next]_vars => CountsInLoops'
  <2> SUFFICES ASSUME TypeOK, Fresh, CountsInLoops, [Next]_vars PROVE CountsInLoops'
    OBVIOUS
  <2> USE DEF flags, output, history
  <2>1. ASSUME NEW c \in Caller, Continue(c) PROVE CountsInLoops'
    <3>1. CASE startCreate(c)
      <4>1. created + 1 \in Thread /\ created \in Nat
        BY <3>1, AuthAssumption DEF startCreate, TypeOK, Thread
      <4>2. thread[created + 1].pc = "none"
        BY <4>1 DEF Fresh
      <4> QED BY <3>1, <4>1, <4>2 DEF startCreate, run, TypeOK, ThreadState, CountsInLoops
    <3>2. CASE stopJoin(c)
      <4>1. \A t \in Thread : thread'[t].pc = thread[t].pc /\ thread'[t].count = thread[t].count
        BY <3>2 DEF stopJoin, TypeOK, ThreadState
      <4> QED BY <4>1 DEF CountsInLoops
    <3>3. CASE ~startCreate(c) /\ ~stopJoin(c)
      <4>1. UNCHANGED thread
        BY <2>1, <3>3 DEF Continue, mute, early, unmute3D, unmute, setBootAnimFinished, stop,
           stopTest, stopExit, stopJoined, stopClear, startWait, startPublish
      <4> QED BY <4>1 DEF CountsInLoops
    <3> QED BY <3>1, <3>2, <3>3
  <2>2. ASSUME NEW c \in Caller, NEW op \in OpsOf[c], begin(c, op) PROVE CountsInLoops'
    BY <2>2 DEF begin, CountsInLoops
  <2>3. ASSUME NEW t \in Thread, authThread(t) PROVE CountsInLoops'
    <3>1. \A u \in Thread : u # t => thread'[u] = thread[u]
      BY <2>3, ThreadFrame
    <3>2. thread'[t].pc \notin {"loop", "poll"} => thread'[t].count = 0
      BY <2>3 DEF TypeOK, ThreadState, CountsInLoops, authThread, threadEntry, bootWait, authInit,
         authStart, authLoop, authSuccess, authPending, run, end
    <3> QED BY <3>1, <3>2 DEF CountsInLoops
  <2>4. CASE UNCHANGED vars
    BY <2>4 DEF vars, CountsInLoops
  <2> QED BY <2>1, <2>2, <2>3, <2>4 DEF Next
<1> QED BY <1>1, <1>2, TypeCorrect, AloneInvariant, PTL DEF Spec

(* Each step of an authentication thread brings it nearer to its end.      *)
LEMMA ThreadAdvances ==
  ASSUME TypeOK, TypeOK', CountsInLoops, NEW t \in Thread, authThread(t)
  PROVE  StepsLeft(t)' < StepsLeft(t)
<1> DEFINE s == thread[t]
           n == thread'[t]
<1>0. /\ s \in ThreadState /\ Polls \in Nat
      /\ s.pc \notin {"loop", "poll"} => s.count = 0
  BY AuthAssumption DEF TypeOK, CountsInLoops
<1>1. /\ Round \in Nat /\ Round = 2 * Polls + 2
  BY AuthAssumption DEF Round
<1>2. /\ s.count \in Nat /\ s.count <= Polls /\ StepsLeft(t) \in Nat
      /\ s.pc = "new"   => StepsLeft(t) = 2 * Round + 4
      /\ s.pc = "boot"  => StepsLeft(t) = 2 * Round + 3
      /\ s.pc = "init"  => StepsLeft(t) = 2 * Round + 2
      /\ s.pc = "start" => StepsLeft(t) = 2 * Round + 1
      /\ s.pc = "loop"  => StepsLeft(t) = 2 * (Polls - s.count) + 2
                                          + (IF s.ver = "22" THEN Round ELSE 0)
      /\ s.pc = "poll"  => StepsLeft(t) = 2 * (Polls - s.count) + 1
                                          + (IF s.ver = "22" THEN Round ELSE 0)
  BY StepsAt
<1>3. /\ n.count \in Nat /\ n.count <= Polls
      /\ n.pc = "boot"  => StepsLeft(t)' = 2 * Round + 3
      /\ n.pc = "init"  => StepsLeft(t)' = 2 * Round + 2
      /\ n.pc = "start" => StepsLeft(t)' = 2 * Round + 1
      /\ n.pc = "loop"  => StepsLeft(t)' = 2 * (Polls - n.count) + 2
                                           + (IF n.ver = "22" THEN Round ELSE 0)
      /\ n.pc = "poll"  => StepsLeft(t)' = 2 * (Polls - n.count) + 1
                                           + (IF n.ver = "22" THEN Round ELSE 0)
      /\ n.pc = "done"  => StepsLeft(t)' = 0
  <2>1. /\ thread'[t].count \in Nat /\ thread'[t].count <= Polls
        /\ thread'[t].pc \in {"none", "new", "boot", "init", "start", "loop", "poll", "done"}
    BY AuthAssumption DEF TypeOK, ThreadState
  <2> QED BY <1>1, <2>1, AuthAssumption DEF StepsLeft, Round
<1> HIDE DEF s, n
<1>4. ASSUME NEW pc \in {"boot", "init", "start", "poll"}, run(t, pc)
      PROVE  n.pc = pc /\ n.count = s.count /\ n.ver = s.ver
  BY <1>4, <1>0 DEF run, TypeOK, ThreadState, s, n
<1>5. end(t) => n.pc = "done"
  BY DEF end, TypeOK, n
<1>6. CASE threadEntry(t)
  BY <1>1, <1>2, <1>3, <1>4, <1>6 DEF threadEntry, s
<1>7. CASE bootWait(t)
  BY <1>1, <1>2, <1>3, <1>4, <1>7 DEF bootWait, s
<1>8. CASE authInit(t)
  BY <1>1, <1>2, <1>3, <1>4, <1>5, <1>8 DEF authInit, s
<1>9. CASE authStart(t)
  <2>1. s.pc = "start" /\ (n.pc = "done" \/ (n.pc = "loop" /\ n.count = s.count))
    BY <1>5, <1>9 DEF authStart, TypeOK, ThreadState, s, n
  <2>2. s.count = 0
    BY <1>0, <2>1
  <2> QED BY <1>0, <1>1, <1>2, <1>3, <2>1, <2>2
<1>10. CASE authLoop(t)
  <2>1. s.pc = "loop"
    BY <1>10 DEF authLoop, s
  <2>2. n.pc = "done" \/ (n.pc = "poll" /\ n.count = s.count /\ n.ver = s.ver)
    BY <1>4, <1>5, <1>10 DEF authLoop
  <2> QED BY <1>0, <1>1, <1>2, <1>3, <2>1, <2>2
<1>11. CASE authSuccess(t)
  <2>1. s.pc = "poll" /\ n.pc = "done"
    BY <1>5, <1>11 DEF authSuccess, s
  <2> QED BY <1>0, <1>1, <1>2, <1>3, <2>1
<1>12. CASE authPending(t)
  <2>1. /\ s.pc = "poll"
        /\ \/ n.pc = "loop" /\ s.count < Polls /\ n.count = s.count + 1 /\ n.ver = s.ver
           \/ n.pc = "loop" /\ s.ver = "22" /\ n.ver = "14" /\ n.count = 0
           \/ n.pc = "done"
    BY <1>0, <1>5, <1>12 DEF authPending, TypeOK, ThreadState, s, n
  <2> QED BY <1>0, <1>1, <1>2, <1>3, <2>1
<1> QED BY <1>6, <1>7, <1>8, <1>9, <1>10, <1>11, <1>12 DEF authThread

(* An authentication ends after a bounded number of its own steps, however *)
(* operations overlap (HDCPTxAuth::authThread, authLoop).                  *)
THEOREM AuthenticationAdvances == Spec => [][EachStepCounts]_vars
<1>1. TypeOK /\ TypeOK' /\ Fresh /\ CountsInLoops /\ [Next]_vars => [EachStepCounts]_vars
  <2> SUFFICES ASSUME TypeOK, TypeOK', Fresh, CountsInLoops, Next, NEW t \in Thread
               PROVE  /\ authThread(t) => StepsLeft(t)' < StepsLeft(t)
                      /\ thread[t].pc # "none" => StepsLeft(t)' <= StepsLeft(t)
    BY DEF EachStepCounts
  <2> USE DEF flags, output, history
  <2>1. StepsLeft(t) \in Nat
    BY StepsAt
  <2>2. ASSUME /\ thread'[t].pc = thread[t].pc
               /\ thread'[t].count = thread[t].count
               /\ thread'[t].ver = thread[t].ver
        PROVE  StepsLeft(t)' = StepsLeft(t)
    BY <2>2 DEF StepsLeft
  <2>3. ASSUME NEW c \in Caller, Continue(c), thread[t].pc # "none"
        PROVE  StepsLeft(t)' <= StepsLeft(t)
    <3>1. CASE startCreate(c)
      <4>1. created + 1 \in Thread /\ created \in Nat
        BY <3>1, AuthAssumption DEF startCreate, TypeOK, Thread
      <4>2. t # created + 1
        BY <2>3, <4>1 DEF Fresh
      <4>3. thread'[t] = thread[t]
        BY <3>1, <4>2 DEF startCreate, run, TypeOK
      <4> QED BY <2>1, <2>2, <4>3
    <3>2. CASE stopJoin(c)
      BY <2>1, <2>2, <3>2 DEF stopJoin, TypeOK, ThreadState
    <3>3. CASE ~startCreate(c) /\ ~stopJoin(c)
      <4>1. UNCHANGED thread
        BY <2>3, <3>3 DEF Continue, mute, early, unmute3D, unmute, setBootAnimFinished, stop,
           stopTest, stopExit, stopJoined, stopClear, startWait, startPublish
      <4> QED BY <2>1, <2>2, <4>1
    <3> QED BY <3>1, <3>2, <3>3
  <2>4. ASSUME NEW c \in Caller, NEW op \in OpsOf[c], begin(c, op)
        PROVE  StepsLeft(t)' <= StepsLeft(t)
    BY <2>1, <2>2, <2>4 DEF begin
  <2>5. ASSUME NEW u \in Thread, authThread(u)
        PROVE  StepsLeft(t)' <= StepsLeft(t)
    <3>1. CASE u = t
      <4>1. StepsLeft(t)' < StepsLeft(t)
        BY <2>5, <3>1, ThreadAdvances
      <4>2. StepsLeft(t)' \in Int
        <5>1. thread'[t].count \in Nat
          BY AuthAssumption DEF TypeOK, ThreadState
        <5> QED BY <5>1, AuthAssumption DEF StepsLeft, Round
      <4> QED BY <2>1, <4>1, <4>2
    <3>2. CASE u # t
      BY <2>1, <2>2, <2>5, <3>2, ThreadFrame
    <3> QED BY <3>1, <3>2
  <2> QED BY <2>3, <2>4, <2>5, ThreadAdvances DEF Next
<1> QED BY <1>1, TypeCorrect, AloneInvariant, CountsInLoopsInvariant, PTL DEF Spec

----------------------------------------------------------------------------
(* The waits *)

(* Adding an element to a set, or taking one from it, counts one.          *)
LEMMA OneMore ==
  ASSUME NEW S, IsFiniteSet(S), NEW x, x \notin S
  PROVE  /\ IsFiniteSet(S \union {x})
         /\ Cardinality(S \union {x}) = Cardinality(S) + 1 /\ Cardinality(S) \in Nat
BY FS_AddElement, FS_CardinalityType

LEMMA OneLess ==
  ASSUME NEW S, IsFiniteSet(S), NEW x \in S
  PROVE  /\ Cardinality(S \ {x}) = Cardinality(S) - 1
         /\ Cardinality(S) \in Nat /\ Cardinality(S) >= 1
<1>1. /\ Cardinality(S \ {x}) = Cardinality(S) - 1
      /\ IsFiniteSet(S \ {x})
  BY FS_RemoveElement
<1>2. Cardinality(S) \in Nat /\ Cardinality(S \ {x}) \in Nat
  BY <1>1, FS_CardinalityType
<1> QED BY <1>1, <1>2

LEMMA SetsAreFinite ==
  /\ IsFiniteSet(Waiting) /\ IsFiniteSet(Entering) /\ IsFiniteSet(ToCreate)
  /\ Cardinality(Waiting) \in Nat /\ Cardinality(Entering) \in Nat
  /\ Cardinality(ToCreate) \in Nat
<1>1. IsFiniteSet(Thread)
  BY AuthAssumption, FS_Interval DEF Thread
<1>2. Waiting \subseteq Caller /\ Entering \subseteq Thread /\ ToCreate \subseteq Caller
  BY DEF Waiting, Entering, ToCreate
<1>3. IsFiniteSet(Waiting) /\ IsFiniteSet(Entering) /\ IsFiniteSet(ToCreate)
  BY <1>1, <1>2, FS_Subset, AuthAssumption
<1> QED BY <1>3, FS_CardinalityType

(* What a step of a caller other than startCreate and startWait does to    *)
(* the three sets and the threads.                                         *)
LEMMA OtherSteps ==
  ASSUME TypeOK, NEW c \in Caller, Continue(c), ~startCreate(c), ~startWait(c)
  PROVE  /\ caller'[c].pc # "wait" /\ ~at(c, "wait") /\ ~at(c, "create")
         /\ at(c, "publish") => caller'[c].pc \in {"idle", "boot"}
         /\ at(c, "boot") => caller'[c].pc = "idle"
         /\ caller'[c].pc \in {"unmute", "create"} => caller'[c].op \in Starts \/ at(c, "unmute")
         /\ UNCHANGED <<created, pthreadTxSem>>
         /\ \A t \in Thread : thread'[t].pc = thread[t].pc
         /\ \A t \in Thread : thread[t].joined => thread'[t].joined
<1> USE DEF flags, output, history, at
<1>1. ASSUME NEW pc, go(c, pc) PROVE caller'[c].pc = pc /\ caller'[c].op = caller[c].op
  BY <1>1 DEF go, TypeOK, CallerState
<1>2. return(c) => caller'[c].pc = "idle"
  BY DEF return, TypeOK
<1>3. afterStop(c) => /\ caller'[c].pc \in {"idle", "unmute", "create"}
                      /\ caller'[c].pc \in {"unmute", "create"} => caller'[c].op \in Starts
  BY <1>2 DEF afterStop, TypeOK, CallerState
<1>4. CASE stopJoin(c)
  <2>1. /\ caller'[c].pc \in {"idle", "unmute", "create", "joined"}
        /\ caller'[c].pc \in {"unmute", "create"} => caller'[c].op \in Starts
    BY <1>3, <1>4 DEF stopJoin, TypeOK, CallerState
  <2>2. \A t \in Thread : thread'[t].pc = thread[t].pc /\ (thread[t].joined => thread'[t].joined)
    BY <1>4 DEF stopJoin, TypeOK, ThreadState
  <2> QED BY <1>4, <2>1, <2>2 DEF stopJoin
<1>5. CASE ~stopJoin(c)
  <2>1. UNCHANGED <<created, pthreadTxSem, thread>>
    BY <1>5 DEF Continue, mute, early, unmute3D, unmute, setBootAnimFinished, stop, stopTest,
       stopExit, stopJoined, stopClear, startPublish
  <2>2. /\ caller'[c].pc # "wait" /\ ~at(c, "wait") /\ ~at(c, "create")
        /\ at(c, "publish") => caller'[c].pc \in {"idle", "boot"}
        /\ at(c, "boot") => caller'[c].pc = "idle"
        /\ caller'[c].pc \in {"unmute", "create"} => caller'[c].op \in Starts \/ at(c, "unmute")
    BY <1>1, <1>2, <1>3, <1>5 DEF Continue, mute, early, unmute3D, unmute, setBootAnimFinished,
       stop, stopTest, stopExit, stopJoined, stopClear, startPublish
  <2> QED BY <2>1, <2>2
<1> QED BY <1>4, <1>5

(* The semaphore is posted as often as it is waited for.                   *)
LEMMA SemaphoreStep ==
  ASSUME TypeOK, Fresh, SemaphoreCounts, [Next]_vars
  PROVE  SemaphoreCounts'
<1> USE DEF flags, output, history
<1>0. pthreadTxSem \in Nat
  BY DEF TypeOK
<1>1. ASSUME NEW c \in Caller, startCreate(c) PROVE SemaphoreCounts'
  <2>1. created + 1 \in Thread /\ thread[created + 1].pc = "none"
    <3>1. created + 1 \in Thread /\ created \in Nat
      BY <1>1, AuthAssumption DEF startCreate, TypeOK, Thread
    <3> QED BY <3>1 DEF Fresh
  <2>2. Entering' = Entering \union {created + 1} /\ created + 1 \notin Entering
    BY <1>1, <2>1 DEF startCreate, run, Entering, TypeOK, ThreadState
  <2>3. Waiting' = Waiting \union {c} /\ c \notin Waiting
    BY <1>1 DEF startCreate, Waiting, at, TypeOK, CallerState
  <2>4. pthreadTxSem' = pthreadTxSem
    BY <1>1 DEF startCreate
  <2>5. /\ Cardinality(Entering') = Cardinality(Entering) + 1
        /\ Cardinality(Waiting') = Cardinality(Waiting) + 1
    BY <2>2, <2>3, OneMore, SetsAreFinite
  <2> QED BY <1>0, <2>4, <2>5, SetsAreFinite DEF SemaphoreCounts
<1>2. ASSUME NEW c \in Caller, startWait(c) PROVE SemaphoreCounts'
  <2>1. Waiting' = Waiting \ {c} /\ c \in Waiting
    BY <1>2 DEF startWait, go, Waiting, at, TypeOK, CallerState
  <2>2. Entering' = Entering /\ pthreadTxSem' = pthreadTxSem - 1
    BY <1>2 DEF startWait, Entering
  <2>3. Cardinality(Waiting') = Cardinality(Waiting) - 1
    BY <2>1, OneLess, SetsAreFinite
  <2> QED BY <1>0, <2>2, <2>3, SetsAreFinite DEF SemaphoreCounts
<1>3. ASSUME NEW c \in Caller, Continue(c), ~startCreate(c), ~startWait(c)
      PROVE  SemaphoreCounts'
  <2>1. Waiting' = Waiting
    BY <1>3, OtherSteps, CallerFrame DEF Waiting, at
  <2>2. Entering' = Entering
    BY <1>3, OtherSteps DEF Entering
  <2>3. pthreadTxSem' = pthreadTxSem
    BY <1>3, OtherSteps
  <2> QED BY <2>1, <2>2, <2>3 DEF SemaphoreCounts
<1>4. ASSUME NEW c \in Caller, NEW op \in OpsOf[c], begin(c, op) PROVE SemaphoreCounts'
  <2>1. PICK pc \in {"mute", "stop"} :
          caller' = [caller EXCEPT ![c] = [pc |-> pc, op |-> op, t |-> NoThread]]
    BY <1>4 DEF begin, First
  <2>2. Waiting' = Waiting
    BY <1>4, <2>1 DEF begin, Waiting, at, TypeOK
  <2>3. UNCHANGED <<thread, pthreadTxSem>>
    BY <1>4 DEF begin
  <2> QED BY <2>2, <2>3 DEF SemaphoreCounts, Entering
<1>5. ASSUME NEW t \in Thread, authThread(t) PROVE SemaphoreCounts'
  <2>1. UNCHANGED caller /\ \A u \in Thread : u # t => thread'[u] = thread[u]
    BY <1>5, ThreadFrame
  <2>2. thread'[t].pc # "new"
    BY <1>5, ThreadFrame
  <2>3. CASE threadEntry(t)
    <3>1. Entering' = Entering \ {t} /\ t \in Entering
      BY <2>1, <2>2, <2>3 DEF threadEntry, Entering
    <3>2. Cardinality(Entering') = Cardinality(Entering) - 1
      BY <3>1, OneLess, SetsAreFinite
    <3>3. pthreadTxSem' = pthreadTxSem + 1 /\ Waiting' = Waiting
      BY <2>1, <2>3 DEF threadEntry, Waiting, at
    <3> QED BY <1>0, <3>2, <3>3, SetsAreFinite DEF SemaphoreCounts
  <2>4. CASE ~threadEntry(t)
    <3>1. thread[t].pc # "new" /\ pthreadTxSem' = pthreadTxSem
      BY <1>5, <2>4 DEF authThread, bootWait, authInit, authStart, authLoop, authSuccess,
         authPending
    <3>2. Entering' = Entering /\ Waiting' = Waiting
      BY <2>1, <2>2, <3>1 DEF Entering, Waiting, at
    <3> QED BY <3>1, <3>2 DEF SemaphoreCounts
  <2> QED BY <2>3, <2>4
<1>6. CASE UNCHANGED vars
  BY <1>6 DEF vars, SemaphoreCounts, Waiting, Entering, at
<1> QED BY <1>1, <1>2, <1>3, <1>4, <1>5, <1>6 DEF Next

(* pthreadTxSem and the threads that have not entered yet make up for the  *)
(* starts that wait, however operations overlap (HDCPTxAuth::start and     *)
(* authThread).                                                            *)
THEOREM SemaphoreAlwaysCounts == Spec => []SemaphoreCounts
<1>1. Init => SemaphoreCounts
  <2> SUFFICES ASSUME Init PROVE SemaphoreCounts
    OBVIOUS
  <2>1. Waiting = {} /\ Entering = {} /\ pthreadTxSem = 0
    BY DEF Init, Waiting, Entering, at
  <2> QED BY <2>1, FS_EmptySet DEF SemaphoreCounts
<1> QED BY <1>1, SemaphoreStep, TypeCorrect, AloneInvariant, PTL DEF Spec

(* Who is joined was created, and each is joined by one; whoever is about  *)
(* to create a thread does so, and begin left room for it.                 *)
JoinInv ==
  /\ \A t \in Thread : t <= created => thread[t].pc # "none"
  /\ JoinsWhatRuns

RoomInv ==
  /\ \A c \in Caller : at(c, "unmute") \/ at(c, "create") => caller[c].op \in Starts
  /\ created + Cardinality(ToCreate) <= Threads

LEMMA JoinStep ==
  ASSUME TypeOK, Fresh, JoinInv, [Next]_vars
  PROVE  JoinInv'
<1> USE DEF flags, output, history
<1>0. created \in Nat /\ created <= Threads /\ Threads \in Nat
  BY AuthAssumption DEF TypeOK
<1>t. \A t : t \in Thread <=> t \in Int /\ 1 <= t /\ t <= Threads
  BY <1>0 DEF Thread
(* A step that ends no thread's life and keeps who is joined.              *)
<1>1. ASSUME created' = created,
             \A t \in Thread : /\ thread[t].pc # "none" => thread'[t].pc # "none"
                               /\ thread[t].joined => thread'[t].joined,
             \A c \in Caller : at(c, "joined")' => at(c, "joined") /\ caller'[c].t = caller[c].t
      PROVE  JoinInv'
  <2>1. \A t \in Thread : t <= created' => thread'[t].pc # "none"
    BY <1>1 DEF JoinInv
  <2>2. ASSUME NEW c \in Caller, at(c, "joined")'
        PROVE  /\ caller'[c].t \in 1..created'
               /\ thread'[caller'[c].t].pc # "none" /\ thread'[caller'[c].t].joined
               /\ \A d \in Caller : at(d, "joined")' /\ caller'[d].t = caller'[c].t => c = d
    <3>1. /\ at(c, "joined") /\ caller'[c].t = caller[c].t /\ caller[c].t \in 1..created
          /\ thread[caller[c].t].pc # "none" /\ thread[caller[c].t].joined
          /\ \A d \in Caller : at(d, "joined") /\ caller[d].t = caller[c].t => c = d
      BY <1>1, <2>2 DEF JoinInv, JoinsWhatRuns
    <3>2. caller[c].t \in Thread
      BY <1>0, <1>t, <3>1
    <3> QED BY <1>1, <3>1, <3>2
  <2> QED BY <2>1, <2>2 DEF JoinInv, JoinsWhatRuns
<1>2. ASSUME NEW c \in Caller, startCreate(c) PROVE JoinInv'
  <2>1. created' = created + 1 /\ created + 1 \in Thread
    BY <1>0, <1>t, <1>2 DEF startCreate
  <2>2. /\ thread'[created + 1].pc = "new"
        /\ \A t \in Thread : t # created + 1 => thread'[t] = thread[t]
    BY <1>2, <2>1 DEF startCreate, run, TypeOK, ThreadState
  <2>3. \A d \in Caller : at(d, "joined")' => at(d, "joined") /\ caller'[d] = caller[d]
    BY <1>2 DEF startCreate, at, TypeOK, CallerState
  <2>4. \A t \in Thread : t <= created' => thread'[t].pc # "none"
    BY <1>0, <1>t, <2>1, <2>2 DEF JoinInv
  <2>5. ASSUME NEW d \in Caller, at(d, "joined")'
        PROVE  /\ caller'[d].t \in 1..created'
               /\ thread'[caller'[d].t].pc # "none" /\ thread'[caller'[d].t].joined
               /\ \A e \in Caller : at(e, "joined")' /\ caller'[e].t = caller'[d].t => d = e
    <3>1. /\ at(d, "joined") /\ caller'[d].t = caller[d].t /\ caller[d].t \in 1..created
          /\ thread[caller[d].t].pc # "none" /\ thread[caller[d].t].joined
          /\ \A e \in Caller : at(e, "joined") /\ caller[e].t = caller[d].t => d = e
      BY <2>3, <2>5 DEF JoinInv, JoinsWhatRuns
    <3>2. caller[d].t \in Thread /\ caller[d].t # created + 1 /\ caller[d].t \in 1..(created + 1)
      BY <1>0, <1>t, <3>1
    <3> QED BY <2>1, <2>2, <2>3, <3>1, <3>2
  <2> QED BY <2>4, <2>5 DEF JoinInv, JoinsWhatRuns
<1>3. ASSUME NEW c \in Caller, stopJoin(c) PROVE JoinInv'
  <2>1. CASE afterStop(c) /\ UNCHANGED thread
    <3>1. \A d \in Caller : at(d, "joined")' => at(d, "joined") /\ caller'[d] = caller[d]
      BY <2>1 DEF afterStop, return, at, TypeOK, CallerState
    <3> QED BY <1>1, <1>3, <2>1, <3>1 DEF stopJoin
  <2>2. CASE ~(afterStop(c) /\ UNCHANGED thread)
    <3> DEFINE u == pthreadIdHdcpTx
    <3>1. /\ u \in Thread /\ ~thread[u].joined
          /\ caller' = [caller EXCEPT ![c].pc = "joined", ![c].t = u]
          /\ thread' = [thread EXCEPT ![u].joined = TRUE]
          /\ created' = created
      BY <1>3, <2>2 DEF stopJoin, TypeOK
    <3>2. u \in 1..created
      BY <1>0, <1>t, <3>1 DEF Fresh
    <3>3. /\ \A t \in Thread : thread'[t].pc = thread[t].pc
          /\ \A t \in Thread : thread'[t].joined <=> thread[t].joined \/ t = u
      BY <3>1 DEF TypeOK, ThreadState
    <3>4. \A d \in Caller : /\ d # c => caller'[d] = caller[d]
                            /\ d = c => caller'[d].t = u
      BY <3>1 DEF TypeOK, CallerState
    <3> HIDE DEF u
    <3>5. \A t \in Thread : t <= created' => thread'[t].pc # "none"
      BY <3>1, <3>3 DEF JoinInv
    <3>6. \A d \in Caller : d # c /\ at(d, "joined") =>
            caller[d].t \in Thread /\ caller[d].t # u
      BY <1>0, <1>t, <3>1 DEF JoinInv, JoinsWhatRuns
    <3>7. ASSUME NEW d \in Caller, at(d, "joined")'
          PROVE  /\ caller'[d].t \in 1..created'
                 /\ thread'[caller'[d].t].pc # "none" /\ thread'[caller'[d].t].joined
                 /\ \A e \in Caller : at(e, "joined")' /\ caller'[e].t = caller'[d].t => d = e
      <4>1. CASE d = c
        <5>1. caller'[d].t = u
          BY <3>4, <4>1
        <5>2. thread'[u].pc # "none" /\ thread'[u].joined
          BY <1>0, <3>1, <3>2, <3>3 DEF JoinInv
        <5>3. \A e \in Caller : at(e, "joined")' /\ caller'[e].t = u => e = c
          BY <3>4, <3>6 DEF at
        <5> QED BY <3>1, <3>2, <4>1, <5>1, <5>2, <5>3
      <4>2. CASE d # c
        <5>1. at(d, "joined") /\ caller'[d] = caller[d]
          BY <3>4, <3>7, <4>2 DEF at
        <5>2. /\ caller[d].t \in 1..created
              /\ thread[caller[d].t].pc # "none" /\ thread[caller[d].t].joined
              /\ \A e \in Caller : at(e, "joined") /\ caller[e].t = caller[d].t => d = e
          BY <5>1 DEF JoinInv, JoinsWhatRuns
        <5>3. caller[d].t \in Thread /\ caller[d].t # u
          BY <3>6, <4>2, <5>1
        <5>4. \A e \in Caller : at(e, "joined")' /\ caller'[e].t = caller[d].t => d = e
          BY <3>4, <5>2, <5>3 DEF at
        <5> QED BY <3>1, <3>3, <5>1, <5>2, <5>3, <5>4
      <4> QED BY <4>1, <4>2
    <3> QED BY <3>5, <3>7 DEF JoinInv, JoinsWhatRuns
  <2> QED BY <2>1, <2>2
<1>4. ASSUME NEW c \in Caller, Continue(c), ~startCreate(c), ~stopJoin(c) PROVE JoinInv'
  <2>1. created' = created /\ UNCHANGED thread
    BY <1>4 DEF Continue, mute, early, unmute3D, unmute, setBootAnimFinished, stop, stopTest,
       stopExit, stopJoined, stopClear, startWait, startPublish
  <2>2. ~at(c, "joined")'
    <3>1. ASSUME NEW pc, go(c, pc) PROVE caller'[c].pc = pc
      BY <3>1 DEF go, TypeOK, CallerState
    <3>2. return(c) => caller'[c].pc = "idle"
      BY DEF return, TypeOK
    <3>3. afterStop(c) => caller'[c].pc \in {"idle", "unmute", "create"}
      BY <3>2 DEF afterStop, TypeOK, CallerState
    <3> QED
      BY <1>4, <3>1, <3>2, <3>3
         DEF Continue, mute, early, unmute3D, unmute, setBootAnimFinished, stop, stopTest,
             stopExit, stopJoined, stopClear, startWait, startPublish, at
  <2>3. \A d \in Caller : d # c => caller'[d] = caller[d]
    BY <1>4, CallerFrame
  <2> QED BY <1>1, <2>1, <2>2, <2>3 DEF at
<1>5. ASSUME NEW c \in Caller, NEW op \in OpsOf[c], begin(c, op) PROVE JoinInv'
  <2>1. PICK pc \in {"mute", "stop"} :
          caller' = [caller EXCEPT ![c] = [pc |-> pc, op |-> op, t |-> NoThread]]
    BY <1>5 DEF begin, First
  <2>2. UNCHANGED <<thread, created>>
    BY <1>5 DEF begin
  <2>3. \A d \in Caller : at(d, "joined")' => at(d, "joined") /\ caller'[d].t = caller[d].t
    BY <2>1 DEF at, TypeOK
  <2> QED BY <1>1, <2>2, <2>3
<1>6. ASSUME NEW t \in Thread, authThread(t) PROVE JoinInv'
  <2>1. UNCHANGED <<caller, created>>
    BY <1>6, ThreadFrame
  <2>2. \A u \in Thread : /\ thread[u].pc # "none" => thread'[u].pc # "none"
                          /\ thread[u].joined => thread'[u].joined
    BY <1>6, ThreadFrame
  <2> QED BY <1>1, <2>1, <2>2 DEF at
<1>7. CASE UNCHANGED vars
  BY <1>1, <1>7 DEF vars, at
<1> QED BY <1>2, <1>3, <1>4, <1>5, <1>6, <1>7 DEF Next

(* Whoever waits in stop waits for a thread that was created, and nobody   *)
(* else joins it, however operations overlap (HDCPTxAuth::stop).           *)
THEOREM EachThreadHasOneJoiner == Spec => []JoinsWhatRuns
<1>1. Init => JoinInv
  BY AuthAssumption DEF Init, JoinInv, JoinsWhatRuns, at, Thread
<1>2. JoinInv => JoinsWhatRuns
  BY DEF JoinInv
<1> QED BY <1>1, <1>2, JoinStep, TypeCorrect, AloneInvariant, PTL DEF Spec

LEMMA RoomStep ==
  ASSUME TypeOK, RoomInv, [Next]_vars
  PROVE  RoomInv'
<1> USE DEF flags, output, history
<1>0. created \in Nat /\ Threads \in Nat /\ Cardinality(ToCreate) \in Nat
  BY AuthAssumption, SetsAreFinite DEF TypeOK
(* A step after which no more threads are to be created than before it.    *)
<1>1. ASSUME created' = created, ToCreate' \subseteq ToCreate,
             \A c \in Caller : at(c, "unmute")' \/ at(c, "create")' => caller'[c].op \in Starts
      PROVE  RoomInv'
  <2>1. Cardinality(ToCreate') \in Nat /\ Cardinality(ToCreate') <= Cardinality(ToCreate)
    BY <1>1, SetsAreFinite, FS_Subset, FS_CardinalityType
  <2> QED BY <1>0, <1>1, <2>1 DEF RoomInv
<1>2. ASSUME NEW c \in Caller, startCreate(c) PROVE RoomInv'
  <2>1. /\ \A d \in Caller : d # c => caller'[d] = caller[d]
        /\ caller'[c].pc = "wait" /\ at(c, "create") /\ created' = created + 1
    BY <1>2 DEF startCreate, TypeOK, CallerState
  <2>2. ToCreate' = ToCreate \ {c} /\ c \in ToCreate
    BY <2>1 DEF ToCreate, at, RoomInv
  <2>3. Cardinality(ToCreate') = Cardinality(ToCreate) - 1
    BY <2>2, SetsAreFinite, OneLess
  <2>4. \A d \in Caller : at(d, "unmute")' \/ at(d, "create")' => caller'[d].op \in Starts
    BY <2>1 DEF RoomInv, at
  <2>5. created + Cardinality(ToCreate) <= Threads
    BY DEF RoomInv
  <2>6. created' + Cardinality(ToCreate') <= Threads
    BY <1>0, <2>1, <2>3, <2>5
  <2> QED BY <2>4, <2>6 DEF RoomInv
<1>3. ASSUME NEW c \in Caller, startWait(c) PROVE RoomInv'
  <2>1. /\ \A d \in Caller : d # c => caller'[d] = caller[d]
        /\ caller'[c].pc = "publish" /\ created' = created
    BY <1>3 DEF startWait, go, TypeOK, CallerState
  <2>2. ToCreate' \subseteq ToCreate
    BY <2>1 DEF ToCreate, at
  <2>3. \A d \in Caller : at(d, "unmute")' \/ at(d, "create")' => caller'[d].op \in Starts
    BY <2>1 DEF RoomInv, at
  <2> QED BY <1>1, <2>1, <2>2, <2>3
<1>4. ASSUME NEW c \in Caller, Continue(c), ~startCreate(c), ~startWait(c) PROVE RoomInv'
  <2>1. /\ \A d \in Caller : d # c => caller'[d] = caller[d]
        /\ caller'[c].op \in {caller[c].op, "none"} /\ ~at(c, "idle")
    BY <1>4, CallerFrame
  <2>2. /\ caller'[c].pc # "wait" /\ ~at(c, "wait") /\ created' = created
        /\ at(c, "publish") => caller'[c].pc \in {"idle", "boot"}
        /\ at(c, "boot") => caller'[c].pc = "idle"
        /\ caller'[c].pc \in {"unmute", "create"} => caller'[c].op \in Starts \/ at(c, "unmute")
    BY <1>4, OtherSteps
  <2>3. "none" \notin Starts
    BY DEF Starts, Op
  <2>4. ToCreate' \subseteq ToCreate
    BY <2>1, <2>2, <2>3 DEF ToCreate, at
  <2>5. at(c, "unmute") => caller'[c].pc = "create" /\ caller'[c].op = caller[c].op
    BY <1>4 DEF Continue, mute, early, unmute3D, unmute, setBootAnimFinished, stop, stopTest,
       stopExit, stopJoin, stopJoined, stopClear, startCreate, startWait, startPublish, at, go,
       TypeOK, CallerState
  <2>6. \A d \in Caller : at(d, "unmute")' \/ at(d, "create")' => caller'[d].op \in Starts
    BY <2>1, <2>2, <2>5 DEF RoomInv, at
  <2> QED BY <1>1, <2>2, <2>4, <2>6
<1>5. ASSUME NEW c \in Caller, NEW op \in OpsOf[c], begin(c, op) PROVE RoomInv'
  <2>1. PICK pc \in {"mute", "stop"} :
          caller' = [caller EXCEPT ![c] = [pc |-> pc, op |-> op, t |-> NoThread]]
    BY <1>5 DEF begin, First
  <2>2. created' = created /\ at(c, "idle")
    BY <1>5 DEF begin
  <2>3. /\ \A d \in Caller : d # c => caller'[d] = caller[d]
        /\ caller'[c].pc \in {"mute", "stop"}
    BY <2>1 DEF TypeOK
  <2>4. \A d \in Caller : at(d, "unmute")' \/ at(d, "create")' => caller'[d].op \in Starts
    BY <2>3 DEF RoomInv, at
  <2>5. ToCreate' \subseteq ToCreate \union {c} /\ c \notin ToCreate
    BY <2>2, <2>3 DEF ToCreate, at
  <2> DEFINE Busy == {d \in Caller : ~at(d, "idle") /\ caller[d].op \in Starts}
  <2>6. created + Cardinality(Busy) < Threads
    BY <1>5 DEF begin
  <2>7. ToCreate \subseteq Busy /\ IsFiniteSet(Busy)
    BY AuthAssumption, FS_Subset DEF ToCreate
  <2>8. Cardinality(Busy) \in Nat /\ Cardinality(ToCreate) <= Cardinality(Busy)
    BY <2>7, FS_Subset, FS_CardinalityType
  <2>9. /\ IsFiniteSet(ToCreate \union {c})
        /\ Cardinality(ToCreate \union {c}) = Cardinality(ToCreate) + 1
    BY <2>5, SetsAreFinite, OneMore
  <2>10. /\ Cardinality(ToCreate') <= Cardinality(ToCreate) + 1
         /\ Cardinality(ToCreate') \in Nat
    BY <2>5, <2>9, FS_Subset, FS_CardinalityType
  <2>11. created' + Cardinality(ToCreate') <= Threads
    BY <1>0, <2>2, <2>6, <2>8, <2>10
  <2> QED BY <2>4, <2>11 DEF RoomInv
<1>6. ASSUME NEW t \in Thread, authThread(t) PROVE RoomInv'
  <2>1. UNCHANGED <<caller, created>>
    BY <1>6, ThreadFrame
  <2> QED BY <1>1, <2>1 DEF RoomInv, ToCreate, at
<1>7. CASE UNCHANGED vars
  BY <1>1, <1>7 DEF vars, RoomInv, ToCreate, at
<1> QED BY <1>2, <1>3, <1>4, <1>5, <1>6, <1>7 DEF Next

(* Whoever waits for the semaphore, for a thread or for room waits for     *)
(* somebody who comes, however operations overlap (HDCPTxAuth::start and   *)
(* stop).                                                                  *)
THEOREM WaitsEnd == Spec => []NobodyWaitsInVain
<1>1. Init => RoomInv /\ JoinInv /\ SemaphoreCounts
  <2> SUFFICES ASSUME Init PROVE RoomInv /\ JoinInv /\ SemaphoreCounts
    OBVIOUS
  <2>1. ToCreate = {} /\ Waiting = {} /\ Entering = {} /\ pthreadTxSem = 0 /\ created = 0
    BY DEF Init, ToCreate, Waiting, Entering, at
  <2>2. RoomInv
    BY <2>1, FS_EmptySet, AuthAssumption DEF Init, RoomInv, at
  <2>3. JoinInv
    BY AuthAssumption DEF Init, JoinInv, JoinsWhatRuns, at, Thread
  <2> QED BY <2>1, <2>2, <2>3, FS_EmptySet DEF SemaphoreCounts
<1>2. TypeOK /\ RoomInv /\ JoinInv /\ SemaphoreCounts => NobodyWaitsInVain
  <2> SUFFICES ASSUME TypeOK, RoomInv, JoinInv, SemaphoreCounts, NEW c \in Caller
               PROVE  /\ at(c, "wait") => pthreadTxSem > 0 \/ Entering # {}
                      /\ at(c, "joined") => Live(caller[c].t) \/ thread[caller[c].t].pc = "done"
                      /\ at(c, "create") => created < Threads
    BY DEF NobodyWaitsInVain
  <2>1. ASSUME at(c, "wait") PROVE pthreadTxSem > 0 \/ Entering # {}
    <3>1. c \in Waiting
      BY <2>1 DEF Waiting
    <3>2. Cardinality(Waiting) >= 1
      BY <3>1, OneLess, SetsAreFinite
    <3>3. Cardinality(Entering) = 0 <=> Entering = {}
      BY SetsAreFinite, FS_EmptySet
    <3> QED BY <3>2, <3>3, SetsAreFinite DEF SemaphoreCounts, TypeOK
  <2>2. at(c, "joined") => Live(caller[c].t) \/ thread[caller[c].t].pc = "done"
    BY DEF JoinInv, JoinsWhatRuns, Live
  <2>3. ASSUME at(c, "create") PROVE created < Threads
    <3>1. c \in ToCreate
      BY <2>3 DEF ToCreate, RoomInv, at
    <3>2. Cardinality(ToCreate) >= 1 /\ Cardinality(ToCreate) \in Nat
      BY <3>1, OneLess, SetsAreFinite
    <3> QED BY <3>2, AuthAssumption DEF RoomInv, TypeOK
  <2> QED BY <2>1, <2>2, <2>3
<1> QED
  BY <1>1, <1>2, RoomStep, JoinStep, SemaphoreStep, TypeCorrect, AloneInvariant, PTL DEF Spec

=============================================================================
