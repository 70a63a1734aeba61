------------------------ MODULE HdmiCecControlProofs ------------------------
(***************************************************************************)
(* Proofs about HdmiCecControl, for any devices, inputs, messages, binder  *)
(* threads and bounds: its type invariant, the three invariants that keep  *)
(* a timeout or a promised request from being lost, what the receiver      *)
(* passes on, what the framework was told, and how much may be queued.     *)
(***************************************************************************)
EXTENDS HdmiCecControl, TLAPS

(* Spending part of a bound leaves the bounds natural numbers.             *)
LEMMA SpendTyped ==
  ASSUME left \in [Source -> Nat], NEW source \in Source, Spend(source)
  PROVE  left' \in [Source -> Nat]
  BY DEF Spend

(* removeMsg leaves counts (CMsgQueue::removeMsg).                         *)
LEMMA RemoveTyped ==
  ASSUME NEW type, queued \in [Timers -> Nat], removeMsg(type)
  PROVE  queued' \in [Timers -> Nat]
  BY DEF removeMsg, Without

(* sendMsg leaves counts (CMsgQueue::sendMsg).                             *)
LEMMA SendTyped ==
  ASSUME NEW m \in Timers, queued \in [Timers -> Nat], sendMsg(m)
  PROVE  queued' \in [Timers -> Nat]
  BY DEF sendMsg

(* Every message the code sends is one of Timers.                          *)
LEMMA TimersListed ==
  /\ OtpTimeout \in Timers /\ EdidTimeout \in Timers
  /\ \A d \in Dev : GiveAddress(d) \in Timers /\ TurnOn(d) \in Timers
  /\ \A d \in Dev \union {0} : Key(d) \in Timers
  /\ \A a \in Addr : SetStreamPath(a) \in Timers
  BY DEF Timers, GiveAddresses

(* The receiver's local variables keep their types at every step of it.    *)
LEMMA ReceiverTyped ==
  ASSUME TypeOK,
         \/ \E pc \in {"check", "edidLock", "edidRemove", "edidSend", "read", "top", "askRemove",
                       "askSend", "pathRemove", "pathSend", "otp"} : rxGo(pc)
         \/ rx' = [rx EXCEPT !.moved = @ \/ rx.pc \in {"earc", "deliver"}]
         \/ rx' = [rx EXCEPT !.option = (rx.ev # NoRx)]
         \/ rx' = [rx EXCEPT !.pc = "otp", !.pass = FALSE]
         \/ rx' = [rx EXCEPT !.pc = "top", !.ev = NoRx, !.pass = FALSE,
                         !.option = FALSE, !.moved = FALSE]
         \/ rx' = rx
  PROVE  rx' \in RxState
<1> rx \in RxState
  BY DEF TypeOK
<1>1. ASSUME NEW pc \in {"check", "edidLock", "edidRemove", "edidSend", "read", "top", "askRemove",
                         "askSend", "pathRemove", "pathSend", "otp"}, rxGo(pc)
      PROVE  rx' \in RxState
  BY <1>1 DEF rxGo, RxState
<1>2. ASSUME rx' = [rx EXCEPT !.moved = @ \/ rx.pc \in {"earc", "deliver"}] PROVE rx' \in RxState
  BY <1>2 DEF RxState
<1>3. ASSUME rx' = [rx EXCEPT !.option = (rx.ev # NoRx)] PROVE rx' \in RxState
  BY <1>3 DEF RxState
<1>4. ASSUME rx' = [rx EXCEPT !.pc = "otp", !.pass = FALSE] PROVE rx' \in RxState
  BY <1>4 DEF RxState
<1>5. ASSUME rx' = [rx EXCEPT !.pc = "top", !.ev = NoRx, !.pass = FALSE,
                         !.option = FALSE, !.moved = FALSE] PROVE rx' \in RxState
  BY <1>5 DEF RxState
<1> QED BY <1>1, <1>2, <1>3, <1>4, <1>5

(* Type correctness of every variable (mCecDevice, the queue, the threads).*)
THEOREM TypeCorrect == Spec => []TypeOK
<1>1. Init => TypeOK
  <2> SUFFICES ASSUME Init PROVE TypeOK
    OBVIOUS
  <2>1. rx \in RxState
    BY DEF Init, RxState
  <2>2. call \in [Caller -> CallState]
    BY DEF Init, CallState
  <2>3. left \in [Source -> Nat]
    BY ControlAssumption DEF Init
  <2>4. mAddedPhyAddrs \in [Dev -> Addr] /\ queued \in [Timers -> Nat]
    BY ControlAssumption DEF Init
  <2> QED BY <2>1, <2>2, <2>3, <2>4 DEF Init, TypeOK, DeviceId
<1>2. TypeOK /\ [Next]_vars => TypeOK'
  <2> SUFFICES ASSUME TypeOK, [Next]_vars PROVE TypeOK'
    OBVIOUS
  <2> USE DEF flags, otp, queue, status, history
  <2>1. ASSUME NEW m \in Timers, take(m) PROVE TypeOK'
    BY <2>1 DEF TypeOK, take
  <2>2. CASE handleOtpTimeout
    BY <2>2 DEF TypeOK, handleOtpTimeout
  <2>3. CASE handleEdidTimeout
    BY <2>3 DEF TypeOK, handleEdidTimeout
  <2>4. CASE handleSend
    <3>1. owed' \in Dev \union {NoDev}
      BY <2>4, Zenon DEF TypeOK, handleSend
    <3> QED BY <2>4, <3>1 DEF TypeOK, handleSend
  <2>5. ASSUME NEW d \in DeviceId, notifyRemove(d) PROVE TypeOK'
    <3>1. queued' \in [Timers -> Nat]
      BY <2>5, RemoveTyped DEF notifyRemove, TypeOK
    <3>2. left' \in [Source -> Nat]
      BY <2>5, SpendTyped DEF notifyRemove, TypeOK, Source
    <3> QED BY <2>5, <3>1, <3>2 DEF TypeOK, notifyRemove
  <2>26. CASE notifySend
    <3>1. rx' \in RxState
      BY <2>26, ReceiverTyped DEF notifySend
    <3>2. queued' \in [Timers -> Nat]
      BY <2>26, SendTyped, TimersListed DEF notifySend, TypeOK
    <3> QED BY <2>26, <3>1, <3>2 DEF TypeOK, notifySend
  <2>6. ASSUME NEW v \in BOOLEAN, setEnableCec(v) PROVE TypeOK'
    <3>3. left' \in [Source -> Nat]
      BY <2>6, SpendTyped DEF setEnableCec, TypeOK, Source
    <3> QED BY <2>6, <3>3 DEF TypeOK, setEnableCec
  <2>7. ASSUME NEW v \in BOOLEAN, setSystemCecControl(v) PROVE TypeOK'
    <3>1. rx' \in RxState
      BY <2>7, ReceiverTyped DEF setSystemCecControl
    <3>3. left' \in [Source -> Nat]
      BY <2>7, SpendTyped DEF setSystemCecControl, TypeOK, Source
    <3> QED BY <2>7, <3>1, <3>3 DEF TypeOK, setSystemCecControl
  <2>8. CASE getPortInfos
    BY <2>8 DEF TypeOK, getPortInfos
  <2>9. ASSUME NEW c \in Caller, NEW m \in TxMsg, sendMessage(c, m) PROVE TypeOK'
    <3>1. left' \in [Source -> Nat]
      BY <2>9, SpendTyped DEF sendMessage, TypeOK, Source
    <3>2. call' \in [Caller -> CallState]
      BY <2>9 DEF TypeOK, CallState, sendMessage
    <3> QED BY <2>9, <3>1, <3>2 DEF TypeOK, sendMessage
  <2>10. ASSUME NEW c \in Caller, preHandleOfSend(c) PROVE TypeOK'
    <3> DEFINE m == call[c].msg
    <3>1. m.to \in Dev
      BY ControlAssumption DEF TypeOK, CallState, NoTx
    <3>2. call' \in [Caller -> CallState]
      BY <2>10 DEF TypeOK, CallState, preHandleOfSend, preRouting, preKey, preGiveAddress, preOther
    <3>3. queued' \in [Timers -> Nat] /\ owed' \in Dev \union {NoDev}
      <4>1. CASE preRouting(c, m)
        BY <4>1 DEF preRouting, TypeOK
      <4>2. CASE preKey(c, m)
        BY <4>2, SendTyped, TimersListed DEF preKey, TypeOK
      <4>3. CASE preGiveAddress(c, m)
        BY <4>3, RemoveTyped DEF preGiveAddress, TypeOK
      <4>4. CASE preOther(c, m)
        BY <4>4 DEF preOther, TypeOK
      <4> QED BY <2>10, <4>1, <4>2, <4>3, <4>4 DEF preHandleOfSend
    <3> QED BY <2>10, <3>2, <3>3 DEF TypeOK, preHandleOfSend
  <2>27. ASSUME NEW c \in Caller, askForAddress(c) PROVE TypeOK'
    <3>1. call' \in [Caller -> CallState]
      BY <2>27 DEF TypeOK, CallState, askForAddress
    <3>2. queued' \in [Timers -> Nat] /\ owed' \in Dev
      BY <2>27, SendTyped, TimersListed, ControlAssumption DEF askForAddress, TypeOK
    <3> QED BY <2>27, <3>1, <3>2 DEF TypeOK, askForAddress
  <2>11. ASSUME NEW c \in Caller, sendAndPost(c) PROVE TypeOK'
    <3>1. call' \in [Caller -> CallState]
      BY <2>11 DEF TypeOK, CallState, sendAndPost
    <3>2. mAddedPhyAddrs' \in [Dev -> Addr]
      BY <2>11, ControlAssumption DEF TypeOK, sendAndPost
    <3> QED BY <2>11, <3>1, <3>2 DEF TypeOK, sendAndPost
  <2>12. CASE startCheck
    <3>1. rx' \in RxState
      BY <2>12 DEF TypeOK, startCheck, RxState
    <3> QED BY <2>12, <3>1 DEF TypeOK, startCheck
  <2>13. ASSUME NEW p \in Port, checkPort(p) PROVE TypeOK'
    <3>1. rx' \in RxState
      <4>1. PICK connect \in {(p \in plugged), (p \in rx.prev)} :
              \E to \in {"hotplug", "check"} :
                rx' = [rx EXCEPT !.todo = @ \ {p},
                                 !.prev = IF connect THEN @ \union {p} ELSE @ \ {p},
                                 !.port = p, !.pc = to]
        <5>1. CASE isCecEnabled /\ isCecControlled
          BY <2>13, <5>1, Zenon DEF checkPort
        <5>2. CASE ~(isCecEnabled /\ isCecControlled)
          BY <2>13, <5>2, Zenon DEF checkPort
        <5> QED BY <5>1, <5>2
      <4>2. rx \in RxState
        BY DEF TypeOK
      <4>3. PICK to \in {"hotplug", "check"} :
              rx' = [rx EXCEPT !.todo = @ \ {p},
                               !.prev = IF connect THEN @ \union {p} ELSE @ \ {p},
                               !.port = p, !.pc = to]
        BY <4>1
      <4> QED BY <4>2, <4>3 DEF RxState
    <3>2. hidden' \subseteq Port
      BY <2>13 DEF TypeOK, checkPort
    <3> QED BY <2>13, <3>1, <3>2 DEF TypeOK, checkPort
  <2>14. CASE reportHotplug
    <3>1. rx' \in RxState
      BY <2>14, ReceiverTyped DEF reportHotplug
    <3>2. view' \subseteq Port
      BY <2>14 DEF TypeOK, reportHotplug, RxState
    <3>3. edidOpen' \in BOOLEAN
      BY <2>14 DEF TypeOK, reportHotplug
    <3> QED BY <2>14, <3>1, <3>2, <3>3 DEF TypeOK, reportHotplug
  <2>15. CASE handleHotplug
    <3>1. rx' \in RxState
      BY <2>15, ReceiverTyped DEF handleHotplug
    <3>2. queued' \in [Timers -> Nat] /\ mWaitEdidUpdatedFinished' \in BOOLEAN
      BY <2>15, RemoveTyped, SendTyped, TimersListed DEF TypeOK, handleHotplug
    <3> QED BY <2>15, <3>1, <3>2 DEF TypeOK, handleHotplug
  <2>16. CASE endCheck
    BY <2>16 DEF TypeOK, endCheck, RxState
  <2>17. CASE readNothing
    BY <2>17, ReceiverTyped DEF TypeOK, readNothing
  <2>18. ASSUME NEW m \in RxMsg, readMessage(m) PROVE TypeOK'
    <3>1. rx' \in RxState
      BY <2>18 DEF TypeOK, readMessage, RxState, WakesUp
    <3>2. left' \in [Source -> Nat]
      BY <2>18, SpendTyped DEF readMessage, TypeOK, Source
    <3> QED BY <2>18, <3>1, <3>2 DEF TypeOK, readMessage
  <2>19. CASE messageValidate
    <3>1. rx' \in RxState
      BY <2>19, ReceiverTyped DEF messageValidate
    <3>2. mAddedPhyAddrs' \in [Dev -> Addr]
      BY <2>19, ControlAssumption DEF TypeOK, messageValidate, RxState, NoRx
    <3> QED BY <2>19, <3>1, <3>2 DEF TypeOK, messageValidate
  <2>20. CASE messageHandle
    <3>1. rx' \in RxState
      BY <2>20, ReceiverTyped DEF messageHandle
    <3>2. rx.ev.from \in Dev /\ rx.ev.addr \in Addr
      BY ControlAssumption DEF TypeOK, RxState, NoRx
    <3>3. queued' \in [Timers -> Nat] /\ owed' \in Dev \union {NoDev}
      BY <2>20, <3>2, RemoveTyped, SendTyped, TimersListed DEF TypeOK, messageHandle
    <3> QED BY <2>20, <3>1, <3>3 DEF TypeOK, messageHandle
  <2>21. CASE handleOTPMsg
    <3>1. rx' \in RxState
      BY <2>21 DEF TypeOK, handleOTPMsg, RxState
    <3>2. mActiveLogicalAddr' \in Dev \union {0}
      BY <2>21, ControlAssumption DEF TypeOK, handleOTPMsg, RxState, NoRx
    <3> QED BY <2>21, <3>1, <3>2 DEF TypeOK, handleOTPMsg
  <2>22. CASE supportForEARC
    <3>1. PICK keep \in BOOLEAN : rx' = [rx EXCEPT !.pc = "deliver", !.pass = @ /\ keep]
      BY <2>22, Zenon DEF supportForEARC
    <3>2. rx \in RxState
      BY DEF TypeOK
    <3>3. (rx.pass /\ keep) \in BOOLEAN
      BY Zenon
    <3>4. rx' \in RxState
      BY <3>1, <3>2, <3>3 DEF RxState
    <3> QED BY <2>22, <3>4 DEF TypeOK, supportForEARC
  <2>23. CASE deliver
    BY <2>23, ReceiverTyped DEF TypeOK, deliver
  <2>24. ASSUME NEW p \in Port, plug(p) PROVE TypeOK'
    <3>1. left' \in [Source -> Nat]
      BY <2>24, SpendTyped DEF plug, TypeOK, Source
    <3> QED BY <2>24, <3>1 DEF TypeOK, plug
  <2>25. CASE UNCHANGED vars
    BY <2>25 DEF TypeOK, vars
  <2> QED
    BY <2>1, <2>2, <2>3, <2>4, <2>5, <2>6, <2>7, <2>8, <2>9, <2>10, <2>11, <2>12, <2>13, <2>14,
       <2>15, <2>16, <2>17, <2>18, <2>19, <2>20, <2>21, <2>22, <2>23, <2>24, <2>25, <2>26, <2>27
       DEF Next, Worker, Binder, Receiver
<1> QED BY <1>1, <1>2, PTL DEF Spec
----------------------------------------------------------------------------
(* Removing one type leaves the other messages alone.                      *)
LEMMA RemoveKeeps ==
  ASSUME NEW type, NEW m \in Timers, m.type # type, queued \in [Timers -> Nat], removeMsg(type)
  PROVE  queued'[m] = queued[m]
  BY DEF removeMsg, Without

(* Sending loses nothing, and what is sent is there.                       *)
LEMMA SendKeeps ==
  ASSUME NEW n \in Timers, queued \in [Timers -> Nat], sendMsg(n)
  PROVE  queued'[n] > 0 /\ \A m \in Timers : queued'[m] >= queued[m]
  BY DEF sendMsg

(* The caller between removeMsg and sendMsg keeps mLock, whatever the      *)
(* other callers do, and another one comes there only without it.          *)
LEMMA AskerKept ==
  ASSUME TypeOK, NEW c \in Caller, call[c].pc # "ask",
         \A d \in Caller : d # c => call'[d] = call[d]
  PROVE  Asking => Asking'
  BY DEF Asking

LEMMA NoNewAsker ==
  ASSUME \A c \in Caller : call'[c].pc = "ask" => call[c].pc = "ask"
  PROVE  Asking' => Asking
  BY DEF Asking

(* Removing keeps what the three invariants are about only if it is        *)
(* another type; the types of the messages they are about differ.          *)
LEMMA TypesDiffer ==
  /\ OtpTimeout.type = "otp" /\ EdidTimeout.type = "edid"
  /\ \A d \in Dev : GiveAddress(d).type = "giveAddress" /\ TurnOn(d).type = "turnOn"
  /\ \A d \in Dev \union {0} : Key(d).type = "key"
  /\ \A a \in Addr : SetStreamPath(a).type = "setStreamPath"
  /\ NoTimer.type = "none"
  BY DEF OtpTimeout, EdidTimeout, GiveAddress, TurnOn, Key, SetStreamPath, NoTimer, Timer

Waiting == OtpFilterHasTimeout /\ EdidWaitHasTimeout /\ OwedAddressIsAsked

(* A step that loses no message and begins no wait keeps the invariants.   *)
LEMMA NothingLost ==
  ASSUME TypeOK, Waiting, queued' \in [Timers -> Nat],
         \A m \in Timers : queued'[m] >= queued[m],
         hand' = hand, switching' = switching, Asking => Asking',
         mFilterOtpEnabled' = mFilterOtpEnabled,
         mWaitEdidUpdatedFinished' = mWaitEdidUpdatedFinished,
         owed' = owed,
         rx'.pc = rx.pc \/ rx.pc \notin {"edidRemove", "edidSend", "askSend"}
  PROVE  Waiting'
<1> /\ queued'[OtpTimeout] >= queued[OtpTimeout]
    /\ queued'[EdidTimeout] >= queued[EdidTimeout]
    /\ \A d \in Dev : queued'[GiveAddress(d)] >= queued[GiveAddress(d)]
    /\ queued[OtpTimeout] \in Nat /\ queued'[OtpTimeout] \in Nat
    /\ queued[EdidTimeout] \in Nat /\ queued'[EdidTimeout] \in Nat
    /\ \A d \in Dev : queued[GiveAddress(d)] \in Nat /\ queued'[GiveAddress(d)] \in Nat
    /\ owed # NoDev => owed \in Dev
  BY TimersListed DEF TypeOK
<1>1. OtpFilterHasTimeout'
  BY SMT DEF Waiting, OtpFilterHasTimeout
<1>2. EdidWaitHasTimeout'
  BY SMT DEF Waiting, EdidWaitHasTimeout
<1>3. OwedAddressIsAsked'
  BY SMT DEF Waiting, OwedAddressIsAsked
<1> QED BY <1>1, <1>2, <1>3 DEF Waiting

(* The same for a step of a thread that makes no call of the library.      *)
LEMMA NoCallLost ==
  ASSUME TypeOK, Waiting, queued' = queued, call' = call,
         hand' = hand, switching' = switching,
         mFilterOtpEnabled' = mFilterOtpEnabled,
         mWaitEdidUpdatedFinished' = mWaitEdidUpdatedFinished,
         owed' = owed,
         rx'.pc = rx.pc \/ rx.pc \notin {"edidRemove", "edidSend", "askSend"}
  PROVE  Waiting'
<1>1. queued' \in [Timers -> Nat] /\ \A m \in Timers : queued'[m] >= queued[m]
  BY DEF TypeOK
<1>2. Asking => Asking'
  BY DEF Asking
<1> QED BY <1>1, <1>2, NothingLost

(* No wait is left without its timeout, and no promised request without    *)
(* one to be sent, whoever runs in between (notify, handleHotplug,         *)
(* preHandleOfSend, messageValidateAndHandle).                             *)
LEMMA WaitingStep ==
  TypeOK /\ TypeOK' /\ Waiting /\ [Next]_vars => Waiting'
<1> SUFFICES ASSUME TypeOK, TypeOK', Waiting, [Next]_vars PROVE Waiting'
  OBVIOUS
<1> USE DEF flags, otp, queue, status, history
<1>q. queued \in [Timers -> Nat] /\ queued' \in [Timers -> Nat]
  BY DEF TypeOK
<1>r. rx \in RxState
  BY DEF TypeOK
<1>o. owed # NoDev => owed \in Dev
  BY DEF TypeOK
<1>a. call' = call => (Asking' <=> Asking)
  BY DEF Asking
<1>1. ASSUME NEW m \in Timers, take(m) PROVE Waiting'
  <2>1. \A n \in Timers : n # m => queued'[n] = queued[n]
    BY <1>1, <1>q DEF take
  <2>2. OtpFilterHasTimeout'
    BY <1>1, <2>1, TimersListed, TypesDiffer DEF take, Waiting, OtpFilterHasTimeout
  <2>3. EdidWaitHasTimeout'
    BY <1>1, <2>1, TimersListed, TypesDiffer DEF take, Waiting, EdidWaitHasTimeout
  <2>4. OwedAddressIsAsked'
    BY <1>1, <1>o, <1>a, <2>1, TimersListed, TypesDiffer DEF take, Waiting, OwedAddressIsAsked
  <2> QED BY <2>2, <2>3, <2>4 DEF Waiting
<1>2. CASE handleOtpTimeout
  <2>1. OtpFilterHasTimeout'
    BY <1>2 DEF handleOtpTimeout, OtpFilterHasTimeout
  <2>2. EdidWaitHasTimeout'
    BY <1>2, TypesDiffer DEF handleOtpTimeout, Waiting, EdidWaitHasTimeout
  <2>3. OwedAddressIsAsked'
    BY <1>2, <1>o, <1>a, TypesDiffer DEF handleOtpTimeout, Waiting, OwedAddressIsAsked
  <2> QED BY <2>1, <2>2, <2>3 DEF Waiting
<1>3. CASE handleEdidTimeout
  <2>1. OtpFilterHasTimeout'
    BY <1>3, TypesDiffer DEF handleEdidTimeout, Waiting, OtpFilterHasTimeout
  <2>2. EdidWaitHasTimeout'
    BY <1>3 DEF handleEdidTimeout, EdidWaitHasTimeout
  <2>3. OwedAddressIsAsked'
    BY <1>3, <1>o, <1>a, TypesDiffer DEF handleEdidTimeout, Waiting, OwedAddressIsAsked
  <2> QED BY <2>1, <2>2, <2>3 DEF Waiting
<1>4. CASE handleSend
  <2>1. OtpFilterHasTimeout'
    BY <1>4 DEF handleSend, Waiting, OtpFilterHasTimeout
  <2>2. EdidWaitHasTimeout'
    BY <1>4 DEF handleSend, Waiting, EdidWaitHasTimeout
  <2>3. OwedAddressIsAsked'
    <3>1. UNCHANGED <<queued, rx>> /\ (Asking' <=> Asking)
      BY <1>4, <1>a DEF handleSend
    <3>2. owed' # NoDev => owed' = owed /\ (hand = GiveAddress(owed) => queued[hand] # 0)
      BY <1>4, Zenon DEF handleSend
    <3>3. owed' # NoDev => queued[GiveAddress(owed)] \in Nat
      BY <1>o, <1>q, <3>2, TimersListed
    <3> QED BY <3>1, <3>2, <3>3 DEF Waiting, OwedAddressIsAsked
  <2> QED BY <2>1, <2>2, <2>3 DEF Waiting
<1>5. ASSUME NEW d \in DeviceId, notifyRemove(d) PROVE Waiting'
  <2>1. /\ queued'[EdidTimeout] = queued[EdidTimeout]
        /\ \A e \in Dev : queued'[GiveAddress(e)] = queued[GiveAddress(e)]
    BY <1>5, <1>q, RemoveKeeps, TimersListed, TypesDiffer DEF notifyRemove
  <2>2. OtpFilterHasTimeout'
    BY <1>5, ControlAssumption DEF notifyRemove, OtpFilterHasTimeout, DeviceId, NoSwitch
  <2>3. EdidWaitHasTimeout'
    BY <1>5, <2>1 DEF notifyRemove, Waiting, EdidWaitHasTimeout
  <2>4. OwedAddressIsAsked'
    BY <1>5, <1>o, <1>a, <2>1 DEF notifyRemove, Waiting, OwedAddressIsAsked
  <2> QED BY <2>2, <2>3, <2>4 DEF Waiting
<1>26. CASE notifySend
  <2>1. rx'.pc = rx.pc
    BY <1>26, <1>r DEF notifySend, RxState
  <2>2. \A m \in Timers : m.type # "otp" => queued'[m] = queued[m]
    BY <1>26, <1>q, SendKeeps, TimersListed, TypesDiffer DEF notifySend, sendMsg
  <2>3. OtpFilterHasTimeout'
    BY <1>26, <1>q, SendKeeps, TimersListed DEF notifySend, OtpFilterHasTimeout
  <2>4. EdidWaitHasTimeout'
    BY <1>26, <2>1, <2>2, TimersListed, TypesDiffer DEF notifySend, Waiting, EdidWaitHasTimeout
  <2>5. OwedAddressIsAsked'
    BY <1>26, <1>o, <1>a, <2>1, <2>2, TimersListed, TypesDiffer
       DEF notifySend, Waiting, OwedAddressIsAsked
  <2> QED BY <2>3, <2>4, <2>5 DEF Waiting
<1>6. ASSUME NEW v \in BOOLEAN, setEnableCec(v) PROVE Waiting'
  BY <1>6, NoCallLost DEF setEnableCec
<1>7. ASSUME NEW v \in BOOLEAN, setSystemCecControl(v) PROVE Waiting'
  <2>1. rx'.pc = rx.pc
    BY <1>7, <1>r DEF setSystemCecControl, RxState
  <2> QED BY <1>7, <2>1, NoCallLost DEF setSystemCecControl
<1>8. CASE getPortInfos
  BY <1>8, NoCallLost DEF getPortInfos
<1>9. ASSUME NEW c \in Caller, NEW m \in TxMsg, sendMessage(c, m) PROVE Waiting'
  <2>1. Asking => Asking'
    BY <1>9, AskerKept DEF sendMessage, TypeOK
  <2>2. \A t \in Timers : queued'[t] >= queued[t]
    BY <1>9, <1>q DEF sendMessage
  <2> QED BY <1>9, <1>q, <2>1, <2>2, NothingLost DEF sendMessage
<1>10. ASSUME NEW c \in Caller, preHandleOfSend(c) PROVE Waiting'
  <2> DEFINE m == call[c].msg
  <2>1. UNCHANGED <<hand, rx, mFilterOtpEnabled, mWaitEdidUpdatedFinished, switching>>
    BY <1>10 DEF preHandleOfSend
  <2>6. Asking => Asking'
    BY <1>10, AskerKept
       DEF preHandleOfSend, preRouting, preKey, preGiveAddress, preOther, TypeOK
  <2>2. CASE preRouting(c, m)
    <3>1. \A t \in Timers : queued'[t] >= queued[t]
      BY <2>2, <1>q DEF preRouting
    <3> QED BY <2>1, <2>2, <2>6, <3>1, <1>q, NothingLost DEF preRouting
  <2>3. CASE preKey(c, m)
    <3>1. \A t \in Timers : queued'[t] >= queued[t]
      BY <2>3, <1>q, SendKeeps, TimersListed DEF preKey, TypeOK
    <3> QED BY <2>1, <2>3, <2>6, <3>1, <1>q, NothingLost DEF preKey
  <2>4. CASE preGiveAddress(c, m)
    <3>1. CASE mWaitEdidUpdatedFinished
      <4>1. queued' = queued /\ owed' = owed
        BY <2>4, <3>1 DEF preGiveAddress
      <4> QED BY <1>q, <2>1, <2>6, <4>1, NothingLost
    <3>2. CASE ~mWaitEdidUpdatedFinished
      <4>1. /\ queued'[OtpTimeout] = queued[OtpTimeout]
            /\ queued'[EdidTimeout] = queued[EdidTimeout]
        BY <2>4, <3>2, <1>q, RemoveKeeps, TimersListed, TypesDiffer DEF preGiveAddress
      <4>2. Asking'
        BY <2>4, <3>2 DEF preGiveAddress, Asking, TypeOK
      <4>3. OtpFilterHasTimeout'
        BY <2>1, <4>1 DEF Waiting, OtpFilterHasTimeout
      <4>4. EdidWaitHasTimeout'
        BY <2>1, <4>1 DEF Waiting, EdidWaitHasTimeout
      <4>5. OwedAddressIsAsked'
        BY <4>2 DEF OwedAddressIsAsked
      <4> QED BY <4>3, <4>4, <4>5 DEF Waiting
    <3> QED BY <3>1, <3>2
  <2>5. CASE preOther(c, m)
    <3>1. queued' = queued /\ owed' = owed
      BY <2>5 DEF preOther
    <3> QED BY <1>q, <2>1, <2>6, <3>1, NothingLost
  <2> QED BY <1>10, <2>2, <2>3, <2>4, <2>5 DEF preHandleOfSend
<1>27. ASSUME NEW c \in Caller, askForAddress(c) PROVE Waiting'
  <2>1. /\ queued'[GiveAddress(Avr)] > 0
        /\ queued'[OtpTimeout] = queued[OtpTimeout]
        /\ queued'[EdidTimeout] = queued[EdidTimeout]
    BY <1>27, <1>q, ControlAssumption, SendKeeps, TimersListed, TypesDiffer
       DEF askForAddress, sendMsg
  <2>2. OtpFilterHasTimeout'
    BY <1>27, <2>1 DEF askForAddress, Waiting, OtpFilterHasTimeout
  <2>3. EdidWaitHasTimeout'
    BY <1>27, <2>1 DEF askForAddress, Waiting, EdidWaitHasTimeout
  <2>4. OwedAddressIsAsked'
    BY <1>27, <2>1 DEF askForAddress, OwedAddressIsAsked
  <2> QED BY <2>2, <2>3, <2>4 DEF Waiting
<1>11. ASSUME NEW c \in Caller, sendAndPost(c) PROVE Waiting'
  <2>1. Asking => Asking'
    BY <1>11, AskerKept DEF sendAndPost, TypeOK
  <2>2. queued' = queued /\ owed' = owed
    BY <1>11 DEF sendAndPost
  <2> QED BY <1>11, <1>q, <2>1, <2>2, NothingLost DEF sendAndPost
<1>12. CASE startCheck
  BY <1>12, NoCallLost DEF startCheck
<1>13. ASSUME NEW p \in Port, checkPort(p) PROVE Waiting'
  BY <1>13, NoCallLost DEF checkPort
<1>14. CASE reportHotplug
  BY <1>14, NoCallLost DEF reportHotplug
<1>15. CASE handleHotplug
  <2>1. CASE rx.pc = "edidLock"
    <3>1. rx'.pc = "edidRemove"
      BY <1>15, <2>1, <1>r DEF handleHotplug, rxGo, RxState
    <3>2. OtpFilterHasTimeout'
      BY <1>15, <2>1 DEF handleHotplug, Waiting, OtpFilterHasTimeout
    <3>3. OwedAddressIsAsked'
      BY <1>15, <1>a, <2>1, <3>1 DEF handleHotplug, Waiting, OwedAddressIsAsked
    <3> QED BY <3>1, <3>2, <3>3 DEF Waiting, EdidWaitHasTimeout
  <2>2. CASE rx.pc = "edidRemove"
    <3>1. rx'.pc = "edidSend"
      BY <1>15, <2>2, <1>r DEF handleHotplug, rxGo, RxState
    <3>2. /\ queued'[OtpTimeout] = queued[OtpTimeout]
          /\ \A e \in Dev : queued'[GiveAddress(e)] = queued[GiveAddress(e)]
      BY <1>15, <2>2, <1>q, RemoveKeeps, TimersListed, TypesDiffer DEF handleHotplug
    <3>3. OtpFilterHasTimeout'
      BY <1>15, <3>2 DEF handleHotplug, Waiting, OtpFilterHasTimeout
    <3>4. OwedAddressIsAsked'
      BY <1>15, <1>o, <1>a, <2>2, <3>1, <3>2 DEF handleHotplug, Waiting, OwedAddressIsAsked
    <3> QED BY <3>1, <3>3, <3>4 DEF Waiting, EdidWaitHasTimeout
  <2>3. CASE rx.pc = "edidSend"
    <3>1. /\ queued'[EdidTimeout] > 0
          /\ queued'[OtpTimeout] >= queued[OtpTimeout]
          /\ \A e \in Dev : queued'[GiveAddress(e)] >= queued[GiveAddress(e)]
          /\ queued[OtpTimeout] \in Nat /\ queued'[OtpTimeout] \in Nat
          /\ \A e \in Dev : queued[GiveAddress(e)] \in Nat /\ queued'[GiveAddress(e)] \in Nat
      BY <1>15, <2>3, <1>q, SendKeeps, TimersListed DEF handleHotplug
    <3>2. OtpFilterHasTimeout'
      BY <1>15, <3>1, SMT DEF handleHotplug, Waiting, OtpFilterHasTimeout
    <3>3. OwedAddressIsAsked'
      BY <1>15, <1>o, <1>a, <2>3, <3>1, SMT DEF handleHotplug, Waiting, OwedAddressIsAsked
    <3> QED BY <3>1, <3>2, <3>3 DEF Waiting, EdidWaitHasTimeout
  <2> QED BY <1>15, <2>1, <2>2, <2>3 DEF handleHotplug
<1>16. CASE endCheck
  BY <1>16, NoCallLost DEF endCheck
<1>17. CASE readNothing
  BY <1>17, NoCallLost DEF readNothing
<1>18. ASSUME NEW m \in RxMsg, readMessage(m) PROVE Waiting'
  BY <1>18, NoCallLost DEF readMessage
<1>19. CASE messageValidate
  BY <1>19, NoCallLost DEF messageValidate
<1>20. CASE messageHandle
  <2>1. UNCHANGED <<hand, mFilterOtpEnabled, mWaitEdidUpdatedFinished, switching, call>>
    BY <1>20 DEF messageHandle
  <2>2. rx.ev.from \in Dev /\ rx.ev.addr \in Addr
    BY ControlAssumption, <1>r DEF RxState, NoRx
  <2>3. CASE rx.pc \in {"askRemove", "pathRemove"}
    <3>1. /\ queued'[OtpTimeout] = queued[OtpTimeout]
          /\ queued'[EdidTimeout] = queued[EdidTimeout]
          /\ rx.pc = "pathRemove" =>
               \A e \in Dev : queued'[GiveAddress(e)] = queued[GiveAddress(e)]
      BY <1>20, <2>3, <1>q, RemoveKeeps, TimersListed, TypesDiffer DEF messageHandle
    <3>2. rx.pc = "askRemove" => rx'.pc = "askSend"
      BY <1>20, <1>r DEF messageHandle, rxGo, RxState
    <3>3. OtpFilterHasTimeout'
      BY <2>1, <3>1 DEF Waiting, OtpFilterHasTimeout
    <3>4. EdidWaitHasTimeout'
      BY <2>1, <2>3, <3>1 DEF Waiting, EdidWaitHasTimeout
    <3>5. OwedAddressIsAsked'
      <4>1. CASE rx.pc = "askRemove"
        BY <3>2, <4>1 DEF OwedAddressIsAsked
      <4>2. CASE rx.pc = "pathRemove"
        BY <1>20, <1>o, <1>a, <2>1, <3>1, <4>2 DEF messageHandle, Waiting, OwedAddressIsAsked
      <4> QED BY <2>3, <4>1, <4>2
    <3> QED BY <3>3, <3>4, <3>5 DEF Waiting
  <2>4. CASE rx.pc = "askSend"
    <3>1. queued'[GiveAddress(rx.ev.from)] > 0 /\ \A t \in Timers : queued'[t] >= queued[t]
      BY <1>20, <2>2, <2>4, <1>q, SendKeeps, TimersListed DEF messageHandle
    <3>2. /\ queued'[OtpTimeout] >= queued[OtpTimeout]
          /\ queued'[EdidTimeout] >= queued[EdidTimeout]
          /\ queued[OtpTimeout] \in Nat /\ queued'[OtpTimeout] \in Nat
          /\ queued[EdidTimeout] \in Nat /\ queued'[EdidTimeout] \in Nat
      BY <3>1, <1>q, TimersListed
    <3>3. OtpFilterHasTimeout'
      BY <2>1, <3>2, SMT DEF Waiting, OtpFilterHasTimeout
    <3>4. EdidWaitHasTimeout'
      BY <2>1, <2>4, <3>2, SMT DEF Waiting, EdidWaitHasTimeout
    <3>5. OwedAddressIsAsked'
      BY <1>20, <2>4, <3>1 DEF messageHandle, OwedAddressIsAsked
    <3> QED BY <3>3, <3>4, <3>5 DEF Waiting
  <2>5. CASE rx.pc = "pathSend"
    <3>1. \A t \in Timers : queued'[t] >= queued[t]
      BY <1>20, <2>2, <2>5, <1>q, SendKeeps, TimersListed DEF messageHandle
    <3>2. owed' = owed
      BY <1>20, <2>5 DEF messageHandle
    <3> QED BY <1>a, <2>1, <2>5, <3>1, <3>2, <1>q, NothingLost
  <2> QED BY <1>20, <2>3, <2>4, <2>5 DEF messageHandle
<1>21. CASE handleOTPMsg
  BY <1>21, NoCallLost DEF handleOTPMsg
<1>22. CASE supportForEARC
  BY <1>22, NoCallLost DEF supportForEARC
<1>23. CASE deliver
  BY <1>23, NoCallLost DEF deliver
<1>24. ASSUME NEW p \in Port, plug(p) PROVE Waiting'
  BY <1>24, NoCallLost DEF plug
<1>25. CASE UNCHANGED vars
  BY <1>25, NoCallLost DEF vars
<1> QED
  BY <1>1, <1>2, <1>3, <1>4, <1>5, <1>6, <1>7, <1>8, <1>9, <1>10, <1>11, <1>12, <1>13, <1>14,
     <1>15, <1>16, <1>17, <1>18, <1>19, <1>20, <1>21, <1>22, <1>23, <1>24, <1>25,
     <1>26, <1>27
     DEF Next, Worker, Binder, Receiver

(* The three together, from the initial state on.                          *)
LEMMA WaitingInvariant == Spec => []Waiting
<1>1. Init => Waiting
  BY DEF Init, Waiting, OtpFilterHasTimeout, EdidWaitHasTimeout, OwedAddressIsAsked
<1> QED BY <1>1, WaitingStep, TypeCorrect, PTL DEF Spec

(* A filter never stays on without its timeout (notify, lines 134-138).    *)
THEOREM OtpFilterAlwaysEnds == Spec => []OtpFilterHasTimeout
<1>1. Waiting => OtpFilterHasTimeout
  BY DEF Waiting
<1> QED BY <1>1, WaitingInvariant, PTL

(* Nor a wait for an EDID, although its timeout is replaced without mLock  *)
(* (handleHotplug, lines 563-569).                                         *)
THEOREM EdidWaitAlwaysEnds == Spec => []EdidWaitHasTimeout
<1>1. Waiting => EdidWaitHasTimeout
  BY DEF Waiting
<1> QED BY <1>1, WaitingInvariant, PTL

(* The request for the address of the device put off last is dropped only  *)
(* by a receiver or binder thread that is about to send its own, although  *)
(* each removes without the other's lock (lines 463-464 and 1004-1005).    *)
THEOREM AddressRequestKept == Spec => []OwedAddressIsAsked
<1>1. Waiting => OwedAddressIsAsked
  BY DEF Waiting
<1> QED BY <1>1, WaitingInvariant, PTL

----------------------------------------------------------------------------
(* The invariants about what the receiver passes on.                       *)

(* What is passed on was read; see UncontrolledOnlyWakes.                  *)
WakeInv == (rx.pass => rx.ev # NoRx) /\ UncontrolledOnlyWakes

(* What the filter let pass while it was on comes from the input that was  *)
(* selected then, and is in the table of ports.                            *)
FilterInv ==
  rx.pc \in {"earc", "deliver"} /\ rx.pass /\ rx.ev.op = "ActiveSource" /\ mFilterOtpEnabled =>
    rx.moved \/ (mTotalPort /\ mSelectedDeviceId = InputOf(rx.ev.addr))

(* A step that hands nothing new to the framework, and leaves the option   *)
(* alone, keeps WakeInv.                                                   *)
LEMMA NothingPassed ==
  ASSUME WakeInv, rx'.pass => rx.pass, rx'.ev = rx.ev, rx'.option = rx.option,
         isCecControlled' = isCecControlled
  PROVE  WakeInv'
  BY DEF WakeInv, UncontrolledOnlyWakes, WakesUp

(* With control given up nothing but a wake-up is read as an event         *)
(* (threadLoop, setOption).                                                *)
LEMMA WakeStep ==
  TypeOK /\ WakeInv /\ [Next]_vars => WakeInv'
<1> SUFFICES ASSUME TypeOK, WakeInv, [Next]_vars PROVE WakeInv'
  OBVIOUS
<1> USE DEF flags, otp, queue, status, history
<1>r. rx \in RxState
  BY DEF TypeOK
<1>1. CASE UNCHANGED <<rx, isCecControlled>>
  BY <1>1 DEF WakeInv, UncontrolledOnlyWakes, WakesUp
<1>2. CASE Worker
  BY <1>1, <1>2 DEF Worker, take, handleOtpTimeout, handleEdidTimeout, handleSend
<1>3. ASSUME NEW d \in DeviceId, notifyRemove(d) PROVE WakeInv'
  BY <1>1, <1>3 DEF notifyRemove
<1>21. CASE notifySend
  BY <1>21, <1>r, NothingPassed DEF notifySend, RxState
<1>4. ASSUME NEW v \in BOOLEAN, setSystemCecControl(v) PROVE WakeInv'
  <2>1. /\ rx'.ev = rx.ev /\ rx'.pass = rx.pass
        /\ rx'.option = (rx.ev # NoRx)
    BY <1>4, <1>r DEF setSystemCecControl, RxState
  <2> QED BY <2>1 DEF WakeInv, UncontrolledOnlyWakes, WakesUp
<1>5. ASSUME NEW v \in BOOLEAN, setEnableCec(v) PROVE WakeInv'
  BY <1>1, <1>5 DEF setEnableCec
<1>6. CASE getPortInfos
  BY <1>1, <1>6 DEF getPortInfos
<1>7. ASSUME NEW c \in Caller,
             \/ (\E m \in TxMsg : sendMessage(c, m)) \/ preHandleOfSend(c)
             \/ askForAddress(c) \/ sendAndPost(c)
      PROVE WakeInv'
  BY <1>1, <1>7 DEF sendMessage, preHandleOfSend, askForAddress, sendAndPost
<1>8. CASE startCheck
  BY <1>8, <1>r, NothingPassed DEF startCheck, RxState
<1>9. ASSUME NEW p \in Port, checkPort(p) PROVE WakeInv'
  <2>1. rx'.pass = rx.pass /\ rx'.ev = rx.ev /\ rx'.option = rx.option
    BY <1>9, <1>r DEF checkPort, RxState
  <2> QED BY <1>9, <2>1, NothingPassed DEF checkPort
<1>10. CASE reportHotplug
  BY <1>10, <1>r, NothingPassed DEF reportHotplug, rxGo, RxState
<1>11. CASE handleHotplug
  BY <1>11, <1>r, NothingPassed DEF handleHotplug, rxGo, RxState
<1>12. CASE endCheck \/ readNothing
  BY <1>12, <1>r, NothingPassed DEF endCheck, readNothing, rxGo, RxState
<1>13. ASSUME NEW m \in RxMsg, readMessage(m) PROVE WakeInv'
  <2>1. m # NoRx
    BY ControlAssumption DEF NoRx
  <2>2. /\ rx'.ev = m /\ rx'.option = FALSE
        /\ rx'.pass => isCecControlled \/ WakesUp(m)
    BY <1>13, <1>r DEF readMessage, RxState
  <2>3. isCecControlled' = isCecControlled
    BY <1>13 DEF readMessage
  <2> QED BY <2>1, <2>2, <2>3 DEF WakeInv, UncontrolledOnlyWakes, WakesUp
<1>14. CASE messageValidate
  <2>1. rx'.pass = rx.pass /\ rx'.ev = rx.ev /\ rx'.option = rx.option
    BY <1>14, <1>r DEF messageValidate, rxGo, RxState
  <2> QED BY <1>14, <2>1, NothingPassed DEF messageValidate
<1>15. CASE messageHandle
  <2>1. (rx'.pass => rx.pass) /\ rx'.ev = rx.ev /\ rx'.option = rx.option
    BY <1>15, <1>r DEF messageHandle, rxGo, RxState
  <2> QED BY <1>15, <2>1, NothingPassed DEF messageHandle
<1>16. CASE handleOTPMsg
  <2>1. (rx'.pass => rx.pass) /\ rx'.ev = rx.ev /\ rx'.option = rx.option
    BY <1>16, <1>r DEF handleOTPMsg, RxState
  <2> QED BY <1>16, <2>1, NothingPassed DEF handleOTPMsg
<1>20. CASE supportForEARC
  <2>1. (rx'.pass => rx.pass) /\ rx'.ev = rx.ev /\ rx'.option = rx.option
    BY <1>20, <1>r DEF supportForEARC, RxState
  <2> QED BY <1>20, <2>1, NothingPassed DEF supportForEARC
<1>17. CASE deliver
  BY <1>17, <1>r DEF deliver, RxState, WakeInv, UncontrolledOnlyWakes
<1>18. ASSUME NEW p \in Port, plug(p) PROVE WakeInv'
  BY <1>1, <1>18 DEF plug
<1>19. CASE UNCHANGED vars
  BY <1>1, <1>19 DEF vars
<1> QED
  BY <1>2, <1>3, <1>4, <1>5, <1>6, <1>7, <1>8, <1>9, <1>10, <1>11, <1>12, <1>13, <1>14, <1>15,
     <1>16, <1>17, <1>18, <1>19, <1>20, <1>21 DEF Next, Binder, Receiver

(* A framework that has given up control is only woken up, or gets what    *)
(* was read before (setOption, threadLoop).                                *)
THEOREM OnlyWakesWithoutControl == Spec => []UncontrolledOnlyWakes
<1>1. Init => WakeInv
  BY DEF Init, WakeInv, UncontrolledOnlyWakes
<1>2. WakeInv => UncontrolledOnlyWakes
  BY DEF WakeInv
<1> QED BY <1>1, <1>2, WakeStep, TypeCorrect, PTL DEF Spec

(* A step that leaves the filter, the table of ports and what the receiver *)
(* holds alone keeps FilterInv.                                            *)
LEMMA NothingFiltered ==
  ASSUME FilterInv, rx'.pass => rx.pass, rx'.ev = rx.ev, rx'.moved = rx.moved,
         rx'.pc \in {"earc", "deliver"} => rx.pc \in {"earc", "deliver"},
         mFilterOtpEnabled' => mFilterOtpEnabled,
         mSelectedDeviceId' = mSelectedDeviceId, mTotalPort' = mTotalPort
  PROVE  FilterInv'
  BY DEF FilterInv, InputOf

(* handleOTPMsg tests the input under mLock; what it let pass stays right  *)
(* until notify selects another one, also when getPortInfos fills the      *)
(* table in between.                                                       *)
LEMMA FilterStep ==
  TypeOK /\ FilterInv /\ [Next]_vars => FilterInv'
<1> SUFFICES ASSUME TypeOK, FilterInv, [Next]_vars PROVE FilterInv'
  OBVIOUS
<1> USE DEF flags, otp, queue, status, history
<1>r. rx \in RxState
  BY DEF TypeOK
<1>1. CASE /\ UNCHANGED <<rx, mSelectedDeviceId, mTotalPort>>
           /\ mFilterOtpEnabled' => mFilterOtpEnabled
  BY <1>1, NothingFiltered
<1>2. CASE Worker
  BY <1>1, <1>2 DEF Worker, take, handleOtpTimeout, handleEdidTimeout, handleSend
<1>17. ASSUME NEW d \in DeviceId, notifyRemove(d) PROVE FilterInv'
  BY <1>1, <1>17 DEF notifyRemove
<1>3. CASE notifySend
  <2>1. rx'.pc = rx.pc /\ (rx.pc \in {"earc", "deliver"} => rx'.moved)
    BY <1>3, <1>r DEF notifySend, RxState
  <2> QED BY <2>1 DEF FilterInv
<1>4. ASSUME NEW v \in BOOLEAN, setSystemCecControl(v) PROVE FilterInv'
  <2>1. rx'.pc = rx.pc /\ rx'.pass = rx.pass /\ rx'.ev = rx.ev /\ rx'.moved = rx.moved
    BY <1>4, <1>r DEF setSystemCecControl, RxState
  <2> QED BY <1>4, <2>1, NothingFiltered DEF setSystemCecControl
<1>5. ASSUME NEW v \in BOOLEAN, setEnableCec(v) PROVE FilterInv'
  BY <1>1, <1>5 DEF setEnableCec
<1>6. CASE getPortInfos
  BY <1>6 DEF getPortInfos, FilterInv
<1>7. ASSUME NEW c \in Caller,
             \/ (\E m \in TxMsg : sendMessage(c, m)) \/ preHandleOfSend(c)
             \/ askForAddress(c) \/ sendAndPost(c)
      PROVE FilterInv'
  BY <1>1, <1>7 DEF sendMessage, preHandleOfSend, askForAddress, sendAndPost
<1>8. CASE startCheck \/ endCheck \/ readNothing
  <2>1. rx'.pc \notin {"earc", "deliver"}
    BY <1>8, <1>r DEF startCheck, endCheck, readNothing, rxGo, RxState
  <2> QED BY <2>1 DEF FilterInv
<1>9. ASSUME NEW p \in Port, checkPort(p) PROVE FilterInv'
  <2>1. rx'.pc \notin {"earc", "deliver"}
    BY <1>9, <1>r DEF checkPort, RxState
  <2> QED BY <2>1 DEF FilterInv
<1>10. CASE reportHotplug \/ handleHotplug
  <2>1. rx'.pc \notin {"earc", "deliver"}
    BY <1>10, <1>r DEF reportHotplug, handleHotplug, rxGo, RxState
  <2> QED BY <2>1 DEF FilterInv
<1>11. ASSUME NEW m \in RxMsg, readMessage(m) PROVE FilterInv'
  <2>1. rx'.pc \notin {"earc", "deliver"}
    BY <1>11, <1>r DEF readMessage, RxState
  <2> QED BY <2>1 DEF FilterInv
<1>12. CASE messageValidate \/ messageHandle \/ deliver
  <2>1. rx'.pc \notin {"earc", "deliver"}
    BY <1>12, <1>r DEF messageValidate, messageHandle, deliver, rxGo, RxState
  <2> QED BY <2>1 DEF FilterInv
<1>13. CASE handleOTPMsg
  <2>1. rx'.ev = rx.ev /\ (rx'.pass => ~Filtered(rx.ev))
    BY <1>13, <1>r DEF handleOTPMsg, RxState
  <2>2. UNCHANGED <<mFilterOtpEnabled, mSelectedDeviceId, mTotalPort>>
    BY <1>13 DEF handleOTPMsg
  <2>3. mSelectedDeviceId # 4
    BY ControlAssumption DEF TypeOK, DeviceId
  <2>4. rx.ev.op = "ActiveSource" /\ mFilterOtpEnabled /\ ~Filtered(rx.ev)
          => mTotalPort /\ mSelectedDeviceId = InputOf(rx.ev.addr)
    BY <2>3 DEF Filtered, InputOf
  <2> QED BY <2>1, <2>2, <2>4 DEF FilterInv, InputOf
<1>14. CASE supportForEARC
  <2>1. /\ rx.pc = "earc" /\ rx'.ev = rx.ev /\ rx'.moved = rx.moved
        /\ rx'.pass => rx.pass
    BY <1>14, <1>r DEF supportForEARC, RxState
  <2> QED BY <1>14, <2>1, NothingFiltered DEF supportForEARC
<1>15. ASSUME NEW p \in Port, plug(p) PROVE FilterInv'
  BY <1>1, <1>15 DEF plug
<1>16. CASE UNCHANGED vars
  BY <1>1, <1>16 DEF vars
<1> QED
  BY <1>2, <1>3, <1>4, <1>5, <1>6, <1>7, <1>8, <1>9, <1>10, <1>11, <1>12, <1>13, <1>14, <1>15,
     <1>16, <1>17 DEF Next, Binder, Receiver

(* Within the filter an <Active Source> of another input reaches the       *)
(* framework only if the source was switched after the test                *)
(* (handleOTPMsg, notify).                                                 *)
THEOREM FilterAlwaysHoldsUpToSwitch == Spec => []FilterHoldsUpToSwitch
<1>1. Init => FilterInv
  BY DEF Init, FilterInv
<1>2. FilterInv => FilterHoldsUpToSwitch
  BY DEF FilterInv, FilterHoldsUpToSwitch
<1> QED BY <1>1, <1>2, FilterStep, TypeCorrect, PTL DEF Spec

(* The port statuses in use: those of the running scan, or those saved.    *)
Scanning == rx.pc \in {"check", "hotplug", "edidLock", "edidRemove", "edidSend"}
Believed == IF Scanning THEN rx.prev ELSE mConnectStatus

(* A step that reports nothing and leaves the statuses alone keeps the     *)
(* framework's view right.                                                 *)
LEMMA NothingReported ==
  ASSUME ViewFollowsStatus, Believed' = Believed, view' = view, hidden' = hidden,
         (rx.pc = "hotplug") = (rx'.pc = "hotplug"), rx'.port = rx.port
  PROVE  ViewFollowsStatus'
  BY DEF ViewFollowsStatus, Believed, Scanning

(* checkConnectStatus reports a change before it saves the new status, and *)
(* saves it before it reads the bus (lines 597-656).                       *)
LEMMA ViewStep ==
  TypeOK /\ ViewFollowsStatus /\ [Next]_vars => ViewFollowsStatus'
<1> SUFFICES ASSUME TypeOK, ViewFollowsStatus, [Next]_vars PROVE ViewFollowsStatus'
  OBVIOUS
<1> USE DEF flags, otp, queue, status, history
<1>r. rx \in RxState
  BY DEF TypeOK
<1>1. CASE UNCHANGED <<rx, mConnectStatus, view, hidden>>
  BY <1>1, NothingReported DEF Believed, Scanning
<1>2. CASE Worker
  BY <1>1, <1>2 DEF Worker, take, handleOtpTimeout, handleEdidTimeout, handleSend
<1>20. ASSUME NEW d \in DeviceId, notifyRemove(d) PROVE ViewFollowsStatus'
  BY <1>1, <1>20 DEF notifyRemove
<1>3. CASE notifySend
  <2>1. rx'.pc = rx.pc /\ rx'.prev = rx.prev /\ rx'.port = rx.port
    BY <1>3, <1>r DEF notifySend, RxState
  <2> QED BY <1>3, <2>1, NothingReported DEF notifySend, Believed, Scanning
<1>4. ASSUME NEW v \in BOOLEAN, setSystemCecControl(v) PROVE ViewFollowsStatus'
  <2>1. rx'.pc = rx.pc /\ rx'.prev = rx.prev /\ rx'.port = rx.port
    BY <1>4, <1>r DEF setSystemCecControl, RxState
  <2> QED BY <1>4, <2>1, NothingReported DEF setSystemCecControl, Believed, Scanning
<1>5. ASSUME NEW v \in BOOLEAN, setEnableCec(v) PROVE ViewFollowsStatus'
  BY <1>1, <1>5 DEF setEnableCec
<1>6. CASE getPortInfos
  BY <1>1, <1>6 DEF getPortInfos
<1>7. ASSUME NEW c \in Caller,
             \/ (\E m \in TxMsg : sendMessage(c, m)) \/ preHandleOfSend(c)
             \/ askForAddress(c) \/ sendAndPost(c)
      PROVE ViewFollowsStatus'
  BY <1>1, <1>7 DEF sendMessage, preHandleOfSend, askForAddress, sendAndPost
<1>8. CASE startCheck
  <2>1. rx.pc = "top" /\ rx'.pc = "check" /\ rx'.prev = mConnectStatus /\ rx'.port = rx.port
    BY <1>8, <1>r DEF startCheck, RxState
  <2> QED BY <1>8, <2>1, NothingReported DEF startCheck, Believed, Scanning
<1>9. ASSUME NEW p \in Port, checkPort(p) PROVE ViewFollowsStatus'
  <2>1. PICK connect \in {(p \in plugged), (p \in rx.prev)} :
          /\ rx' = [rx EXCEPT !.todo = @ \ {p},
                              !.prev = IF connect THEN @ \union {p} ELSE @ \ {p},
                              !.port = p,
                              !.pc = IF connect # (p \in rx.prev) /\ isCecEnabled /\ isCecControlled
                                       THEN "hotplug" ELSE "check"]
          /\ hidden' = IF /\ connect # (p \in rx.prev)
                          /\ ~(connect # (p \in rx.prev) /\ isCecEnabled /\ isCecControlled)
                         THEN hidden \union {p} ELSE hidden
    BY <1>9, Zenon DEF checkPort
  <2>2. rx.pc = "check" /\ view' = view
    BY <1>9 DEF checkPort
  <2>3. \A q \in Port \ hidden : q \in view <=> q \in rx.prev
    BY <2>2 DEF ViewFollowsStatus
  <2>4. CASE connect # (p \in rx.prev) /\ isCecEnabled /\ isCecControlled
    <3>1. rx'.pc = "hotplug" /\ rx'.port = p /\ hidden' = hidden
      BY <2>1, <2>4, <1>r DEF RxState
    <3>2. \A q \in Port : q # p => (q \in rx'.prev <=> q \in rx.prev)
      BY <2>1, <1>r DEF RxState
    <3> QED BY <2>2, <2>3, <3>1, <3>2 DEF ViewFollowsStatus
  <2>5. CASE connect = (p \in rx.prev)
    <3>1. rx'.pc = "check" /\ hidden' = hidden
      BY <2>1, <2>5, <1>r DEF RxState
    <3>2. \A q \in Port : q \in rx'.prev <=> q \in rx.prev
      BY <2>1, <2>5, <1>r DEF RxState
    <3> QED BY <2>2, <2>3, <3>1, <3>2 DEF ViewFollowsStatus
  <2>6. CASE connect # (p \in rx.prev) /\ ~(isCecEnabled /\ isCecControlled)
    <3>1. rx'.pc = "check" /\ hidden' = hidden \union {p}
      BY <2>1, <2>6, <1>r DEF RxState
    <3>2. \A q \in Port : q # p => (q \in rx'.prev <=> q \in rx.prev)
      BY <2>1, <1>r DEF RxState
    <3> QED BY <2>2, <2>3, <3>1, <3>2 DEF ViewFollowsStatus
  <2> QED BY <2>4, <2>5, <2>6
<1>10. CASE reportHotplug
  <2>1. /\ rx.pc = "hotplug" /\ rx'.pc \in {"edidLock", "check"} /\ rx'.prev = rx.prev
        /\ rx'.port = rx.port
    BY <1>10, <1>r DEF reportHotplug, rxGo, RxState
  <2>2. hidden' = hidden
    BY <1>10 DEF reportHotplug
  <2>3. \A q \in Port \ hidden : q # rx.port => (q \in view <=> q \in rx.prev)
    BY <2>1 DEF ViewFollowsStatus
  <2>4. \A q \in Port \ hidden : q \in view' <=> q \in rx.prev
    BY <1>10, <2>3 DEF reportHotplug
  <2> QED BY <2>1, <2>2, <2>4 DEF ViewFollowsStatus
<1>11. CASE handleHotplug
  <2>1. /\ rx.pc \in {"edidLock", "edidRemove", "edidSend"}
        /\ rx'.pc \in {"edidRemove", "edidSend", "check"}
        /\ rx'.prev = rx.prev /\ rx'.port = rx.port
    BY <1>11, <1>r DEF handleHotplug, rxGo, RxState
  <2> QED BY <1>11, <2>1, NothingReported DEF handleHotplug, Believed, Scanning
<1>12. CASE endCheck
  <2>1. rx.pc = "check" /\ rx'.pc = "read" /\ mConnectStatus' = rx.prev
    BY <1>12, <1>r DEF endCheck, RxState
  <2>2. UNCHANGED <<view, hidden>>
    BY <1>12 DEF endCheck
  <2> QED BY <2>1, <2>2 DEF ViewFollowsStatus
<1>13. CASE readNothing \/ messageValidate
  <2>1. /\ rx.pc \in {"read", "validate"}
        /\ rx'.pc \in {"top", "askRemove", "pathRemove", "otp"}
        /\ rx'.port = rx.port
    BY <1>13, <1>r DEF readNothing, messageValidate, rxGo, RxState
  <2> QED BY <1>13, <2>1, NothingReported DEF readNothing, messageValidate, Believed, Scanning
<1>17. ASSUME NEW m \in RxMsg, readMessage(m) PROVE ViewFollowsStatus'
  <2>1. rx.pc \in {"read"} /\ rx'.pc \in {"validate"} /\ rx'.port = rx.port
    BY <1>17, <1>r DEF readMessage, RxState
  <2> QED BY <1>17, <2>1, NothingReported DEF readMessage, Believed, Scanning
<1>18. CASE handleOTPMsg \/ deliver
  <2>1. rx.pc \in {"otp", "deliver"} /\ rx'.pc \in {"earc", "top"} /\ rx'.port = rx.port
    BY <1>18, <1>r DEF handleOTPMsg, deliver, RxState
  <2> QED BY <1>18, <2>1, NothingReported DEF handleOTPMsg, deliver, Believed, Scanning
<1>19. CASE supportForEARC
  <2>1. rx.pc \in {"earc"} /\ rx'.pc \in {"deliver"} /\ rx'.port = rx.port
    BY <1>19, <1>r DEF supportForEARC, RxState
  <2> QED BY <1>19, <2>1, NothingReported DEF supportForEARC, Believed, Scanning
<1>14. CASE messageHandle
  <2>1. /\ rx.pc \in {"askRemove", "askSend", "pathRemove", "pathSend"}
        /\ rx'.pc \in {"askSend", "otp", "pathSend"}
        /\ rx'.port = rx.port
    BY <1>14, <1>r DEF messageHandle, rxGo, RxState
  <2> QED BY <1>14, <2>1, NothingReported DEF messageHandle, Believed, Scanning
<1>15. ASSUME NEW p \in Port, plug(p) PROVE ViewFollowsStatus'
  BY <1>1, <1>15 DEF plug
<1>16. CASE UNCHANGED vars
  BY <1>1, <1>16 DEF vars
<1> QED
  BY <1>2, <1>3, <1>4, <1>5, <1>6, <1>7, <1>8, <1>9, <1>10, <1>11, <1>12, <1>13, <1>14, <1>15,
     <1>16, <1>17, <1>18, <1>19, <1>20 DEF Next, Binder, Receiver

(* The framework's view of an input is the library's own, unless a change  *)
(* was not reported (checkConnectStatus).                                  *)
THEOREM ViewAlwaysFollowsStatus == Spec => []ViewFollowsStatus
<1>1. Init => ViewFollowsStatus
  BY DEF Init, ViewFollowsStatus
<1> QED BY <1>1, ViewStep, TypeCorrect, PTL DEF Spec

----------------------------------------------------------------------------
(* How many messages of a type wait.                                       *)

(* Whoever sends has removed before: what receiver or notify is about to   *)
(* send after its removal is not queued.  Requests for an address are      *)
(* removed and sent by the receiver and by the one binder thread that has  *)
(* mLock: one waits at most while one of the two is about to send, none    *)
(* while both are, and two afterwards.                                     *)
CountInv ==
  /\ \A type \in {"otp", "edid", "setStreamPath"} : ~Several(type)
  /\ rx.pc = "edidSend" => Queued("edid") = {}
  /\ rx.pc = "pathSend" => Queued("setStreamPath") = {}
  /\ switching # NoSwitch => Queued("otp") = {}
  /\ \A c, d \in Caller : call[c].pc = "ask" /\ call[d].pc = "ask" => c = d
  /\ AtMostTwo("giveAddress")
  /\ rx.pc = "askSend" \/ Asking => ~Several("giveAddress")
  /\ rx.pc = "askSend" /\ Asking => Queued("giveAddress") = {}

(* A type of which nothing is added stays as few as it was.                *)
LEMMA NoMoreOfType ==
  ASSUME NEW type, queued \in [Timers -> Nat], queued' \in [Timers -> Nat],
         \A m \in Timers : m.type = type => queued'[m] <= queued[m]
  PROVE  /\ ~Several(type) => ~Several(type)'
         /\ Queued(type) = {} => Queued(type)' = {}
         /\ AtMostTwo(type) => AtMostTwo(type)'
<1>1. \A m \in Timers : queued[m] \in Nat /\ queued'[m] \in Nat
  OBVIOUS
<1>2. Queued(type)' \subseteq Queued(type)
  BY <1>1 DEF Queued
<1>3. \A m \in Queued(type)' : queued'[m] <= queued[m] /\ m \in Timers
  BY DEF Queued
<1>4. ~Several(type) => ~Several(type)'
  BY <1>1, <1>2, <1>3 DEF Several
<1>5. AtMostTwo(type) => AtMostTwo(type)'
  BY <1>1, <1>2, <1>3 DEF AtMostTwo
<1> QED BY <1>2, <1>4, <1>5

(* removeMsg leaves one message of the type at most, and none of a single  *)
(* one (CMsgQueue::removeMsg).                                             *)
LEMMA RemoveLeavesFew ==
  ASSUME NEW type, queued \in [Timers -> Nat], removeMsg(type)
  PROVE  /\ ~Several(type)'
         /\ ~Several(type) => Queued(type)' = {}
         /\ \A m \in Timers : m.type # type => queued'[m] = queued[m]
<1>1. PICK kept \in MayStay(type) : queued' = Without(type, kept)
  BY DEF removeMsg
<1>2. \A m \in Timers : queued'[m] = IF m.type # type THEN queued[m] ELSE IF m = kept THEN 1 ELSE 0
  BY <1>1 DEF Without
<1>3. Queued(type)' \subseteq {kept}
  BY <1>2 DEF Queued
<1>4. ~Several(type)'
  BY <1>2, <1>3 DEF Several, Queued
<1>5. ASSUME ~Several(type) PROVE Queued(type)' = {}
  <2>1. kept = NoTimer
    BY <1>5 DEF MayStay
  <2>2. NoTimer \notin Timers
    BY DEF NoTimer, Timers, GiveAddresses, OtpTimeout, EdidTimeout, GiveAddress, SetStreamPath,
           TurnOn, Key, Timer
  <2> QED BY <1>3, <2>1, <2>2 DEF Queued
<1> QED BY <1>2, <1>4, <1>5

(* Sending adds one message.                                               *)
LEMMA SendAddsOne ==
  ASSUME NEW n \in Timers, queued \in [Timers -> Nat], sendMsg(n)
  PROVE  /\ Queued(n.type) = {} => ~Several(n.type)'
         /\ ~Several(n.type) => AtMostTwo(n.type)'
         /\ \A m \in Timers : m # n => queued'[m] = queued[m]
<1>1. queued'[n] = queued[n] + 1 /\ \A m \in Timers : m # n => queued'[m] = queued[m]
  BY DEF sendMsg
<1>2. \A m \in Timers : queued[m] \in Nat
  OBVIOUS
<1>3. Queued(n.type)' \subseteq Queued(n.type) \union {n}
  BY <1>1 DEF Queued
<1>4. ASSUME Queued(n.type) = {} PROVE ~Several(n.type)'
  <2>1. queued[n] = 0
    BY <1>2, <1>4 DEF Queued
  <2> QED BY <1>1, <1>3, <1>4, <2>1 DEF Several
<1>5. ASSUME ~Several(n.type) PROVE AtMostTwo(n.type)'
  <2>1. \A m \in Timers : m.type = n.type => queued[m] <= 1
    BY <1>2, <1>5 DEF Several, Queued
  <2>2. \A m, k \in Queued(n.type) : m = k
    BY <1>5 DEF Several
  <2>3. \A m \in Queued(n.type)' : m \in Timers /\ m.type = n.type
    BY DEF Queued
  <2>4. queued[n] = 0 \/ Queued(n.type) \subseteq {n}
    BY <1>2, <2>2 DEF Queued
  <2>5. \A m \in Queued(n.type)' : queued'[m] <= 2 /\ (m # n => queued'[m] <= 1)
    BY <1>1, <1>2, <2>1, <2>3
  <2>6. \A m, k \in Queued(n.type)' : m # k => queued'[m] + queued'[k] <= 2
    <3> SUFFICES ASSUME NEW m \in Queued(n.type)', NEW k \in Queued(n.type)', m # k
                 PROVE  queued'[m] + queued'[k] <= 2
      OBVIOUS
    <3>1. m = n \/ k = n
      BY <1>3, <2>2
    <3>2. queued[n] = 0
      BY <1>3, <2>4, <3>1
    <3>3. queued'[n] = 1
      BY <1>1, <3>2
    <3>4. queued'[m] \in Nat /\ queued'[k] \in Nat
      BY <1>1, <1>2, <2>3
    <3> QED BY <2>5, <3>1, <3>3, <3>4
  <2>7. \A m, k, l \in Queued(n.type)' : m = k \/ k = l \/ m = l
    BY <1>3, <2>2
  <2> QED BY <2>5, <2>6, <2>7 DEF AtMostTwo
<1> QED BY <1>1, <1>4, <1>5

(* A step that adds no message of these types and takes nobody to the      *)
(* place of a send keeps the counts low.                                   *)
LEMMA NothingAdded ==
  ASSUME CountInv, queued \in [Timers -> Nat], queued' \in [Timers -> Nat],
         \A m \in Timers :
           m.type \in {"otp", "edid", "setStreamPath", "giveAddress"} => queued'[m] <= queued[m],
         rx'.pc = rx.pc \/ rx'.pc \notin {"edidSend", "pathSend", "askSend"},
         switching' = switching,
         \A c \in Caller : call'[c].pc = "ask" => call[c].pc = "ask"
  PROVE  CountInv'
<1>1. \A type \in {"otp", "edid", "setStreamPath", "giveAddress"} :
        /\ ~Several(type) => ~Several(type)'
        /\ Queued(type) = {} => Queued(type)' = {}
        /\ AtMostTwo(type) => AtMostTwo(type)'
  BY NoMoreOfType
<1>2. Asking' => Asking
  BY NoNewAsker
<1> QED BY <1>1, <1>2 DEF CountInv

(* The same for a step that changes one of these types.                    *)
LEMMA OtherTypesKept ==
  ASSUME CountInv, queued \in [Timers -> Nat], queued' \in [Timers -> Nat],
         NEW type \in {"otp", "edid", "setStreamPath", "giveAddress"},
         \A m \in Timers : m.type # type => queued'[m] = queued[m],
         type # "giveAddress" => ~Several(type)' /\ call' = call,
         type = "giveAddress" =>
           /\ AtMostTwo(type)'
           /\ rx'.pc = "askSend" \/ Asking' => ~Several(type)'
           /\ rx'.pc = "askSend" /\ Asking' => Queued(type)' = {}
           /\ \A c, d \in Caller : call'[c].pc = "ask" /\ call'[d].pc = "ask" => c = d,
         rx'.pc = "askSend" => rx.pc = "askSend" \/ type = "giveAddress",
         rx'.pc = "edidSend" => IF type = "edid" THEN Queued(type)' = {} ELSE rx.pc = "edidSend",
         rx'.pc = "pathSend" =>
           IF type = "setStreamPath" THEN Queued(type)' = {} ELSE rx.pc = "pathSend",
         switching' # NoSwitch =>
           IF type = "otp" THEN Queued(type)' = {} ELSE switching' = switching
  PROVE  CountInv'
<1>1. \A t \in {"otp", "edid", "setStreamPath", "giveAddress"} : t # type =>
        /\ ~Several(t) => ~Several(t)'
        /\ Queued(t) = {} => Queued(t)' = {}
        /\ AtMostTwo(t) => AtMostTwo(t)'
  BY NoMoreOfType
<1>2. call' = call => (Asking' <=> Asking)
  BY DEF Asking
<1>3. CASE type = "giveAddress"
  BY <1>1, <1>3 DEF CountInv
<1>4. CASE type # "giveAddress"
  <2>1. /\ AtMostTwo("giveAddress")'
        /\ rx'.pc = "askSend" \/ Asking' => ~Several("giveAddress")'
        /\ rx'.pc = "askSend" /\ Asking' => Queued("giveAddress")' = {}
    BY <1>1, <1>2, <1>4 DEF CountInv
  <2>2. \A c, d \in Caller : call'[c].pc = "ask" /\ call'[d].pc = "ask" => c = d
    BY <1>4 DEF CountInv
  <2> QED BY <1>1, <1>4, <2>1, <2>2 DEF CountInv
<1> QED BY <1>3, <1>4

(* What a removal and a send do to the requests for an address.            *)
LEMMA RequestsRemoved ==
  ASSUME queued \in [Timers -> Nat], queued' \in [Timers -> Nat], removeMsg("giveAddress")
  PROVE  /\ AtMostTwo("giveAddress")' /\ ~Several("giveAddress")'
         /\ ~Several("giveAddress") => Queued("giveAddress")' = {}
         /\ \A m \in Timers : m.type # "giveAddress" => queued'[m] = queued[m]
<1>1. /\ ~Several("giveAddress")'
      /\ ~Several("giveAddress") => Queued("giveAddress")' = {}
      /\ \A m \in Timers : m.type # "giveAddress" => queued'[m] = queued[m]
  BY RemoveLeavesFew
<1>2. \A n \in Timers : queued'[n] \in Nat
  OBVIOUS
<1>3. AtMostTwo("giveAddress")'
  BY <1>1, <1>2 DEF Several, AtMostTwo, Queued
<1> QED BY <1>1, <1>3

LEMMA RequestAdded ==
  ASSUME NEW d \in Dev, queued \in [Timers -> Nat], sendMsg(GiveAddress(d))
  PROVE  /\ Queued("giveAddress") = {} => ~Several("giveAddress")'
         /\ ~Several("giveAddress") => AtMostTwo("giveAddress")'
         /\ \A m \in Timers : m.type # "giveAddress" => queued'[m] = queued[m]
<1>1. GiveAddress(d) \in Timers /\ GiveAddress(d).type = "giveAddress"
  BY TimersListed, TypesDiffer
<1> QED BY <1>1, SendAddsOne

(* Nobody sends a timeout, a request or a path without having removed the  *)
(* earlier one (notify, handleHotplug, preHandleOfSend,                    *)
(* messageValidateAndHandle).                                              *)
LEMMA CountStep ==
  TypeOK /\ TypeOK' /\ CountInv /\ [Next]_vars => CountInv'
<1> SUFFICES ASSUME TypeOK, TypeOK', CountInv, [Next]_vars PROVE CountInv'
  OBVIOUS
<1> USE DEF flags, otp, queue, status, history
<1>r. rx \in RxState
  BY DEF TypeOK
<1>q. queued \in [Timers -> Nat] /\ queued' \in [Timers -> Nat]
  BY DEF TypeOK
<1>1. CASE /\ queued' = queued /\ switching' = switching
           /\ rx'.pc = rx.pc \/ rx'.pc \notin {"edidSend", "pathSend", "askSend"}
           /\ \A c \in Caller : call'[c].pc = "ask" => call[c].pc = "ask"
  BY <1>1, <1>q, NothingAdded
<1>2. ASSUME NEW m \in Timers, take(m) PROVE CountInv'
  <2>1. \A n \in Timers : queued'[n] <= queued[n]
    BY <1>2, <1>q DEF take
  <2> QED BY <1>2, <1>q, <2>1, NothingAdded DEF take
<1>3. CASE handleOtpTimeout \/ handleEdidTimeout \/ handleSend
  BY <1>1, <1>3 DEF handleOtpTimeout, handleEdidTimeout, handleSend
<1>4. ASSUME NEW d \in DeviceId, notifyRemove(d) PROVE CountInv'
  <2>1. rx' = rx /\ call' = call
    BY <1>4 DEF notifyRemove
  <2>2. /\ ~Several("otp")' /\ Queued("otp")' = {}
        /\ \A m \in Timers : m.type # "otp" => queued'[m] = queued[m]
    BY <1>4, <1>q, RemoveLeavesFew DEF notifyRemove, CountInv
  <2> QED BY <1>q, <2>1, <2>2, OtherTypesKept
<1>20. CASE notifySend
  <2>1. rx'.pc = rx.pc /\ call' = call /\ switching' = NoSwitch
    BY <1>20, <1>r DEF notifySend, RxState
  <2>2. /\ ~Several("otp")'
        /\ \A m \in Timers : m.type # "otp" => queued'[m] = queued[m]
    BY <1>20, <1>q, SendAddsOne, TimersListed, TypesDiffer DEF notifySend, CountInv, Several, Queued
  <2> QED BY <1>q, <2>1, <2>2, OtherTypesKept
<1>5. ASSUME NEW v \in BOOLEAN, setSystemCecControl(v) PROVE CountInv'
  <2>1. rx'.pc = rx.pc
    BY <1>5, <1>r DEF setSystemCecControl, RxState
  <2> QED BY <1>1, <1>5, <2>1 DEF setSystemCecControl
<1>6. ASSUME NEW v \in BOOLEAN, setEnableCec(v) PROVE CountInv'
  BY <1>1, <1>6 DEF setEnableCec
<1>7. CASE getPortInfos
  BY <1>1, <1>7 DEF getPortInfos
<1>8. ASSUME NEW c \in Caller, (\E m \in TxMsg : sendMessage(c, m)) \/ sendAndPost(c)
      PROVE  CountInv'
  <2>1. \A d \in Caller : call'[d].pc = "ask" => call[d].pc = "ask"
    <3>1. ASSUME NEW m \in TxMsg, sendMessage(c, m), NEW d \in Caller
          PROVE  call'[d].pc = "ask" => call[d].pc = "ask"
      BY <3>1 DEF sendMessage, TypeOK
    <3>2. ASSUME sendAndPost(c), NEW d \in Caller
          PROVE  call'[d].pc = "ask" => call[d].pc = "ask"
      BY <3>2 DEF sendAndPost, TypeOK
    <3> QED BY <1>8, <3>1, <3>2
  <2>2. queued' = queued /\ switching' = switching /\ rx' = rx
    BY <1>8 DEF sendMessage, sendAndPost
  <2> QED BY <1>1, <2>1, <2>2
<1>9. ASSUME NEW c \in Caller, preHandleOfSend(c) PROVE CountInv'
  <2> DEFINE m == call[c].msg
  <2>1. rx' = rx /\ switching' = switching
    BY <1>9 DEF preHandleOfSend
  <2>2. CASE preRouting(c, m)
    <3>1. \A t \in Timers : t.type # "turnOn" => queued'[t] = queued[t]
      BY <2>2, <1>q, TypesDiffer DEF preRouting, FirstBehind, Behind
    <3>2. \A d \in Caller : call'[d].pc = "ask" => call[d].pc = "ask"
      BY <2>2 DEF preRouting, TypeOK
    <3> QED BY <1>q, <2>1, <3>1, <3>2, NothingAdded
  <2>3. CASE preKey(c, m)
    <3>1. \A t \in Timers : t.type # "key" => queued'[t] = queued[t]
      BY <2>3, <1>q, SendAddsOne, TimersListed, TypesDiffer DEF preKey, TypeOK
    <3>2. \A d \in Caller : call'[d].pc = "ask" => call[d].pc = "ask"
      BY <2>3 DEF preKey, TypeOK
    <3> QED BY <1>q, <2>1, <3>1, <3>2, NothingAdded
  <2>4. CASE preGiveAddress(c, m)
    <3>1. CASE mWaitEdidUpdatedFinished
      <4>1. \A d \in Caller : call'[d].pc = "ask" => call[d].pc = "ask"
        BY <2>4, <3>1 DEF preGiveAddress, TypeOK
      <4> QED BY <1>1, <2>1, <2>4, <3>1, <4>1 DEF preGiveAddress
    <3>2. CASE ~mWaitEdidUpdatedFinished
      <4>1. \A d \in Caller : call[d].pc # "ask" /\ (d # c => call'[d] = call[d])
        BY <2>4 DEF preGiveAddress, LockFree, Asking, TypeOK
      <4>2. \A d, e \in Caller : call'[d].pc = "ask" /\ call'[e].pc = "ask" => d = e
        BY <4>1
      <4>3. /\ AtMostTwo("giveAddress")' /\ ~Several("giveAddress")'
            /\ ~Several("giveAddress") => Queued("giveAddress")' = {}
            /\ \A t \in Timers : t.type # "giveAddress" => queued'[t] = queued[t]
        BY <1>q, <2>4, <3>2, RequestsRemoved DEF preGiveAddress
      <4>4. rx'.pc = "askSend" => Queued("giveAddress")' = {}
        BY <2>1, <4>3 DEF CountInv
      <4> QED BY <1>q, <2>1, <4>2, <4>3, <4>4, OtherTypesKept
    <3> QED BY <3>1, <3>2
  <2>5. CASE preOther(c, m)
    <3>1. \A d \in Caller : call'[d].pc = "ask" => call[d].pc = "ask"
      BY <2>5 DEF preOther, TypeOK
    <3> QED BY <1>1, <2>1, <2>5, <3>1 DEF preOther
  <2> QED BY <1>9, <2>2, <2>3, <2>4, <2>5 DEF preHandleOfSend
<1>21. ASSUME NEW c \in Caller, askForAddress(c) PROVE CountInv'
  <2>1. rx' = rx /\ switching' = switching
    BY <1>21 DEF askForAddress
  <2>2. \A d \in Caller : call[d].pc = "ask" => d = c
    BY <1>21 DEF askForAddress, CountInv
  <2>3. \A d \in Caller : call'[d].pc # "ask"
    BY <1>21, <2>2 DEF askForAddress, TypeOK
  <2>4. Asking /\ ~Asking'
    BY <1>21, <2>3 DEF Asking, askForAddress
  <2>5. /\ Queued("giveAddress") = {} => ~Several("giveAddress")'
        /\ ~Several("giveAddress") => AtMostTwo("giveAddress")'
        /\ \A t \in Timers : t.type # "giveAddress" => queued'[t] = queued[t]
    BY <1>21, <1>q, ControlAssumption, RequestAdded DEF askForAddress
  <2>6. AtMostTwo("giveAddress")' /\ (rx'.pc = "askSend" => ~Several("giveAddress")')
    BY <2>1, <2>4, <2>5 DEF CountInv
  <2> QED BY <1>q, <2>1, <2>3, <2>4, <2>5, <2>6, OtherTypesKept
<1>10. CASE startCheck \/ endCheck \/ readNothing
  <2>1. rx'.pc \notin {"edidSend", "pathSend", "askSend"}
    BY <1>10, <1>r DEF startCheck, endCheck, readNothing, rxGo, RxState
  <2> QED BY <1>1, <1>10, <2>1 DEF startCheck, endCheck, readNothing
<1>11. ASSUME NEW p \in Port, checkPort(p) PROVE CountInv'
  <2>1. rx'.pc \notin {"edidSend", "pathSend", "askSend"}
    BY <1>11, <1>r DEF checkPort, RxState
  <2> QED BY <1>1, <1>11, <2>1 DEF checkPort
<1>12. CASE reportHotplug
  <2>1. rx'.pc \notin {"edidSend", "pathSend", "askSend"}
    BY <1>12, <1>r DEF reportHotplug, rxGo, RxState
  <2> QED BY <1>1, <1>12, <2>1 DEF reportHotplug
<1>13. CASE handleHotplug
  <2>4. switching' = switching /\ call' = call
    BY <1>13 DEF handleHotplug
  <2>1. CASE rx.pc = "edidLock"
    <3>1. rx'.pc = "edidRemove" /\ queued' = queued
      BY <1>13, <2>1, <1>r DEF handleHotplug, rxGo, RxState
    <3> QED BY <1>1, <2>4, <3>1
  <2>2. CASE rx.pc = "edidRemove"
    <3>1. rx'.pc = "edidSend" /\ removeMsg("edid")
      BY <1>13, <2>2, <1>r DEF handleHotplug, rxGo, RxState
    <3>2. /\ ~Several("edid")' /\ Queued("edid")' = {}
          /\ \A m \in Timers : m.type # "edid" => queued'[m] = queued[m]
      BY <3>1, <1>q, RemoveLeavesFew DEF CountInv
    <3> QED BY <1>q, <2>4, <3>1, <3>2, OtherTypesKept
  <2>3. CASE rx.pc = "edidSend"
    <3>1. rx'.pc = "check" /\ sendMsg(EdidTimeout)
      BY <1>13, <2>3, <1>r DEF handleHotplug, rxGo, RxState
    <3>2. /\ ~Several("edid")'
          /\ \A m \in Timers : m.type # "edid" => queued'[m] = queued[m]
      BY <3>1, <2>3, <1>q, SendAddsOne, TimersListed, TypesDiffer DEF CountInv
    <3> QED BY <1>q, <2>4, <3>1, <3>2, OtherTypesKept
  <2> QED BY <1>13, <2>1, <2>2, <2>3 DEF handleHotplug
<1>14. ASSUME NEW m \in RxMsg, readMessage(m) PROVE CountInv'
  <2>1. rx'.pc \notin {"edidSend", "pathSend", "askSend"}
    BY <1>14, <1>r DEF readMessage, RxState
  <2> QED BY <1>1, <1>14, <2>1 DEF readMessage
<1>15. CASE messageValidate \/ handleOTPMsg \/ deliver
  <2>1. rx'.pc \notin {"edidSend", "pathSend", "askSend"}
    BY <1>15, <1>r DEF messageValidate, handleOTPMsg, deliver, rxGo, RxState
  <2> QED BY <1>1, <1>15, <2>1 DEF messageValidate, handleOTPMsg, deliver
<1>16. CASE supportForEARC
  <2>1. rx'.pc \notin {"edidSend", "pathSend", "askSend"}
    BY <1>16, <1>r DEF supportForEARC, RxState
  <2> QED BY <1>1, <1>16, <2>1 DEF supportForEARC
<1>17. CASE messageHandle
  <2>1. rx.ev.from \in Dev /\ rx.ev.addr \in Addr
    BY ControlAssumption, <1>r DEF RxState, NoRx
  <2>6. switching' = switching /\ call' = call /\ (Asking' <=> Asking)
    BY <1>17 DEF messageHandle, Asking
  <2>7. \A c, d \in Caller : call'[c].pc = "ask" /\ call'[d].pc = "ask" => c = d
    BY <2>6 DEF CountInv
  <2>2. CASE rx.pc = "askRemove"
    <3>1. rx'.pc = "askSend" /\ removeMsg("giveAddress")
      BY <1>17, <2>2, <1>r DEF messageHandle, rxGo, RxState
    <3>2. /\ AtMostTwo("giveAddress")' /\ ~Several("giveAddress")'
          /\ ~Several("giveAddress") => Queued("giveAddress")' = {}
          /\ \A m \in Timers : m.type # "giveAddress" => queued'[m] = queued[m]
      BY <3>1, <1>q, RequestsRemoved
    <3>3. Asking' => Queued("giveAddress")' = {}
      BY <2>6, <3>2 DEF CountInv
    <3> QED BY <1>q, <2>6, <2>7, <3>1, <3>2, <3>3, OtherTypesKept
  <2>3. CASE rx.pc = "askSend"
    <3>1. rx'.pc = "otp" /\ sendMsg(GiveAddress(rx.ev.from))
      BY <1>17, <2>3, <1>r DEF messageHandle, rxGo, RxState
    <3>2. /\ Queued("giveAddress") = {} => ~Several("giveAddress")'
          /\ ~Several("giveAddress") => AtMostTwo("giveAddress")'
          /\ \A m \in Timers : m.type # "giveAddress" => queued'[m] = queued[m]
      BY <3>1, <2>1, <1>q, RequestAdded
    <3>3. AtMostTwo("giveAddress")' /\ (Asking' => ~Several("giveAddress")')
      BY <2>3, <2>6, <3>2 DEF CountInv
    <3> QED BY <1>q, <2>6, <2>7, <3>1, <3>2, <3>3, OtherTypesKept
  <2>4. CASE rx.pc = "pathRemove"
    <3>1. rx'.pc = "pathSend" /\ removeMsg("setStreamPath")
      BY <1>17, <2>4, <1>r DEF messageHandle, rxGo, RxState
    <3>2. /\ ~Several("setStreamPath")' /\ Queued("setStreamPath")' = {}
          /\ \A m \in Timers : m.type # "setStreamPath" => queued'[m] = queued[m]
      BY <3>1, <1>q, RemoveLeavesFew DEF CountInv
    <3> QED BY <1>q, <2>6, <3>1, <3>2, OtherTypesKept
  <2>5. CASE rx.pc = "pathSend"
    <3>1. rx'.pc = "otp" /\ sendMsg(SetStreamPath(rx.ev.addr))
      BY <1>17, <2>5, <1>r DEF messageHandle, rxGo, RxState
    <3>2. /\ ~Several("setStreamPath")'
          /\ \A m \in Timers : m.type # "setStreamPath" => queued'[m] = queued[m]
      BY <3>1, <2>1, <2>5, <1>q, SendAddsOne, TimersListed, TypesDiffer DEF CountInv
    <3> QED BY <1>q, <2>6, <3>1, <3>2, OtherTypesKept
  <2> QED BY <1>17, <2>2, <2>3, <2>4, <2>5 DEF messageHandle
<1>18. ASSUME NEW p \in Port, plug(p) PROVE CountInv'
  BY <1>1, <1>18 DEF plug
<1>19. CASE UNCHANGED vars
  BY <1>1, <1>19 DEF vars
<1> QED
  BY <1>2, <1>3, <1>4, <1>5, <1>6, <1>7, <1>8, <1>9, <1>10, <1>11, <1>12, <1>13, <1>14, <1>15,
     <1>16, <1>17, <1>18, <1>19, <1>20, <1>21 DEF Next, Worker, Binder, Receiver

(* The counts, from the empty queue on.                                    *)
LEMMA CountInvariant == Spec => []CountInv
<1>1. Init => CountInv
  BY DEF Init, CountInv, Several, Queued, AtMostTwo, Asking
<1> QED BY <1>1, CountStep, TypeCorrect, PTL DEF Spec

(* Of the requests for an address, for whatever devices, those that wait   *)
(* and those about to be sent are two at most, although receiver and       *)
(* binder threads interleave removing and sending; and one timeout of each *)
(* kind waits at most (lines 463-464 and 1004-1005).                       *)
THEOREM AlwaysFewAddressRequests == Spec => []FewAddressRequests
<1>1. CountInv => FewAddressRequests
  BY DEF CountInv, FewAddressRequests
<1> QED BY <1>1, CountInvariant, PTL

(* Only the path of the latest routing information waits to be set         *)
(* (messageValidateAndHandle, lines 490-491).                              *)
THEOREM AlwaysOnePathRequest == Spec => []OnePathRequest
<1>1. TypeOK /\ CountInv => OnePathRequest
  <2> SUFFICES ASSUME TypeOK, CountInv, NEW a \in Addr, NEW b \in Addr,
                      queued[SetStreamPath(a)] > 0, queued[SetStreamPath(b)] > 0
               PROVE  a = b /\ queued[SetStreamPath(a)] = 1
    BY DEF OnePathRequest
  <2>1. \A m \in Timers : queued[m] \in Nat
    BY DEF TypeOK
  <2>2. SetStreamPath(a) \in Queued("setStreamPath") /\ SetStreamPath(b) \in Queued("setStreamPath")
    BY TimersListed, TypesDiffer DEF Queued
  <2>3. SetStreamPath(a) = SetStreamPath(b) /\ queued[SetStreamPath(a)] <= 1
    BY <2>1, <2>2 DEF CountInv, Several, Queued
  <2> QED BY <2>1, <2>2, <2>3 DEF SetStreamPath, Timer, Queued
<1> QED BY <1>1, CountInvariant, TypeCorrect, PTL

=============================================================================
