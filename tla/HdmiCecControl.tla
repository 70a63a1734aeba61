--------------------------- MODULE HdmiCecControl ---------------------------
(***************************************************************************)
(* The HDMI-CEC library of a TV                                            *)
(* (services/hdmicec/libhdmi_cec/HdmiCecControl.cpp).                      *)
(*                                                                         *)
(* Four kinds of threads share mCecDevice: the receiver runs threadLoop,   *)
(* the worker of the message queue runs MsgHandler::handleMessage, binder  *)
(* threads call sendMessage, setOption and getPortInfos, and the TV server *)
(* calls TvEventListner::notify.  mLock protects only the two filters; the *)
(* queue has a lock of its own, so a section under mLock is one action per *)
(* call of the queue, and everything else one action per access that       *)
(* another thread can come between.                                        *)
(*                                                                         *)
(* The message queue is used through what CecMsgQueue establishes: a       *)
(* message sent stays until it is taken or removed, removeMsg removes at   *)
(* least one message of the type if there is one, and the worker holds one *)
(* message at a time.  Delays are left out: a queued message may be taken  *)
(* at any time.  Reading the slot of a message just removed is the same as *)
(* taking the message just before the removal.                             *)
(***************************************************************************)
EXTENDS Integers, Sequences, FiniteSets

CONSTANTS
  Dev,      (* logical addresses of the devices on the bus                   *)
  Avr,      (* DEV_TYPE_AUDIO_SYSTEM                                         *)
  Port,     (* mpPortData[].port_id                                          *)
  ArcPort,  (* the ports with arc_supported                                  *)
  Addr,     (* physical addresses 0xpq00 as 16 p + q; 0 is an address not    *)
            (* known                                                         *)
  Caller,   (* binder threads                                                *)
  RxMsg,    (* what the receiver may read from the bus                       *)
  TxMsg,    (* what sendMessage may be asked to send                         *)
  Budgets   (* bounds: how often each kind of event happens, one of these    *)

Source == {"rx", "tx", "plug", "switch", "option"}

ASSUME ControlAssumption ==
  /\ Dev \subseteq Nat
  /\ Avr \in Dev
  /\ Port \subseteq 1..4
  /\ ArcPort \subseteq Port
  /\ Addr \subseteq Nat
  /\ 0 \in Addr
  /\ \A p \in Port : 16 * p \in Addr
  /\ RxMsg \subseteq [op : {"ReportAddress", "ActiveSource", "RoutingInformation",
                            "ViewOn", "Arc", "Other"},
                      from : Dev, addr : Addr, all : BOOLEAN]
  /\ TxMsg \subseteq [op : {"GiveAddress", "RoutingChange", "SetStreamPath", "Key",
                            "Poll", "Standby", "Other"},
                      to : Dev, addr : Addr, ext : BOOLEAN]
  /\ Budgets \subseteq [Source -> Nat]

(* CMessage: its type, and the address in mpPara.                          *)
Timer(type, arg) == [type |-> type, arg |-> arg]
OtpTimeout == Timer("otp", 0)
EdidTimeout == Timer("edid", 0)
GiveAddress(d) == Timer("giveAddress", d)
SetStreamPath(a) == Timer("setStreamPath", a)
TurnOn(d) == Timer("turnOn", d)
Key(d) == Timer("key", d)

GiveAddresses == {GiveAddress(d) : d \in Dev}
Timers == {OtpTimeout, EdidTimeout} \union GiveAddresses
            \union {SetStreamPath(a) : a \in Addr}
            \union {TurnOn(d) : d \in Dev}
            \union {Key(d) : d \in Dev \union {0}}
NoTimer == Timer("none", 0)
NoDev == -1

DeviceId == {p + 4 : p \in Port} \union {-1}
NoSwitch == 0
SameInput(a, b) == a \div 16 = b \div 16
NoTx == [op |-> "none", to |-> Avr, addr |-> 0, ext |-> FALSE]
NoRx == [op |-> "none", from |-> Avr, addr |-> 0, all |-> FALSE]

VARIABLES
  isCecEnabled, isCecControlled,
  mFilterOtpEnabled, mSelectedDeviceId,
  mActiveLogicalAddr,
  mWaitEdidUpdatedFinished,
  mAddedPhyAddrs,
  mTotalPort,       (* whether getPortInfos has filled mpPortData            *)
  mConnectStatus,   (* the ports whose bit is set                            *)
  queued,           (* how many messages of each kind the queue holds        *)
  hand,             (* the message the worker is handling                    *)
  rx,               (* the receiver: where it is and its local variables     *)
  call,             (* each binder thread: where it is and its message       *)
  switching,        (* the device id that notify switches to under mLock     *)
  plugged,          (* the ports with a cable, as the driver reports them    *)
  left,             (* what is left of the budget                            *)
  view,             (* history: the ports the framework was told about last  *)
                    (* as connected                                          *)
  hidden,           (* history: ports whose change was not reported          *)
  edidOpen,         (* history: a reported connection whose timeout has not  *)
                    (* been handled                                          *)
  owed              (* history: the device whose physical address was put    *)
                    (* off to be asked for last, until it is asked           *)

flags == <<isCecEnabled, isCecControlled>>
otp == <<mFilterOtpEnabled, mSelectedDeviceId>>
queue == <<queued, hand>>
status == <<mTotalPort, mConnectStatus, plugged, view, hidden>>
history == <<edidOpen, owed>>
vars == <<flags, otp, mActiveLogicalAddr, mWaitEdidUpdatedFinished, mAddedPhyAddrs,
          status, queue, rx, call, switching, left, history>>

(* "check" visits the ports in todo; "hotplug" to "edidSend" report port.   *)
(* "validate" to "deliver" handle the message ev; pass says whether it     *)
(* still has an event type.  History: option is set by a change of         *)
(* isCecControlled since the message was read, moved by a source switch    *)
(* since handleOTPMsg.                                                     *)
RxState == [pc : {"top", "check", "hotplug", "edidLock", "edidRemove", "edidSend", "read",
                  "validate", "askRemove", "askSend", "pathRemove", "pathSend",
                  "otp", "earc", "deliver"},
            todo : SUBSET Port, prev : SUBSET Port, port : Port \union {0},
            ev : RxMsg \union {NoRx}, pass : BOOLEAN, option : BOOLEAN, moved : BOOLEAN]

(* "ask" is between removeMsg and sendMsg of preHandleOfSend, under mLock.  *)
CallState == [pc : {"idle"}, msg : TxMsg \union {NoTx}]
               \union [pc : {"pre", "ask", "send"}, msg : TxMsg]

Init ==
  /\ isCecEnabled = TRUE
  /\ isCecControlled = FALSE
  /\ mFilterOtpEnabled = FALSE
  /\ mSelectedDeviceId = -1
  /\ mActiveLogicalAddr \in Dev \union {0}   (* never initialised *)
  /\ mWaitEdidUpdatedFinished = TRUE
  /\ mAddedPhyAddrs = [d \in Dev |-> 0]
  /\ mTotalPort = FALSE
  /\ plugged \in SUBSET Port
  /\ mConnectStatus = plugged                (* getBootConnectStatus *)
  /\ queued = [m \in Timers |-> 0]
  /\ hand = NoTimer
  /\ rx = [pc |-> "top", todo |-> {}, prev |-> {}, port |-> 0,
           ev |-> NoRx, pass |-> FALSE, option |-> FALSE, moved |-> FALSE]
  /\ call = [c \in Caller |-> [pc |-> "idle", msg |-> NoTx]]
  /\ switching = NoSwitch
  /\ left \in Budgets
  /\ view = plugged
  /\ hidden = {}
  /\ edidOpen = FALSE
  /\ owed = NoDev

----------------------------------------------------------------------------
(* The message queue and the bus *)

Spend(source) == left[source] > 0 /\ left' = [left EXCEPT ![source] = @ - 1]

Queued(type) == {m \in Timers : m.type = type /\ queued[m] > 0}

Several(type) == \E m, n \in Queued(type) : m # n \/ queued[m] > 1

(* What removeMsg may leave of a type: it steps over the message behind    *)
(* each one it removes.  There are at most two of the types it is called   *)
(* with, see FewAddressRequests and OnePathRequest.                        *)
MayStay(type) == {NoTimer} \union (IF Several(type) THEN Queued(type) ELSE {})

Without(type, kept) ==
  [m \in Timers |-> IF m.type # type THEN queued[m] ELSE IF m = kept THEN 1 ELSE 0]

removeMsg(type) == \E kept \in MayStay(type) : queued' = Without(type, kept)

sendMsg(m) == queued' = [queued EXCEPT ![m] = @ + 1]

(* mLock, which its holder keeps over a removeMsg and a sendMsg only.      *)
Asking == \E c \in Caller : call[c].pc = "ask"

LockFree == switching = NoSwitch /\ ~Asking

----------------------------------------------------------------------------
(* The worker: MsgHandler::handleMessage *)

take(m) ==
  /\ hand = NoTimer
  /\ queued[m] > 0
  /\ hand' = m
  /\ queued' = [queued EXCEPT ![m] = @ - 1]
  /\ UNCHANGED <<flags, otp, mActiveLogicalAddr, mWaitEdidUpdatedFinished, mAddedPhyAddrs,
                 status, rx, call, switching, left, history>>

handleOtpTimeout ==
  /\ hand = OtpTimeout
  /\ LockFree
  /\ mFilterOtpEnabled' = FALSE
  /\ hand' = NoTimer
  /\ UNCHANGED <<flags, mSelectedDeviceId, mActiveLogicalAddr, mWaitEdidUpdatedFinished,
                 mAddedPhyAddrs, status, queued, rx, call, switching, left, history>>

handleEdidTimeout ==
  /\ hand = EdidTimeout
  /\ LockFree
  /\ mWaitEdidUpdatedFinished' = TRUE
  /\ edidOpen' = FALSE
  /\ hand' = NoTimer
  /\ UNCHANGED <<flags, otp, mActiveLogicalAddr, mAddedPhyAddrs, status, queued, rx, call,
                 switching, left, owed>>

(* The other messages are written to the bus, with CEC on or off.          *)
handleSend ==
  /\ hand \notin {NoTimer, OtpTimeout, EdidTimeout}
  /\ owed' = IF hand = GiveAddress(owed) /\ queued[hand] = 0 THEN NoDev ELSE owed
  /\ hand' = NoTimer
  /\ UNCHANGED <<flags, otp, mActiveLogicalAddr, mWaitEdidUpdatedFinished, mAddedPhyAddrs,
                 status, queued, rx, call, switching, left, edidOpen>>

Worker == (\E m \in Timers : take(m)) \/ handleOtpTimeout \/ handleEdidTimeout \/ handleSend

----------------------------------------------------------------------------
(* The TV server *)

(* TvEventListner::notify, from mLock.lock() to removeMsg.                 *)
notifyRemove(deviceId) ==
  /\ LockFree
  /\ Spend("switch")
  /\ removeMsg("otp")
  /\ switching' = deviceId
  /\ UNCHANGED <<flags, otp, mActiveLogicalAddr, mWaitEdidUpdatedFinished, mAddedPhyAddrs,
                 status, hand, rx, call, history>>

(* MUTANT: no timeout is sent if the filter is on already.                 *)
notifySendOnce ==
  /\ switching # NoSwitch
  /\ mSelectedDeviceId' = switching
  /\ mFilterOtpEnabled' = (switching \in 5..8)
  /\ IF switching \in 5..8 /\ ~mFilterOtpEnabled
       THEN sendMsg(OtpTimeout) ELSE UNCHANGED queued
  /\ rx' = [rx EXCEPT !.moved = @ \/ rx.pc \in {"earc", "deliver"}]
  /\ switching' = NoSwitch
  /\ UNCHANGED <<flags, mActiveLogicalAddr, mWaitEdidUpdatedFinished, mAddedPhyAddrs, status,
                 hand, call, left, history>>

(* The rest of it, up to mLock.unlock(): the filter is only looked at      *)
(* under mLock.                                                            *)
notifySend ==
  /\ switching # NoSwitch
  /\ mSelectedDeviceId' = switching
  /\ mFilterOtpEnabled' = (switching \in 5..8)
  /\ IF switching \in 5..8 THEN sendMsg(OtpTimeout) ELSE UNCHANGED queued
  /\ rx' = [rx EXCEPT !.moved = @ \/ rx.pc \in {"earc", "deliver"}]
  /\ switching' = NoSwitch
  /\ UNCHANGED <<flags, mActiveLogicalAddr, mWaitEdidUpdatedFinished, mAddedPhyAddrs, status,
                 hand, call, left, history>>

----------------------------------------------------------------------------
(* Binder threads *)

(* HDMI_OPTION_ENABLE_CEC.  The settings of the driver, the properties and *)
(* the sysfs entry that setOption writes next are not part of this state.  *)
setEnableCec(value) ==
  /\ Spend("option")
  /\ isCecEnabled' = value
  /\ UNCHANGED <<isCecControlled, otp, mActiveLogicalAddr, mWaitEdidUpdatedFinished,
                 mAddedPhyAddrs, status, queue, rx, call, switching, history>>

(* HDMI_OPTION_SYSTEM_CEC_CONTROL                                          *)
setSystemCecControl(value) ==
  /\ Spend("option")
  /\ isCecEnabled' = (value \/ isCecEnabled)
  /\ isCecControlled' = value
  /\ rx' = [rx EXCEPT !.option = (rx.ev # NoRx)]
  /\ UNCHANGED <<otp, mActiveLogicalAddr, mWaitEdidUpdatedFinished, mAddedPhyAddrs, status,
                 queue, call, switching, history>>

getPortInfos ==
  /\ ~mTotalPort
  /\ mTotalPort' = TRUE
  /\ UNCHANGED <<flags, otp, mActiveLogicalAddr, mWaitEdidUpdatedFinished, mAddedPhyAddrs,
                 mConnectStatus, plugged, view, hidden, queue, rx, call, switching, left, history>>

(* sendMessage up to preHandleOfSend; it returns at once with CEC off.     *)
sendMessage(c, m) ==
  /\ call[c].pc = "idle"
  /\ Spend("tx")
  /\ isCecEnabled
  /\ call' = [call EXCEPT ![c] = [pc |-> IF m.ext THEN "send" ELSE "pre", msg |-> m]]
  /\ UNCHANGED <<flags, otp, mActiveLogicalAddr, mWaitEdidUpdatedFinished, mAddedPhyAddrs,
                 status, queue, rx, switching, history>>

(* A path to an AVR on an ARC port without devices behind it.              *)
AvrAlone(para) ==
  /\ mAddedPhyAddrs[Avr] = para
  /\ mTotalPort /\ \E p \in ArcPort : 16 * p = para
  /\ \A d \in Dev \ {Avr} :
       ~(mAddedPhyAddrs[d] > para /\ SameInput(mAddedPhyAddrs[d], para))

(* The devices at the input that a routing change selects, or behind it.   *)
Behind(para) ==
  {d \in Dev : para # 0 /\ SameInput(mAddedPhyAddrs[d], para) /\ mAddedPhyAddrs[d] >= para}

(* The loop ends at the first device it finds.                             *)
FirstBehind(para) == {d \in Behind(para) : \A e \in Behind(para) : d <= e}

preRouting(c, m) ==
  /\ m.op \in {"RoutingChange", "SetStreamPath"}
  /\ IF m.op = "RoutingChange"
       THEN queued' = [t \in Timers |->
                         IF t \in {TurnOn(d) : d \in FirstBehind(m.addr)}
                           THEN queued[t] + 1 ELSE queued[t]]
       ELSE UNCHANGED queued
  /\ call' = [call EXCEPT ![c].pc = IF AvrAlone(m.addr) THEN "idle" ELSE "send"]
  /\ UNCHANGED owed

(* An arrow key to another device also goes to the active one.             *)
preKey(c, m) ==
  /\ m.op = "Key"
  /\ IF m.to # mActiveLogicalAddr THEN sendMsg(Key(mActiveLogicalAddr)) ELSE UNCHANGED queued
  /\ call' = [call EXCEPT ![c].pc = "send"]
  /\ UNCHANGED owed

(* MUTANT: an earlier request is not removed.                              *)
preGiveAddressNoRemove(c, m) ==
  /\ m.op = "GiveAddress" /\ m.to = Avr
  /\ LockFree
  /\ call' = [call EXCEPT ![c].pc = IF mWaitEdidUpdatedFinished THEN "send" ELSE "ask"]
  /\ UNCHANGED <<queued, owed>>

(* The section under mLock, up to removeMsg.                               *)
preGiveAddress(c, m) ==
  /\ m.op = "GiveAddress" /\ m.to = Avr
  /\ LockFree
  /\ call' = [call EXCEPT ![c].pc = IF mWaitEdidUpdatedFinished THEN "send" ELSE "ask"]
  /\ IF mWaitEdidUpdatedFinished THEN UNCHANGED queued ELSE removeMsg("giveAddress")
  /\ UNCHANGED owed

(* <Standby> and <Set Menu Language> depend on a property.                 *)
preOther(c, m) ==
  /\ ~(m.op = "GiveAddress" /\ m.to = Avr)
  /\ m.op \notin {"RoutingChange", "SetStreamPath", "Key"}
  /\ \E pc \in {"send"} \union (IF m.op = "Standby" THEN {"idle"} ELSE {}) :
       call' = [call EXCEPT ![c].pc = pc]
  /\ UNCHANGED <<queued, owed>>

preHandleOfSend(c) ==
  /\ call[c].pc = "pre"
  /\ LET m == call[c].msg
     IN preRouting(c, m) \/ preKey(c, m) \/ preGiveAddress(c, m) \/ preOther(c, m)
  /\ UNCHANGED <<flags, otp, mActiveLogicalAddr, mWaitEdidUpdatedFinished, mAddedPhyAddrs,
                 status, hand, rx, switching, left, edidOpen>>

(* MUTANT: not sent if another request waits already.                      *)
askForAddressOnce(c) ==
  /\ call[c].pc = "ask"
  /\ IF Queued("giveAddress") = {} THEN sendMsg(GiveAddress(Avr)) ELSE UNCHANGED queued
  /\ owed' = Avr
  /\ call' = [call EXCEPT ![c].pc = "idle"]
  /\ UNCHANGED <<flags, otp, mActiveLogicalAddr, mWaitEdidUpdatedFinished, mAddedPhyAddrs,
                 status, hand, rx, switching, left, edidOpen>>

(* The rest of the section under mLock: sendMsg, and sendMessage returns.  *)
askForAddress(c) ==
  /\ call[c].pc = "ask"
  /\ sendMsg(GiveAddress(Avr))
  /\ owed' = Avr
  /\ call' = [call EXCEPT ![c].pc = "idle"]
  /\ UNCHANGED <<flags, otp, mActiveLogicalAddr, mWaitEdidUpdatedFinished, mAddedPhyAddrs,
                 status, hand, rx, switching, left, edidOpen>>

(* send() and postHandleOfSend: a poll that is not acknowledged forgets    *)
(* the device.                                                             *)
sendAndPost(c) ==
  /\ call[c].pc = "send"
  /\ mAddedPhyAddrs' \in
       {mAddedPhyAddrs} \union (IF call[c].msg.op = "Poll" /\ ~call[c].msg.ext
                                  THEN {[mAddedPhyAddrs EXCEPT ![call[c].msg.to] = 0]} ELSE {})
  /\ call' = [call EXCEPT ![c].pc = "idle"]
  /\ UNCHANGED <<flags, otp, mActiveLogicalAddr, mWaitEdidUpdatedFinished, status, queue, rx,
                 switching, left, history>>

Binder ==
  \/ \E value \in BOOLEAN : setEnableCec(value) \/ setSystemCecControl(value)
  \/ getPortInfos
  \/ \E c \in Caller : \/ \E m \in TxMsg : sendMessage(c, m)
                       \/ preHandleOfSend(c) \/ askForAddress(c) \/ sendAndPost(c)

----------------------------------------------------------------------------
(* The receiver: threadLoop *)

rxGo(pc) == rx' = [rx EXCEPT !.pc = pc]

startCheck ==
  /\ rx.pc = "top"
  /\ isCecEnabled
  /\ rx' = [rx EXCEPT !.pc = "check", !.prev = mConnectStatus,
                      !.todo = IF mTotalPort THEN Port ELSE {}]
  /\ UNCHANGED <<flags, otp, mActiveLogicalAddr, mWaitEdidUpdatedFinished, mAddedPhyAddrs,
                 status, queue, call, switching, left, history>>

(* One iteration of checkConnectStatus up to the call of onEventUpdate; if *)
(* the ioctl fails, the port is left as it was.                            *)
checkPort(p) ==
  /\ rx.pc = "check"
  /\ p \in rx.todo /\ \A o \in rx.todo : p <= o
  /\ \E connect \in {(p \in plugged), (p \in rx.prev)} :
       LET changed  == connect # (p \in rx.prev)
           reported == changed /\ isCecEnabled /\ isCecControlled
       IN /\ rx' = [rx EXCEPT !.todo = @ \ {p},
                              !.prev = IF connect THEN @ \union {p} ELSE @ \ {p},
                              !.port = p,
                              !.pc = IF reported THEN "hotplug" ELSE "check"]
          /\ hidden' = IF changed /\ ~reported THEN hidden \union {p} ELSE hidden
  /\ UNCHANGED <<flags, otp, mActiveLogicalAddr, mWaitEdidUpdatedFinished, mAddedPhyAddrs,
                 mTotalPort, mConnectStatus, plugged, view, queue, call, switching, left,
                 history>>

(* onEventUpdate tells the framework before handleHotplug begins.          *)
reportHotplug ==
  /\ rx.pc = "hotplug"
  /\ LET connected == rx.port \in rx.prev
     IN /\ view' = IF connected THEN view \union {rx.port} ELSE view \ {rx.port}
        /\ edidOpen' = (connected \/ edidOpen)
        /\ rxGo(IF connected THEN "edidLock" ELSE "check")
  /\ UNCHANGED <<flags, otp, mActiveLogicalAddr, mWaitEdidUpdatedFinished, mAddedPhyAddrs,
                 mTotalPort, mConnectStatus, plugged, hidden, queue, call, switching, left,
                 owed>>

(* MUTANT: the wait begins after its timeout was sent.                     *)
handleHotplugLateLock ==
  /\ \/ /\ rx.pc = "edidLock"
        /\ removeMsg("edid")
        /\ rxGo("edidRemove")
        /\ UNCHANGED mWaitEdidUpdatedFinished
     \/ /\ rx.pc = "edidRemove"
        /\ sendMsg(EdidTimeout)
        /\ rxGo("edidSend")
        /\ UNCHANGED mWaitEdidUpdatedFinished
     \/ /\ rx.pc = "edidSend"
        /\ mWaitEdidUpdatedFinished' = FALSE
        /\ rxGo("check")
        /\ UNCHANGED queued
  /\ UNCHANGED <<flags, otp, mActiveLogicalAddr, mAddedPhyAddrs, status, hand, call, switching, left,
                 history>>

handleHotplug ==
  /\ \/ /\ rx.pc = "edidLock"
        /\ LockFree
        /\ mWaitEdidUpdatedFinished' = FALSE
        /\ rxGo("edidRemove")
        /\ UNCHANGED queued
     \/ /\ rx.pc = "edidRemove"
        /\ removeMsg("edid")
        /\ rxGo("edidSend")
        /\ UNCHANGED mWaitEdidUpdatedFinished
     \/ /\ rx.pc = "edidSend"
        /\ sendMsg(EdidTimeout)
        /\ rxGo("check")
        /\ UNCHANGED mWaitEdidUpdatedFinished
  /\ UNCHANGED <<flags, otp, mActiveLogicalAddr, mAddedPhyAddrs, status, hand, call, switching, left,
                 history>>

(* MUTANT: the new status is not saved after the scan.                     *)
endCheckUnsaved ==
  /\ rx.pc = "check"
  /\ rx.todo = {}
  /\ rx' = [rx EXCEPT !.pc = "read", !.port = 0]
  /\ UNCHANGED <<flags, otp, mActiveLogicalAddr, mWaitEdidUpdatedFinished, mAddedPhyAddrs,
                 mTotalPort, mConnectStatus, plugged, view, hidden, queue, call, switching, left,
                 history>>

endCheck ==
  /\ rx.pc = "check"
  /\ rx.todo = {}
  /\ mConnectStatus' = rx.prev
  /\ rx' = [rx EXCEPT !.pc = "read", !.port = 0]
  /\ UNCHANGED <<flags, otp, mActiveLogicalAddr, mWaitEdidUpdatedFinished, mAddedPhyAddrs,
                 mTotalPort, plugged, view, hidden, queue, call, switching, left,
                 history>>

(* An error or a ping.                                                     *)
readNothing ==
  /\ rx.pc = "read"
  /\ rxGo("top")
  /\ UNCHANGED <<flags, otp, mActiveLogicalAddr, mWaitEdidUpdatedFinished, mAddedPhyAddrs,
                 status, queue, call, switching, left, history>>

(* isWakeUpMsg                                                             *)
WakesUp(m) == m.op \in {"ViewOn", "ActiveSource"}

(* MUTANT: isCecControlled is not looked at.                               *)
readMessagePassAll(m) ==
  /\ rx.pc = "read"
  /\ Spend("rx")
  /\ rx' = [rx EXCEPT !.pc = "validate", !.ev = m, !.pass = TRUE, !.option = FALSE]
  /\ UNCHANGED <<flags, otp, mActiveLogicalAddr, mWaitEdidUpdatedFinished, mAddedPhyAddrs,
                 status, queue, call, switching, history>>

readMessage(m) ==
  /\ rx.pc = "read"
  /\ Spend("rx")
  /\ rx' = [rx EXCEPT !.pc = "validate", !.ev = m, !.pass = isCecControlled \/ WakesUp(m),
                      !.option = FALSE]
  /\ UNCHANGED <<flags, otp, mActiveLogicalAddr, mWaitEdidUpdatedFinished, mAddedPhyAddrs,
                 status, queue, call, switching, history>>

(* A device that reports no valid address is asked again, and the report   *)
(* is not passed on.  The test for a device in standby compares the opcode *)
(* itself with the states, so it never holds.                              *)
messageValidate ==
  /\ rx.pc = "validate"
  /\ rxGo(CASE rx.ev.op = "ReportAddress" /\ rx.ev.addr = 0 -> "askRemove"
            [] rx.ev.op = "RoutingInformation" /\ rx.ev.all /\ rx.ev.addr % 16 # 0 -> "pathRemove"
            [] OTHER -> "otp")
  /\ mAddedPhyAddrs' = IF rx.ev.op = "ReportAddress" /\ rx.ev.addr # 0
                         THEN [mAddedPhyAddrs EXCEPT ![rx.ev.from] = rx.ev.addr]
                         ELSE mAddedPhyAddrs
  /\ UNCHANGED <<flags, otp, mActiveLogicalAddr, mWaitEdidUpdatedFinished, status, queue, call,
                 switching, left, history>>

(* MUTANT: the earlier <Set Stream Path> is not removed.                   *)
messageHandleNoRemove ==
  /\ \/ rx.pc = "askRemove" /\ removeMsg("giveAddress") /\ rxGo("askSend") /\ UNCHANGED owed
     \/ /\ rx.pc = "askSend"
        /\ sendMsg(GiveAddress(rx.ev.from))
        /\ rx' = [rx EXCEPT !.pc = "otp", !.pass = FALSE]
        /\ owed' = rx.ev.from
     \/ rx.pc = "pathRemove" /\ rxGo("pathSend") /\ UNCHANGED <<queued, owed>>
     \/ rx.pc = "pathSend" /\ sendMsg(SetStreamPath(rx.ev.addr)) /\ rxGo("otp") /\ UNCHANGED owed
  /\ UNCHANGED <<flags, otp, mActiveLogicalAddr, mWaitEdidUpdatedFinished, mAddedPhyAddrs,
                 status, hand, call, switching, left, edidOpen>>

messageHandle ==
  /\ \/ rx.pc = "askRemove" /\ removeMsg("giveAddress") /\ rxGo("askSend") /\ UNCHANGED owed
     \/ /\ rx.pc = "askSend"
        /\ sendMsg(GiveAddress(rx.ev.from))
        /\ rx' = [rx EXCEPT !.pc = "otp", !.pass = FALSE]
        /\ owed' = rx.ev.from
     \/ rx.pc = "pathRemove" /\ removeMsg("setStreamPath") /\ rxGo("pathSend") /\ UNCHANGED owed
     \/ rx.pc = "pathSend" /\ sendMsg(SetStreamPath(rx.ev.addr)) /\ rxGo("otp") /\ UNCHANGED owed
  /\ UNCHANGED <<flags, otp, mActiveLogicalAddr, mWaitEdidUpdatedFinished, mAddedPhyAddrs,
                 status, hand, call, switching, left, edidOpen>>

(* The device id of the input an address belongs to; port 0 if it is not   *)
(* in the table.                                                           *)
InputOf(addr) ==
  IF mTotalPort /\ addr \div 16 \in Port THEN addr \div 16 + 4 ELSE 4

(* MUTANT: an address of no input is not filtered.                         *)
FilteredInputs(m) ==
  /\ m.op = "ActiveSource" /\ mFilterOtpEnabled
  /\ mSelectedDeviceId # InputOf(m.addr) /\ InputOf(m.addr) # 4

Filtered(m) ==
  m.op = "ActiveSource" /\ mFilterOtpEnabled /\ mSelectedDeviceId # InputOf(m.addr)

(* The section under mLock.                                                *)
handleOTPMsg ==
  /\ rx.pc = "otp"
  /\ rx.ev.op = "ActiveSource" => LockFree
  /\ rx' = [rx EXCEPT !.pc = "earc", !.pass = @ /\ ~Filtered(rx.ev), !.moved = FALSE]
  /\ mActiveLogicalAddr' = IF rx.ev.op = "ActiveSource" /\ ~Filtered(rx.ev)
                             THEN rx.ev.from ELSE mActiveLogicalAddr
  /\ UNCHANGED <<flags, otp, mWaitEdidUpdatedFinished, mAddedPhyAddrs, status, queue, call,
                 switching, left, history>>

(* The monitor decides whether eARC takes the place of ARC.                *)
supportForEARC ==
  /\ rx.pc = "earc"
  /\ \E keep \in {TRUE} \union (IF rx.ev.op = "Arc" THEN {FALSE} ELSE {}) :
       rx' = [rx EXCEPT !.pc = "deliver", !.pass = @ /\ keep]
  /\ UNCHANGED <<flags, otp, mActiveLogicalAddr, mWaitEdidUpdatedFinished, mAddedPhyAddrs,
                 status, queue, call, switching, left, history>>

deliver ==
  /\ rx.pc = "deliver"
  /\ rx' = [rx EXCEPT !.pc = "top", !.ev = NoRx, !.pass = FALSE,
                      !.option = FALSE, !.moved = FALSE]
  /\ UNCHANGED <<flags, otp, mActiveLogicalAddr, mWaitEdidUpdatedFinished, mAddedPhyAddrs,
                 status, queue, call, switching, left, history>>

(* The steps of the receiver once it has something to do.                  *)
Receiver ==
  \/ startCheck \/ (\E p \in Port : checkPort(p)) \/ reportHotplug \/ handleHotplug \/ endCheck
  \/ messageValidate \/ messageHandle \/ handleOTPMsg \/ supportForEARC \/ deliver

(* A cable is plugged in or out.                                           *)
plug(p) ==
  /\ Spend("plug")
  /\ plugged' = IF p \in plugged THEN plugged \ {p} ELSE plugged \union {p}
  /\ UNCHANGED <<flags, otp, mActiveLogicalAddr, mWaitEdidUpdatedFinished, mAddedPhyAddrs,
                 mTotalPort, mConnectStatus, view, hidden, queue, rx, call, switching, history>>

----------------------------------------------------------------------------
Next ==
  \/ Worker
  \/ (\E deviceId \in DeviceId : notifyRemove(deviceId)) \/ notifySend
  \/ Binder
  \/ Receiver \/ readNothing \/ (\E m \in RxMsg : readMessage(m))
  \/ \E p \in Port : plug(p)

Spec == Init /\ [][Next]_vars

(* The threads run, and who has taken mLock goes on; no bus traffic, call, *)
(* switch or cable is assumed, and read may block.                         *)
FairSpec == Spec /\ WF_vars(Worker) /\ WF_vars(Receiver) /\ WF_vars(notifySend)
            /\ \A c \in Caller : /\ WF_vars(preHandleOfSend(c)) /\ WF_vars(askForAddress(c))
                                /\ WF_vars(sendAndPost(c))

----------------------------------------------------------------------------
(* Type *)

(* Every variable of the library and of its threads stays in its type; no  *)
(* message is taken from the queue that is not in it.                      *)
TypeOK ==
  /\ isCecEnabled \in BOOLEAN /\ isCecControlled \in BOOLEAN
  /\ mFilterOtpEnabled \in BOOLEAN /\ mSelectedDeviceId \in DeviceId
  /\ mActiveLogicalAddr \in Dev \union {0}
  /\ mWaitEdidUpdatedFinished \in BOOLEAN
  /\ mAddedPhyAddrs \in [Dev -> Addr]
  /\ mTotalPort \in BOOLEAN
  /\ mConnectStatus \subseteq Port /\ plugged \subseteq Port
  /\ view \subseteq Port /\ hidden \subseteq Port
  /\ queued \in [Timers -> Nat] /\ hand \in Timers \union {NoTimer}
  /\ rx \in RxState
  /\ call \in [Caller -> CallState]
  /\ switching \in DeviceId \union {NoSwitch}
  /\ left \in [Source -> Nat]
  /\ edidOpen \in BOOLEAN /\ owed \in Dev \union {NoDev}

----------------------------------------------------------------------------
(* Safety *)

(* The filter that a source switch turns on cannot stay on: its timeout is *)
(* in the queue or in the worker's hands, or the next switch has removed   *)
(* it and will decide (notify, lines 128-143).                             *)
OtpFilterHasTimeout ==
  mFilterOtpEnabled =>
    queued[OtpTimeout] > 0 \/ hand = OtpTimeout \/ switching # NoSwitch

(* The wait for a new EDID cannot stay on either, although handleHotplug   *)
(* sends its timeout after it released mLock (lines 563-569).              *)
EdidWaitHasTimeout ==
  ~mWaitEdidUpdatedFinished =>
    queued[EdidTimeout] > 0 \/ hand = EdidTimeout \/ rx.pc \in {"edidRemove", "edidSend"}

(* The device whose address was last put off to be asked for is still to   *)
(* be asked, unless receiver or binder thread removed the request to put   *)
(* one of its own in its place: they remove each other's, of any device,   *)
(* between the two calls (lines 463-464 and 1004-1005).                    *)
OwedAddressIsAsked ==
  owed # NoDev => \/ queued[GiveAddress(owed)] > 0
                  \/ hand = GiveAddress(owed)
                  \/ rx.pc = "askSend" \/ Asking

AtMostTwo(type) ==
  /\ \A m \in Queued(type) : queued[m] <= 2
  /\ \A m, n \in Queued(type) : m # n => queued[m] + queued[n] <= 2
  /\ \A m, n, l \in Queued(type) : m = n \/ n = l \/ m = l

(* Removing before sending keeps the queue short, although receiver and    *)
(* binder threads interleave the two: the requests that wait, for all      *)
(* devices together, and those about to be sent are two at most (lines     *)
(* 463-464 and 1004-1005); and there is one timeout of a kind at most.     *)
FewAddressRequests ==
  /\ ~Several("otp") /\ ~Several("edid")
  /\ AtMostTwo("giveAddress")
  /\ rx.pc = "askSend" \/ Asking => ~Several("giveAddress")
  /\ rx.pc = "askSend" /\ Asking => Queued("giveAddress") = {}

(* Only the <Set Stream Path> for the latest routing information waits     *)
(* (lines 490-491): an older one cannot follow it.                         *)
OnePathRequest ==
  \A a, b \in Addr :
    queued[SetStreamPath(a)] > 0 /\ queued[SetStreamPath(b)] > 0 =>
      a = b /\ queued[SetStreamPath(a)] = 1

(* What the framework was told of an input is what the library believes,   *)
(* unless a change was not reported because CEC was off or not controlled. *)
(* The status is saved after the reports (lines 648-656).                  *)
ViewFollowsStatus ==
  \A p \in Port \ hidden :
    ~(rx.pc = "hotplug" /\ rx.port = p) =>
      (p \in view <=> p \in IF rx.pc \in {"check", "hotplug", "edidLock", "edidRemove", "edidSend"}
                              THEN rx.prev ELSE mConnectStatus)

(* An <Active Source> of another input reaches the framework within the    *)
(* filter only if the source was switched after handleOTPMsg let it pass.  *)
FilterHoldsUpToSwitch ==
  rx.pc \in {"earc", "deliver"} /\ rx.pass /\ rx.ev.op = "ActiveSource"
    /\ mFilterOtpEnabled /\ mSelectedDeviceId # InputOf(rx.ev.addr) => rx.moved

(* "android system will stop handling CEC service when value is false"     *)
(* (HdmiCecControl.h:123-124): only a wake-up is passed on then, or a      *)
(* message read before control was given up.                               *)
UncontrolledOnlyWakes ==
  rx.pass /\ ~isCecControlled => WakesUp(rx.ev) \/ rx.option

----------------------------------------------------------------------------
(* Liveness *)

(* A filter that is turned on is turned off again.                         *)
OtpFilterEnds == mFilterOtpEnabled ~> ~mFilterOtpEnabled

(* A wait for a new EDID ends.                                             *)
EdidWaitEnds == ~mWaitEdidUpdatedFinished ~> mWaitEdidUpdatedFinished

(* The device that was last put off is asked for its address.              *)
OwedAddressIsSent == owed # NoDev ~> owed = NoDev

----------------------------------------------------------------------------
(* What the comments say *)

(* HdmiCecControl.cpp:996-998: the AVR is not asked for its address while  *)
(* the EDID is not updated after a hotplug.  A request is let through only *)
(* when the wait of every reported connection is over.                     *)
AvrAskedAfterEdid ==
  [][\A c \in Caller :
       call[c].pc = "pre" /\ call[c].msg.op = "GiveAddress" /\ call[c].msg.to = Avr
         /\ call'[c].pc = "send" => ~edidOpen]_vars

=============================================================================
