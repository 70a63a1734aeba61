---------------------------- MODULE CecMsgQueue ----------------------------
(***************************************************************************)
(* The delayed-message queue of the HDMI-CEC library                       *)
(* (services/hdmicec/libhdmi_cec/CMsgQueue.cpp).                           *)
(*                                                                         *)
(* Any thread may call sendMsg, removeMsg or clearMsg; one worker thread   *)
(* runs threadLoop.  mLockQueue protects the vector, but the worker        *)
(* releases it between looking at the first message and taking it, and     *)
(* reads the size of the vector twice without it.  Every critical section  *)
(* is one action, except the loop of removeMsg, which is one action per    *)
(* iteration so that the unlocked reads can fall in between.               *)
(***************************************************************************)
EXTENDS Integers, Sequences, SequencesExt

CONSTANTS
  Msg,          (* the messages that may be sent, each at most once          *)
  NoMsg,        (* a CMessage whose bytes are those of no message            *)
  Type,         (* values of CMessage.mType                                  *)
  TypeOf,       (* Msg -> Type                                               *)
  DelayOf,      (* Msg -> Nat: CMessage.mDelayMs                             *)
  RemoveTypes,  (* the types that some caller passes to removeMsg            *)
  Clears,       (* whether some caller uses clearMsg                         *)
  Exits,        (* whether the owner destroys the queue                      *)
  MaxTime       (* bound on the clock; a message is due within it            *)

ASSUME QueueAssumption ==
  /\ NoMsg \notin Msg
  /\ Type # {}
  /\ TypeOf \in [Msg -> Type]
  /\ DelayOf \in [Msg -> Nat]
  /\ RemoveTypes \subseteq Type
  /\ Clears \in BOOLEAN
  /\ Exits \in BOOLEAN
  /\ MaxTime \in Nat

VARIABLES
  now,          (* getNowMs()                                                *)
  queue,        (* m_v_msg                                                   *)
  when,         (* mWhenMs of each message                                   *)
  rm,           (* the running removeMsg: it holds mLockQueue while rm.on    *)
  worker,       (* where threadLoop is                                       *)
  cur,          (* its local variable msg                                    *)
  exitPending,  (* set by requestExitAndWait                                 *)
  sends,        (* history: the number of calls of sendMsg                   *)
  stamp,        (* history: which of them sent the message, 0 if none        *)
  taken,        (* history: the messages handed to handleMessage             *)
  dirty         (* history: something left the queue, other than through the *)
                (* worker, since the worker last saw a due first message     *)

vars == <<now, queue, when, rm, worker, cur, exitPending, sends, stamp, taken, dirty>>

WorkerState == {"off", "loop", "check", "asleep", "peekTest", "peek", "dueTest",
                "arm", "timed", "popTest", "pop", "handle", "exited"}

RemoveState == [on : BOOLEAN, type : Type, i : Nat \ {0}, before : Seq(Msg)]

NoRemove == [on |-> FALSE, type |-> CHOOSE t \in Type : TRUE, i |-> 1, before |-> <<>>]

Sent == {m \in Msg : stamp[m] > 0}

LockFree == ~rm.on

(* What reading slot 0 of an empty Vector gives in a build without the     *)
(* bounds assertion: the bytes an earlier message left there, or none's.   *)
SlotZero == (Sent \ ToSet(queue)) \union {NoMsg}

Init ==
  /\ now = 0
  /\ queue = <<>>
  /\ when = [m \in Msg |-> 0]
  /\ rm = NoRemove
  /\ worker = "off"
  /\ cur = NoMsg
  /\ exitPending = FALSE
  /\ sends = 0
  /\ stamp = [m \in Msg |-> 0]
  /\ taken = <<>>
  /\ dirty = FALSE

----------------------------------------------------------------------------
(* Callers *)

(* MUTANT: a send does not wake the worker.                                *)
SignalDropped == UNCHANGED worker

(* mGetMsgCondition.signal(): the worker is the only thread that waits.    *)
Signal ==
  worker' = CASE worker = "asleep" -> "check"
              [] worker = "timed"  -> "peekTest"
              [] OTHER             -> worker

(* MUTANT: stops at the first message that is due at w already.            *)
IsSlotForStrict(w, k) ==
  /\ \A j \in 1..(k - 1) : when[queue[j]] < w
  /\ k <= Len(queue) => when[queue[k]] >= w

(* The index in front of the first message that is due later than w.       *)
IsSlotFor(w, k) ==
  /\ \A j \in 1..(k - 1) : when[queue[j]] <= w
  /\ k <= Len(queue) => when[queue[k]] > w

sendMsg(m) ==
  /\ LockFree
  /\ stamp[m] = 0
  /\ now + DelayOf[m] <= MaxTime
  /\ when' = [when EXCEPT ![m] = now + DelayOf[m]]
  /\ \E k \in 1..(Len(queue) + 1) :
       /\ IsSlotFor(now + DelayOf[m], k)
       /\ queue' = InsertAt(queue, k, m)
  /\ sends' = sends + 1
  /\ stamp' = [stamp EXCEPT ![m] = sends + 1]
  /\ Signal
  /\ UNCHANGED <<now, rm, cur, exitPending, taken, dirty>>

removeMsgLock(t) ==
  /\ LockFree
  /\ rm' = [on |-> TRUE, type |-> t, i |-> 1, before |-> queue]
  /\ UNCHANGED <<now, queue, when, worker, cur, exitPending, sends, stamp, taken, dirty>>

(* MUTANT: the loop ends at the first message it removes.                  *)
removeMsgStepOnce ==
  /\ rm.on
  /\ rm.i <= Len(queue)
  /\ IF TypeOf[queue[rm.i]] = rm.type
       THEN /\ queue' = RemoveAt(queue, rm.i)
            /\ dirty' = TRUE
            /\ rm' = [rm EXCEPT !.i = Len(queue) + 1]
       ELSE /\ rm' = [rm EXCEPT !.i = @ + 1]
            /\ UNCHANGED <<queue, dirty>>
  /\ UNCHANGED <<now, when, worker, cur, exitPending, sends, stamp, taken>>

(* One iteration: removeAt(i) moves the next message to i, and i++ then    *)
(* steps over it.                                                          *)
removeMsgStep ==
  /\ rm.on
  /\ rm.i <= Len(queue)
  /\ IF TypeOf[queue[rm.i]] = rm.type
       THEN /\ queue' = RemoveAt(queue, rm.i)
            /\ dirty' = TRUE
       ELSE UNCHANGED <<queue, dirty>>
  /\ rm' = [rm EXCEPT !.i = @ + 1]
  /\ UNCHANGED <<now, when, worker, cur, exitPending, sends, stamp, taken>>

removeMsgUnlock ==
  /\ rm.on
  /\ rm.i > Len(queue)
  /\ rm' = NoRemove
  /\ IF Len(rm.before) > Len(queue) THEN Signal ELSE UNCHANGED worker
  /\ UNCHANGED <<now, queue, when, cur, exitPending, sends, stamp, taken, dirty>>

clearMsg ==
  /\ Clears
  /\ LockFree
  /\ queue' = <<>>
  /\ dirty' = TRUE
  /\ UNCHANGED <<now, when, rm, worker, cur, exitPending, sends, stamp, taken>>

startMsgQueue ==
  /\ LockFree
  /\ worker = "off"
  /\ worker' = "loop"
  /\ UNCHANGED <<now, queue, when, rm, cur, exitPending, sends, stamp, taken, dirty>>

(* ~CMsgQueueThread: requestExitAndWait sets the flag and joins the worker *)
(* without signalling mGetMsgCondition.                                    *)
destroy ==
  /\ Exits
  /\ ~exitPending
  /\ exitPending' = TRUE
  /\ UNCHANGED <<now, queue, when, rm, worker, cur, sends, stamp, taken, dirty>>

----------------------------------------------------------------------------
(* The worker: threadLoop *)

loopTest ==
  /\ worker = "loop"
  /\ worker' = IF exitPending THEN "exited" ELSE "check"
  /\ UNCHANGED <<now, queue, when, rm, cur, exitPending, sends, stamp, taken, dirty>>

waitNonEmpty ==
  /\ worker = "check"
  /\ LockFree
  /\ IF queue = <<>>
       THEN worker' = "asleep" /\ UNCHANGED dirty
       ELSE worker' = "peekTest" /\ dirty' = FALSE
  /\ UNCHANGED <<now, queue, when, rm, cur, exitPending, sends, stamp, taken>>

peekTest ==
  /\ worker = "peekTest"
  /\ worker' = IF Len(queue) <= 0 THEN "popTest" ELSE "peek"
  /\ UNCHANGED <<now, queue, when, rm, cur, exitPending, sends, stamp, taken, dirty>>

(* msg = m_v_msg[0], under the lock.                                       *)
peek ==
  /\ worker = "peek"
  /\ LockFree
  /\ cur' \in IF queue = <<>> THEN SlotZero ELSE {queue[1]}
  /\ dirty' = (queue = <<>>)
  /\ worker' = "dueTest"
  /\ UNCHANGED <<now, queue, when, rm, exitPending, sends, stamp, taken>>

Due(m) == m = NoMsg \/ when[m] <= now

(* MUTANT: the first message is taken without waiting.                     *)
dueTestSkipped ==
  /\ worker = "dueTest"
  /\ worker' = "popTest"
  /\ UNCHANGED <<now, queue, when, rm, cur, exitPending, sends, stamp, taken, dirty>>

(* delayMs = msg.mWhenMs - getNowMs(), without the lock.                   *)
dueTest ==
  /\ worker = "dueTest"
  /\ worker' = IF Due(cur) THEN "popTest" ELSE "arm"
  /\ UNCHANGED <<now, queue, when, rm, cur, exitPending, sends, stamp, taken, dirty>>

timedWait ==
  /\ worker = "arm"
  /\ LockFree
  /\ worker' = "timed"
  /\ UNCHANGED <<now, queue, when, rm, cur, exitPending, sends, stamp, taken, dirty>>

(* waitRelative(delayMs): the argument is in nanoseconds, so the wait may  *)
(* end at any time before the message is due.                              *)
waitTimeout ==
  /\ worker = "timed"
  /\ LockFree
  /\ worker' = "peekTest"
  /\ UNCHANGED <<now, queue, when, rm, cur, exitPending, sends, stamp, taken, dirty>>

popTest ==
  /\ worker = "popTest"
  /\ worker' = IF Len(queue) > 0 THEN "pop" ELSE "loop"
  /\ UNCHANGED <<now, queue, when, rm, cur, exitPending, sends, stamp, taken, dirty>>

(* MUTANT: takes the last message of the vector.                           *)
popLast ==
  /\ worker = "pop"
  /\ LockFree
  /\ queue # <<>>
  /\ cur' = queue[Len(queue)]
  /\ queue' = RemoveAt(queue, Len(queue))
  /\ taken' = Append(taken, cur')
  /\ worker' = "handle"
  /\ UNCHANGED <<now, when, rm, exitPending, sends, stamp, dirty>>

(* MUTANT: the message is copied and not removed.                          *)
popKeeps ==
  /\ worker = "pop"
  /\ LockFree
  /\ IF queue = <<>> THEN cur' \in SlotZero ELSE cur' = queue[1]
  /\ taken' = IF cur' = NoMsg THEN taken ELSE Append(taken, cur')
  /\ worker' = "handle"
  /\ UNCHANGED <<now, queue, when, rm, exitPending, sends, stamp, dirty>>

(* On an empty vector m_v_msg[0] is slot 0 and removeAt(0) fails.          *)
pop ==
  /\ worker = "pop"
  /\ LockFree
  /\ IF queue = <<>>
       THEN cur' \in SlotZero /\ UNCHANGED queue
       ELSE cur' = queue[1] /\ queue' = RemoveAt(queue, 1)
  /\ taken' = IF cur' = NoMsg THEN taken ELSE Append(taken, cur')
  /\ worker' = "handle"
  /\ UNCHANGED <<now, when, rm, exitPending, sends, stamp, dirty>>

handleMessage ==
  /\ worker = "handle"
  /\ worker' = "loop"
  /\ cur' = NoMsg
  /\ UNCHANGED <<now, queue, when, rm, exitPending, sends, stamp, taken, dirty>>

Tick ==
  /\ now < MaxTime
  /\ now' = now + 1
  /\ UNCHANGED <<queue, when, rm, worker, cur, exitPending, sends, stamp, taken, dirty>>

Worker == \/ loopTest \/ waitNonEmpty \/ peekTest \/ peek \/ dueTest
          \/ timedWait \/ waitTimeout \/ popTest \/ pop \/ handleMessage

Remover == removeMsgStep \/ removeMsgUnlock

Next ==
  \/ \E m \in Msg : sendMsg(m)
  \/ \E t \in RemoveTypes : removeMsgLock(t)
  \/ Remover
  \/ clearMsg
  \/ startMsgQueue
  \/ destroy
  \/ Worker
  \/ Tick

Spec == Init /\ [][Next]_vars

(* The threads are scheduled and the clock advances; nobody is obliged to  *)
(* call sendMsg, removeMsg or the destructor.  Once opened, the device     *)
(* calls startMsgQueue.  Strong fairness for who waits for mLockQueue:     *)
(* removeMsg is called once per event, not in a loop that keeps the lock.  *)
FairSpec ==
  /\ Spec
  /\ SF_vars(startMsgQueue)
  /\ SF_vars(Worker)
  /\ WF_vars(Remover)
  /\ WF_vars(Tick)

----------------------------------------------------------------------------
(* Properties *)

TypeOK ==
  /\ now \in 0..MaxTime
  /\ queue \in Seq(Msg)
  /\ when \in [Msg -> Nat]
  /\ rm \in RemoveState
  /\ worker \in WorkerState
  /\ cur \in Msg \union {NoMsg}
  /\ exitPending \in BOOLEAN
  /\ sends \in Nat
  /\ stamp \in [Msg -> Nat]
  /\ taken \in Seq(Msg)
  /\ dirty \in BOOLEAN

(* m was due before n, or at the same time and was sent first.             *)
Before(m, n) == when[m] < when[n] \/ (when[m] = when[n] /\ stamp[m] < stamp[n])

(* sendMsg keeps the vector ordered by due time, first sent first among    *)
(* equals, whatever removeMsg and the worker take out of it: the worker    *)
(* relies on it when it waits for the first message only.                  *)
QueueSorted ==
  \A i, j \in 1..Len(queue) : i < j => Before(queue[i], queue[j])

(* "wait ,until , the lowest time msg's whentime is low nowtime, to go on" *)
(* (CMsgQueue.cpp:95): what handleMessage gets is due.                     *)
NeverEarly == worker = "handle" => Due(cur)

(* What holds with concurrent removals too: a message handed over before   *)
(* it is due, or read from an empty vector, needs a removal between the    *)
(* worker's look at the first message and its taking it.                   *)
EarlyOnlyAfterRemoval ==
  worker = "handle" /\ ~dirty => cur # NoMsg /\ Due(cur)

(* Without removals the worker hands messages over in the order in which   *)
(* they are due, each once, even those sent while it waits for another.    *)
HandledInDueOrder ==
  \A i, j \in 1..Len(taken) : i < j => Before(taken[i], taken[j])

(* removeMsg leaves a message of the type it removes only right behind one *)
(* that it removed (the index it skips), and takes nothing of another      *)
(* type: stated when its loop ends.                                        *)
RemoveSkipsOnlyBehindRemoved ==
  rm.on /\ rm.i > Len(queue) =>
    \A j \in 1..Len(rm.before) :
      LET left == rm.before[j] \notin ToSet(queue)
      IN /\ left => TypeOf[rm.before[j]] = rm.type
         /\ ~left /\ TypeOf[rm.before[j]] = rm.type =>
              /\ j > 1
              /\ rm.before[j - 1] \notin ToSet(queue)

(* Every message that was sent leaves the queue: no wake-up is lost.       *)
EverySentLeaves ==
  \A m \in Msg : stamp[m] > 0 ~> (m \notin ToSet(queue) \/ exitPending)

(* "while (!exitPending()) { //requietexit() or requietexitWait() not      *)
(* call" (CMsgQueue.cpp:86): the loop ends once the destructor asks.       *)
ExitsWhenAsked == exitPending /\ worker # "off" ~> worker = "exited"

(* With no removals and no exit the queue keeps the promise of DelayQueue. *)
Promise == INSTANCE DelayQueue WITH pending <- ToSet(queue), delivered <- taken

(* Every step of a sender, of the clock and of the worker is a step of the *)
(* promise or changes nothing a user sees.                                 *)
KeepsPromise == Promise!Spec

(* And every message is delivered: the worker never sleeps on a due one.   *)
KeepsFairPromise == Promise!FairSpec

(* With removals the queue is still a MessageBag, where removeMsg is one   *)
(* step, at the end of its loop: whatever the worker's unlocked looks at   *)
(* the vector see, a message is handed over only out of the bag, or when   *)
(* a removal has emptied it; and a removal takes half of its type at least.*)
Bag == INSTANCE MessageBag
         WITH sent <- Sent,
              bag <- IF rm.on THEN ToSet(rm.before) ELSE ToSet(queue),
              handled <- ToSet(taken),
              hand <- IF worker = "handle" THEN cur ELSE NoMsg

KeepsBag == Bag!Spec

============================================================================
