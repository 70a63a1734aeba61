------------------------- MODULE CecMsgQueueProofs -------------------------
(***************************************************************************)
(* Theorems about CecMsgQueue for any set of messages, types, delays and   *)
(* callers of removeMsg.                                                   *)
(***************************************************************************)
EXTENDS CecMsgQueue, SequenceTheorems, FiniteSetTheorems, TLAPS

(***************************************************************************)
(* The two vector operations.                                              *)
(***************************************************************************)

(* insertAt(e, k - 1) shifts what stood at k and behind it.                *)
LEMMA InsertAtProperties ==
  ASSUME NEW S, NEW s \in Seq(S), NEW e \in S, NEW k \in 1..(Len(s) + 1)
  PROVE  /\ InsertAt(s, k, e) \in Seq(S)
         /\ Len(InsertAt(s, k, e)) = Len(s) + 1
         /\ \A j \in 1..(Len(s) + 1) :
              InsertAt(s, k, e)[j] = IF j < k THEN s[j]
                                     ELSE IF j = k THEN e ELSE s[j - 1]
<1> DEFINE a == SubSeq(s, 1, k - 1)
           b == <<e>>
           c == SubSeq(s, k, Len(s))
<1>1. /\ a \in Seq(S)
      /\ Len(a) = k - 1
      /\ \A j \in 1..(k - 1) : a[j] = s[j]
  BY SubSeqProperties
<1>2. /\ c \in Seq(S)
      /\ Len(c) = Len(s) - k + 1
      /\ \A j \in 1..(Len(s) - k + 1) : c[j] = s[k + j - 1]
  BY SubSeqProperties
<1>3. b \in Seq(S) /\ Len(b) = 1 /\ b[1] = e
  OBVIOUS
<1> HIDE DEF a, b, c
<1>4. /\ a \o b \in Seq(S)
      /\ Len(a \o b) = k
      /\ \A j \in 1..k : (a \o b)[j] = IF j < k THEN s[j] ELSE e
  <2>1. /\ a \o b \in Seq(S)
        /\ Len(a \o b) = Len(a) + Len(b)
        /\ \A j \in 1..(Len(a) + Len(b)) :
             (a \o b)[j] = IF j <= Len(a) THEN a[j] ELSE b[j - Len(a)]
    BY <1>1, <1>3, ConcatProperties, Zenon
  <2> QED
    BY <1>1, <1>3, <2>1
<1>5. /\ (a \o b) \o c \in Seq(S)
      /\ Len((a \o b) \o c) = Len(s) + 1
      /\ \A j \in 1..(Len(s) + 1) :
           ((a \o b) \o c)[j] = IF j < k THEN s[j] ELSE IF j = k THEN e ELSE s[j - 1]
  <2> DEFINE ab == a \o b
  <2> HIDE DEF ab
  <2>1. /\ ab \o c \in Seq(S)
        /\ Len(ab \o c) = Len(ab) + Len(c)
        /\ \A j \in 1..(Len(ab) + Len(c)) :
             (ab \o c)[j] = IF j <= Len(ab) THEN ab[j] ELSE c[j - Len(ab)]
    <3>1. ab \in Seq(S) /\ c \in Seq(S)
      BY <1>2, <1>4 DEF ab
    <3> QED
      BY <3>1, ConcatProperties, Zenon
  <2>2. /\ Len(ab) = k
        /\ \A j \in 1..k : ab[j] = IF j < k THEN s[j] ELSE e
    BY <1>4 DEF ab
  <2>3. \A j \in 1..(Len(s) + 1) :
          (ab \o c)[j] = IF j < k THEN s[j] ELSE IF j = k THEN e ELSE s[j - 1]
    <3>1. Len(s) \in Nat /\ k \in Nat /\ Len(c) = Len(s) - k + 1
      BY <1>2
    <3>2. \A j \in 1..k : (ab \o c)[j] = ab[j]
      BY <2>1, <2>2, <3>1
    <3>3. \A j \in (k + 1)..(Len(s) + 1) : (ab \o c)[j] = c[j - k]
      BY <2>1, <2>2, <3>1
    <3>4. \A j \in (k + 1)..(Len(s) + 1) :
            /\ j - k \in 1..(Len(s) - k + 1)
            /\ k + (j - k) - 1 = j - 1
      BY <3>1
    <3>5. \A j \in (k + 1)..(Len(s) + 1) : c[j - k] = s[j - 1]
      BY <1>2, <3>4
    <3> SUFFICES ASSUME NEW j \in 1..(Len(s) + 1)
                 PROVE  (ab \o c)[j] = IF j < k THEN s[j] ELSE IF j = k THEN e ELSE s[j - 1]
      OBVIOUS
    <3>6. CASE j <= k
      <4>1. j \in 1..k
        BY <3>1, <3>6
      <4> QED BY <2>2, <3>1, <3>2, <4>1
    <3>7. CASE j > k
      <4>1. j \in (k + 1)..(Len(s) + 1) /\ ~(j < k) /\ j # k
        BY <3>1, <3>7
      <4> QED BY <3>3, <3>5, <4>1
    <3>8. j <= k \/ j > k
      BY <3>1
    <3> QED BY <3>6, <3>7, <3>8, Zenon
  <2> QED
    BY <1>2, <2>1, <2>2, <2>3 DEF ab
<1> QED
  BY <1>5 DEF InsertAt, a, b, c

(* removeAt(k - 1) moves what stood behind k.                              *)
LEMMA RemoveAtProperties ==
  ASSUME NEW S, NEW s \in Seq(S), NEW k \in 1..Len(s)
  PROVE  /\ RemoveAt(s, k) \in Seq(S)
         /\ Len(RemoveAt(s, k)) = Len(s) - 1
         /\ \A j \in 1..(Len(s) - 1) :
              RemoveAt(s, k)[j] = IF j < k THEN s[j] ELSE s[j + 1]
<1> DEFINE a == SubSeq(s, 1, k - 1)
           c == SubSeq(s, k + 1, Len(s))
<1>1. /\ a \in Seq(S)
      /\ Len(a) = k - 1
      /\ \A j \in 1..(k - 1) : a[j] = s[j]
  BY SubSeqProperties
<1>2. /\ c \in Seq(S)
      /\ Len(c) = Len(s) - k
      /\ \A j \in 1..(Len(s) - k) : c[j] = s[k + j]
  BY SubSeqProperties
<1> HIDE DEF a, c
<1>3. /\ a \o c \in Seq(S)
      /\ Len(a \o c) = Len(s) - 1
      /\ \A j \in 1..(Len(s) - 1) : (a \o c)[j] = IF j < k THEN s[j] ELSE s[j + 1]
  <2>1. /\ a \o c \in Seq(S)
        /\ Len(a \o c) = Len(a) + Len(c)
        /\ \A j \in 1..(Len(a) + Len(c)) :
             (a \o c)[j] = IF j <= Len(a) THEN a[j] ELSE c[j - Len(a)]
    BY <1>1, <1>2, ConcatProperties, Zenon
  <2> QED
    BY <1>1, <1>2, <2>1
<1> QED
  BY <1>3 DEF RemoveAt, a, c

(***************************************************************************)
(* Type correctness                                                        *)
(***************************************************************************)

LEMMA NoRemoveType == NoRemove \in RemoveState
BY QueueAssumption DEF NoRemove, RemoveState

LEMMA SignalType ==
  ASSUME worker \in WorkerState, Signal
  PROVE  worker' \in WorkerState
BY DEF Signal, WorkerState

(* Every step of the program keeps every variable in its type.             *)
LEMMA TypeStep == TypeOK /\ [Next]_vars => TypeOK'
<1> SUFFICES ASSUME TypeOK, [Next]_vars PROVE TypeOK'
  OBVIOUS
<1> USE QueueAssumption
<1>1. ASSUME NEW m \in Msg, sendMsg(m) PROVE TypeOK'
  <2>1. PICK k \in 1..(Len(queue) + 1) : queue' = InsertAt(queue, k, m)
    BY <1>1 DEF sendMsg
  <2>2. queue' \in Seq(Msg)
    BY <2>1, InsertAtProperties DEF TypeOK
  <2>3. worker' \in WorkerState
    BY <1>1, SignalType DEF sendMsg, TypeOK
  <2>4. when' \in [Msg -> Nat] /\ sends' \in Nat /\ stamp' \in [Msg -> Nat]
    BY <1>1 DEF sendMsg, TypeOK
  <2>5. /\ now' = now /\ rm' = rm /\ cur' = cur /\ taken' = taken
        /\ exitPending' = exitPending /\ dirty' = dirty
    BY <1>1, Zenon DEF sendMsg
  <2> QED
    BY <2>2, <2>3, <2>4, <2>5, Zenon DEF TypeOK
<1>2. ASSUME NEW t \in RemoveTypes, removeMsgLock(t) PROVE TypeOK'
  <2>1. rm' \in RemoveState
    BY <1>2 DEF removeMsgLock, TypeOK, RemoveState
  <2> QED
    BY <1>2, <2>1 DEF removeMsgLock, TypeOK
<1>3. CASE removeMsgStep
  <2>1. rm.i \in Nat \ {0} /\ rm' \in RemoveState
    <3>1. rm \in RemoveState /\ rm' = [rm EXCEPT !.i = @ + 1]
      BY <1>3 DEF removeMsgStep, TypeOK
    <3> QED
      BY <3>1 DEF RemoveState
  <2>2. rm.i \in 1..Len(queue)
    BY <1>3, <2>1 DEF removeMsgStep, TypeOK
  <2>3. queue' \in Seq(Msg)
    <3>1. RemoveAt(queue, rm.i) \in Seq(Msg)
      BY <2>2, RemoveAtProperties, Zenon DEF TypeOK
    <3> QED
      BY <1>3, <3>1, Zenon DEF removeMsgStep, TypeOK
  <2>4. dirty' \in BOOLEAN
    BY <1>3, Zenon DEF removeMsgStep, TypeOK
  <2> QED
    BY <1>3, <2>1, <2>3, <2>4, Zenon DEF removeMsgStep, TypeOK
<1>4. CASE removeMsgUnlock
  <2>1. worker' \in WorkerState
    BY <1>4, SignalType DEF removeMsgUnlock, TypeOK
  <2>2. rm' \in RemoveState
    BY <1>4, NoRemoveType DEF removeMsgUnlock
  <2> QED
    BY <1>4, <2>1, <2>2 DEF removeMsgUnlock, TypeOK
<1>5. CASE clearMsg
  BY <1>5 DEF clearMsg, TypeOK
<1>6. CASE startMsgQueue
  BY <1>6 DEF startMsgQueue, TypeOK, WorkerState
<1>7. CASE destroy
  BY <1>7 DEF destroy, TypeOK
<1>8. CASE loopTest \/ waitNonEmpty \/ peekTest \/ dueTest \/ timedWait
           \/ waitTimeout \/ popTest
  BY <1>8 DEF loopTest, waitNonEmpty, peekTest, dueTest, timedWait, waitTimeout,
              popTest, TypeOK, WorkerState
<1>9. CASE peek
  <2>1. cur' \in Msg \union {NoMsg}
    BY <1>9 DEF peek, SlotZero, Sent, TypeOK
  <2> QED
    BY <1>9, <2>1 DEF peek, TypeOK, WorkerState
<1>10. CASE pop
  <2>1. /\ cur' \in Msg \union {NoMsg}
        /\ queue' \in Seq(Msg)
    BY <1>10, RemoveAtProperties DEF pop, SlotZero, Sent, TypeOK
  <2>2. taken' \in Seq(Msg)
    BY <1>10, <2>1 DEF pop, TypeOK
  <2> QED
    BY <1>10, <2>1, <2>2 DEF pop, TypeOK, WorkerState
<1>11. CASE handleMessage
  BY <1>11 DEF handleMessage, TypeOK, WorkerState
<1>12. CASE Tick
  BY <1>12 DEF Tick, TypeOK
<1>13. CASE UNCHANGED vars
  BY <1>13 DEF vars, TypeOK
<1> QED
  BY <1>1, <1>2, <1>3, <1>4, <1>5, <1>6, <1>7, <1>8, <1>9, <1>10, <1>11, <1>12,
     <1>13 DEF Next, Worker, Remover

LEMMA TypeCorrectInit == Init => TypeOK
<1>1. Init => rm \in RemoveState
  BY NoRemoveType DEF Init
<1>2. Init => now \in 0..MaxTime /\ when \in [Msg -> Nat] /\ sends \in Nat
              /\ stamp \in [Msg -> Nat] /\ queue \in Seq(Msg) /\ taken \in Seq(Msg)
  BY QueueAssumption DEF Init
<1> QED
  BY <1>1, <1>2, Zenon DEF Init, TypeOK, WorkerState

(* The queue, the worker and the running removeMsg stay in their types.    *)
THEOREM TypeCorrect == Spec => []TypeOK
BY TypeCorrectInit, TypeStep, PTL DEF Spec

(***************************************************************************)
(* The order of the vector                                                 *)
(***************************************************************************)

(* What is in the vector was sent, and no two messages share a stamp.      *)
StampInv ==
  /\ \A m \in Msg : stamp[m] <= sends
  /\ \A i \in 1..Len(queue) : stamp[queue[i]] > 0
  /\ cur # NoMsg => stamp[cur] > 0

(* What the types say of the messages in the vector.                       *)
LEMMA QueueFacts ==
  ASSUME TypeOK
  PROVE  /\ Len(queue) \in Nat /\ sends \in Nat /\ now \in Nat
         /\ \A m \in Msg : when[m] \in Nat /\ stamp[m] \in Nat /\ DelayOf[m] \in Nat
         /\ \A i \in 1..Len(queue) : /\ queue[i] \in Msg
                                     /\ when[queue[i]] \in Nat /\ stamp[queue[i]] \in Nat
         /\ cur \in Msg \union {NoMsg}
<1>1. Len(queue) \in Nat /\ sends \in Nat /\ now \in Nat /\ cur \in Msg \union {NoMsg}
  BY QueueAssumption DEF TypeOK
<1>2. \A m \in Msg : when[m] \in Nat /\ stamp[m] \in Nat /\ DelayOf[m] \in Nat
  BY QueueAssumption DEF TypeOK
<1>3. \A i \in 1..Len(queue) : queue[i] \in Msg
  BY DEF TypeOK
<1> QED BY <1>1, <1>2, <1>3

(* A step of a caller or of the worker that is not sendMsg takes away      *)
(* messages only, and leaves the due times and the stamps alone.           *)
LEMMA Shrinks ==
  ASSUME TypeOK,
         \/ \E t \in RemoveTypes : removeMsgLock(t)
         \/ Remover \/ clearMsg \/ startMsgQueue \/ destroy \/ Worker \/ Tick
         \/ UNCHANGED vars
  PROVE  /\ when' = when /\ stamp' = stamp /\ sends' = sends
         /\ \/ queue' = queue
            \/ queue' = <<>>
            \/ \E k \in 1..Len(queue) : queue' = RemoveAt(queue, k)
<1>1. CASE removeMsgStep
  <2>1. rm.i \in Nat \ {0}
    BY DEF TypeOK, RemoveState
  <2>2. Len(queue) \in Nat
    BY DEF TypeOK
  <2>3. rm.i \in 1..Len(queue)
    BY <1>1, <2>1, <2>2 DEF removeMsgStep
  <2> QED
    BY <1>1, <2>3, Zenon DEF removeMsgStep
<1>2. CASE pop
  <2>1. queue # <<>> => 1 \in 1..Len(queue)
    BY DEF TypeOK
  <2> QED
    BY <1>2, <2>1, Zenon DEF pop
<1>3. CASE clearMsg
  BY <1>3, Zenon DEF clearMsg
<1>4. CASE \/ \E t \in RemoveTypes : removeMsgLock(t)
           \/ removeMsgUnlock \/ startMsgQueue \/ destroy \/ Tick
           \/ UNCHANGED vars
  BY <1>4, Zenon DEF removeMsgLock, removeMsgUnlock, startMsgQueue, destroy, Tick, vars
<1>5. CASE \/ loopTest \/ waitNonEmpty \/ peekTest \/ peek \/ dueTest \/ timedWait
           \/ waitTimeout \/ popTest \/ handleMessage
  BY <1>5, Zenon DEF loopTest, waitNonEmpty, peekTest, peek, dueTest, timedWait,
     waitTimeout, popTest, handleMessage
<1> QED
  BY <1>1, <1>2, <1>3, <1>4, <1>5, Zenon DEF Remover, Worker

(* A message in the middle of the vector keeps its order when another one  *)
(* is taken out.                                                           *)
LEMMA SortedShrinks ==
  ASSUME TypeOK, QueueSorted, when' = when, stamp' = stamp,
         \/ queue' = queue
         \/ queue' = <<>>
         \/ \E k \in 1..Len(queue) : queue' = RemoveAt(queue, k)
  PROVE  QueueSorted'
<1>1. CASE queue' = queue \/ queue' = <<>>
  BY <1>1 DEF QueueSorted, Before
<1>2. CASE \E k \in 1..Len(queue) : queue' = RemoveAt(queue, k)
  <2>1. PICK k \in 1..Len(queue) : queue' = RemoveAt(queue, k)
    BY <1>2
  <2>2. /\ Len(queue') = Len(queue) - 1
        /\ \A j \in 1..(Len(queue) - 1) :
             queue'[j] = IF j < k THEN queue[j] ELSE queue[j + 1]
    BY <2>1, RemoveAtProperties DEF TypeOK
  <2>3. Len(queue) \in Nat
    BY DEF TypeOK
  <2>4. ASSUME NEW i \in 1..Len(queue'), NEW j \in 1..Len(queue'), i < j
        PROVE  Before(queue'[i], queue'[j])
    <3> DEFINE p(n) == IF n < k THEN n ELSE n + 1
    <3>1. /\ p(i) \in 1..Len(queue) /\ p(j) \in 1..Len(queue) /\ p(i) < p(j)
          /\ queue'[i] = queue[p(i)] /\ queue'[j] = queue[p(j)]
      BY <2>2, <2>3, <2>4
    <3> HIDE DEF p
    <3>2. Before(queue[p(i)], queue[p(j)])
      BY <3>1 DEF QueueSorted
    <3> QED
      BY <3>1, <3>2 DEF Before
  <2>5. QueueSorted' <=> \A i, j \in 1..Len(queue') :
                           i < j => Before(queue'[i], queue'[j])
    BY DEF QueueSorted, Before
  <2> QED
    BY <2>4, <2>5
<1> QED
  BY <1>1, <1>2

(* sendMsg puts one new message, the last one sent, behind those due no    *)
(* later and in front of those due later.                                  *)
LEMMA Grows ==
  ASSUME TypeOK, StampInv, NEW m \in Msg, sendMsg(m)
  PROVE  /\ stamp[m] = 0 /\ sends' = sends + 1
         /\ when'[m] = now + DelayOf[m] /\ stamp'[m] = sends + 1
         /\ \A n \in Msg : n # m => when'[n] = when[n] /\ stamp'[n] = stamp[n]
         /\ \A i \in 1..Len(queue) : queue[i] # m
         /\ \E k \in 1..(Len(queue) + 1) :
              /\ \A j \in 1..(k - 1) : when[queue[j]] <= now + DelayOf[m]
              /\ k <= Len(queue) => when[queue[k]] > now + DelayOf[m]
              /\ Len(queue') = Len(queue) + 1
              /\ \A j \in 1..(Len(queue) + 1) :
                   queue'[j] = IF j < k THEN queue[j]
                               ELSE IF j = k THEN m ELSE queue[j - 1]
<1>1. /\ stamp[m] = 0 /\ sends' = sends + 1
      /\ when' = [when EXCEPT ![m] = now + DelayOf[m]]
      /\ stamp' = [stamp EXCEPT ![m] = sends + 1]
  BY Zenon DEF sendMsg
<1>2. PICK k \in 1..(Len(queue) + 1) :
        IsSlotFor(now + DelayOf[m], k) /\ queue' = InsertAt(queue, k, m)
  BY Zenon DEF sendMsg
<1>3. /\ Len(queue') = Len(queue) + 1
      /\ \A j \in 1..(Len(queue) + 1) :
           queue'[j] = IF j < k THEN queue[j] ELSE IF j = k THEN m ELSE queue[j - 1]
  <2>1. queue \in Seq(Msg)
    BY DEF TypeOK
  <2>2. /\ Len(InsertAt(queue, k, m)) = Len(queue) + 1
        /\ \A j \in 1..(Len(queue) + 1) :
             InsertAt(queue, k, m)[j] = IF j < k THEN queue[j]
                                        ELSE IF j = k THEN m ELSE queue[j - 1]
    BY <2>1, InsertAtProperties
  <2> QED
    BY <1>2, <2>2
<1>4. \A i \in 1..Len(queue) : queue[i] # m
  BY <1>1 DEF StampInv
<1>5. /\ when'[m] = now + DelayOf[m] /\ stamp'[m] = sends + 1
      /\ \A n \in Msg : n # m => when'[n] = when[n] /\ stamp'[n] = stamp[n]
  BY <1>1 DEF TypeOK
<1> QED
  BY <1>1, <1>2, <1>3, <1>4, <1>5 DEF IsSlotFor

LEMMA SortedGrows ==
  ASSUME TypeOK, StampInv, QueueSorted, NEW m \in Msg, sendMsg(m)
  PROVE  QueueSorted'
<1>1. PICK k \in 1..(Len(queue) + 1) :
        /\ \A j \in 1..(k - 1) : when[queue[j]] <= now + DelayOf[m]
        /\ k <= Len(queue) => when[queue[k]] > now + DelayOf[m]
        /\ Len(queue') = Len(queue) + 1
        /\ \A j \in 1..(Len(queue) + 1) :
             queue'[j] = IF j < k THEN queue[j] ELSE IF j = k THEN m ELSE queue[j - 1]
  BY Grows
<1>2. /\ when'[m] = now + DelayOf[m] /\ stamp'[m] = sends + 1
      /\ \A i \in 1..Len(queue) : /\ queue[i] \in Msg
                                  /\ when'[queue[i]] = when[queue[i]]
                                  /\ stamp'[queue[i]] = stamp[queue[i]]
                                  /\ stamp[queue[i]] <= sends
  <2>1. /\ when'[m] = now + DelayOf[m] /\ stamp'[m] = sends + 1
        /\ \A n \in Msg : n # m => when'[n] = when[n] /\ stamp'[n] = stamp[n]
        /\ \A i \in 1..Len(queue) : queue[i] # m
    BY Grows
  <2> QED BY <2>1, QueueFacts DEF StampInv
<1>3. /\ Len(queue) \in Nat /\ sends \in Nat /\ now \in Int /\ DelayOf[m] \in Nat
      /\ \A i \in 1..Len(queue) : when[queue[i]] \in Nat /\ stamp[queue[i]] \in Nat
  BY QueueFacts
<1> DEFINE LaterThan(x, y) == \/ when'[x] < when'[y]
                              \/ when'[x] = when'[y] /\ stamp'[x] < stamp'[y]
<1>4. \A i, j \in 1..Len(queue) : i < j => LaterThan(queue[i], queue[j])
  <2> SUFFICES ASSUME NEW i \in 1..Len(queue), NEW j \in 1..Len(queue), i < j
               PROVE  LaterThan(queue[i], queue[j])
    OBVIOUS
  <2>1. Before(queue[i], queue[j])
    BY DEF QueueSorted
  <2> QED BY <1>2, <2>1 DEF Before
<1>5. \A i \in 1..(k - 1) : LaterThan(queue[i], m)
  <2> SUFFICES ASSUME NEW i \in 1..(k - 1) PROVE LaterThan(queue[i], m)
    OBVIOUS
  <2>1. i \in 1..Len(queue) /\ when[queue[i]] <= now + DelayOf[m]
    BY <1>1, <1>3
  <2>2. stamp[queue[i]] < sends + 1
    BY <1>2, <1>3, <2>1
  <2>3. when[queue[i]] < now + DelayOf[m] \/ when[queue[i]] = now + DelayOf[m]
    <3>1. when[queue[i]] \in Nat
      BY <1>3, <2>1
    <3>2. now + DelayOf[m] \in Int
      BY <1>3
    <3> QED BY <2>1, <3>1, <3>2
  <2>4. when'[queue[i]] = when[queue[i]] /\ stamp'[queue[i]] = stamp[queue[i]]
    BY <1>2, <2>1
  <2>5. when'[m] = now + DelayOf[m] /\ stamp'[m] = sends + 1
    BY <1>2
  <2> QED BY <2>2, <2>3, <2>4, <2>5
<1>6. \A j \in k..Len(queue) : LaterThan(m, queue[j])
  <2> SUFFICES ASSUME NEW j \in k..Len(queue) PROVE LaterThan(m, queue[j])
    OBVIOUS
  <2>1. k \in 1..Len(queue) /\ j \in 1..Len(queue) /\ when[queue[k]] > now + DelayOf[m]
    BY <1>1, <1>3
  <2>2. j = k \/ when[queue[k]] <= when[queue[j]]
    BY <1>3, <2>1 DEF QueueSorted, Before
  <2> QED
    BY <1>2, <1>3, <2>1, <2>2
<1> HIDE DEF LaterThan
<1>7. ASSUME NEW i \in 1..Len(queue'), NEW j \in 1..Len(queue'), i < j
      PROVE  LaterThan(queue'[i], queue'[j])
  <2>1. CASE j < k
    <3>1. /\ i \in 1..Len(queue) /\ j \in 1..Len(queue)
          /\ queue'[i] = queue[i] /\ queue'[j] = queue[j]
      BY <1>1, <1>3, <1>7, <2>1
    <3> QED
      BY <1>4, <1>7, <3>1
  <2>2. CASE j = k
    <3>1. i \in 1..(k - 1) /\ queue'[i] = queue[i] /\ queue'[j] = m
      BY <1>1, <1>3, <1>7, <2>2
    <3> QED
      BY <1>5, <3>1
  <2>3. CASE j > k /\ i = k
    <3>1. j - 1 \in k..Len(queue) /\ queue'[j] = queue[j - 1] /\ queue'[i] = m
      BY <1>1, <1>3, <2>3
    <3> QED
      BY <1>6, <3>1
  <2>4. CASE j > k /\ i < k
    <3>1. /\ i \in 1..Len(queue) /\ j - 1 \in 1..Len(queue) /\ i < j - 1
          /\ queue'[j] = queue[j - 1] /\ queue'[i] = queue[i]
      BY <1>1, <1>3, <2>4
    <3> QED
      BY <1>4, <3>1
  <2>5. CASE j > k /\ i > k
    <3>1. /\ i - 1 \in 1..Len(queue) /\ j - 1 \in 1..Len(queue) /\ i - 1 < j - 1
          /\ queue'[j] = queue[j - 1] /\ queue'[i] = queue[i - 1]
      BY <1>1, <1>3, <1>7, <2>5
    <3> QED
      BY <1>4, <3>1
  <2> QED
    BY <1>1, <1>3, <2>1, <2>2, <2>3, <2>4, <2>5
<1> QED
  BY <1>7 DEF QueueSorted, Before, LaterThan

LEMMA StampStep ==
  ASSUME TypeOK, StampInv, [Next]_vars
  PROVE  StampInv'
<1>1. CASE \E m \in Msg : sendMsg(m)
  <2>1. PICK m \in Msg : sendMsg(m)
    BY <1>1
  <2>2. PICK k \in 1..(Len(queue) + 1) :
          /\ Len(queue') = Len(queue) + 1
          /\ \A j \in 1..(Len(queue) + 1) :
               queue'[j] = IF j < k THEN queue[j]
                           ELSE IF j = k THEN m ELSE queue[j - 1]
    BY <2>1, Grows
  <2>3. /\ sends \in Nat /\ sends' = sends + 1 /\ stamp'[m] = sends + 1
        /\ \A n \in Msg : stamp[n] \in Nat /\ (n # m => stamp'[n] = stamp[n])
        /\ Len(queue) \in Nat
    BY <2>1, Grows DEF TypeOK
  <2>4. \A n \in Msg : stamp'[n] <= sends'
    BY <2>3 DEF StampInv
  <2>5. \A n \in Msg : stamp[n] > 0 => stamp'[n] > 0
    BY <2>3
  <2>6. stamp'[m] > 0
    BY <2>3
  <2>7. \A i \in 1..Len(queue) : queue[i] \in Msg /\ stamp'[queue[i]] > 0
    BY <2>5 DEF TypeOK, StampInv
  <2>8. ASSUME NEW i \in 1..Len(queue') PROVE stamp'[queue'[i]] > 0
    <3>1. CASE i < k
      BY <2>2, <2>3, <2>7, <3>1
    <3>2. CASE i = k
      BY <2>2, <2>3, <2>6, <3>2
    <3>3. CASE i > k
      <4>1. i - 1 \in 1..Len(queue) /\ queue'[i] = queue[i - 1]
        BY <2>2, <2>3, <3>3
      <4> QED
        BY <2>7, <4>1
    <3> QED
      BY <2>2, <2>3, <3>1, <3>2, <3>3
  <2>9. cur' = cur
    BY <2>1, Zenon DEF sendMsg
  <2>10. cur' # NoMsg => stamp'[cur'] > 0
    BY <2>5, <2>9 DEF StampInv, TypeOK
  <2> QED
    BY <2>4, <2>8, <2>10 DEF StampInv
<1>2. CASE \/ \E t \in RemoveTypes : removeMsgLock(t)
           \/ Remover \/ clearMsg \/ startMsgQueue \/ destroy \/ Worker \/ Tick
           \/ UNCHANGED vars
  <2>1. /\ when' = when /\ stamp' = stamp /\ sends' = sends
        /\ \/ queue' = queue
           \/ queue' = <<>>
           \/ \E k \in 1..Len(queue) : queue' = RemoveAt(queue, k)
    BY <1>2, Shrinks
  <2>2. \A i \in 1..Len(queue') : stamp'[queue'[i]] > 0
    <3>1. CASE queue' = queue \/ queue' = <<>>
      BY <2>1, <3>1 DEF StampInv
    <3>2. CASE \E k \in 1..Len(queue) : queue' = RemoveAt(queue, k)
      <4>1. PICK k \in 1..Len(queue) : queue' = RemoveAt(queue, k)
        BY <3>2
      <4>2. /\ Len(queue') = Len(queue) - 1
            /\ \A j \in 1..(Len(queue) - 1) :
                 queue'[j] = IF j < k THEN queue[j] ELSE queue[j + 1]
        BY <4>1, RemoveAtProperties DEF TypeOK
      <4>3. Len(queue) \in Nat
        BY DEF TypeOK
      <4> QED
        BY <2>1, <4>2, <4>3 DEF StampInv
    <3> QED
      BY <2>1, <3>1, <3>2
  <2>3. cur' # NoMsg => stamp'[cur'] > 0
    <3>1. CASE peek \/ pop
      <4>1. \/ cur' \in SlotZero
            \/ queue # <<>> /\ cur' = queue[1]
        BY <3>1, Zenon DEF peek, pop
      <4>2. queue # <<>> => 1 \in 1..Len(queue)
        BY DEF TypeOK
      <4>3. \A m \in SlotZero : m = NoMsg \/ stamp[m] > 0
        BY DEF SlotZero, Sent
      <4> QED
        BY <2>1, <4>1, <4>2, <4>3 DEF StampInv
    <3>2. CASE handleMessage
      BY <3>2 DEF handleMessage
    <3>3. CASE cur' = cur
      BY <2>1, <3>3 DEF StampInv
    <3> QED
      BY <1>2, <3>1, <3>2, <3>3, Zenon DEF removeMsgLock, Remover, removeMsgStep,
         removeMsgUnlock, clearMsg, startMsgQueue, destroy, Worker, Tick, vars,
         loopTest, waitNonEmpty, peekTest, dueTest, timedWait, waitTimeout, popTest
  <2> QED
    BY <2>1, <2>2, <2>3 DEF StampInv
<1> QED
  BY <1>1, <1>2, Zenon DEF Next

LEMMA SortedStep ==
  ASSUME TypeOK, StampInv, QueueSorted, [Next]_vars
  PROVE  QueueSorted'
<1>1. CASE \E m \in Msg : sendMsg(m)
  BY <1>1, SortedGrows
<1>2. CASE \/ \E t \in RemoveTypes : removeMsgLock(t)
           \/ Remover \/ clearMsg \/ startMsgQueue \/ destroy \/ Worker \/ Tick
           \/ UNCHANGED vars
  BY <1>2, Shrinks, SortedShrinks
<1> QED
  BY <1>1, <1>2, Zenon DEF Next

(* The vector is ordered in every reachable state, for any number of       *)
(* senders and removers.                                                   *)
THEOREM QueueStaysSorted == Spec => [](StampInv /\ QueueSorted)
<1>1. Init => StampInv /\ QueueSorted
  BY DEF Init, StampInv, QueueSorted
<1>2. TypeOK /\ StampInv /\ QueueSorted /\ [Next]_vars => (StampInv /\ QueueSorted)'
  BY StampStep, SortedStep
<1> QED
  BY <1>1, <1>2, TypeCorrect, PTL DEF Spec

(***************************************************************************)
(* What the worker knows about the first message                           *)
(***************************************************************************)

(* Until something is removed, the message the worker saw (or one sent     *)
(* later and due earlier) stays in front.                                  *)
HeadInv ==
  ~dirty =>
    /\ worker \in {"peekTest", "peek", "dueTest", "arm", "timed", "popTest", "pop"} =>
         queue # <<>>
    /\ worker = "dueTest" => cur # NoMsg /\ when[queue[1]] <= when[cur]
    /\ worker \in {"popTest", "pop"} => when[queue[1]] <= now
    /\ worker = "handle" => cur # NoMsg /\ when[cur] <= now

(* A message sent meanwhile goes to the front only if it is due earlier.   *)
LEMMA HeadAfterSend ==
  ASSUME TypeOK, StampInv, NEW m \in Msg, sendMsg(m)
  PROVE  /\ queue' # <<>>
         /\ queue # <<>> => when'[queue'[1]] <= when[queue[1]]
         /\ cur # NoMsg => when'[cur] = when[cur]
<1>1. PICK k \in 1..(Len(queue) + 1) :
        /\ \A j \in 1..(k - 1) : when[queue[j]] <= now + DelayOf[m]
        /\ k <= Len(queue) => when[queue[k]] > now + DelayOf[m]
        /\ Len(queue') = Len(queue) + 1
        /\ \A j \in 1..(Len(queue) + 1) :
             queue'[j] = IF j < k THEN queue[j] ELSE IF j = k THEN m ELSE queue[j - 1]
  BY Grows
<1>2. /\ when'[m] = now + DelayOf[m]
      /\ \A i \in 1..Len(queue) : /\ queue[i] \in Msg
                                  /\ when'[queue[i]] = when[queue[i]]
      /\ cur # NoMsg => when'[cur] = when[cur]
  <2>1. /\ stamp[m] = 0 /\ when'[m] = now + DelayOf[m]
        /\ \A n \in Msg : n # m => when'[n] = when[n]
        /\ \A i \in 1..Len(queue) : queue[i] # m
    BY Grows
  <2> QED BY <2>1, QueueFacts DEF StampInv
<1>3. /\ Len(queue) \in Nat /\ now \in Int /\ DelayOf[m] \in Nat
      /\ \A i \in 1..Len(queue) : when[queue[i]] \in Nat
  BY QueueFacts
<1>4. queue' # <<>>
  BY <1>1, <1>3
<1>5. ASSUME queue # <<>> PROVE when'[queue'[1]] <= when[queue[1]]
  <2>1. 1 \in 1..Len(queue)
    BY <1>5 DEF TypeOK
  <2>2. CASE k = 1
    <3>1. queue'[1] = m /\ when[queue[1]] > now + DelayOf[m]
      BY <1>1, <1>3, <2>1, <2>2
    <3> QED
      BY <1>2, <1>3, <2>1, <3>1
  <2>3. CASE k > 1
    <3>1. queue'[1] = queue[1]
      BY <1>1, <1>3, <2>1, <2>3
    <3> QED
      BY <1>2, <1>3, <2>1, <3>1
  <2> QED
    BY <1>3, <2>2, <2>3
<1> QED
  BY <1>2, <1>4, <1>5

LEMMA HeadStep ==
  ASSUME TypeOK, StampInv, HeadInv, [Next]_vars
  PROVE  HeadInv'
<1>0. /\ now \in Nat
      /\ \A m \in Msg : when[m] \in Nat
      /\ \A i \in 1..Len(queue) : queue[i] \in Msg
      /\ queue # <<>> => 1 \in 1..Len(queue)
      /\ cur \in Msg \union {NoMsg}
  BY QueueAssumption DEF TypeOK
<1>1. CASE \E m \in Msg : sendMsg(m)
  <2>1. PICK m \in Msg : sendMsg(m)
    BY <1>1
  <2>2. /\ queue' # <<>>
        /\ queue # <<>> => when'[queue'[1]] <= when[queue[1]]
        /\ cur # NoMsg => when'[cur] = when[cur]
    BY <2>1, HeadAfterSend
  <2>3. now' = now /\ cur' = cur /\ dirty' = dirty
    BY <2>1, Zenon DEF sendMsg
  <2>4. \/ worker' = worker
        \/ worker = "asleep" /\ worker' = "check"
        \/ worker = "timed" /\ worker' = "peekTest"
    BY <2>1, Zenon DEF sendMsg, Signal
  <2>5. queue # <<>> => when'[queue'[1]] \in Int
    <3>1. queue' \in Seq(Msg) /\ when' \in [Msg -> Nat]
      BY TypeStep, <2>1 DEF Next, TypeOK
    <3> QED
      BY <2>2, <3>1
  <2> QED
    BY <1>0, <2>2, <2>3, <2>4, <2>5 DEF HeadInv
<1>2. CASE \E t \in RemoveTypes : removeMsgLock(t)
  BY <1>2 DEF removeMsgLock, HeadInv
<1>3. CASE removeMsgStep
  <2>1. dirty' \/ (queue' = queue /\ dirty' = dirty)
    BY <1>3, Zenon DEF removeMsgStep
  <2> QED
    BY <1>3, <2>1 DEF removeMsgStep, HeadInv
<1>4. CASE removeMsgUnlock
  <2>1. \/ worker' = worker
        \/ worker = "asleep" /\ worker' = "check"
        \/ worker = "timed" /\ worker' = "peekTest"
    BY <1>4, Zenon DEF removeMsgUnlock, Signal
  <2> QED
    BY <1>4, <2>1 DEF removeMsgUnlock, HeadInv
<1>5. CASE clearMsg
  BY <1>5 DEF clearMsg, HeadInv
<1>6. CASE startMsgQueue \/ destroy \/ loopTest \/ waitNonEmpty
  BY <1>6 DEF startMsgQueue, destroy, loopTest, waitNonEmpty, HeadInv
<1>7. CASE peekTest \/ timedWait \/ waitTimeout
  <2>1. queue # <<>> => Len(queue) > 0
    BY DEF TypeOK
  <2> QED
    BY <1>7, <2>1 DEF peekTest, timedWait, waitTimeout, HeadInv
<1>8. CASE peek
  <2>1. ~dirty' => queue # <<>> /\ cur' = queue[1]
    BY <1>8, Zenon DEF peek
  <2>2. ~dirty' => cur' # NoMsg /\ when[queue[1]] <= when[cur']
    BY <1>0, <2>1, QueueAssumption
  <2> QED
    BY <1>8, <2>1, <2>2 DEF peek, HeadInv
<1>9. CASE dueTest
  <2>1. ~dirty /\ Due(cur) => when[queue[1]] <= now
    BY <1>0, <1>9 DEF dueTest, HeadInv, Due
  <2> QED
    BY <1>9, <2>1 DEF dueTest, HeadInv
<1>10. CASE popTest
  BY <1>10 DEF popTest, HeadInv
<1>11. CASE pop
  <2>1. ~dirty => cur' = queue[1] /\ queue[1] \in Msg /\ when[queue[1]] <= now
    BY <1>0, <1>11, Zenon DEF pop, HeadInv
  <2>2. worker' = "handle" /\ when' = when /\ now' = now /\ dirty' = dirty
    BY <1>11, Zenon DEF pop
  <2> QED
    BY <2>1, <2>2, QueueAssumption DEF HeadInv
<1>12. CASE handleMessage
  BY <1>12 DEF handleMessage, HeadInv
<1>13. CASE Tick
  BY <1>0, <1>13 DEF Tick, HeadInv
<1>14. CASE UNCHANGED vars
  BY <1>14 DEF vars, HeadInv
<1> QED
  BY <1>1, <1>2, <1>3, <1>4, <1>5, <1>6, <1>7, <1>8, <1>9, <1>10, <1>11, <1>12,
     <1>13, <1>14, Zenon DEF Next, Worker, Remover

(* A message is handled before it is due, or read from an empty vector,    *)
(* only when a removal came between the worker's look and its taking it.   *)
THEOREM EarlyNeedsRemoval == Spec => []EarlyOnlyAfterRemoval
<1>1. Init => HeadInv
  BY DEF Init, HeadInv
<1>2. TypeOK /\ StampInv /\ HeadInv /\ [Next]_vars => HeadInv'
  BY HeadStep
<1>3. HeadInv => EarlyOnlyAfterRemoval
  BY DEF HeadInv, EarlyOnlyAfterRemoval, Due
<1> QED
  BY <1>1, <1>2, <1>3, TypeCorrect, QueueStaysSorted, PTL DEF Spec

(***************************************************************************)
(* What was handed over, and what removeMsg leaves                         *)
(***************************************************************************)

(* A sorted vector holds every message once.                               *)
LEMMA SortedDistinct ==
  ASSUME TypeOK, QueueSorted, NEW i \in 1..Len(queue), NEW j \in 1..Len(queue), i # j
  PROVE  queue[i] # queue[j]
<1>1. queue[i] \in Msg /\ queue[j] \in Msg /\ i \in Nat /\ j \in Nat
  BY DEF TypeOK
<1>2. \A m \in Msg : ~Before(m, m)
  BY DEF Before, TypeOK
<1>3. Before(queue[i], queue[j]) \/ Before(queue[j], queue[i])
  BY <1>1 DEF QueueSorted
<1> QED BY <1>1, <1>2, <1>3

(* What the worker took was sent and is not in the vector any more.        *)
TakenInv ==
  /\ \A j \in 1..Len(taken) : stamp[taken[j]] > 0
  /\ \A i \in 1..Len(queue), j \in 1..Len(taken) : queue[i] # taken[j]

(* A step that takes messages out of the vector, but hands none over.      *)
LEMMA TakenShrinks ==
  ASSUME TypeOK, TakenInv, stamp' = stamp, taken' = taken,
         \/ queue' = queue
         \/ queue' = <<>>
         \/ \E k \in 1..Len(queue) : queue' = RemoveAt(queue, k)
  PROVE  TakenInv'
<1>1. \A i \in 1..Len(queue') : \E l \in 1..Len(queue) : queue'[i] = queue[l]
  <2>1. CASE queue' = queue \/ queue' = <<>>
    BY <2>1
  <2>2. CASE \E k \in 1..Len(queue) : queue' = RemoveAt(queue, k)
    <3>1. PICK k \in 1..Len(queue) : queue' = RemoveAt(queue, k)
      BY <2>2
    <3>2. /\ Len(queue') = Len(queue) - 1
          /\ \A j \in 1..(Len(queue) - 1) :
               queue'[j] = IF j < k THEN queue[j] ELSE queue[j + 1]
      BY <3>1, RemoveAtProperties DEF TypeOK
    <3>3. Len(queue) \in Nat
      BY DEF TypeOK
    <3> QED BY <3>2, <3>3
  <2> QED BY <2>1, <2>2
<1> QED BY <1>1 DEF TakenInv

(* pop moves the first message of the vector to the worker.                *)
LEMMA TakenAfterPop ==
  ASSUME TypeOK, StampInv, QueueSorted, TakenInv, pop
  PROVE  TakenInv'
<1>0. /\ stamp' = stamp
      /\ taken' = IF cur' = NoMsg THEN taken ELSE Append(taken, cur')
  BY Zenon DEF pop
<1>1. Len(taken) \in Nat /\ Len(queue) \in Nat /\ taken \in Seq(Msg) /\ queue \in Seq(Msg)
  BY DEF TypeOK
<1>2. CASE queue = <<>>
  <2>1. queue' = <<>>
    BY <1>2, Zenon DEF pop
  <2>2. cur' # NoMsg => cur' \in Msg /\ stamp[cur'] > 0
    BY <1>2, Zenon DEF pop, SlotZero, Sent
  <2>3. \A j \in 1..Len(taken') : stamp[taken'[j]] > 0
    BY <1>0, <1>1, <2>2 DEF TakenInv
  <2> QED BY <1>0, <2>1, <2>3 DEF TakenInv
<1>3. CASE queue # <<>>
  <2>1. cur' = queue[1] /\ queue' = RemoveAt(queue, 1)
    BY <1>3, Zenon DEF pop
  <2>2. 1 \in 1..Len(queue) /\ queue[1] \in Msg /\ queue[1] # NoMsg
    BY <1>1, <1>3, QueueAssumption
  <2>3. /\ Len(queue') = Len(queue) - 1
        /\ \A i \in 1..(Len(queue) - 1) : queue'[i] = queue[i + 1]
    <3>1. /\ Len(queue') = Len(queue) - 1
          /\ \A i \in 1..(Len(queue) - 1) :
               queue'[i] = IF i < 1 THEN queue[i] ELSE queue[i + 1]
      BY <1>1, <2>1, <2>2, RemoveAtProperties
    <3> QED BY <1>1, <3>1
  <2>4. /\ Len(taken') = Len(taken) + 1
        /\ \A j \in 1..Len(taken) : taken'[j] = taken[j]
        /\ taken'[Len(taken) + 1] = queue[1]
    BY <1>0, <1>1, <2>1, <2>2
  <2>5. \A j \in 1..Len(taken') : j \in 1..Len(taken) \/ j = Len(taken) + 1
    BY <1>1, <2>4
  <2>6. \A j \in 1..Len(taken') : stamp[taken'[j]] > 0
    BY <2>2, <2>4, <2>5 DEF TakenInv, StampInv
  <2>7. \A i \in 1..Len(queue') : i + 1 \in 1..Len(queue) /\ i + 1 # 1 /\ queue'[i] = queue[i + 1]
    BY <1>1, <2>3
  <2>8. \A i \in 1..Len(queue') : queue'[i] # queue[1]
    BY <2>2, <2>7, SortedDistinct
  <2>9. \A i \in 1..Len(queue'), j \in 1..Len(taken') : queue'[i] # taken'[j]
    BY <2>4, <2>5, <2>7, <2>8 DEF TakenInv
  <2> QED BY <1>0, <2>6, <2>9 DEF TakenInv
<1> QED BY <1>2, <1>3

LEMMA TakenStep ==
  ASSUME TypeOK, StampInv, QueueSorted, TakenInv, [Next]_vars
  PROVE  TakenInv'
<1>1. CASE \E m \in Msg : sendMsg(m)
  <2>1. PICK m \in Msg : sendMsg(m)
    BY <1>1
  <2>2. taken' = taken
    BY <2>1, Zenon DEF sendMsg
  <2>3. PICK k \in 1..(Len(queue) + 1) :
          /\ Len(queue') = Len(queue) + 1
          /\ \A j \in 1..(Len(queue) + 1) :
               queue'[j] = IF j < k THEN queue[j]
                           ELSE IF j = k THEN m ELSE queue[j - 1]
    BY <2>1, Grows
  <2>4. Len(queue) \in Nat
    BY DEF TypeOK
  <2>5. \A i \in 1..Len(queue') : queue'[i] = m \/ \E l \in 1..Len(queue) : queue'[i] = queue[l]
    BY <2>3, <2>4
  <2>6. /\ stamp[m] = 0 /\ stamp'[m] = sends + 1 /\ sends \in Nat
        /\ \A n \in Msg : n # m => stamp'[n] = stamp[n]
    BY <2>1, Grows DEF TypeOK
  <2>7. \A j \in 1..Len(taken) : taken[j] \in Msg /\ taken[j] # m
    BY <2>6 DEF TakenInv, TypeOK
  <2>8. \A j \in 1..Len(taken) : stamp'[taken[j]] > 0
    BY <2>6, <2>7 DEF TakenInv
  <2>9. \A i \in 1..Len(queue'), j \in 1..Len(taken) : queue'[i] # taken[j]
    BY <2>5, <2>7 DEF TakenInv
  <2> QED BY <2>2, <2>8, <2>9 DEF TakenInv
<1>2. CASE pop
  BY <1>2, TakenAfterPop
<1>3. CASE \/ \E t \in RemoveTypes : removeMsgLock(t)
           \/ removeMsgStep \/ removeMsgUnlock \/ clearMsg \/ startMsgQueue \/ destroy \/ Tick
           \/ loopTest \/ waitNonEmpty \/ peekTest \/ peek \/ dueTest
           \/ timedWait \/ waitTimeout \/ popTest \/ handleMessage
           \/ UNCHANGED vars
  <2>1. /\ stamp' = stamp
        /\ \/ queue' = queue
           \/ queue' = <<>>
           \/ \E k \in 1..Len(queue) : queue' = RemoveAt(queue, k)
    BY <1>3, Shrinks, Zenon DEF Remover, Worker
  <2>2. taken' = taken
    BY <1>3, Zenon DEF removeMsgLock, removeMsgStep, removeMsgUnlock, clearMsg, startMsgQueue,
       destroy, Tick, loopTest, waitNonEmpty, peekTest, peek, dueTest, timedWait, waitTimeout,
       popTest, handleMessage, vars
  <2> QED BY <2>1, <2>2, TakenShrinks
<1> QED
  BY <1>1, <1>2, <1>3, Zenon DEF Next, Worker, Remover

(* Whether the vector q holds m.                                           *)
Holds(q, m) == \E l \in 1..Len(q) : q[l] = m

Gone == Len(rm.before) - Len(queue)

(* What removeMsg(type) promises of the j-th message it found, when the    *)
(* vector is q.                                                            *)
LeftRightly(before, type, q, j) ==
  /\ ~Holds(q, before[j]) => TypeOf[before[j]] = type
  /\ Holds(q, before[j]) /\ TypeOf[before[j]] = type =>
       j > 1 /\ ~Holds(q, before[j - 1])

(* While removeMsg runs, the messages it has not come to stand where they  *)
(* stood, moved by as many as are gone, and it kept its promise of those   *)
(* in front of them.                                                       *)
LoopInv ==
  rm.on =>
    /\ Gone \in Nat
    /\ \A i, j \in 1..Len(rm.before) : i # j => rm.before[i] # rm.before[j]
    /\ \A l \in 1..Len(queue) : l >= rm.i => queue[l] = rm.before[l + Gone]
    /\ \A j \in 1..Len(rm.before) :
         j < rm.i + Gone => LeftRightly(rm.before, rm.type, queue, j)

(* One iteration of the loop.                                              *)
LEMMA LoopAfterStep ==
  ASSUME TypeOK, QueueSorted, LoopInv, removeMsgStep
  PROVE  LoopInv'
<1>0. /\ rm.on /\ rm.i \in Nat \ {0} /\ rm.i <= Len(queue) /\ rm.before \in Seq(Msg)
      /\ Len(queue) \in Nat /\ Len(rm.before) \in Nat /\ rm.i \in 1..Len(queue)
  BY DEF TypeOK, RemoveState, removeMsgStep
<1>1. rm'.on /\ rm'.i = rm.i + 1 /\ rm'.before = rm.before /\ rm'.type = rm.type
  BY DEF removeMsgStep, TypeOK, RemoveState
<1> DEFINE k == rm.i + Gone
           Rightly(q, j) == LeftRightly(rm.before, rm.type, q, j)
<1>2. /\ Gone \in Nat /\ Len(rm.before) = Len(queue) + Gone
      /\ k \in 1..Len(rm.before) /\ queue[rm.i] = rm.before[k]
  <2>1. Gone \in Nat /\ Len(rm.before) = Len(queue) + Gone
    BY <1>0 DEF LoopInv, Gone
  <2>2. k \in 1..Len(rm.before)
    BY <1>0, <2>1
  <2>3. queue[rm.i] = rm.before[k]
    BY <1>0 DEF LoopInv
  <2> QED BY <2>1, <2>2, <2>3
<1>3. /\ \A i, j \in 1..Len(rm.before) : i # j => rm.before[i] # rm.before[j]
      /\ \A l \in 1..Len(queue) : l >= rm.i => queue[l] = rm.before[l + Gone]
      /\ \A j \in 1..Len(rm.before) : j < k => Rightly(queue, j)
  BY <1>0 DEF LoopInv
<1>4. CASE TypeOf[queue[rm.i]] # rm.type
  <2>1. queue' = queue
    BY <1>4 DEF removeMsgStep
  <2>2. Holds(queue, rm.before[k])
    BY <1>0, <1>2 DEF Holds
  <2>3. Rightly(queue, k)
    BY <1>2, <1>4, <2>2 DEF LeftRightly
  <2>4. \A j \in 1..Len(rm.before) : j < rm.i + 1 + Gone => Rightly(queue, j)
    BY <1>0, <1>2, <1>3, <2>3
  <2>5. Gone' = Gone
    BY <1>1, <2>1 DEF Gone
  <2>6. \A l \in 1..Len(queue) : l >= rm.i + 1 => queue[l] = rm.before[l + Gone]
    BY <1>0, <1>3
  <2> QED BY <1>1, <1>2, <1>3, <2>1, <2>4, <2>5, <2>6 DEF LoopInv
<1>5. CASE TypeOf[queue[rm.i]] = rm.type
  <2>1. queue' = RemoveAt(queue, rm.i)
    BY <1>5 DEF removeMsgStep
  <2>2. /\ Len(queue') = Len(queue) - 1
        /\ \A l \in 1..(Len(queue) - 1) :
             queue'[l] = IF l < rm.i THEN queue[l] ELSE queue[l + 1]
    BY <1>0, <2>1, RemoveAtProperties DEF TypeOK
  <2>3. Gone' = Gone + 1
    BY <1>0, <1>1, <2>2 DEF Gone
  <2>4. \A l \in 1..Len(queue') : l >= rm.i => queue'[l] = rm.before[l + Gone + 1]
    <3> SUFFICES ASSUME NEW l \in 1..Len(queue'), l >= rm.i
                 PROVE  queue'[l] = rm.before[l + Gone + 1]
      OBVIOUS
    <3>1. queue'[l] = queue[l + 1] /\ l + 1 \in 1..Len(queue) /\ l + 1 >= rm.i
      BY <1>0, <2>2
    <3>2. queue[l + 1] = rm.before[(l + 1) + Gone]
      BY <1>3, <3>1
    <3>3. (l + 1) + Gone = l + Gone + 1
      BY <1>2
    <3> QED BY <3>1, <3>2, <3>3
  <2>5. \A m : Holds(queue', m) <=> Holds(queue, m) /\ m # queue[rm.i]
    <3>1. ASSUME NEW m, Holds(queue', m) PROVE Holds(queue, m) /\ m # queue[rm.i]
      <4>1. PICK l \in 1..Len(queue') : queue'[l] = m
        BY <3>1 DEF Holds
      <4>2. PICK n \in 1..Len(queue) : n # rm.i /\ queue'[l] = queue[n]
        BY <1>0, <2>2
      <4> QED BY <1>0, <4>1, <4>2, SortedDistinct DEF Holds
    <3>2. ASSUME NEW m, Holds(queue, m), m # queue[rm.i] PROVE Holds(queue', m)
      <4>1. PICK n \in 1..Len(queue) : queue[n] = m
        BY <3>2 DEF Holds
      <4>2. PICK l \in 1..Len(queue') : queue'[l] = queue[n]
        <5>1. CASE n < rm.i
          BY <1>0, <2>2, <5>1
        <5>2. CASE n > rm.i
          <6>1. n - 1 \in 1..Len(queue') /\ queue'[n - 1] = queue[n]
            BY <1>0, <2>2, <5>2
          <6> QED BY <6>1
        <5> QED BY <1>0, <3>2, <4>1, <5>1, <5>2
      <4> QED BY <4>1, <4>2 DEF Holds
    <3> QED BY <3>1, <3>2
  <2>6. ASSUME NEW j \in 1..Len(rm.before), j < k PROVE Rightly(queue', j)
    <3>1. rm.before[j] # rm.before[k]
      BY <1>2, <1>3, <2>6
    <3>2. Holds(queue', rm.before[j]) <=> Holds(queue, rm.before[j])
      BY <1>2, <2>5, <3>1
    <3>3. ~Holds(queue, rm.before[j - 1]) => ~Holds(queue', rm.before[j - 1])
      BY <2>5
    <3> QED BY <1>1, <1>3, <2>6, <3>2, <3>3 DEF LeftRightly
  <2>7. ~Holds(queue', rm.before[k])
    BY <1>2, <2>5
  <2>8. Rightly(queue', k)
    BY <1>1, <1>2, <1>5, <2>7 DEF LeftRightly
  <2>9. ASSUME k + 1 \in 1..Len(rm.before) PROVE Rightly(queue', k + 1)
    <3>1. rm.i \in 1..Len(queue') /\ queue'[rm.i] = rm.before[k + 1]
      <4>1. k + 1 <= Len(queue) + Gone /\ k + 1 = rm.i + Gone + 1
        BY <1>0, <1>2, <2>9
      <4>2. rm.i \in 1..Len(queue')
        BY <1>0, <1>2, <2>2, <4>1
      <4> QED BY <2>4, <4>1, <4>2
    <3>2. Holds(queue', rm.before[k + 1])
      BY <3>1 DEF Holds
    <3>3. k + 1 > 1 /\ (k + 1) - 1 = k
      BY <1>0, <1>2
    <3> QED BY <1>1, <2>7, <3>2, <3>3 DEF LeftRightly
  <2>10. \A j \in 1..Len(rm.before) : j < rm.i + 1 + Gone + 1 => j < k \/ j = k \/ j = k + 1
    <3>1. k \in Nat /\ rm.i + 1 + Gone + 1 = k + 2
      BY <1>0, <1>2
    <3> HIDE DEF k
    <3> QED BY <3>1
  <2>11. \A j \in 1..Len(rm.before) : j < rm.i + 1 + Gone + 1 => Rightly(queue', j)
    BY <2>6, <2>8, <2>9, <2>10
  <2>12. \A l \in 1..Len(queue') : l >= rm.i + 1 => queue'[l] = rm.before[l + Gone + 1]
    BY <1>0, <2>2, <2>4
  <2>13. rm'.i + Gone' = rm.i + 1 + Gone + 1
    <3>1. rm'.i = rm.i + 1 /\ rm.i \in Nat /\ Gone \in Nat
      BY <1>0, <1>1, <1>2
    <3> QED BY <2>3, <3>1
  <2>14. \A l \in 1..Len(queue') : l >= rm'.i => queue'[l] = rm'.before[l + Gone']
    BY <1>0, <1>1, <1>2, <2>2, <2>3, <2>12
  <2> QED BY <1>1, <1>2, <1>3, <2>3, <2>11, <2>13, <2>14 DEF LoopInv
<1> QED BY <1>4, <1>5

LEMMA LoopStep ==
  ASSUME TypeOK, QueueSorted, LoopInv, [Next]_vars
  PROVE  LoopInv'
<1>1. CASE removeMsgStep
  BY <1>1, LoopAfterStep
<1>2. CASE \E t \in RemoveTypes : removeMsgLock(t)
  <2>1. rm'.before = queue /\ rm'.i = 1 /\ queue' = queue
    BY <1>2 DEF removeMsgLock
  <2>2. Gone' = 0
    BY <2>1 DEF Gone, TypeOK
  <2>3. \A i, j \in 1..Len(queue) : i # j => queue[i] # queue[j]
    BY SortedDistinct
  <2> QED BY <2>1, <2>2, <2>3 DEF LoopInv
<1>3. CASE removeMsgUnlock
  BY <1>3 DEF removeMsgUnlock, NoRemove, LoopInv
<1>4. CASE \/ \E m \in Msg : sendMsg(m)
           \/ clearMsg \/ pop
  <2>1. ~rm'.on
    BY <1>4, Zenon DEF sendMsg, clearMsg, pop, LockFree
  <2> QED BY <2>1 DEF LoopInv
<1>5. CASE UNCHANGED <<queue, rm>>
  BY <1>5 DEF LoopInv, Gone, LeftRightly, Holds
<1>6. CASE \/ startMsgQueue \/ destroy \/ Tick \/ loopTest \/ waitNonEmpty \/ peekTest \/ peek
           \/ dueTest \/ timedWait \/ waitTimeout \/ popTest \/ handleMessage \/ UNCHANGED vars
  <2>1. UNCHANGED <<queue, rm>>
    BY <1>6, Zenon DEF startMsgQueue, destroy, Tick, loopTest, waitNonEmpty, peekTest, peek,
       dueTest, timedWait, waitTimeout, popTest, handleMessage, vars
  <2> QED BY <1>5, <2>1
<1> QED
  BY <1>1, <1>2, <1>3, <1>4, <1>6, Zenon DEF Next, Worker, Remover

(* removeMsg takes no other type, and what it leaves of its own stands     *)
(* right behind something it took, for any vector (lines 58-63).           *)
THEOREM RemoveAlwaysSkipsBehindRemoved == Spec => []RemoveSkipsOnlyBehindRemoved
<1>1. Init => LoopInv
  BY DEF Init, NoRemove, LoopInv
<1>2. TypeOK /\ QueueSorted /\ LoopInv /\ [Next]_vars => LoopInv'
  BY LoopStep
<1>3. TypeOK /\ LoopInv => RemoveSkipsOnlyBehindRemoved
  <2> SUFFICES ASSUME TypeOK, LoopInv, rm.on, rm.i > Len(queue), NEW j \in 1..Len(rm.before)
               PROVE  LET left == rm.before[j] \notin ToSet(queue)
                      IN /\ left => TypeOf[rm.before[j]] = rm.type
                         /\ ~left /\ TypeOf[rm.before[j]] = rm.type =>
                              /\ j > 1
                              /\ rm.before[j - 1] \notin ToSet(queue)
    BY DEF RemoveSkipsOnlyBehindRemoved
  <2>1. rm.i \in Nat /\ Len(queue) \in Nat /\ Len(rm.before) \in Nat
    BY DEF TypeOK, RemoveState
  <2>2. j < rm.i + Gone
    BY <2>1 DEF Gone
  <2>3. LeftRightly(rm.before, rm.type, queue, j)
    BY <2>2 DEF LoopInv
  <2>4. \A m : Holds(queue, m) <=> m \in ToSet(queue)
    BY DEF Holds, ToSet, TypeOK
  <2> QED BY <2>3, <2>4 DEF LeftRightly
<1> QED
  BY <1>1, <1>2, <1>3, TypeCorrect, QueueStaysSorted, PTL DEF Spec

(***************************************************************************)
(* Without removals                                                        *)
(***************************************************************************)

(* Nobody takes anything out of the vector but the worker.                 *)
NoRemovals == RemoveTypes = {} /\ Clears = FALSE

Undisturbed == ~dirty /\ ~rm.on

LEMMA UndisturbedStep ==
  ASSUME NoRemovals, TypeOK, HeadInv, Undisturbed, [Next]_vars
  PROVE  Undisturbed'
<1>1. ~removeMsgStep /\ ~removeMsgUnlock /\ ~clearMsg
  BY Zenon DEF NoRemovals, Undisturbed, removeMsgStep, removeMsgUnlock, clearMsg
<1>2. ~(\E t \in RemoveTypes : removeMsgLock(t))
  BY DEF NoRemovals
<1>3. CASE \E m \in Msg : sendMsg(m)
  <2>1. rm' = rm /\ dirty' = dirty
    BY <1>3, Zenon DEF sendMsg
  <2> QED
    BY <2>1 DEF Undisturbed
<1>4. CASE peek
  <2>1. queue # <<>>
    BY <1>4 DEF peek, HeadInv, Undisturbed
  <2>2. ~dirty'
    BY <1>4, <2>1, Zenon DEF peek
  <2> QED
    BY <1>4, <2>2, Zenon DEF peek, Undisturbed
<1>5. CASE \/ startMsgQueue \/ destroy \/ loopTest \/ waitNonEmpty \/ peekTest
           \/ dueTest \/ timedWait \/ waitTimeout \/ popTest \/ pop \/ handleMessage
           \/ Tick \/ UNCHANGED vars
  <2>1. rm' = rm /\ (dirty' = dirty \/ dirty' = FALSE)
    BY <1>5, Zenon DEF startMsgQueue, destroy, loopTest, waitNonEmpty, peekTest,
       dueTest, timedWait, waitTimeout, popTest, pop, handleMessage, Tick, vars
  <2> QED
    BY <2>1 DEF Undisturbed
<1> QED
  BY <1>1, <1>2, <1>3, <1>4, <1>5, Zenon DEF Next, Worker, Remover

(* What was handed over was due, and before everything still waiting.      *)
OrderInv ==
  /\ \A i \in 1..Len(taken) : when[taken[i]] <= now /\ stamp[taken[i]] > 0
  /\ \A i \in 1..Len(taken), j \in 1..Len(queue) : Before(taken[i], queue[j])
  /\ HandledInDueOrder

LEMMA OrderAfterSend ==
  ASSUME TypeOK, StampInv, OrderInv, NEW m \in Msg, sendMsg(m)
  PROVE  OrderInv'
<1>1. PICK k \in 1..(Len(queue) + 1) :
        /\ Len(queue') = Len(queue) + 1
        /\ \A j \in 1..(Len(queue) + 1) :
             queue'[j] = IF j < k THEN queue[j] ELSE IF j = k THEN m ELSE queue[j - 1]
  BY Grows
<1>2. taken' = taken /\ now' = now
  BY Zenon DEF sendMsg
<1>3. /\ stamp[m] = 0 /\ when'[m] = now + DelayOf[m] /\ stamp'[m] = sends + 1
      /\ \A n \in Msg : n # m => when'[n] = when[n] /\ stamp'[n] = stamp[n]
      /\ \A i \in 1..Len(queue) : queue[i] # m
  BY Grows
<1>4. /\ Len(queue) \in Nat /\ sends \in Nat /\ now \in Nat /\ DelayOf[m] \in Nat
      /\ \A n \in Msg : when[n] \in Nat /\ stamp[n] \in Nat /\ stamp[n] <= sends
      /\ \A i \in 1..Len(queue) : queue[i] \in Msg
      /\ \A i \in 1..Len(taken) : taken[i] \in Msg
  BY QueueAssumption DEF TypeOK, StampInv
<1>5. \A i \in 1..Len(taken) : /\ when'[taken[i]] = when[taken[i]]
                               /\ stamp'[taken[i]] = stamp[taken[i]]
  <2> SUFFICES ASSUME NEW i \in 1..Len(taken)
               PROVE  /\ when'[taken[i]] = when[taken[i]]
                      /\ stamp'[taken[i]] = stamp[taken[i]]
    OBVIOUS
  <2>1. stamp[taken[i]] > 0
    BY DEF OrderInv
  <2>2. taken[i] \in Msg /\ taken[i] # m
    BY <1>3, <1>4, <2>1
  <2> QED
    BY <1>3, <2>2
<1>6. \A i \in 1..Len(queue) : /\ when'[queue[i]] = when[queue[i]]
                               /\ stamp'[queue[i]] = stamp[queue[i]]
  BY <1>3, <1>4
<1> DEFINE LaterThan(x, y) == \/ when'[x] < when'[y]
                              \/ when'[x] = when'[y] /\ stamp'[x] < stamp'[y]
<1>7. \A i \in 1..Len(taken) : LaterThan(taken[i], m)
  <2> SUFFICES ASSUME NEW i \in 1..Len(taken) PROVE LaterThan(taken[i], m)
    OBVIOUS
  <2>1. when[taken[i]] <= now /\ stamp[taken[i]] <= sends
    BY <1>4 DEF OrderInv
  <2>2. when'[taken[i]] <= now /\ stamp'[taken[i]] <= sends
    BY <1>5, <2>1
  <2>3. when'[taken[i]] \in Nat /\ stamp'[taken[i]] \in Nat
    BY <1>4, <1>5
  <2>4. /\ when'[m] \in Nat /\ stamp'[m] = sends + 1 /\ sends \in Nat /\ now \in Nat
        /\ now <= when'[m]
    BY <1>3, <1>4
  <2>5. when'[taken[i]] <= when'[m] /\ stamp'[taken[i]] < stamp'[m]
    BY <2>2, <2>3, <2>4
  <2> QED
    BY <2>3, <2>4, <2>5
<1>8. \A i \in 1..Len(taken), j \in 1..Len(queue) : LaterThan(taken[i], queue[j])
  BY <1>5, <1>6 DEF OrderInv, Before
<1>9. \A i, j \in 1..Len(taken) : i < j => LaterThan(taken[i], taken[j])
  BY <1>5 DEF OrderInv, HandledInDueOrder, Before
<1> HIDE DEF LaterThan
<1>10. ASSUME NEW i \in 1..Len(taken), NEW j \in 1..Len(queue')
       PROVE  LaterThan(taken[i], queue'[j])
  <2>1. CASE j < k
    <3>1. j \in 1..Len(queue) /\ queue'[j] = queue[j]
      BY <1>1, <1>4, <2>1
    <3> QED
      BY <1>8, <3>1
  <2>2. CASE j = k
    <3>1. queue'[j] = m
      BY <1>1, <1>4, <2>2
    <3> QED
      BY <1>7, <3>1
  <2>3. CASE j > k
    <3>1. j - 1 \in 1..Len(queue) /\ queue'[j] = queue[j - 1]
      BY <1>1, <1>4, <2>3
    <3> QED
      BY <1>8, <3>1
  <2> QED
    BY <1>1, <1>4, <2>1, <2>2, <2>3
<1>11. \A i \in 1..Len(taken') : when'[taken'[i]] <= now' /\ stamp'[taken'[i]] > 0
  BY <1>2, <1>5 DEF OrderInv
<1> QED
  BY <1>2, <1>9, <1>10, <1>11 DEF OrderInv, HandledInDueOrder, Before, LaterThan

(* The worker takes the first message, which is due.                       *)
LEMMA PopTakesFirst ==
  ASSUME TypeOK, HeadInv, Undisturbed, pop
  PROVE  /\ queue # <<>> /\ queue[1] \in Msg /\ when[queue[1]] <= now
         /\ cur' = queue[1] /\ taken' = Append(taken, queue[1])
         /\ Len(queue') = Len(queue) - 1
         /\ \A j \in 1..(Len(queue) - 1) : queue'[j] = queue[j + 1]
         /\ when' = when /\ stamp' = stamp /\ sends' = sends /\ now' = now
<1>1. queue # <<>> /\ when[queue[1]] <= now
  BY DEF pop, HeadInv, Undisturbed
<1>2. 1 \in 1..Len(queue)
  BY <1>1 DEF TypeOK
<1>3. queue[1] \in Msg /\ queue[1] # NoMsg
  BY <1>2, QueueAssumption DEF TypeOK
<1>4. /\ Len(RemoveAt(queue, 1)) = Len(queue) - 1
      /\ \A j \in 1..(Len(queue) - 1) : RemoveAt(queue, 1)[j] = queue[j + 1]
  <2>1. /\ Len(RemoveAt(queue, 1)) = Len(queue) - 1
        /\ \A j \in 1..(Len(queue) - 1) :
             RemoveAt(queue, 1)[j] = IF j < 1 THEN queue[j] ELSE queue[j + 1]
    BY <1>2, RemoveAtProperties DEF TypeOK
  <2> QED
    BY <1>2, <2>1
<1>5. cur' = queue[1] /\ queue' = RemoveAt(queue, 1)
  BY <1>1, Zenon DEF pop
<1>6. taken' = Append(taken, queue[1])
  BY <1>3, <1>5, Zenon DEF pop
<1> QED
  BY <1>1, <1>3, <1>4, <1>5, <1>6, Zenon DEF pop

LEMMA OrderAfterPop ==
  ASSUME TypeOK, StampInv, QueueSorted, HeadInv, Undisturbed, OrderInv, pop
  PROVE  OrderInv'
<1> DEFINE h == queue[1]
<1>1. /\ queue # <<>> /\ h \in Msg /\ when[h] <= now
      /\ taken' = Append(taken, h)
      /\ Len(queue') = Len(queue) - 1
      /\ \A j \in 1..(Len(queue) - 1) : queue'[j] = queue[j + 1]
      /\ when' = when /\ stamp' = stamp /\ now' = now
  BY PopTakesFirst
<1>2. /\ Len(queue) \in Nat /\ 1 \in 1..Len(queue)
      /\ taken \in Seq(Msg) /\ Len(taken) \in Nat
  BY <1>1 DEF TypeOK
<1>3. stamp[h] > 0
  BY <1>2 DEF StampInv
<1>4. /\ Len(taken') = Len(taken) + 1
      /\ taken'[Len(taken) + 1] = h
      /\ \A i \in 1..Len(taken) : taken'[i] = taken[i]
  <2>1. h \in Msg
    BY <1>1
  <2> HIDE DEF h
  <2> QED
    BY <1>1, <1>2, <2>1, AppendProperties
<1>5. \A j \in 2..Len(queue) : Before(h, queue[j])
  BY <1>2 DEF QueueSorted
<1>6. \A i \in 1..Len(taken), j \in 1..Len(queue) : Before(taken[i], queue[j])
  BY DEF OrderInv
<1> HIDE DEF h
<1>7. \A i \in 1..Len(taken) : Before(taken[i], h)
  BY <1>2, <1>6 DEF h
<1>8. ASSUME NEW i \in 1..Len(taken') PROVE when[taken'[i]] <= now /\ stamp[taken'[i]] > 0
  <2>1. i \in 1..Len(taken) \/ i = Len(taken) + 1
    BY <1>2, <1>4
  <2> QED
    BY <1>1, <1>3, <1>4, <2>1 DEF OrderInv
<1>9. ASSUME NEW i \in 1..Len(taken'), NEW j \in 1..Len(queue')
      PROVE  Before(taken'[i], queue'[j])
  <2>1. i \in 1..Len(taken) \/ i = Len(taken) + 1
    BY <1>2, <1>4
  <2>2. j + 1 \in 2..Len(queue) /\ j + 1 \in 1..Len(queue) /\ queue'[j] = queue[j + 1]
    BY <1>1, <1>2
  <2> QED
    BY <1>4, <1>5, <1>6, <2>1, <2>2
<1>10. ASSUME NEW i \in 1..Len(taken'), NEW j \in 1..Len(taken'), i < j
       PROVE  Before(taken'[i], taken'[j])
  <2>1. i \in 1..Len(taken) /\ (j \in 1..Len(taken) \/ j = Len(taken) + 1)
    BY <1>2, <1>4, <1>10
  <2>2. \A x, y \in 1..Len(taken) : x < y => Before(taken[x], taken[y])
    BY DEF OrderInv, HandledInDueOrder
  <2> QED
    BY <1>4, <1>7, <1>10, <2>1, <2>2
<1>11. \A i \in 1..Len(taken'), j \in 1..Len(queue') :
         \/ when'[taken'[i]] < when'[queue'[j]]
         \/ when'[taken'[i]] = when'[queue'[j]] /\ stamp'[taken'[i]] < stamp'[queue'[j]]
  BY <1>1, <1>9 DEF Before
<1>12. \A i, j \in 1..Len(taken') : i < j =>
         \/ when'[taken'[i]] < when'[taken'[j]]
         \/ when'[taken'[i]] = when'[taken'[j]] /\ stamp'[taken'[i]] < stamp'[taken'[j]]
  <2>1. when' = when /\ stamp' = stamp
    BY <1>1
  <2> QED
    BY <1>10, <2>1, Zenon DEF Before
<1>13. \A i \in 1..Len(taken') : when'[taken'[i]] <= now' /\ stamp'[taken'[i]] > 0
  BY <1>1, <1>8
<1> QED
  BY <1>11, <1>12, <1>13 DEF OrderInv, HandledInDueOrder, Before

LEMMA OrderStep ==
  ASSUME NoRemovals, TypeOK, StampInv, QueueSorted, HeadInv, Undisturbed, OrderInv,
         [Next]_vars
  PROVE  OrderInv'
<1>1. CASE \E m \in Msg : sendMsg(m)
  BY <1>1, OrderAfterSend
<1>2. CASE pop
  BY <1>2, OrderAfterPop
<1>3. CASE Tick
  <2>1. now \in Nat /\ \A i \in 1..Len(taken) : when[taken[i]] \in Nat
    BY QueueAssumption DEF TypeOK
  <2> QED
    BY <1>3, <2>1 DEF Tick, OrderInv, HandledInDueOrder, Before
<1>4. CASE \/ startMsgQueue \/ destroy \/ loopTest \/ waitNonEmpty \/ peekTest \/ peek
           \/ dueTest \/ timedWait \/ waitTimeout \/ popTest \/ handleMessage
           \/ UNCHANGED vars
  <2>1. /\ queue' = queue /\ taken' = taken /\ when' = when
        /\ stamp' = stamp /\ now' = now
    BY <1>4, Zenon DEF startMsgQueue, destroy, loopTest, waitNonEmpty, peekTest, peek,
       dueTest, timedWait, waitTimeout, popTest, handleMessage, vars
  <2> QED
    BY <2>1 DEF OrderInv, HandledInDueOrder, Before
<1>5. ~removeMsgStep /\ ~removeMsgUnlock /\ ~clearMsg
  BY Zenon DEF NoRemovals, Undisturbed, removeMsgStep, removeMsgUnlock, clearMsg
<1>6. ~(\E t \in RemoveTypes : removeMsgLock(t))
  BY DEF NoRemovals
<1> QED
  BY <1>1, <1>2, <1>3, <1>4, <1>5, <1>6, Zenon DEF Next, Worker, Remover

SendersInv ==
  TypeOK /\ StampInv /\ QueueSorted /\ HeadInv /\ Undisturbed /\ OrderInv

LEMMA SendersOnly ==
  ASSUME NoRemovals
  PROVE  Spec => []SendersInv
<1>1. Init => SendersInv
  <2>1. Init => HeadInv /\ Undisturbed
    BY DEF Init, HeadInv, Undisturbed, NoRemove
  <2>2. Init => StampInv /\ QueueSorted /\ OrderInv
    BY DEF Init, StampInv, QueueSorted, OrderInv, HandledInDueOrder
  <2>3. Init => TypeOK
    BY TypeCorrectInit
  <2> QED
    BY <2>1, <2>2, <2>3 DEF SendersInv
<1>2. SendersInv /\ [Next]_vars => SendersInv'
  BY TypeStep, StampStep, SortedStep, HeadStep, UndisturbedStep, OrderStep DEF SendersInv
<1> QED
  BY <1>1, <1>2, PTL DEF Spec

(* With senders only, messages are handed over once, in due order.         *)
THEOREM InDueOrder ==
  ASSUME RemoveTypes = {}, Clears = FALSE
  PROVE  Spec => []HandledInDueOrder
<1>1. SendersInv => HandledInDueOrder
  BY DEF SendersInv, OrderInv
<1> QED
  BY <1>1, SendersOnly, PTL DEF NoRemovals

(* With senders only, none is handed over before it is due.                *)
THEOREM NeverEarlyWithoutRemoval ==
  ASSUME RemoveTypes = {}, Clears = FALSE
  PROVE  Spec => []NeverEarly
<1>1. SendersInv => NeverEarly
  BY DEF SendersInv, HeadInv, Undisturbed, NeverEarly, Due
<1> QED
  BY <1>1, SendersOnly, PTL DEF NoRemovals

(***************************************************************************)
(* The refinement of DelayQueue                                            *)
(***************************************************************************)

LEMMA PromiseInit == Init => Promise!Init
BY DEF Init, Promise!Init, ToSet

(* sendMsg adds its message to those in the vector.                        *)
LEMMA SendAdds ==
  ASSUME TypeOK, StampInv, NEW m \in Msg, sendMsg(m)
  PROVE  ToSet(queue') = ToSet(queue) \union {m}
<1>1. PICK k \in 1..(Len(queue) + 1) :
        /\ Len(queue') = Len(queue) + 1
        /\ \A j \in 1..(Len(queue) + 1) :
             queue'[j] = IF j < k THEN queue[j] ELSE IF j = k THEN m ELSE queue[j - 1]
  BY Grows
<1>2. DOMAIN queue = 1..Len(queue) /\ DOMAIN queue' = 1..Len(queue') /\ Len(queue) \in Nat
  <2>1. queue' \in Seq(Msg)
    BY TypeStep DEF Next, TypeOK
  <2> QED
    BY <2>1 DEF TypeOK
<1>3. ToSet(queue') \subseteq ToSet(queue) \union {m}
  <2> SUFFICES ASSUME NEW j \in 1..Len(queue')
               PROVE  queue'[j] = m \/ \E i \in 1..Len(queue) : queue'[j] = queue[i]
    BY <1>2 DEF ToSet
  <2>1. CASE j < k
    BY <1>1, <1>2, <2>1
  <2>2. CASE j = k
    BY <1>1, <1>2, <2>2
  <2>3. CASE j > k
    <3>1. j - 1 \in 1..Len(queue) /\ queue'[j] = queue[j - 1]
      BY <1>1, <1>2, <2>3
    <3> QED
      BY <3>1
  <2> QED
    BY <1>1, <1>2, <2>1, <2>2, <2>3
<1>4. ToSet(queue) \union {m} \subseteq ToSet(queue')
  <2>1. k \in 1..Len(queue') /\ queue'[k] = m
    BY <1>1, <1>2
  <2>2. ASSUME NEW i \in 1..Len(queue) PROVE \E j \in 1..Len(queue') : queue'[j] = queue[i]
    <3>1. CASE i < k
      <4>1. i \in 1..Len(queue') /\ queue'[i] = queue[i]
        BY <1>1, <1>2, <3>1
      <4> QED
        BY <4>1
    <3>2. CASE i >= k
      <4>1. i + 1 \in 1..Len(queue') /\ queue'[i + 1] = queue[i]
        BY <1>1, <1>2, <3>2
      <4> QED
        BY <4>1
    <3> QED
      BY <1>1, <1>2, <3>1, <3>2
  <2> QED
    BY <1>2, <2>1, <2>2 DEF ToSet
<1> QED
  BY <1>3, <1>4

(* sendMsg is Send.                                                        *)
LEMMA SendIsSend ==
  ASSUME TypeOK, StampInv, NEW m \in Msg, sendMsg(m)
  PROVE  Promise!Send(m)
<1>1. /\ stamp[m] = 0
      /\ when' = [when EXCEPT ![m] = now + DelayOf[m]]
      /\ sends' = sends + 1
      /\ stamp' = [stamp EXCEPT ![m] = sends + 1]
      /\ now' = now /\ taken' = taken
  BY Zenon DEF sendMsg
<1> QED
  BY <1>1, SendAdds, Zenon DEF Promise!Send

(* What the worker takes is what the promise delivers.                     *)
LEMMA PopIsDeliver ==
  ASSUME TypeOK, QueueSorted, HeadInv, Undisturbed, pop
  PROVE  queue[1] \in ToSet(queue) /\ Promise!Deliver(queue[1])
<1> DEFINE h == queue[1]
<1>1. /\ queue # <<>> /\ h \in Msg /\ when[h] <= now
      /\ taken' = Append(taken, h)
      /\ Len(queue') = Len(queue) - 1
      /\ \A j \in 1..(Len(queue) - 1) : queue'[j] = queue[j + 1]
      /\ when' = when /\ stamp' = stamp /\ sends' = sends /\ now' = now
  BY PopTakesFirst
<1>2. /\ DOMAIN queue = 1..Len(queue) /\ DOMAIN queue' = 1..Len(queue')
      /\ Len(queue) \in Nat /\ 1 \in 1..Len(queue)
      /\ \A m \in Msg : when[m] \in Nat /\ stamp[m] \in Nat
  <2>1. queue' \in Seq(Msg)
    BY TypeStep DEF Next, Worker, TypeOK
  <2> QED
    BY <1>1, <2>1 DEF TypeOK
<1>3. \A j \in 2..Len(queue) : Before(h, queue[j])
  BY <1>2 DEF QueueSorted
<1>4. \A n \in ToSet(queue) \ {h} : Before(h, n)
  <2> SUFFICES ASSUME NEW j \in 1..Len(queue), queue[j] # h PROVE Before(h, queue[j])
    BY <1>2 DEF ToSet
  <2>1. j \in 2..Len(queue)
    BY <1>2
  <2> QED
    BY <1>3, <2>1
<1>5. ~Before(h, h)
  BY <1>1, <1>2 DEF Before
<1> HIDE DEF h
<1>6. ToSet(queue') = ToSet(queue) \ {h}
  <2>1. ToSet(queue') = {queue[j] : j \in 2..Len(queue)}
    <3>1. \A i \in 1..Len(queue') : i + 1 \in 2..Len(queue) /\ queue'[i] = queue[i + 1]
      BY <1>1, <1>2
    <3>2. \A j \in 2..Len(queue) : j - 1 \in 1..Len(queue') /\ queue'[j - 1] = queue[j]
      BY <1>1, <1>2
    <3> QED
      BY <1>2, <3>1, <3>2 DEF ToSet
  <2>2. ToSet(queue) = {h} \union {queue[j] : j \in 2..Len(queue)}
    BY <1>2 DEF ToSet, h
  <2>3. h \notin {queue[j] : j \in 2..Len(queue)}
    BY <1>3, <1>5
  <2> QED
    BY <2>1, <2>2, <2>3
<1>7. h \in ToSet(queue)
  BY <1>2 DEF ToSet, h
<1>8. \A n \in ToSet(queue) \ {h} : Promise!Before(h, n)
  BY <1>4 DEF Before, Promise!Before
<1> QED
  BY <1>1, <1>6, <1>7, <1>8, Zenon DEF Promise!Deliver, h

LEMMA PromiseStep ==
  ASSUME NoRemovals, SendersInv, [Next]_vars
  PROVE  [Promise!Next]_(Promise!vars)
<1>1. CASE \E m \in Msg : sendMsg(m)
  BY <1>1, SendIsSend, Zenon DEF SendersInv, Promise!Next
<1>2. CASE pop
  BY <1>2, PopIsDeliver, Zenon DEF SendersInv, Promise!Next
<1>3. CASE Tick
  BY <1>3, Zenon DEF Tick, Promise!Tick, Promise!Next
<1>4. CASE \/ startMsgQueue \/ destroy \/ loopTest \/ waitNonEmpty \/ peekTest \/ peek
           \/ dueTest \/ timedWait \/ waitTimeout \/ popTest \/ handleMessage
           \/ UNCHANGED vars
  <2>1. /\ queue' = queue /\ taken' = taken /\ when' = when
        /\ stamp' = stamp /\ sends' = sends /\ now' = now
    BY <1>4, Zenon DEF startMsgQueue, destroy, loopTest, waitNonEmpty, peekTest, peek,
       dueTest, timedWait, waitTimeout, popTest, handleMessage, vars
  <2> QED
    BY <2>1 DEF Promise!vars
<1>5. ~removeMsgStep /\ ~removeMsgUnlock /\ ~clearMsg
  BY Zenon DEF NoRemovals, SendersInv, Undisturbed, removeMsgStep, removeMsgUnlock, clearMsg
<1>6. ~(\E t \in RemoveTypes : removeMsgLock(t))
  BY DEF NoRemovals
<1> QED
  BY <1>1, <1>2, <1>3, <1>4, <1>5, <1>6, Zenon DEF Next, Worker, Remover

(* With senders only, the queue of CMsgQueue.cpp implements DelayQueue.    *)
THEOREM QueueKeepsPromise ==
  ASSUME RemoveTypes = {}, Clears = FALSE
  PROVE  Spec => KeepsPromise
<1>1. SendersInv /\ [Next]_vars => [Promise!Next]_(Promise!vars)
  BY PromiseStep DEF NoRemovals
<1> QED
  BY <1>1, PromiseInit, SendersOnly, PTL DEF NoRemovals, Spec, KeepsPromise, Promise!Spec

(***************************************************************************)
(* The refinement of MessageBag                                            *)
(***************************************************************************)

(* The worker has seen a message and has not come to take it.              *)
Looking == worker \in {"peekTest", "peek", "dueTest", "arm", "timed", "popTest", "pop"}

(* If it finds none, one was removed that nobody has handled; and removeMsg*)
(* adds nothing to what it found.                                          *)
BagInv ==
  /\ Looking /\ queue = <<>> => Sent \ ToSet(taken) # {}
  /\ rm.on => ToSet(queue) \subseteq ToSet(rm.before) /\ rm.type \in RemoveTypes

(* The first message was sent, and the worker has not handled it.          *)
LEMMA FirstIsFresh ==
  ASSUME TypeOK, StampInv, TakenInv, queue # <<>>
  PROVE  /\ queue[1] \in ToSet(queue)
         /\ queue[1] \in Sent \ ToSet(taken)
<1>1. 1 \in 1..Len(queue) /\ queue[1] \in Msg
  BY DEF TypeOK
<1>2. \A j \in 1..Len(taken) : taken[j] # queue[1]
  BY <1>1 DEF TakenInv
<1>3. DOMAIN taken = 1..Len(taken)
  BY DEF TypeOK
<1>4. queue[1] \in Sent
  BY <1>1 DEF StampInv, Sent
<1> QED
  BY <1>1, <1>2, <1>3, <1>4 DEF ToSet, TypeOK

(* What removeAt leaves was there before.                                  *)
LEMMA RemoveAtKeeps ==
  ASSUME TypeOK, NEW k \in 1..Len(queue)
  PROVE  ToSet(RemoveAt(queue, k)) \subseteq ToSet(queue)
<1>1. /\ Len(RemoveAt(queue, k)) = Len(queue) - 1
      /\ \A j \in 1..(Len(queue) - 1) :
           RemoveAt(queue, k)[j] = IF j < k THEN queue[j] ELSE queue[j + 1]
  BY RemoveAtProperties DEF TypeOK
<1>2. RemoveAt(queue, k) \in Seq(Msg) /\ Len(queue) \in Nat
  BY RemoveAtProperties DEF TypeOK
<1>3. /\ DOMAIN RemoveAt(queue, k) = 1..(Len(queue) - 1)
      /\ DOMAIN queue = 1..Len(queue)
  BY <1>1, <1>2 DEF TypeOK
<1>4. \A j \in 1..(Len(queue) - 1) :
        \E l \in 1..Len(queue) : RemoveAt(queue, k)[j] = queue[l]
  BY <1>1, <1>2
<1> QED
  BY <1>3, <1>4 DEF ToSet

(* Where the worker can be after a step that is not its taking a message.  *)
LEMMA LookingStep ==
  ASSUME [Next]_vars, Looking', ~pop
  PROVE  Looking \/ (queue # <<>> /\ queue' = queue)
<1>1. CASE waitNonEmpty
  BY <1>1 DEF waitNonEmpty, Looking
<1>2. CASE \/ loopTest \/ handleMessage \/ startMsgQueue
  BY <1>2 DEF loopTest, handleMessage, startMsgQueue, Looking
<1>3. CASE peekTest \/ peek \/ dueTest \/ timedWait \/ waitTimeout \/ popTest
  BY <1>3 DEF peekTest, peek, dueTest, timedWait, waitTimeout, popTest, Looking
<1>4. CASE (\E m \in Msg : sendMsg(m)) \/ removeMsgUnlock
  <2>1. worker' = worker \/ (worker = "asleep" /\ worker' = "check") \/ worker = "timed"
    BY <1>4, Zenon DEF sendMsg, removeMsgUnlock, Signal
  <2> QED
    BY <2>1 DEF Looking
<1>5. CASE \/ \E t \in RemoveTypes : removeMsgLock(t)
           \/ removeMsgStep \/ clearMsg \/ destroy \/ Tick \/ UNCHANGED vars
  <2>1. worker' = worker
    BY <1>5, Zenon DEF removeMsgLock, removeMsgStep, clearMsg, destroy, Tick, vars
  <2> QED
    BY <2>1 DEF Looking
<1> QED
  BY <1>1, <1>2, <1>3, <1>4, <1>5, Zenon DEF Next, Worker, Remover

LEMMA BagStep ==
  ASSUME TypeOK, StampInv, TakenInv, BagInv, [Next]_vars
  PROVE  BagInv'
<1>1. CASE \E m \in Msg : sendMsg(m)
  <2>1. PICK m \in Msg : sendMsg(m)
    BY <1>1
  <2>2. Len(queue') = Len(queue) + 1 /\ Len(queue) \in Nat
    BY <2>1, Grows DEF TypeOK
  <2>3. queue' # <<>> /\ ~rm'.on
    BY <2>1, <2>2 DEF sendMsg, LockFree
  <2> QED
    BY <2>3 DEF BagInv
<1>2. CASE pop
  <2>1. worker' = "handle" /\ ~rm'.on
    BY <1>2, Zenon DEF pop, LockFree
  <2> QED
    BY <2>1 DEF BagInv, Looking
<1>3. CASE \/ \E t \in RemoveTypes : removeMsgLock(t)
           \/ removeMsgStep \/ removeMsgUnlock \/ clearMsg \/ startMsgQueue \/ destroy \/ Tick
           \/ loopTest \/ waitNonEmpty \/ peekTest \/ peek \/ dueTest
           \/ timedWait \/ waitTimeout \/ popTest \/ handleMessage
           \/ UNCHANGED vars
  <2>1. /\ stamp' = stamp
        /\ \/ queue' = queue
           \/ queue' = <<>>
           \/ \E k \in 1..Len(queue) : queue' = RemoveAt(queue, k)
    BY <1>3, Shrinks, Zenon DEF Remover, Worker
  <2>2. taken' = taken
    BY <1>3, Zenon DEF removeMsgLock, removeMsgStep, removeMsgUnlock, clearMsg, startMsgQueue,
       destroy, Tick, loopTest, waitNonEmpty, peekTest, peek, dueTest, timedWait, waitTimeout,
       popTest, handleMessage, vars
  <2>3. ToSet(queue') \subseteq ToSet(queue)
    <3>1. ToSet(<< >>) = {}
      BY DEF ToSet
    <3> QED
      BY <2>1, <3>1, RemoveAtKeeps
  <2>4. rm'.on => \/ rm.on /\ rm'.before = rm.before /\ rm'.type = rm.type
                  \/ rm'.before = queue /\ rm'.type \in RemoveTypes
    <3>1. CASE \E t \in RemoveTypes : removeMsgLock(t)
      BY <3>1 DEF removeMsgLock
    <3>2. CASE removeMsgStep
      BY <3>2 DEF removeMsgStep, TypeOK, RemoveState
    <3>3. CASE removeMsgUnlock
      BY <3>3 DEF removeMsgUnlock, NoRemove
    <3>4. CASE \/ clearMsg \/ startMsgQueue \/ destroy \/ Tick
               \/ loopTest \/ waitNonEmpty \/ peekTest \/ peek \/ dueTest
               \/ timedWait \/ waitTimeout \/ popTest \/ handleMessage
               \/ UNCHANGED vars
      <4>1. rm' = rm
        BY <3>4, Zenon DEF clearMsg, startMsgQueue, destroy, Tick, loopTest, waitNonEmpty,
           peekTest, peek, dueTest, timedWait, waitTimeout, popTest, handleMessage, vars
      <4> QED
        BY <4>1
    <3> QED
      BY <1>3, <3>1, <3>2, <3>3, <3>4, Zenon
  <2>5. rm'.on => ToSet(queue') \subseteq ToSet(rm'.before) /\ rm'.type \in RemoveTypes
    BY <2>3, <2>4 DEF BagInv
  <2>6. ASSUME Looking', queue' = <<>> PROVE Sent \ ToSet(taken) # {}
    <3>1. CASE queue # <<>>
      BY <3>1, FirstIsFresh
    <3>2. CASE queue = <<>>
      <4>1. ~pop
        <5>1. pop => worker' = "handle"
          BY Zenon DEF pop
        <5> QED
          BY <2>6, <5>1 DEF Looking
      <4> QED
        BY <2>6, <3>2, <4>1, LookingStep DEF BagInv
    <3> QED
      BY <3>1, <3>2
  <2>7. Sent' = Sent
    BY <2>1 DEF Sent
  <2> QED
    BY <2>2, <2>5, <2>6, <2>7 DEF BagInv
<1> QED
  BY <1>1, <1>2, <1>3, Zenon DEF Next, Worker, Remover

WholeInv == TypeOK /\ StampInv /\ QueueSorted /\ HeadInv /\ TakenInv /\ LoopInv /\ BagInv

LEMMA WholeInvariance == Spec => []WholeInv
<1>1. Init => HeadInv /\ TakenInv /\ LoopInv
  BY DEF Init, HeadInv, TakenInv, NoRemove, LoopInv
<1>2. Init => BagInv
  BY DEF Init, BagInv, Looking, NoRemove
<1>3. TypeOK /\ StampInv /\ HeadInv /\ [Next]_vars => HeadInv'
  BY HeadStep
<1>4. TypeOK /\ StampInv /\ QueueSorted /\ TakenInv /\ [Next]_vars => TakenInv'
  BY TakenStep
<1>5. TypeOK /\ QueueSorted /\ LoopInv /\ [Next]_vars => LoopInv'
  BY LoopStep
<1>6. TypeOK /\ StampInv /\ TakenInv /\ BagInv /\ [Next]_vars => BagInv'
  BY BagStep
<1> QED
  BY <1>1, <1>2, <1>3, <1>4, <1>5, <1>6, TypeCorrect, QueueStaysSorted, PTL DEF Spec, WholeInv

(* The messages of its type that removeMsg leaves stand each right behind  *)
(* one that is gone, so they are no more than those.                       *)
LEMMA HalfIsGone ==
  ASSUME TypeOK, LoopInv, BagInv, rm.on, rm.i > Len(queue)
  PROVE  \E gone \in SUBSET {m \in ToSet(rm.before) : TypeOf[m] = rm.type} :
           /\ Cardinality({m \in ToSet(rm.before) : TypeOf[m] = rm.type} \ gone)
                <= Cardinality(gone)
           /\ ToSet(queue) = ToSet(rm.before) \ gone
<1> DEFINE B == rm.before
           Found == ToSet(B)
           OfType == {m \in Found : TypeOf[m] = rm.type}
           gone == Found \ ToSet(queue)
           kept == OfType \ gone
           I == 1..Len(B)
<1>1. /\ B \in Seq(Msg) /\ Len(B) \in Nat /\ Len(queue) \in Nat /\ rm.i \in Nat
      /\ DOMAIN B = I /\ Found = {B[j] : j \in I}
  <2>1. B \in Seq(Msg) /\ rm.i \in Nat /\ Len(queue) \in Nat
    BY DEF TypeOK, RemoveState
  <2> HIDE DEF B
  <2> QED
    BY <2>1 DEF ToSet
<1>2. \A m : Holds(queue, m) <=> m \in ToSet(queue)
  BY DEF Holds, ToSet, TypeOK
<1>3. \A j \in I : LeftRightly(B, rm.type, queue, j)
  <2>1. \A j \in I : j < rm.i + Gone
    BY <1>1 DEF Gone
  <2> QED
    BY <2>1 DEF LoopInv
<1>4. \A i, j \in I : i # j => B[i] # B[j]
  BY DEF LoopInv
<1>5. gone \in SUBSET OfType /\ ToSet(queue) = Found \ gone
  <2>1. \A j \in I : B[j] \notin ToSet(queue) => TypeOf[B[j]] = rm.type
    BY <1>2, <1>3 DEF LeftRightly
  <2> HIDE DEF B, I
  <2>2. ToSet(queue) \subseteq Found
    BY DEF BagInv, B
  <2> QED
    BY <1>1, <2>1, <2>2
<1>6. \A j \in I : B[j] \in kept => j - 1 \in I /\ B[j - 1] \in gone
  <2> SUFFICES ASSUME NEW j \in I, B[j] \in kept PROVE j - 1 \in I /\ B[j - 1] \in gone
    OBVIOUS
  <2>1. B[j] \in ToSet(queue) /\ TypeOf[B[j]] = rm.type
    OBVIOUS
  <2>2. j > 1 /\ B[j - 1] \notin ToSet(queue)
    BY <1>2, <1>3, <2>1 DEF LeftRightly
  <2>3. j - 1 \in I
    BY <1>1, <2>2
  <2> HIDE DEF B, I
  <2> QED
    BY <1>1, <2>2, <2>3
<1> DEFINE At(m) == CHOOSE j \in I : B[j] = m
           f == [m \in kept |-> B[At(m) - 1]]
<1>7. \A m \in kept : At(m) \in I /\ B[At(m)] = m /\ At(m) - 1 \in I /\ B[At(m) - 1] \in gone
  <2> SUFFICES ASSUME NEW m \in kept
               PROVE  At(m) \in I /\ B[At(m)] = m /\ At(m) - 1 \in I /\ B[At(m) - 1] \in gone
    OBVIOUS
  <2>1. \E j \in I : B[j] = m
    BY <1>1
  <2>2. At(m) \in I /\ B[At(m)] = m
    BY <2>1
  <2> HIDE DEF At, B, I, kept, gone
  <2> QED
    BY <1>6, <2>2
<1>8. \A m \in kept : At(m) \in Nat
  BY <1>1, <1>7
<1> HIDE DEF At
<1>9. \A m, n \in kept : f[m] = f[n] => m = n
  <2> SUFFICES ASSUME NEW m \in kept, NEW n \in kept, f[m] = f[n] PROVE m = n
    OBVIOUS
  <2>1. B[At(m) - 1] = B[At(n) - 1]
    OBVIOUS
  <2>2. At(m) - 1 = At(n) - 1
    BY <1>4, <1>7, <2>1
  <2>3. At(m) = At(n)
    BY <1>8, <2>2
  <2> QED
    BY <1>7, <2>3
<1>10. f \in Injection(kept, gone)
  <2>1. f \in [kept -> gone]
    BY <1>7
  <2> QED
    BY <1>9, <2>1 DEF Injection, IsInjective
<1>11. IsFiniteSet(gone)
  <2>1. IsFiniteSet(I)
    BY <1>1, FS_Interval
  <2>2. B \in Surjection(I, Found)
    <3> HIDE DEF B, I, Found
    <3>1. B \in [I -> Found]
      BY <1>1
    <3> QED
      BY <1>1, <3>1 DEF Surjection
  <2>3. IsFiniteSet(Found)
    <3> HIDE DEF B, I, Found
    <3> QED
      BY <2>1, <2>2, FS_Surjection
  <2> QED
    BY <2>3, FS_Subset
<1>12. Cardinality(kept) <= Cardinality(gone)
  <2> HIDE DEF kept, gone, f
  <2> QED
    BY <1>10, <1>11, FS_Injection
<1> QED
  BY <1>5, <1>12

LEMMA BagInit == Init => Bag!Init
BY DEF Init, Bag!Init, NoRemove, Sent, ToSet

(* MessageBag counts as this module does.                                  *)
LEMMA SameCardinality == \A S : Bag!Cardinality(S) = Cardinality(S)
BY DEF Bag!Cardinality, Cardinality

(* removeMsg is Remove when it gives the lock back.                        *)
LEMMA UnlockIsRemove ==
  ASSUME TypeOK, LoopInv, BagInv, removeMsgUnlock
  PROVE  Bag!Remove(rm.type) /\ rm.type \in RemoveTypes
<1>1. /\ rm.on /\ rm.i > Len(queue) /\ ~rm'.on
      /\ UNCHANGED <<queue, cur, stamp, taken>>
  BY Zenon DEF removeMsgUnlock, NoRemove
<1>2. worker' = "handle" <=> worker = "handle"
  BY DEF removeMsgUnlock, Signal
<1>3. UNCHANGED <<Sent, ToSet(taken), IF worker = "handle" THEN cur ELSE NoMsg>>
  BY <1>1, <1>2 DEF Sent
<1> QED
  BY <1>1, <1>3, HalfIsGone, SameCardinality DEF Bag!Remove, Bag!OfType, BagInv

(* Taking one message out of a sorted vector takes it out of the set.      *)
LEMMA DistinctTakes ==
  ASSUME TypeOK, QueueSorted, 1 \in 1..Len(queue)
  PROVE  ToSet(RemoveAt(queue, 1)) = ToSet(queue) \ {queue[1]}
<1>1. /\ Len(RemoveAt(queue, 1)) = Len(queue) - 1
      /\ \A j \in 1..(Len(queue) - 1) :
           RemoveAt(queue, 1)[j] = IF j < 1 THEN queue[j] ELSE queue[j + 1]
  BY RemoveAtProperties DEF TypeOK
<1>2. RemoveAt(queue, 1) \in Seq(Msg) /\ Len(queue) \in Nat
  BY RemoveAtProperties DEF TypeOK
<1>3. /\ DOMAIN RemoveAt(queue, 1) = 1..(Len(queue) - 1)
      /\ DOMAIN queue = 1..Len(queue)
  BY <1>1, <1>2 DEF TypeOK
<1> DEFINE R == RemoveAt(queue, 1)
<1>4. /\ \A j \in 1..(Len(queue) - 1) : j + 1 \in 2..Len(queue) /\ R[j] = queue[j + 1]
      /\ \A l \in 2..Len(queue) : l - 1 \in 1..(Len(queue) - 1) /\ R[l - 1] = queue[l]
  BY <1>1, <1>2
<1>5. \A l \in 2..Len(queue) : l \in 1..Len(queue) /\ queue[l] # queue[1]
  <2>1. \A l \in 2..Len(queue) : l \in 1..Len(queue) /\ l # 1
    BY <1>2
  <2> QED
    BY <2>1, SortedDistinct
<1> HIDE DEF R
<1>6. ToSet(R) = {queue[l] : l \in 2..Len(queue)}
  BY <1>3, <1>4 DEF ToSet, R
<1>7. ToSet(queue) = {queue[1]} \union {queue[l] : l \in 2..Len(queue)}
  <2>1. 1..Len(queue) = {1} \union 2..Len(queue)
    BY <1>2
  <2> QED
    BY <1>3, <2>1 DEF ToSet
<1> QED
  BY <1>5, <1>6, <1>7 DEF R

(* A message at the head of the vector leaves the bag for the worker; one  *)
(* read behind its end was sent, and then the bag is empty.                *)
LEMMA PopIsTake ==
  ASSUME TypeOK, StampInv, QueueSorted, TakenInv, BagInv, pop
  PROVE  [Bag!Next]_(Bag!vars)
<1>1. /\ worker = "pop" /\ worker' = "handle" /\ ~rm.on /\ ~rm'.on
      /\ stamp' = stamp
      /\ taken' = IF cur' = NoMsg THEN taken ELSE Append(taken, cur')
  BY Zenon DEF pop, LockFree
<1>2. Sent' = Sent
  BY <1>1 DEF Sent
<1>3. taken \in Seq(Msg) /\ \A m \in Msg : ToSet(Append(taken, m)) = ToSet(taken) \union {m}
  <2>1. taken \in Seq(Msg) /\ Len(taken) \in Nat
    BY DEF TypeOK
  <2> SUFFICES ASSUME NEW m \in Msg
               PROVE  ToSet(Append(taken, m)) = ToSet(taken) \union {m}
    BY <2>1
  <2>2. /\ DOMAIN Append(taken, m) = 1..(Len(taken) + 1) /\ DOMAIN taken = 1..Len(taken)
        /\ Append(taken, m)[Len(taken) + 1] = m
        /\ \A j \in 1..Len(taken) : Append(taken, m)[j] = taken[j]
    BY <2>1
  <2>3. 1..(Len(taken) + 1) = 1..Len(taken) \union {Len(taken) + 1}
    BY <2>1
  <2> QED
    BY <2>2, <2>3 DEF ToSet
<1>4. CASE queue # <<>>
  <2>1. cur' = queue[1] /\ queue' = RemoveAt(queue, 1)
    BY <1>4, Zenon DEF pop
  <2>2. 1 \in 1..Len(queue) /\ queue[1] \in Msg /\ queue[1] # NoMsg
    BY <1>4, QueueAssumption DEF TypeOK
  <2>3. ToSet(queue') = ToSet(queue) \ {queue[1]}
    BY <2>1, <2>2, DistinctTakes
  <2>4. queue[1] \in ToSet(queue)
    BY <1>4, FirstIsFresh
  <2>5. ToSet(taken') = ToSet(taken) \union {queue[1]}
    BY <1>1, <1>3, <2>1, <2>2
  <2>6. Bag!Take(queue[1])
    BY <1>1, <1>2, <2>1, <2>3, <2>5 DEF Bag!Take
  <2> QED
    BY <1>1, <2>4, <2>6 DEF Bag!Next
<1>5. CASE queue = <<>>
  <2>1. queue' = queue /\ cur' \in SlotZero
    BY <1>5, Zenon DEF pop
  <2>2. ToSet(queue) = {} /\ ToSet(queue') = {}
    BY <1>5, <2>1 DEF ToSet
  <2>3. CASE cur' = NoMsg
    BY <1>1, <1>2, <2>2, <2>3 DEF Bag!vars
  <2>4. CASE cur' # NoMsg
    <3>1. cur' \in Sent /\ cur' \in Msg
      BY <2>1, <2>4 DEF SlotZero, Sent
    <3>2. ToSet(taken') = ToSet(taken) \union {cur'}
      BY <1>1, <1>3, <2>4, <3>1
    <3>3. Sent \ ToSet(taken) # {}
      BY <1>1, <1>5 DEF BagInv, Looking
    <3>4. Bag!TakeGone(cur')
      BY <1>1, <1>2, <2>2, <3>2, <3>3 DEF Bag!TakeGone, Bag!Take
    <3> QED
      BY <3>1, <3>4 DEF Bag!Next
  <2> QED
    BY <2>3, <2>4
<1> QED
  BY <1>4, <1>5

LEMMA BagNext ==
  ASSUME WholeInv, [Next]_vars
  PROVE  [Bag!Next]_(Bag!vars)
<1> USE DEF WholeInv
<1>1. ASSUME NEW m \in Msg, sendMsg(m) PROVE Bag!Next
  <2>1. /\ ~rm.on /\ rm' = rm /\ cur' = cur /\ taken' = taken
        /\ stamp[m] = 0 /\ stamp' = [stamp EXCEPT ![m] = sends + 1]
    BY <1>1, Zenon DEF sendMsg, LockFree
  <2>2. worker' = "handle" <=> worker = "handle"
    BY <1>1 DEF sendMsg, Signal
  <2>3. m \notin Sent /\ Sent' = Sent \union {m}
    BY <2>1 DEF Sent, TypeOK
  <2>4. ToSet(queue') = ToSet(queue) \union {m}
    BY <1>1, SendAdds
  <2>5. Bag!Send(m)
    BY <2>1, <2>2, <2>3, <2>4 DEF Bag!Send
  <2> QED
    BY <2>5 DEF Bag!Next
<1>2. CASE pop
  BY <1>2, PopIsTake
<1>3. CASE removeMsgUnlock
  BY <1>3, UnlockIsRemove DEF Bag!Next
<1>4. CASE clearMsg
  <2>1. /\ Clears /\ ~rm.on /\ queue' = <<>>
        /\ UNCHANGED <<rm, worker, cur, stamp, taken>>
    BY <1>4, Zenon DEF clearMsg, LockFree
  <2>2. Bag!Clear
    BY <2>1 DEF Bag!Clear, Sent, ToSet
  <2> QED
    BY <2>2 DEF Bag!Next
<1>5. CASE handleMessage
  <2>1. /\ worker = "handle" /\ worker' = "loop"
        /\ UNCHANGED <<queue, rm, stamp, taken>>
    BY <1>5, Zenon DEF handleMessage
  <2>2. Bag!Finish
    BY <2>1 DEF Bag!Finish, Sent
  <2> QED
    BY <2>2 DEF Bag!Next
<1>6. CASE \E t \in RemoveTypes : removeMsgLock(t)
  <2>1. /\ ~rm.on /\ rm'.on /\ rm'.before = queue
        /\ UNCHANGED <<worker, cur, stamp, taken>>
    BY <1>6 DEF removeMsgLock, LockFree
  <2> QED
    BY <2>1 DEF Bag!vars, Sent
<1>7. CASE removeMsgStep
  <2>1. /\ rm.on /\ rm'.on /\ rm'.before = rm.before
        /\ UNCHANGED <<worker, cur, stamp, taken>>
    BY <1>7 DEF removeMsgStep, TypeOK, RemoveState
  <2> QED
    BY <2>1 DEF Bag!vars, Sent
<1>8. CASE \/ startMsgQueue \/ destroy \/ Tick \/ UNCHANGED vars
           \/ loopTest \/ waitNonEmpty \/ peekTest \/ peek \/ dueTest
           \/ timedWait \/ waitTimeout \/ popTest
  <2>1. UNCHANGED <<queue, rm, stamp, taken>>
    BY <1>8, Zenon DEF startMsgQueue, destroy, Tick, vars, loopTest, waitNonEmpty, peekTest,
       peek, dueTest, timedWait, waitTimeout, popTest
  <2>2. \/ worker # "handle" /\ worker' # "handle"
        \/ worker' = worker /\ cur' = cur
    BY <1>8 DEF startMsgQueue, destroy, Tick, vars, loopTest, waitNonEmpty, peekTest,
       peek, dueTest, timedWait, waitTimeout, popTest
  <2> QED
    BY <2>1, <2>2 DEF Bag!vars, Sent
<1> QED
  BY <1>1, <1>2, <1>3, <1>4, <1>5, <1>6, <1>7, <1>8, Zenon DEF Next, Worker, Remover

(* Whoever removes messages while the worker looks at the vector, the queue*)
(* of CMsgQueue.cpp implements MessageBag: this is what HdmiCecControl     *)
(* takes for granted of it.                                                *)
THEOREM QueueKeepsBag == Spec => KeepsBag
<1>1. WholeInv /\ [Next]_vars => [Bag!Next]_(Bag!vars)
  BY BagNext
<1> QED
  BY <1>1, BagInit, WholeInvariance, PTL DEF Spec, KeepsBag, Bag!Spec

(* The library never has more than two messages of a type it removes (see  *)
(* AlwaysFewAddressRequests); of up to three, removeMsg leaves one at most.*)
THEOREM OneOfThreeStays ==
  ASSUME NEW t, IsFiniteSet(Bag!OfType(t)), Cardinality(Bag!OfType(t)) <= 3, Bag!Remove(t)
  PROVE  \A m, n \in Bag!OfType(t)' : m = n
<1> DEFINE all == Bag!OfType(t)
<1>1. PICK gone \in SUBSET all :
        /\ Cardinality(all \ gone) <= Cardinality(gone)
        /\ Bag!OfType(t)' = all \ gone
  BY SameCardinality DEF Bag!Remove, Bag!OfType
<1> DEFINE kept == all \ gone
<1> SUFFICES ASSUME NEW m \in kept, NEW n \in kept, m # n PROVE FALSE
  BY <1>1
<1> HIDE DEF all
<1>2. IsFiniteSet(all) /\ IsFiniteSet(gone) /\ IsFiniteSet(kept) /\ gone = all \ kept
  BY FS_Subset DEF all
<1>3. /\ Cardinality(gone) \in Nat /\ Cardinality(kept) \in Nat
      /\ Cardinality(all \ kept) = Cardinality(all) - Cardinality(all \cap kept)
      /\ all \cap kept = kept /\ Cardinality(all) \in Nat
  BY <1>2, FS_CardinalityType, FS_Difference
<1>4. Cardinality({m, n}) = 2
  <2>1. Cardinality({m}) = 1 /\ IsFiniteSet({m})
    BY FS_Singleton
  <2>2. {m} \union {n} = {m, n} /\ n \notin {m}
    OBVIOUS
  <2>3. Cardinality({m} \union {n}) =
          IF n \in {m} THEN Cardinality({m}) ELSE Cardinality({m}) + 1
    BY <2>1, FS_AddElement
  <2> QED
    BY <2>1, <2>2, <2>3
<1>5. Cardinality({m, n}) <= Cardinality(kept)
  BY <1>2, FS_Subset
<1>6. Cardinality(all) <= 3 /\ Cardinality(kept) <= Cardinality(gone)
  BY <1>1 DEF all
<1> HIDE DEF kept
<1> QED
  BY <1>2, <1>3, <1>4, <1>5, <1>6

============================================================================
