----------------------------- MODULE DelayQueue -----------------------------
(***************************************************************************)
(* What a user of the CEC message queue is promised when nobody removes    *)
(* messages: a message sent with a delay is delivered once, not before it  *)
(* is due, and after every message that is due before it.                  *)
(***************************************************************************)
EXTENDS Integers, Sequences

CONSTANTS Msg, DelayOf, MaxTime

VARIABLES
  now,        (* the clock                                                   *)
  pending,    (* the messages sent and not delivered                         *)
  when,       (* the time each of them is due                                *)
  sends,      (* how many were sent                                          *)
  stamp,      (* the position of each among them, 0 when not sent            *)
  delivered   (* the messages delivered, in order                            *)

vars == <<now, pending, when, sends, stamp, delivered>>

Init ==
  /\ now = 0
  /\ pending = {}
  /\ when = [m \in Msg |-> 0]
  /\ sends = 0
  /\ stamp = [m \in Msg |-> 0]
  /\ delivered = <<>>

Before(m, n) == when[m] < when[n] \/ (when[m] = when[n] /\ stamp[m] < stamp[n])

Send(m) ==
  /\ stamp[m] = 0
  /\ pending' = pending \union {m}
  /\ when' = [when EXCEPT ![m] = now + DelayOf[m]]
  /\ sends' = sends + 1
  /\ stamp' = [stamp EXCEPT ![m] = sends + 1]
  /\ UNCHANGED <<now, delivered>>

Deliver(m) ==
  /\ when[m] <= now
  /\ \A n \in pending \ {m} : Before(m, n)
  /\ pending' = pending \ {m}
  /\ delivered' = Append(delivered, m)
  /\ UNCHANGED <<now, when, sends, stamp>>

Tick ==
  /\ now < MaxTime
  /\ now' = now + 1
  /\ UNCHANGED <<pending, when, sends, stamp, delivered>>

Next ==
  \/ \E m \in Msg : Send(m)
  \/ \E m \in pending : Deliver(m)
  \/ Tick

Spec == Init /\ [][Next]_vars

(* Time passes and a message that can be delivered is.                     *)
FairSpec ==
  /\ Spec
  /\ WF_vars(Tick)
  /\ WF_vars(\E m \in pending : Deliver(m))
=============================================================================
