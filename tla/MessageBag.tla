----------------------------- MODULE MessageBag -----------------------------
(***************************************************************************)
(* What the CEC library may rely on of its message queue, order and delay  *)
(* aside, whoever removes messages while the worker looks at them: a bag   *)
(* that a message enters once and leaves by being taken or removed.        *)
(***************************************************************************)
EXTENDS Integers, FiniteSets

CONSTANTS Msg, NoMsg, TypeOf, RemoveTypes, Clears

VARIABLES
  sent,     (* the messages sent so far                                      *)
  bag,      (* those that wait                                               *)
  handled,  (* those that were handed over                                   *)
  hand      (* the one being handled                                         *)

vars == <<sent, bag, handled, hand>>

OfType(t) == {m \in bag : TypeOf[m] = t}

Init ==
  /\ sent = {}
  /\ bag = {}
  /\ handled = {}
  /\ hand = NoMsg

Send(m) ==
  /\ m \notin sent
  /\ sent' = sent \union {m}
  /\ bag' = bag \union {m}
  /\ UNCHANGED <<handled, hand>>

(* A removal takes away messages of its type only, and no fewer than it    *)
(* leaves: so one of up to three may stay, and of one none.                *)
Remove(t) ==
  /\ \E gone \in SUBSET OfType(t) :
       /\ Cardinality(OfType(t) \ gone) <= Cardinality(gone)
       /\ bag' = bag \ gone
  /\ UNCHANGED <<sent, handled, hand>>

Clear ==
  /\ Clears
  /\ bag' = {}
  /\ UNCHANGED <<sent, handled, hand>>

Take(m) ==
  /\ hand = NoMsg
  /\ bag' = bag \ {m}
  /\ handled' = handled \union {m}
  /\ hand' = m
  /\ UNCHANGED sent

(* A message that has left is handled all the same, only when none waits   *)
(* and one was removed that nobody has handled.                            *)
TakeGone(m) ==
  /\ bag = {} /\ sent \ handled # {}
  /\ Take(m)

Finish ==
  /\ hand' = NoMsg
  /\ UNCHANGED <<sent, bag, handled>>

Next ==
  \/ \E m \in Msg : Send(m)
  \/ \E t \in RemoveTypes : Remove(t)
  \/ Clear
  \/ \E m \in bag : Take(m)
  \/ \E m \in sent : TakeGone(m)
  \/ Finish

Spec == Init /\ [][Next]_vars
=============================================================================
