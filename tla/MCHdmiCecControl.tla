-------------------------- MODULE MCHdmiCecControl --------------------------
(* Instances of HdmiCecControl for TLC: a TV with two inputs, an AVR on     *)
(* input 1, which has ARC, and a player.                                    *)
EXTENDS HdmiCecControl

MCDev == {5, 8}
MCPort == {1, 2}
MCInput == {1}
MCArcPort == {1}
MCAddr == {0, 16, 17, 32, 33}

Rx(op, from, addr) == [op |-> op, from |-> from, addr |-> addr, all |-> FALSE]
RoutingInformation(addr) == [op |-> "RoutingInformation", from |-> 5, addr |-> addr, all |-> TRUE]
Tx(op, to, addr) == [op |-> op, to |-> to, addr |-> addr, ext |-> FALSE]

(* Receiver and callers compete for the request of an address; devices      *)
(* announce themselves, and the framework changes the route.               *)
RequestRx == {Rx("ReportAddress", 8, 0), Rx("ReportAddress", 5, 16)}
RequestTx == {Tx("GiveAddress", 5, 0), Tx("RoutingChange", 5, 16), Tx("Key", 5, 0),
              Tx("Poll", 5, 0), Tx("Standby", 5, 0),
              [op |-> "GiveAddress", to |-> 5, addr |-> 0, ext |-> TRUE]}
AddressTx == {Tx("GiveAddress", 5, 0)}

(* Sources that come up, routes that change, and messages that are not     *)
(* passed on.                                                              *)
SourceRx == {Rx("ActiveSource", 5, 17), Rx("ActiveSource", 8, 32), Rx("ActiveSource", 5, 0),
             Rx("Arc", 5, 0), RoutingInformation(17), RoutingInformation(33)}
NoCall == {}

B(rxs, txs, plugs, switches, options) ==
  [s \in Source |-> CASE s = "rx" -> rxs [] s = "tx" -> txs [] s = "plug" -> plugs
                      [] s = "switch" -> switches [] s = "option" -> options]

RequestBudget == {B(1, 2, 1, 0, 1)}
EventBudgets == {B(1, 0, 0, 2, 1), B(2, 0, 0, 1, 0), B(0, 0, 4, 0, 2)}
RaceBudget == {B(0, 1, 1, 0, 1)}
=============================================================================
