---------------------------- MODULE MCHdcpTxAuth ----------------------------
(* Instances of HdcpTxAuth for TLC: the thread of the TX uevents, the one  *)
(* of the RX uevents and a binder thread.                                  *)
EXTENDS HdcpTxAuth, TLC

CONSTANTS tx, rx, binder

EveryOp ==
  tx :> {"hdrExit", "modePower"}
    @@ rx :> {"rxPlugIn", "rxPlugOut", "rxAuth"}
    @@ binder :> {"modeInit", "modeSwitch", "modeCvbs", "set3DMode"}

BinderOps == binder :> {"modeInit", "modeSwitch"}
=============================================================================
