------------------------------ MODULE MCStores ------------------------------
(* Components that share no state, checked in one run: a behaviour is that  *)
(* of a single one, chosen at the start; the others stay as they began.      *)
EXTENDS RouteTable, LogStore, Ftp

CONSTANTS ifaceA, ifaceB

VARIABLE store

MCName == RtLo :> "LOOP" @@ ifaceA :> "CAN" @@ ifaceB :> "ZMQHUB"
MCLength == "LOOP" :> 4 @@ "CAN" :> 3 @@ "ZMQHUB" :> 6

With(address, netmask, name, mac) ==
  [words |-> 4, address |-> address, netmask |-> netmask, name |-> name, mac |-> mac]
Without(address, netmask, name) == [With(address, netmask, name, 0) EXCEPT !.words = 3]

(* The default route again; a net of two hosts; a text that has a host and   *)
(* that net; one that names an interface which is not there; one without a   *)
(* name.                                                                    *)
MCTexts == {<<Without(RtDefault, RtBits, "CAN")>>, <<With(2, 1, "ZMQHUB", 12)>>,
            <<With(2, 2, "CAN", 3), Without(2, 1, "CAN")>>,
            <<With(3, 1, "ZMQHUB", 12), Without(0, 0, RtNull), With(2, 2, "ZMQHUB", 3)>>,
            <<[Without(2, 2, "CAN") EXCEPT !.words = 2]>>}

Init == store \in {"rtable", "log", "ftp"} /\ RtInit /\ LgInit /\ FtpInit

OnlyTable == store = "rtable" /\ RtNext /\ UNCHANGED <<store, lgVars, ftpVars>>
OnlyLog == store = "log" /\ LgNext /\ UNCHANGED <<store, rtVars, ftpVars>>
OnlyFtp == store = "ftp" /\ FtpNext /\ UNCHANGED <<store, rtVars, lgVars>>

Next == OnlyTable \/ OnlyLog \/ OnlyFtp

Spec == Init /\ [][Next]_<<store, rtVars, lgVars, ftpVars>>

(* The type invariants of the three components.                             *)
StoresTypeOK == RtTypeOK /\ LgTypeOK /\ FtpTypeOK
=============================================================================
