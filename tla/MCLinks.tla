------------------------------ MODULE MCLinks ------------------------------
(* Components that share no state, checked in one run: a behaviour is that  *)
(* of a single one, chosen at the start; the others stay as they began.      *)
EXTENDS Kiss, CanFragments, Sfp, Router

VARIABLE link

(* Packets that fill the receiver, with every byte that is escaped.          *)
MCKissPackets == << <<"FEND", "a">>, <<"FESC", "b">>, <<"c", "TFEND">> >>

(* Two frames, one frame, two frames.                                       *)
MCCanLength == <<11, 2, 11>>

Incoming(src, dst, port, in, good) ==
  [src |-> src, dst |-> dst, port |-> port, in |-> in, good |-> good]

MCIncoming ==
  {Incoming("A", "me", "service", "ifA", TRUE), Incoming("A", "me", "service", "ifA", FALSE),
   Incoming("A", "me", "client", "ifA", TRUE), Incoming("A", "me", "connless", "ifA", TRUE),
   Incoming("A", "B", "service", "ifA", TRUE), Incoming("B", "A", "service", "ifA", TRUE),
   Incoming("B", "bcast", "service", "ifB", TRUE), Incoming("B", "nowhere", "service", "ifB", TRUE)}

Init == /\ link \in {"kiss", "can", "sfp", "router"}
        /\ KissInit /\ CanInit /\ SfpInit /\ RtrInit
        /\ link # "sfp" => sfpOrdered
        /\ link # "router" => rtrMode = "router"

OnlyKiss == link = "kiss" /\ KissNext /\ UNCHANGED <<link, canVars, sfpVars, rtrVars>>
OnlyCan == link = "can" /\ CanNext /\ UNCHANGED <<link, kissVars, sfpVars, rtrVars>>
OnlySfp == link = "sfp" /\ SfpNext /\ UNCHANGED <<link, kissVars, canVars, rtrVars>>
OnlyRouter == link = "router" /\ RtrNext /\ UNCHANGED <<link, kissVars, canVars, sfpVars>>

Next == OnlyKiss \/ OnlyCan \/ OnlySfp \/ OnlyRouter

(* The fairness of an idle component asks for nothing.                      *)
Spec == /\ Init /\ [][Next]_<<link, kissVars, canVars, sfpVars, rtrVars>>
        /\ CanFairness /\ RtrFairness

(* The type invariants of the four components.                              *)
LinksTypeOK == KissTypeOK /\ CanTypeOK /\ SfpTypeOK /\ RtrTypeOK
=============================================================================
