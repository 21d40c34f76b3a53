--------------------------------- MODULE Sfp ---------------------------------
(***************************************************************************)
(* The simple fragmentation protocol (csp_sfp.c): one end sends transfers of *)
(* the same size as fragments, the other calls csp_sfp_recv again and again *)
(* on the same connection.  On a connection with RDP the fragments arrive   *)
(* in order; without it they get lost, overtake each other and arrive twice.*)
(***************************************************************************)
EXTENDS Integers, Sequences

CONSTANTS SfpSize,       \* totalsize
          SfpMtu,        \* mtu
          SfpTransfers,  \* bound on the calls of csp_sfp_send
          SfpResults     \* bound on the calls of csp_sfp_recv that return 0

(* A fragment of one byte could get lost unnoticed, see SfpGap.             *)
ASSUME SfpAssumption == /\ SfpSize \in Nat \ {0}
                        /\ SfpMtu \in Nat /\ SfpMtu >= 2
                        /\ SfpTransfers \in Nat /\ SfpResults \in Nat

VARIABLES sfpOrdered,   \* the connection uses RDP
          sfpSend,      \* csp_sfp_send: the number of the call, and count
          sfpNet,       \* fragments sent, not received if ordered
          sfpRecv,      \* csp_sfp_recv: last_byte and dataout
          sfpOut        \* the data of the calls that returned 0 (history)

sfpVars == <<sfpOrdered, sfpSend, sfpNet, sfpRecv, sfpOut>>

SfpBytes == 0 .. SfpSize - 1
Unwritten == 0
NotAllocated == [i \in SfpBytes |-> Unwritten]
SfpReturned == [on |-> FALSE, last_byte |-> 0, data |-> NotAllocated]

SfpInit == /\ sfpOrdered \in BOOLEAN
           /\ sfpSend = [call |-> 0, count |-> SfpSize]
           /\ sfpNet = <<>>
           /\ sfpRecv = SfpReturned
           /\ sfpOut = <<>>

SfpFragments == [call : 1 .. SfpTransfers, offset : SfpBytes, length : 1 .. SfpMtu]

-----------------------------------------------------------------------------
(* csp_sfp_send is called ...                                               *)
SfpCallSend == /\ sfpSend.count = SfpSize
               /\ sfpSend.call < SfpTransfers
               /\ sfpSend' = [call |-> sfpSend.call + 1, count |-> 0]
               /\ UNCHANGED <<sfpOrdered, sfpNet, sfpRecv, sfpOut>>

FragmentSize == IF SfpSize - sfpSend.count > SfpMtu THEN SfpMtu ELSE SfpSize - sfpSend.count

(* ... sends a fragment with its offset ...                                 *)
SfpSendFragment ==
  /\ sfpSend.count < SfpSize
  /\ sfpNet' = Append(sfpNet, [call |-> sfpSend.call, offset |-> sfpSend.count,
                               length |-> FragmentSize])
  /\ sfpSend' = [sfpSend EXCEPT !.count = @ + FragmentSize]
  /\ UNCHANGED <<sfpOrdered, sfpRecv, sfpOut>>

(* ... or returns -1 because there is no buffer or csp_send failed.         *)
SfpSendFails == /\ sfpSend.count < SfpSize
                /\ sfpSend' = [sfpSend EXCEPT !.count = SfpSize]
                /\ UNCHANGED <<sfpOrdered, sfpNet, sfpRecv, sfpOut>>

-----------------------------------------------------------------------------
(* csp_sfp_recv is called with a NULL dataout ...                           *)
SfpCallRecv == /\ ~sfpRecv.on
               /\ Len(sfpOut) < SfpResults
               /\ sfpRecv' = [SfpReturned EXCEPT !.on = TRUE]
               /\ UNCHANGED <<sfpOrdered, sfpSend, sfpNet, sfpOut>>

(* Mutant: a gap as long as a fragment is not noticed.                      *)
SfpGapOfOne(f) == f.offset > sfpRecv.last_byte + SfpMtu

SfpGap(f) == f.offset > sfpRecv.last_byte + 1

(* ... reads a fragment: it ends the call if it leaves a gap or csp_malloc    *)
(* fails; it may start before last_byte, which then goes back ...           *)
SfpAccept(f) ==
  LET end == f.offset + f.length
      data == [i \in SfpBytes |-> IF i \in f.offset .. end - 1 THEN f.call ELSE sfpRecv.data[i]]
  IN IF SfpGap(f) THEN sfpRecv' = SfpReturned /\ UNCHANGED sfpOut
     ELSE IF end >= SfpSize THEN sfpRecv' = SfpReturned /\ sfpOut' = Append(sfpOut, data)
     ELSE /\ sfpRecv' = [on |-> TRUE, last_byte |-> end, data |-> data]
          /\ UNCHANGED sfpOut

SfpRead == /\ sfpRecv.on
           /\ \E i \in DOMAIN sfpNet :
                /\ sfpOrdered => i = 1
                /\ sfpNet' = IF sfpOrdered THEN Tail(sfpNet) ELSE sfpNet
                /\ SfpAccept(sfpNet[i])
           /\ UNCHANGED <<sfpOrdered, sfpSend>>

SfpNoMemory == /\ sfpRecv.on
               /\ sfpRecv.last_byte = 0
               /\ \E i \in DOMAIN sfpNet :
                    /\ sfpOrdered => i = 1
                    /\ sfpNet' = IF sfpOrdered THEN Tail(sfpNet) ELSE sfpNet
               /\ sfpRecv' = SfpReturned
               /\ UNCHANGED <<sfpOrdered, sfpSend, sfpOut>>

(* ... or returns -1 because nothing arrived in time.                       *)
SfpTimeOut == /\ sfpRecv.on
              /\ sfpRecv' = SfpReturned
              /\ UNCHANGED <<sfpOrdered, sfpSend, sfpNet, sfpOut>>

SfpNext == \/ SfpCallSend \/ SfpSendFragment \/ SfpSendFails
           \/ SfpCallRecv \/ SfpRead \/ SfpNoMemory \/ SfpTimeOut

SfpSpec == SfpInit /\ [][SfpNext]_sfpVars

-----------------------------------------------------------------------------
SfpTypeOK ==
  /\ sfpOrdered \in BOOLEAN
  /\ sfpSend \in [call : 0 .. SfpTransfers, count : 0 .. SfpSize]
  /\ sfpNet \in Seq(SfpFragments)
  /\ sfpRecv \in [on : BOOLEAN, last_byte : SfpBytes, data : [SfpBytes -> 0 .. SfpTransfers]]
  /\ sfpOut \in Seq([SfpBytes -> 0 .. SfpTransfers])

(* When csp_sfp_recv returns 0, every byte of dataout was received: on no     *)
(* connection does a lost, doubled or late fragment leave a hole.           *)
SfpWhole == \A n \in DOMAIN sfpOut : \A i \in SfpBytes : sfpOut[n][i] # Unwritten

(* With RDP all bytes are those of one transfer, also after transfers that    *)
(* were broken off at either end, and the transfers come in their order.    *)
SfpOneTransfer ==
  sfpOrdered =>
    /\ \A n \in DOMAIN sfpOut : \A i \in SfpBytes : sfpOut[n][i] = sfpOut[n][0]
    /\ \A m, n \in DOMAIN sfpOut : m < n => sfpOut[m][0] < sfpOut[n][0]
=============================================================================
