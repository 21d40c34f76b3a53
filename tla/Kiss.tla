-------------------------------- MODULE Kiss --------------------------------
(***************************************************************************)
(* KISS framing on a serial line (csp_if_kiss.c).  Tasks that send share    *)
(* the line through kiss_lock and write one byte at a time; the receiver at *)
(* the other end takes each byte as it comes.  The line may lose or change  *)
(* a byte and the receiver may find no buffer.  The checksum is ideal: it    *)
(* accepts exactly the packets that were given to csp_kiss_tx.              *)
(***************************************************************************)
EXTENDS Integers, Sequences

CONSTANTS KissTasks,
          KissPlain,      \* bytes that mean nothing to the framing
          KissPackets,    \* KissPackets[n]: header, data and checksum of the n-th packet
          KissMtu,        \* interface->mtu
          KissMinLength,  \* length of header and checksum
          KissFaults      \* bound on lost and changed bytes, missing buffers, lock timeouts

(* The bytes that the framing knows, the one a fault makes, and the others.   *)
KissBytes == {"FEND", "FESC", "TFEND", "TFESC", "TNC_DATA", "x"} \cup KissPlain

(* csp_send_direct gives csp_kiss_tx no packet with more data than the MTU.  *)
ASSUME KissAssumption ==
  /\ KissMtu \in Nat /\ KissMinLength \in Nat \ {0}
  /\ KissPackets \in Seq(Seq(KissBytes))
  /\ \A n \in DOMAIN KissPackets :
       Len(KissPackets[n]) \in KissMinLength .. KissMinLength + KissMtu

VARIABLES kissLock,    \* kiss_lock is available
          kissTask,    \* what each task does in csp_kiss_tx
          kissRx,      \* csp_kiss_handle_t, and `up': what csp_qfifo_write got
          kissSent,    \* packets given to csp_kiss_tx
          kissFrames,  \* frames written to the end, clean or not (history)
          kissFaults   \* faults so far

kissVars == <<kissLock, kissTask, kissRx, kissSent, kissFrames, kissFaults>>

Transpose == [b \in {"FEND", "FESC"} |-> IF b = "FEND" THEN "TFEND" ELSE "TFESC"]

KissIdle == [at |-> "idle", n |-> 0, rest |-> <<>>, clean |-> TRUE]

KissInit == /\ kissLock = TRUE
            /\ kissTask = [t \in KissTasks |-> KissIdle]
            /\ kissRx = [mode |-> "not_started", data |-> <<>>, first |-> FALSE,
                         packet |-> FALSE, up |-> <<>>]
            /\ kissSent = 0
            /\ kissFrames = <<>>
            /\ kissFaults = 0

-----------------------------------------------------------------------------
(* csp_kiss_rx, one byte b; `memory' says whether csp_buffer_get succeeds.  *)

(* Mutant: a packet grows without end.                                      *)
NoOverflowTest(r) == r

(* A packet that got too long is given up before the byte is looked at.     *)
NoOverflow(r) == IF Len(r.data) <= KissMtu THEN r
                 ELSE [r EXCEPT !.mode = "not_started", !.data = <<>>]

NotStarted(r, b, memory) ==
  IF b # "FEND" THEN r
  ELSE IF r.packet \/ memory
  THEN [r EXCEPT !.packet = TRUE, !.mode = "started", !.data = <<>>, !.first = TRUE]
  ELSE [r EXCEPT !.mode = "skip_frame"]

(* Mutant: the end of a packet is still seen as the inside of a frame.       *)
EndOfFrameStays(r) ==
  IF r.data = <<>> THEN r
  ELSE IF Len(r.data) >= KissMinLength /\ \E n \in 1 .. kissSent : KissPackets[n] = r.data
  THEN [r EXCEPT !.up = Append(@, r.data)]
  ELSE [r EXCEPT !.mode = "not_started"]

(* A FEND ends a frame, or is the second of two.  A short frame and one with *)
(* a wrong checksum are skipped; their buffer serves the next frame.        *)
EndOfFrame(r) ==
  IF r.data = <<>> THEN r
  ELSE IF Len(r.data) >= KissMinLength /\ \E n \in 1 .. kissSent : KissPackets[n] = r.data
  THEN [r EXCEPT !.up = Append(@, r.data), !.packet = FALSE, !.mode = "not_started"]
  ELSE [r EXCEPT !.mode = "not_started"]

Started(r, b) ==
  IF b = "FESC" THEN [r EXCEPT !.mode = "escaped"]
  ELSE IF b = "FEND" THEN EndOfFrame(r)
  ELSE IF r.first THEN [r EXCEPT !.first = FALSE]
  ELSE [r EXCEPT !.data = Append(@, b)]

Escaped(r, b) ==
  [r EXCEPT !.mode = "started",
            !.data = IF b = "TFESC" THEN Append(@, "FESC")
                     ELSE IF b = "TFEND" THEN Append(@, "FEND") ELSE @]

SkipFrame(r, b) == IF b = "FEND" THEN [r EXCEPT !.mode = "not_started"] ELSE r

KissByte(rx, b, memory) ==
  LET r == NoOverflow(rx) IN
  CASE r.mode = "not_started" -> NotStarted(r, b, memory)
    [] r.mode = "started"     -> Started(r, b)
    [] r.mode = "escaped"     -> Escaped(r, b)
    [] r.mode = "skip_frame"  -> SkipFrame(r, b)

-----------------------------------------------------------------------------
(* csp_kiss_tx is called with the next packet ...                           *)
KissSend(t) == /\ kissTask[t].at = "idle"
               /\ kissSent < Len(KissPackets)
               /\ kissSent' = kissSent + 1
               /\ kissTask' = [kissTask EXCEPT ![t] =
                    [KissIdle EXCEPT !.at = "lock", !.n = kissSent', !.rest = KissPackets[kissSent']]]
               /\ UNCHANGED <<kissLock, kissRx, kissFrames, kissFaults>>

KissGoOn(t) == /\ kissTask[t].at = "lock"
               /\ kissTask' = [kissTask EXCEPT ![t].at = "start"]
               /\ kissLock' = FALSE
               /\ UNCHANGED <<kissRx, kissSent, kissFrames>>

KissTakeLock(t) == kissLock /\ KissGoOn(t) /\ UNCHANGED kissFaults

(* ... and goes on after a second although it did not get the lock.         *)
KissTimeOut(t) == /\ ~kissLock
                  /\ kissFaults < KissFaults
                  /\ kissFaults' = kissFaults + 1
                  /\ KissGoOn(t)

Writing(t) == kissTask[t].at \in {"type", "body"}

(* The byte a task writes next, and its state then.  A byte that must be     *)
(* escaped is replaced in the packet before it is written.                  *)
NextByte(k) ==
  CASE k.at = "start" -> "FEND"
    [] k.at = "type"  -> "TNC_DATA"
    [] k.at = "body"  -> IF k.rest = <<>> THEN "FEND"
                         ELSE IF Head(k.rest) \in DOMAIN Transpose THEN "FESC" ELSE Head(k.rest)

AfterByte(k) ==
  CASE k.at = "start" -> [k EXCEPT !.at = "type"]
    [] k.at = "type"  -> [k EXCEPT !.at = "body"]
    [] k.at = "body"  -> IF k.rest = <<>> THEN [k EXCEPT !.at = "unlock"]
                         ELSE IF Head(k.rest) \in DOMAIN Transpose
                         THEN [k EXCEPT !.rest[1] = Transpose[@]]
                         ELSE [k EXCEPT !.rest = Tail(@)]

(* Task t writes a byte.  What it writes and what others have begun to write *)
(* is not clean any more if they mix.                                       *)
Put(t, harmed) ==
  LET mixed == \E u \in KissTasks \ {t} : Writing(u)
      k == [AfterByte(kissTask[t]) EXCEPT !.clean = @ /\ ~harmed /\ ~mixed]
  IN /\ kissTask[t].at \in {"start", "type", "body"}
     /\ kissTask' = [u \in KissTasks |->
          IF u = t THEN k ELSE IF Writing(u) THEN [kissTask[u] EXCEPT !.clean = FALSE] ELSE kissTask[u]]
     /\ kissFrames' = IF k.at = "unlock" THEN Append(kissFrames, [n |-> k.n, clean |-> k.clean])
                      ELSE kissFrames

KissPut(t) == /\ Put(t, FALSE)
              /\ kissRx' = KissByte(kissRx, NextByte(kissTask[t]), TRUE)
              /\ UNCHANGED <<kissLock, kissSent, kissFaults>>

(* The byte is lost, or another one arrives, or there is no buffer for it.  *)
KissFault(t) == /\ kissFaults < KissFaults
                /\ Put(t, TRUE)
                /\ \/ UNCHANGED kissRx
                   \/ \E b \in {"FEND", "FESC", "TFEND", "x"} : kissRx' = KissByte(kissRx, b, TRUE)
                   \/ kissRx' = KissByte(kissRx, NextByte(kissTask[t]), FALSE)
                /\ kissFaults' = kissFaults + 1
                /\ UNCHANGED <<kissLock, kissSent>>

KissUnlock(t) == /\ kissTask[t].at = "unlock"
                 /\ kissTask' = [kissTask EXCEPT ![t] = KissIdle]
                 /\ kissLock' = TRUE
                 /\ UNCHANGED <<kissRx, kissSent, kissFrames, kissFaults>>

KissNext == \E t \in KissTasks : \/ KissSend(t) \/ KissTakeLock(t) \/ KissTimeOut(t)
                                 \/ KissPut(t) \/ KissFault(t) \/ KissUnlock(t)

KissSpec == KissInit /\ [][KissNext]_kissVars

-----------------------------------------------------------------------------
KissTypeOK ==
  /\ kissLock \in BOOLEAN
  /\ \A t \in KissTasks : /\ kissTask[t].at \in {"idle", "lock", "start", "type", "body", "unlock"}
                          /\ kissTask[t].rest \in Seq(KissBytes)
  /\ kissRx.mode \in {"not_started", "started", "escaped", "skip_frame"}
  /\ kissRx.data \in Seq(KissBytes) /\ Len(kissRx.data) <= KissMtu + 1
  /\ kissRx.mode \in {"started", "escaped"} => kissRx.packet

ReceivedFrame(n) == \E j \in DOMAIN kissRx.up : kissRx.up[j] = KissPackets[n]

(* Without faults every frame is received that the receiver has room for: its *)
(* overflow test counts header and checksum, which the MTU test of csp_send  *)
(* does not, so some packets that were sent do not fit.                      *)
(* After one the receiver recovers: a frame that nothing disturbed is        *)
(* received if the one before it was not disturbed either, whatever happened *)
(* earlier - lost or doubled delimiters, an escape at the end, an overflow, a *)
(* skipped or a mixed frame.                                                *)
KissRecovers ==
  \A i \in DOMAIN kissFrames :
    /\ kissFaults = 0 \/ (kissFrames[i].clean /\ (i > 1 => kissFrames[i - 1].clean))
    /\ Len(KissPackets[kissFrames[i].n]) <= KissMtu
    => ReceivedFrame(kissFrames[i].n)

(* No frame is received twice, also when frames are written into each other: *)
(* for packets that are not made from each other by the faults there are.    *)
KissOnce == \A i, j \in DOMAIN kissRx.up : kissRx.up[i] = kissRx.up[j] => i = j
=============================================================================
