--------------------------------- MODULE Ftp ---------------------------------
(***************************************************************************)
(* The file transfer client (ftp_client.c) as cmd_ftp.c calls it.  A        *)
(* download keeps a map of the chunks it has next to the file and goes on    *)
(* from it after it was broken off; the server keeps one of an upload.      *)
(* Between two commands files change and the user gives another chunk size; *)
(* the program may be killed at any step.  The server is external: it sends  *)
(* what it is asked for, in order, and its checksum is ideal.               *)
(***************************************************************************)
EXTENDS Integers, Sequences, SequencesExt, FiniteSetsExt

CONSTANTS FtpUnits,     \* length of the file, in units
          FtpSizes,     \* chunk sizes the user gives, in units
          FtpRanges,    \* FTP_STATUS_CHUNKS
          FtpCommands   \* bound on the commands

ASSUME FtpAssumption == /\ FtpUnits \in Nat \ {0}
                        /\ FtpSizes \subseteq Nat \ {0}
                        /\ FtpRanges \in Nat \ {0}

VARIABLES ftpSource,   \* version of the file on the sending side
          ftpThere,    \* the files there are: "data", "map"
          ftpFile,     \* what each unit of the data file holds
          ftpMap,      \* the marks in the map file, one per chunk
          ftpServer,   \* an upload on the server: chunk size, units, chunks received
          ftpCmd,      \* the command that runs
          ftpWire,     \* chunks the server sends
          ftpMade,     \* chunk size the map was made with, if the file is the same (history)
          ftpCount     \* commands so far

ftpVars == <<ftpSource, ftpThere, ftpFile, ftpMap, ftpServer, ftpCmd, ftpWire, ftpMade, ftpCount>>

FtpUnit == 1 .. FtpUnits
Hole == 0
Empty == [u \in FtpUnit |-> Hole]
NoCommand == [at |-> "idle", size |-> 1, chunk |-> 0, open |-> FALSE]

FtpInit == /\ ftpSource = 1
           /\ ftpThere = {}
           /\ ftpFile = Empty
           /\ ftpMap = <<>>
           /\ ftpServer = [size |-> 0, units |-> Empty, got |-> {}]
           /\ ftpCmd = NoCommand
           /\ ftpWire = <<>>
           /\ ftpMade = 0
           /\ ftpCount = 0

FtpChunks(size) == (FtpUnits + size - 1) \div size    \* ftp_chunks

(* How much of the last chunk is written, and of each chunk.                *)
LastLength(size) == IF FtpUnits % size = 0 THEN size ELSE FtpUnits % size

Written(chunk, size) ==
  LET length == IF chunk = FtpChunks(size) - 1 THEN LastLength(size) ELSE size
  IN chunk * size + 1 .. chunk * size + length

Goto(at) == ftpCmd' = [ftpCmd EXCEPT !.at = at]
At(at) == ftpCmd.at = at

(* ftp_done: the files are closed, the connection too.                      *)
Stop == ftpCmd' = NoCommand /\ ftpWire' = <<>>

-----------------------------------------------------------------------------
(* What happens between two commands.                                       *)
FtpUser ==
  /\ At("idle")
  /\ \/ ftpSource = 1 /\ ftpSource' = 2 /\ UNCHANGED <<ftpThere, ftpFile, ftpMap>>
     \/ /\ ftpThere' \in {{}, ftpThere \ {"data"}} \ {ftpThere}
        /\ ftpFile' = Empty
        /\ ftpMap' = IF "map" \in ftpThere' THEN ftpMap ELSE <<>>
        /\ UNCHANGED ftpSource
  /\ ftpMade' = 0
  /\ UNCHANGED <<ftpServer, ftpCmd, ftpWire, ftpCount>>

(* The program is killed.  What was flushed is in the files.                *)
FtpKill == /\ ~At("idle")
           /\ Stop
           /\ UNCHANGED <<ftpSource, ftpThere, ftpFile, ftpMap, ftpServer, ftpMade, ftpCount>>

(* No connection, no or a wrong reply, a connection that breaks, a timeout:  *)
(* the command ends with ftp_done(0), which keeps the map.                  *)
FtpFail == /\ ftpCmd.at \in {"file", "newmap", "status", "read", "mark", "crc", "ask", "check"}
           /\ Stop
           /\ UNCHANGED <<ftpSource, ftpThere, ftpFile, ftpMap, ftpServer, ftpMade, ftpCount>>

Start(at) == /\ At("idle")
             /\ ftpCount < FtpCommands
             /\ ftpCount' = ftpCount + 1
             /\ \E size \in FtpSizes :
                  ftpCmd' = [NoCommand EXCEPT !.at = at, !.size = size, !.open = TRUE]
             /\ UNCHANGED <<ftpSource, ftpThere, ftpFile, ftpMap, ftpWire>>

-----------------------------------------------------------------------------
(* ftp_download: the server replied with the size of the file.              *)
FtpDownload == Start("file") /\ UNCHANGED <<ftpServer, ftpMade>>

(* The data file is opened or created; FTP_RET_EXISTS if there was one and    *)
(* no map.                                                                  *)
FtpOpenFile ==
  /\ At("file")
  /\ "data" \notin ftpThere \/ "map" \in ftpThere
  /\ ftpThere' = ftpThere \cup {"data"}
  /\ ftpMade' = IF ftpMade = ftpCmd.size THEN ftpMade ELSE 0
  /\ Goto(IF "map" \in ftpThere THEN "status" ELSE "newmap")
  /\ UNCHANGED <<ftpSource, ftpFile, ftpMap, ftpServer, ftpWire, ftpCount>>

(* A new map is empty until all its marks are flushed.                      *)
FtpCreateMap ==
  /\ At("newmap")
  /\ IF "map" \notin ftpThere
     THEN /\ ftpThere' = ftpThere \cup {"map"}
          /\ UNCHANGED <<ftpMap, ftpCmd>>
     ELSE /\ ftpMap' = [c \in 1 .. FtpChunks(ftpCmd.size) |-> FALSE]
          /\ Goto("status")
          /\ UNCHANGED ftpThere
  /\ ftpMade' = ftpCmd.size
  /\ UNCHANGED <<ftpSource, ftpFile, ftpServer, ftpWire, ftpCount>>

Lacking(received, chunks) == {c \in 0 .. chunks - 1 : ~received[c + 1]}

(* Mutant: each missing chunk is taken for the start of its range.          *)
RangeToLast(lacks, c) ==
  LET met == {m \in lacks : m <= c} IN [next |-> Max(met), count |-> Cardinality(met)]

(* ftp_status_reply, at chunk c: next is the first missing chunk and count   *)
(* the number of all met so far, because count is not reset ...             *)
RangeTo(lacks, c) ==
  LET met == {m \in lacks : m <= c} IN [next |-> Min(met), count |-> Cardinality(met)]

(* ... and that is added as a range at each chunk that was received from the *)
(* first missing one on, and at the last chunk, until the reply is full.    *)
Ranges(received, chunks) ==
  LET lacks == Lacking(received, chunks)
      ends == {c \in 0 .. chunks - 1 : /\ \E m \in lacks : m <= c
                                       /\ c \in lacks => c = chunks - 1}
      End(i) == CHOOSE c \in ends : Cardinality({d \in ends : d <= c}) = i
  IN [i \in 1 .. Min({FtpRanges, Cardinality(ends)}) |-> RangeTo(lacks, End(i))]

ChunksIn(ranges) ==
  FlattenSeq([i \in DOMAIN ranges |-> [j \in 1 .. ranges[i].count |-> ranges[i].next + j - 1]])

(* It fails if the map is shorter than the chunks; else the server sends.    *)
FtpStatusReply ==
  LET chunks == FtpChunks(ftpCmd.size) IN
  /\ At("status")
  /\ Len(ftpMap) >= chunks
  /\ ftpWire' = ChunksIn(Ranges(ftpMap, chunks))
  /\ Goto("read")
  /\ UNCHANGED <<ftpSource, ftpThere, ftpFile, ftpMap, ftpServer, ftpMade, ftpCount>>

(* A chunk is read and written to the file ...                              *)
FtpReadData ==
  /\ At("read") /\ ftpWire # <<>>
  /\ ftpFile' = [u \in FtpUnit |-> IF u \in Written(Head(ftpWire), ftpCmd.size)
                                   THEN ftpSource ELSE ftpFile[u]]
  /\ ftpCmd' = [ftpCmd EXCEPT !.at = "mark", !.chunk = Head(ftpWire)]
  /\ ftpWire' = Tail(ftpWire)
  /\ UNCHANGED <<ftpSource, ftpThere, ftpMap, ftpServer, ftpMade, ftpCount>>

(* ... it is marked in the map, and the packet is freed.  Whether it was the *)
(* last is read from the packet after that, when another one may be there:   *)
(* any answer is possible.                                                  *)
FtpMark ==
  /\ At("mark")
  /\ ftpMap' = [ftpMap EXCEPT ![ftpCmd.chunk + 1] = TRUE]
  /\ \E at \in {"read", "crc"} : Goto(at)
  /\ UNCHANGED <<ftpSource, ftpThere, ftpFile, ftpServer, ftpWire, ftpMade, ftpCount>>

SameCrc(content) == \A u \in FtpUnit : content[u] = ftpSource

(* ftp_crc: the file is compared with the server's.  A chunk that was still  *)
(* on its way is taken for the reply.                                       *)
FtpCrc == /\ At("crc") /\ ftpWire = <<>>
          /\ SameCrc(ftpFile)
          /\ Goto("done")
          /\ UNCHANGED <<ftpSource, ftpThere, ftpFile, ftpMap, ftpServer, ftpWire, ftpMade, ftpCount>>

(* ftp_done(1) removes the map.                                             *)
FtpDone == /\ At("done")
           /\ Stop
           /\ ftpThere' = ftpThere \ {"map"}
           /\ ftpMap' = <<>>
           /\ ftpMade' = 0
           /\ UNCHANGED <<ftpSource, ftpFile, ftpServer, ftpCount>>

-----------------------------------------------------------------------------
(* ftp_upload: the server goes on with an upload of the same chunk size.     *)
FtpUpload ==
  /\ Start("ask")
  /\ ftpServer' = IF ftpServer.size = ftpCmd'.size THEN ftpServer
                  ELSE [size |-> ftpCmd'.size, units |-> Empty, got |-> {}]
  /\ UNCHANGED ftpMade

(* ftp_status_request: the server's ranges, as many as fit.                 *)
ServerLacks == LET chunks == FtpChunks(ftpServer.size) IN
  {c \in 0 .. chunks - 1 : c \notin ftpServer.got}

FtpStatusRequest ==
  /\ At("ask")
  /\ \E n \in 0 .. Cardinality(ServerLacks) :
       /\ n = 0 => ServerLacks = {}
       /\ ftpWire' = SubSeq(SetToSortSeq(ServerLacks, <), 1, n)
  /\ Goto("send")
  /\ UNCHANGED <<ftpSource, ftpThere, ftpFile, ftpMap, ftpServer, ftpMade, ftpCount>>

(* ftp_data sends them.  If csp_send fails the connection is closed, but the *)
(* function goes on and returns 0.                                          *)
FtpData ==
  /\ At("send") /\ ftpWire # <<>>
  /\ \/ /\ ftpCmd.open
        /\ ftpServer' = [ftpServer EXCEPT
             !.units = [u \in FtpUnit |-> IF u \in Written(Head(ftpWire), ftpCmd.size)
                                          THEN ftpSource ELSE @[u]],
             !.got = @ \cup {Head(ftpWire)}]
        /\ UNCHANGED ftpCmd
     \/ UNCHANGED ftpServer /\ ftpCmd' = [ftpCmd EXCEPT !.open = FALSE]
  /\ ftpWire' = Tail(ftpWire)
  /\ UNCHANGED <<ftpSource, ftpThere, ftpFile, ftpMap, ftpMade, ftpCount>>

FtpDataSent == /\ At("send") /\ ftpWire = <<>>
               /\ Goto("check")
               /\ UNCHANGED <<ftpSource, ftpThere, ftpFile, ftpMap, ftpServer, ftpWire, ftpMade, ftpCount>>

(* ftp_crc after an upload; ftp_done(0) follows.                            *)
FtpCheck == /\ At("check") /\ ftpCmd.open
            /\ SameCrc(ftpServer.units)
            /\ Goto("uploaded")
            /\ UNCHANGED <<ftpSource, ftpThere, ftpFile, ftpMap, ftpServer, ftpWire, ftpMade, ftpCount>>

FtpUploaded == /\ At("uploaded")
               /\ Stop
               /\ UNCHANGED <<ftpSource, ftpThere, ftpFile, ftpMap, ftpServer, ftpMade, ftpCount>>

FtpNext == \/ FtpUser \/ FtpKill \/ FtpFail
           \/ FtpDownload \/ FtpOpenFile \/ FtpCreateMap \/ FtpStatusReply
           \/ FtpReadData \/ FtpMark \/ FtpCrc \/ FtpDone
           \/ FtpUpload \/ FtpStatusRequest \/ FtpData \/ FtpDataSent \/ FtpCheck \/ FtpUploaded

FtpSpec == FtpInit /\ [][FtpNext]_ftpVars

-----------------------------------------------------------------------------
FtpTypeOK ==
  /\ ftpThere \subseteq {"data", "map"}
  /\ ftpFile \in [FtpUnit -> 0 .. 2]
  /\ ftpMap \in Seq(BOOLEAN)
  /\ ftpServer.units \in [FtpUnit -> 0 .. 2]
  /\ ftpCmd.at \in {"read", "mark", "crc", "done"} => ftpThere = {"data", "map"}

Missing == {c \in DOMAIN ftpMap : ~ftpMap[c]}

(* A broken-off download goes on from what it has: a mark in the map stands   *)
(* for a chunk of this version that is in the file, also after the program   *)
(* was killed, and while it waits for data the server was asked for exactly  *)
(* the chunks that are missing - as long as nobody changed the files, the    *)
(* version on the server or the chunk size.                                 *)
FtpResumes ==
  ftpMade # 0 =>
    /\ \A u \in FtpUnit :
         LET c == (u - 1) \div ftpMade + 1 IN
         c \in DOMAIN ftpMap /\ ftpMap[c] => ftpFile[u] = ftpSource
    /\ At("read") => Missing = {ftpWire[i] + 1 : i \in DOMAIN ftpWire}
=============================================================================
