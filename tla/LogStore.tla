------------------------------ MODULE LogStore ------------------------------
(***************************************************************************)
(* The log store (log_store.c): a ring of cells in memory that survives a    *)
(* restart.  An entry has its length in front and behind, so that it can be *)
(* read backwards from the stored pointer.  log_store writes the cells and   *)
(* then the pointer; a reader may come, and the power may go, in between.   *)
(* One task writes: there is no lock, see the hazards.                      *)
(***************************************************************************)
EXTENDS Integers, Sequences

CONSTANTS LgCells,     \* bufferlen
          LgLongest,   \* the longest entry
          LgEntries,   \* bound on the calls of log_store
          LgRestarts   \* bound on the restarts

(* The longest entry fits: log_store_init refuses less than 512 bytes, an     *)
(* entry has at most 255.                                                   *)
ASSUME LgAssumption == /\ LgCells \in Nat /\ LgLongest \in Nat \ {0}
                       /\ LgCells >= LgLongest + 2
                       /\ LgEntries \in Nat /\ LgRestarts \in Nat

VARIABLES lgCell,      \* the ring
          lgStored,    \* the pointer in memory, relative to begin
          lgInput,     \* input_ptr in RAM
          lgWrite,     \* log_store: which entry, its size, cells written
          lgLog,       \* the entries whose log_store returned, by the cells before them (history)
          lgRestarts   \* restarts so far

lgVars == <<lgCell, lgStored, lgInput, lgWrite, lgLog, lgRestarts>>

Ring == 0 .. LgCells - 1
VmemNull == -1       \* VMEM_NULL
Blank == [id |-> 0, part |-> 0, value |-> 0]
NoWrite == [id |-> 0, size |-> 0, done |-> 0]

(* log_store_init finds empty memory and sets the pointer to begin.         *)
LgInit == /\ lgCell = [c \in Ring |-> Blank]
          /\ lgStored = 0
          /\ lgInput = VmemNull
          /\ lgWrite = NoWrite
          /\ lgLog = <<>>
          /\ lgRestarts = 0

-----------------------------------------------------------------------------
(* Mutant: only a pointer behind the end goes back to begin.                *)
WrapLate(p) == IF p > LgCells THEN 0 ELSE p

Wrap(p) == IF p >= LgCells THEN 0 ELSE p

(* log_store is called with the next entry; input_ptr is read if it is NULL. *)
LgCall == /\ lgWrite = NoWrite
          /\ Len(lgLog) + lgRestarts < LgEntries
          /\ \E size \in 1 .. LgLongest :
               lgWrite' = [id |-> Len(lgLog) + lgRestarts + 1, size |-> size, done |-> 0]
          /\ lgInput' = IF lgInput = VmemNull THEN lgStored ELSE lgInput
          /\ UNCHANGED <<lgCell, lgStored, lgLog, lgRestarts>>

(* Mutant: the pointer is stored before the second length.                  *)
StoreTooEarly(w) == w.size + 1

StoreAfter(w) == w.size + 2

(* It writes the length, the data, which may wrap, and the length again ...  *)
LgWriteCell ==
  /\ lgWrite.id # 0 /\ lgWrite.done < StoreAfter(lgWrite)
  /\ lgCell' = [lgCell EXCEPT ![lgInput] =
       [id |-> lgWrite.id, part |-> lgWrite.done,
        value |-> IF lgWrite.done \in {0, lgWrite.size + 1} THEN lgWrite.size ELSE 0]]
  /\ lgInput' = Wrap(lgInput + 1)
  /\ lgWrite' = [lgWrite EXCEPT !.done = @ + 1]
  /\ UNCHANGED <<lgStored, lgLog, lgRestarts>>

(* All the cells written so far, the ring counted as often as it was passed. *)
LgEnd == IF lgLog = <<>> THEN 0 ELSE LET e == lgLog[Len(lgLog)] IN e.from + e.size + 2

(* ... and stores the pointer.                                              *)
LgWritePointer ==
  /\ lgWrite.id # 0 /\ lgWrite.done = StoreAfter(lgWrite)
  /\ lgLog' = Append(lgLog, [id |-> lgWrite.id, size |-> lgWrite.size, from |-> LgEnd])
  /\ lgStored' = lgInput
  /\ lgWrite' = NoWrite
  /\ UNCHANGED <<lgCell, lgInput, lgRestarts>>

(* A restart, at any time: only the memory is left, and log_store_init finds *)
(* the pointer valid.                                                       *)
LgRestart == /\ lgRestarts < LgRestarts
             /\ lgRestarts' = lgRestarts + 1
             /\ lgWrite' = NoWrite
             /\ lgInput' = VmemNull
             /\ UNCHANGED <<lgCell, lgStored, lgLog>>

LgNext == LgCall \/ LgWriteCell \/ LgWritePointer \/ LgRestart

LgSpec == LgInit /\ [][LgNext]_lgVars

-----------------------------------------------------------------------------
(* The cell of a position, the ring counted as often as it is passed.       *)
CellOf(p) == p % LgCells

Turnaround(count) == count >= LgCells

(* What log_store_foreach gives to its callback, newest first, if it starts  *)
(* now and no log_store runs meanwhile.  `byte' is what a cell of data says   *)
(* when it is taken for a length.                                           *)
Says(byte, c) == IF lgCell[c] = Blank \/ lgCell[c].value # 0 THEN lgCell[c].value ELSE byte

(* One round of its loop: back over the length, the data and the length.     *)
Round(byte, w) ==
  LET last == CellOf(w.at - 1)
      size == Says(byte, last)
      front == CellOf(last - size - 1)
      sum == w.count + size + 2
  IN IF size = 0 \/ Turnaround(sum) \/ Says(byte, front) # size THEN [w EXCEPT !.on = FALSE]
     ELSE [at |-> front, count |-> sum, on |-> TRUE,
           out |-> Append(w.out, [k \in 1 .. size |-> lgCell[CellOf(front + k)]])]

FirstRound == [at |-> lgStored, count |-> 0, on |-> TRUE, out |-> <<>>]

(* A round takes at least three cells: LgCells rounds are enough.            *)
Foreach(byte) ==
  LET Rounds[n \in 0 .. LgCells] ==
        IF n = 0 THEN FirstRound
        ELSE LET w == Rounds[n - 1] IN IF w.on THEN Round(byte, w) ELSE w
  IN Rounds[LgCells].out

-----------------------------------------------------------------------------
LgTypeOK == /\ lgCell \in [Ring -> [id : 0 .. LgEntries, part : 0 .. LgLongest + 1,
                                    value : 0 .. LgLongest]]
            /\ lgStored \in Ring
            /\ lgInput \in Ring \cup {VmemNull}
            /\ lgWrite.id # 0 => lgInput # VmemNull

Cell(e, k) == lgCell[CellOf(e.from + k)]
Intact(e) == \A k \in 0 .. e.size + 1 : Cell(e, k).id <= e.id

(* The entries that nothing has overwritten, newest first.                  *)
Kept == LET n == Len(lgLog)
            old == {i \in 1 .. n : ~Intact(lgLog[i])}
        IN [i \in 1 .. n - (IF old = {} THEN 0 ELSE CHOOSE m \in old : \A i \in old : i <= m)
              |-> lgLog[n + 1 - i]]

Data(e) == [k \in 1 .. e.size |-> [id |-> e.id, part |-> k, value |-> 0]]

(* They fill the ring to the last cell.                                     *)
Full(entries) == entries # <<>> /\ LgEnd - entries[Len(entries)].from = LgCells

KeepsEntries ==
  \A byte \in 0 .. LgLongest :
    LET read == Foreach(byte) IN
    /\ Len(read) >= Len(Kept) - (IF Full(Kept) THEN 1 ELSE 0)
    /\ \A i \in DOMAIN Kept \cap DOMAIN read : read[i] = Data(Kept[i])

NothingElse ==
  lgWrite = NoWrite /\ lgRestarts = 0 =>
    \A byte \in 0 .. LgLongest : Len(Foreach(byte)) <= Len(Kept)

(* At any time, also while log_store runs and after a restart in the middle  *)
(* of it, log_store_foreach gets the newest entries, in their order and      *)
(* whole, at least up to the first one that something was written over; only *)
(* one that would fill the ring to its last cell is left out.  As long as no *)
(* restart broke off a log_store, and none runs, it gets nothing else: no    *)
(* half entry and none of an earlier round.                                 *)
LgReadsBack == KeepsEntries /\ NothingElse
=============================================================================
