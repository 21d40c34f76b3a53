----------------------------- MODULE StoreProofs -----------------------------
(***************************************************************************)
(* The routing table: for any number of readers, a lookup finds a longest    *)
(* match although the list changes under it, and a table that was saved and   *)
(* loaded is the same.                                                      *)
(*                                                                         *)
(* The log store: for a ring of any size, restarts at any point and entries   *)
(* of any number, what nothing was written over is read back.                *)
(*                                                                         *)
(* The file transfer: for any size of file and any chunk sizes, a download   *)
(* that was broken off goes on from what it has.                            *)
(***************************************************************************)
EXTENDS MCStores, FiniteSetTheorems, SequenceTheorems, WellFoundedInduction, TLAPS

(* A set of numbers that has 0 and with each number the next has them all.   *)
LEMMA AllNumbers ==
  ASSUME NEW m \in Nat, NEW S, 0 \in S, \A n \in 0 .. m - 1 : n \in S => n + 1 \in S
  PROVE  \A n \in 0 .. m : n \in S
<1>. DEFINE T == {n \in 0 .. m : n \notin S}
<1>. SUFFICES ASSUME T # {} PROVE FALSE
  OBVIOUS
<1>1. IsWellFoundedOn(OpToRel(<, Nat), Nat)
  BY NatLessThanWellFounded
<1>2. PICK n \in T : \A q \in T : <<q, n>> \notin OpToRel(<, Nat)
  <2>1. T \subseteq Nat
    OBVIOUS
  <2>. HIDE DEF T
  <2>. QED
    BY <1>1, <2>1, WFMin
<1>3. n # 0 /\ n - 1 \in 0 .. m - 1
  OBVIOUS
<1>4. n - 1 \in T
  BY <1>3
<1>5. n - 1 < n
  BY <1>3
<1>6. <<n - 1, n>> \notin OpToRel(<, Nat)
  BY <1>2, <1>4
<1>. QED
  BY <1>3, <1>5, <1>6 DEF OpToRel

-----------------------------------------------------------------------------
(* The routing table.  The list is what the table was told, but for the one  *)
(* entry that is being stored; of that entry it is known how far it is and,  *)
(* if it is not new, which route it replaces.  A walk has the best of the     *)
(* entries it passed, and the set of right answers holds those of the table   *)
(* before and after the call that runs.                                     *)
RtRoute == [address : RtAddresses, netmask : 0 .. RtBits, iface : RtIfaces, mac : 0 .. 255]
RtEntry == [address : RtAddresses, netmask : 0 .. RtBits,
            iface : RtIfaces \cup {RtUnset}, mac : 0 .. 255 \cup {RtUnset}]
RtLookup == [phase : {"idle", "walk", "found", "answered"}, address : RtAddresses, at : Nat \ {0},
             best : Nat, mask : 0 .. RtBits, got : RtEntry \cup {NoRoute}, fair : BOOLEAN,
             could : SUBSET (RtRoute \cup {NoRoute})]

(* Types. *)
RtTypes ==
  /\ rtList \in Seq(RtEntry) /\ Len(rtList) <= RtMax
  /\ rtSet \in [at : {"idle", "address", "netmask", "iface", "mac", "return"}, entry : Nat,
                route : RtRoute, rest : Seq(RtTokens)]
  /\ rtTold \in SUBSET RtRoute
  /\ rtWalk \in [RtReaders -> RtLookup]
  /\ \A t \in RtReaders : rtWalk[t].best <= Len(rtList)

(* An entry whose fields are set; the entry that csp_rtable_set works on, and *)
(* the others.                                                              *)
Whole(e) == e.iface # RtUnset /\ e.mac # RtUnset
Set == rtSet.at # "idle"
Others == {i \in DOMAIN rtList : ~(Set /\ i = rtSet.entry)}
Contents == {rtList[i] : i \in Others}

(* A reader that looks nothing up has found nothing.                         *)
Resting == \A t \in RtReaders : rtWalk[t].phase = "idle" => rtWalk[t].best = 0

(* A net has one entry.                                                    *)
OneEach ==
  /\ \A i, j \in Others : SameNet(rtList[i], rtList[j]) => i = j
  /\ \A i \in Others : Whole(rtList[i]) /\ (Set => ~SameNet(rtList[i], rtSet.route))

(* The list and what was told agree on every other net.                     *)
TellsWhatIsTold ==
  Contents = IF Set THEN {r \in rtTold : ~SameNet(r, rtSet.route)} ELSE rtTold

(* The fields stored so far.                                                *)
Stores ==
  LET e == rtList[rtSet.entry]  p == rtSet.route IN
  Set => /\ rtSet.entry \in DOMAIN rtList
         /\ rtSet.at # "address" => e.address = p.address
         /\ rtSet.at \notin {"address", "netmask"} => e.netmask = p.netmask
         /\ rtSet.at \in {"mac", "return"} => e.iface = p.iface
         /\ rtSet.at = "return" => e.mac = p.mac

(* An entry that is stored again has the old fields and the new ones.        *)
Replaces(e, p) ==
  \E o \in rtTold : /\ SameNet(o, p) /\ \A q \in rtTold : SameNet(q, p) => q = o
                    /\ e = IF rtSet.at = "iface" THEN o ELSE [o EXCEPT !.iface = p.iface]

OldOrUnset ==
  LET e == rtList[rtSet.entry]  p == rtSet.route IN
  rtSet.at \notin {"idle", "return"} =>
    e.mac = RtUnset \/ (rtSet.at \in {"iface", "mac"} /\ Replaces(e, p))

(* The right answers of a lookup that runs.                                 *)
CouldHas(w) ==
  w.phase \in {"walk", "found"} =>
    /\ Answers(rtTold, w.address) \subseteq w.could
    /\ Set => /\ Answers(Retold(rtSet.route), w.address) \subseteq w.could
              /\ \A c \in w.could : c # NoRoute /\ SameNet(c, rtSet.route) => rtSet.route \in w.could

(* The best of the entries a walk passed.                                   *)
SoFar(w) ==
  w.phase = "walk" /\ w.fair =>
    /\ \A i \in DOMAIN rtList : i < w.at =>
         /\ Whole(rtList[i])
         /\ Matches(rtList[i], w.address) => w.best # 0 /\ rtList[i].netmask <= w.mask
    /\ w.at <= Len(rtList) + 1 /\ (w.best = 0 => w.mask = 0)
    /\ w.best # 0 => /\ w.best \in DOMAIN rtList /\ w.best < w.at
                     /\ Matches(rtList[w.best], w.address)
                     /\ w.mask = rtList[w.best].netmask

(* The interface and the MAC address of an entry are each of a right answer. *)
Reads(e, could) == \E r, s \in could \ {NoRoute} : SameNet(r, s) /\ e = [r EXCEPT !.mac = s.mac]

(* The entry that a walk ended with.                                        *)
Finds(w) ==
  w.phase = "found" /\ w.fair =>
    IF w.best = 0 THEN NoRoute \in w.could
    ELSE Whole(rtList[w.best]) /\ Reads(rtList[w.best], w.could)

(* Types are kept.                                                          *)
LEMMA NamedIface ==
  /\ \A i \in RtIfaces : ByName(RtName[i]) = i
  /\ \A name : ByName(name) \in RtIfaces \cup {RtNull}
<1>1. ASSUME NEW i \in RtIfaces PROVE ByName(RtName[i]) = i
  <2>1. RtName[i] \in RtNames
    BY DEF RtNames
  <2>2. (CHOOSE j \in RtIfaces : RtName[j] = RtName[i]) = i
    BY RtNamesDiffer
  <2>. QED
    BY <2>1, <2>2 DEF ByName
<1>2. ASSUME NEW name PROVE ByName(name) \in RtIfaces \cup {RtNull}
  <2>1. CASE name \in RtNames
    <3>1. PICK i \in RtIfaces : name = RtName[i]
      BY <2>1 DEF RtNames
    <3>. QED
      BY <1>1, <3>1
  <2>2. CASE name \notin RtNames
    BY <2>2 DEF ByName
  <2>. QED
    BY <2>1, <2>2
<1>. QED
  BY <1>1, <1>2

LEMMA ParsedIsRoute ==
  ASSUME NEW text \in RtTexts \cup Seq(RtTokens), text # <<>>, Parsed(Head(text)).iface # RtNull
  PROVE  Plain(Parsed(Head(text))) \in RtRoute
<1>. DEFINE token == Head(text)
            r == Parsed(token)
<1>1. text \in Seq(RtTokens)
  BY RtAssumption
<1>2. token \in RtTokens
  BY <1>1
<1>3. 0 \in RtAddresses /\ 0 \in 0 .. RtBits
  BY RtAssumption DEF RtAddresses, RtDefault
<1>. HIDE DEF token
<1>4. r \in [address : RtAddresses \cup {RtDefault}, netmask : 0 .. RtBits,
             iface : RtIfaces, mac : 0 .. 255]
  <2>1. r.iface = IF token.words < 3 THEN RtNull ELSE ByName(token.name)
    BY DEF Parsed, Route
  <2>2. r.iface # RtNull
    BY DEF token
  <2>3. r.iface \in RtIfaces
    BY <2>1, <2>2, NamedIface
  <2>4. /\ token.address \in RtAddresses \cup {RtDefault} /\ token.netmask \in 0 .. RtBits
        /\ (IF token.words = 4 THEN token.mac ELSE NodeMac) \in 0 .. 255
    BY <1>2 DEF RtTokens, NodeMac
  <2>5. r = [address |-> token.address, netmask |-> token.netmask, iface |-> r.iface,
             mac |-> IF token.words = 4 THEN token.mac ELSE NodeMac]
    BY DEF Parsed, Route
  <2>. HIDE DEF r
  <2>6. PICK m \in 0 .. 255 : m = IF token.words = 4 THEN token.mac ELSE NodeMac
    BY <2>4
  <2>7. r = [address |-> token.address, netmask |-> token.netmask, iface |-> r.iface, mac |-> m]
    BY <2>5, <2>6, Zenon
  <2>. QED
    BY <2>3, <2>4, <2>7
<1>. HIDE DEF r
<1>5. CASE r.address = RtDefault
  <2>1. [[r EXCEPT !.address = 0] EXCEPT !.netmask = 0] \in RtRoute
    BY <1>3, <1>4 DEF RtRoute
  <2>2. Plain(r) \in RtRoute
    BY <1>5, <2>1 DEF Plain
  <2>. QED
    BY <2>2 DEF r, token
<1>6. CASE r.address # RtDefault
  <2>1. r \in RtRoute
    BY <1>4, <1>6 DEF RtRoute
  <2>2. Plain(r) \in RtRoute
    BY <1>6, <2>1 DEF Plain
  <2>. QED
    BY <2>2 DEF r, token
<1>. QED
  BY <1>5, <1>6

LEMMA AnswersAreRoutes ==
  ASSUME NEW routes \in SUBSET RtRoute, NEW a
  PROVE  Answers(routes, a) \in SUBSET (RtRoute \cup {NoRoute})
BY DEF Answers, Longest

LEMMA RetoldAreRoutes ==
  ASSUME rtTold \in SUBSET RtRoute, NEW p \in RtRoute
  PROVE  Retold(p) \in SUBSET RtRoute
BY DEF Retold

LEMMA RtTypesInit == RtInit => RtTypes
<1>1. 0 \in RtAddresses
  BY RtAssumption DEF RtAddresses, RtDefault
<1>2. Route(0, 0, RtLo, NodeMac) \in RtRoute /\ Route(RtOwn, RtBits, RtLo, NodeMac) \in RtRoute
  BY <1>1, RtAssumption DEF RtRoute, Route, NodeMac
<1>3. RtRoute \subseteq RtEntry
  BY DEF RtRoute, RtEntry
<1>4. RtIdleSet \in [at : {"idle", "address", "netmask", "iface", "mac", "return"}, entry : Nat,
                     route : RtRoute, rest : Seq(RtTokens)]
  BY <1>2 DEF RtIdleSet
<1>5. RtIdleWalk \in RtLookup /\ RtIdleWalk.best = 0
  BY <1>1, RtAssumption DEF RtIdleWalk, RtLookup
<1>. SUFFICES ASSUME RtInit PROVE RtTypes
  OBVIOUS
<1>6. rtList \in Seq(RtEntry) /\ Len(rtList) = 2
  BY <1>2, <1>3 DEF RtInit, RtCleared
<1>7. \A i \in DOMAIN rtList : rtList[i] \in RtRoute
  BY <1>2, <1>6 DEF RtInit, RtCleared
<1>8. rtTold \in SUBSET RtRoute
  BY <1>7 DEF RtInit
<1>9. rtWalk \in [RtReaders -> RtLookup] /\ \A t \in RtReaders : rtWalk[t].best = 0
  BY <1>5 DEF RtInit
<1>10. Len(rtList) <= RtMax /\ \A t \in RtReaders : rtWalk[t].best <= Len(rtList)
  <2>1. RtMax >= 2
    BY RtAssumption
  <2>. QED
    BY <1>6, <1>9, <2>1
<1>11. rtSet = RtIdleSet
  BY DEF RtInit
<1>. QED
  BY <1>4, <1>6, <1>8, <1>9, <1>10, <1>11 DEF RtTypes

(* What is stored in each step.                                             *)
LEMMA FieldStored ==
  ASSUME RtTypes, RtSetField
  PROVE  LET n == rtSet.entry  p == rtSet.route IN
         /\ rtSet.at \in {"address", "netmask", "iface", "mac"}
         /\ rtSet.at = "address" => /\ rtSet' = [rtSet EXCEPT !.at = "netmask"]
                                   /\ rtList' = [rtList EXCEPT ![n] = [@ EXCEPT !.address = p.address]]
         /\ rtSet.at = "netmask" => /\ rtSet' = [rtSet EXCEPT !.at = "iface"]
                                   /\ rtList' = [rtList EXCEPT ![n] = [@ EXCEPT !.netmask = p.netmask]]
         /\ rtSet.at = "iface" => /\ rtSet' = [rtSet EXCEPT !.at = "mac"]
                                 /\ rtList' = [rtList EXCEPT ![n] = [@ EXCEPT !.iface = p.iface]]
         /\ rtSet.at = "mac" => /\ rtSet' = [rtSet EXCEPT !.at = "return"]
                               /\ rtList' = [rtList EXCEPT ![n] = [@ EXCEPT !.mac = p.mac]]
<1>1. rtSet.at \in {"address", "netmask", "iface", "mac"}
  BY DEF RtSetField, After
<1>2. rtList \in Seq(RtEntry)
  BY DEF RtTypes
<1>3. rtList' = [rtList EXCEPT ![rtSet.entry][rtSet.at] = rtSet.route[rtSet.at]]
  BY DEF RtSetField
<1>4. rtSet' = [rtSet EXCEPT !.at = After[rtSet.at]]
  BY DEF RtSetField
<1>5. rtSet.route \in RtRoute
  BY DEF RtTypes
<1>6. CASE rtSet.at = "address"
  <2>1. After["address"] = "netmask"
    BY DEF After
  <2>2. rtList' = [rtList EXCEPT ![rtSet.entry] = [@ EXCEPT !.address = rtSet.route.address]]
    BY <1>2, <1>3, <1>5, <1>6 DEF RtEntry, RtRoute
  <2>. QED
    BY <1>4, <1>6, <2>1, <2>2
<1>7. CASE rtSet.at = "netmask"
  <2>1. After["netmask"] = "iface"
    BY DEF After
  <2>2. rtList' = [rtList EXCEPT ![rtSet.entry] = [@ EXCEPT !.netmask = rtSet.route.netmask]]
    BY <1>2, <1>3, <1>5, <1>7 DEF RtEntry, RtRoute
  <2>. QED
    BY <1>4, <1>7, <2>1, <2>2
<1>8. CASE rtSet.at = "iface"
  <2>1. After["iface"] = "mac"
    BY DEF After
  <2>2. rtList' = [rtList EXCEPT ![rtSet.entry] = [@ EXCEPT !.iface = rtSet.route.iface]]
    BY <1>2, <1>3, <1>5, <1>8 DEF RtEntry, RtRoute
  <2>. QED
    BY <1>4, <1>8, <2>1, <2>2
<1>9. CASE rtSet.at = "mac"
  <2>1. After["mac"] = "return"
    BY DEF After
  <2>2. rtList' = [rtList EXCEPT ![rtSet.entry] = [@ EXCEPT !.mac = rtSet.route.mac]]
    BY <1>2, <1>3, <1>5, <1>9 DEF RtEntry, RtRoute
  <2>. QED
    BY <1>4, <1>9, <2>1, <2>2
<1>. QED
  BY <1>1, <1>6, <1>7, <1>8, <1>9

LEMMA RtTypesSet == RtTypes /\ (RtUnknown \/ RtSetCall \/ RtSetField \/ RtSetReturn) => RtTypes'
<1>. SUFFICES ASSUME RtTypes, RtUnknown \/ RtSetCall \/ RtSetField \/ RtSetReturn PROVE RtTypes'
  OBVIOUS
<1>. DEFINE Calls == [at : {"idle", "address", "netmask", "iface", "mac", "return"}, entry : Nat,
                      route : RtRoute, rest : Seq(RtTokens)]
<1>ty. /\ rtList \in Seq(RtEntry) /\ Len(rtList) <= RtMax
       /\ rtSet \in Calls /\ rtTold \in SUBSET RtRoute
       /\ rtWalk \in [RtReaders -> RtLookup] /\ \A t \in RtReaders : rtWalk[t].best <= Len(rtList)
  BY DEF RtTypes
<1>. SUFFICES /\ rtList' \in Seq(RtEntry) /\ Len(rtList') <= RtMax
              /\ rtSet' \in Calls /\ rtTold' \in SUBSET RtRoute
              /\ rtWalk' \in [RtReaders -> RtLookup] /\ \A t \in RtReaders : rtWalk'[t].best <= Len(rtList')
  BY DEF RtTypes
<1>0. 0 \in RtAddresses /\ Route(0, 0, RtLo, NodeMac) \in RtRoute
  BY RtAssumption DEF RtAddresses, RtDefault, RtRoute, Route, NodeMac
<1>1. CASE RtUnknown
  BY <1>ty, <1>0, <1>1 DEF RtUnknown, RtIdleSet
<1>2. CASE RtSetCall
  <2>1. PICK text \in RtText :
          LET r == Plain(Parsed(Head(text)))
              old == {i \in DOMAIN rtList : SameNet(rtList[i], r)}
              Store(at, i) == rtSet' = [at |-> at, entry |-> i, route |-> r, rest |-> Tail(text)]
          IN /\ r.iface # RtNull
             /\ \/ \E i \in old : Store("iface", i) /\ NowAlso(r) /\ UNCHANGED rtList
                \/ /\ old = {} /\ Len(rtList) < RtMax
                   /\ Store("address", Len(rtList) + 1) /\ NowAlso(r)
                   /\ \E a \in RtAddresses, n \in 0 .. RtBits :
                        rtList' = Append(rtList, Route(a, n, RtUnset, RtUnset))
                \/ /\ old = {}
                   /\ rtSet' = [RtIdleSet EXCEPT !.rest = Tail(text)]
                   /\ UNCHANGED <<rtList, rtWalk>>
    BY <1>2 DEF RtSetCall
  <2>. DEFINE r == Plain(Parsed(Head(text)))
  <2>2. text \in Seq(RtTokens) /\ text # <<>>
    BY <1>ty, RtAssumption DEF RtText
  <2>3. Parsed(Head(text)).iface # RtNull
    BY <2>1 DEF Plain
  <2>4. r \in RtRoute /\ Tail(text) \in Seq(RtTokens)
    BY <2>2, <2>3, ParsedIsRoute
  <2>5. rtTold' = rtTold
    BY <1>2 DEF RtSetCall
  <2>6. ASSUME NowAlso(r), Len(rtList') \in Nat, Len(rtList) <= Len(rtList')
        PROVE  /\ rtWalk' \in [RtReaders -> RtLookup]
               /\ \A t \in RtReaders : rtWalk'[t].best <= Len(rtList')
    <3>1. \A a : Answers(Retold(r), a) \in SUBSET (RtRoute \cup {NoRoute})
      BY <1>ty, <2>4, RetoldAreRoutes, AnswersAreRoutes
    <3>2. \A could : Renewed(could, r) \in SUBSET RtRoute
      BY <2>4 DEF Renewed
    <3>3. ASSUME NEW t \in RtReaders
          PROVE  rtWalk'[t] \in RtLookup /\ rtWalk'[t].best = rtWalk[t].best
      <4>1. rtWalk[t] \in RtLookup
        BY <1>ty
      <4>2. CASE rtWalk[t].phase \notin {"walk", "found"}
        BY <2>6, <4>1, <4>2 DEF NowAlso
      <4>3. CASE rtWalk[t].phase \in {"walk", "found"}
        <5>1. rtWalk'[t] = [rtWalk[t] EXCEPT !.could = @ \cup Renewed(@, r) \cup Answers(Retold(r), rtWalk[t].address)]
          BY <2>6, <4>3 DEF NowAlso
        <5>. QED
          BY <3>1, <3>2, <4>1, <5>1 DEF RtLookup
      <4>. QED
        BY <4>2, <4>3
    <3>4. rtWalk' = [t \in RtReaders |-> rtWalk'[t]]
      BY <2>6 DEF NowAlso
    <3>5. rtWalk' \in [RtReaders -> RtLookup]
      BY <3>3, <3>4
    <3>6. ASSUME NEW t \in RtReaders PROVE rtWalk'[t].best <= Len(rtList')
      <4>1. rtWalk[t].best \in Nat /\ rtWalk[t].best <= Len(rtList) /\ Len(rtList) \in Nat
        BY <1>ty DEF RtLookup
      <4>. QED
        BY <2>6, <3>3, <4>1
    <3>. QED
      BY <3>5, <3>6
  <2>7. ASSUME NEW i \in DOMAIN rtList, rtSet' = [at |-> "iface", entry |-> i, route |-> r, rest |-> Tail(text)],
               NowAlso(r), UNCHANGED rtList
        PROVE  /\ rtList' \in Seq(RtEntry) /\ Len(rtList') <= RtMax
               /\ rtSet' \in Calls /\ rtTold' \in SUBSET RtRoute
               /\ rtWalk' \in [RtReaders -> RtLookup]
               /\ \A t \in RtReaders : rtWalk'[t].best <= Len(rtList')
    <3>1. i \in Nat
      BY <1>ty
    <3>2. rtSet' \in Calls
      BY <2>4, <2>7, <3>1
    <3>. QED
      BY <1>ty, <2>5, <2>6, <2>7, <3>2
  <2>8. ASSUME NEW a \in RtAddresses, NEW n \in 0 .. RtBits, Len(rtList) < RtMax, NowAlso(r),
               rtSet' = [at |-> "address", entry |-> Len(rtList) + 1, route |-> r, rest |-> Tail(text)],
               rtList' = Append(rtList, Route(a, n, RtUnset, RtUnset))
        PROVE  /\ rtList' \in Seq(RtEntry) /\ Len(rtList') <= RtMax
               /\ rtSet' \in Calls /\ rtTold' \in SUBSET RtRoute
               /\ rtWalk' \in [RtReaders -> RtLookup]
               /\ \A t \in RtReaders : rtWalk'[t].best <= Len(rtList')
    <3>1. Route(a, n, RtUnset, RtUnset) \in RtEntry
      BY DEF Route, RtEntry
    <3>2. rtList' \in Seq(RtEntry) /\ Len(rtList') = Len(rtList) + 1
      BY <1>ty, <2>8, <3>1
    <3>3. Len(rtList) \in Nat
      BY <1>ty
    <3>4. rtSet' \in Calls
      BY <2>4, <2>8, <3>3
    <3>5. Len(rtList') <= RtMax
      BY <2>8, <3>2, <3>3, RtAssumption
    <3>. QED
      BY <1>ty, <2>5, <2>6, <2>8, <3>2, <3>3, <3>4, <3>5
  <2>9. CASE rtSet' = [RtIdleSet EXCEPT !.rest = Tail(text)] /\ UNCHANGED <<rtList, rtWalk>>
    BY <1>ty, <1>0, <2>4, <2>5, <2>9 DEF RtIdleSet
  <2>. QED
    BY <2>1, <2>7, <2>8, <2>9
<1>3. CASE RtSetField
  <2>1. UNCHANGED <<rtWalk, rtTold>>
    BY <1>3 DEF RtSetField
  <2>2. rtSet' \in Calls
    BY <1>ty, <1>3, FieldStored
  <2>. DEFINE p == rtSet.route
  <2>3. ASSUME NEW e \in RtEntry
        PROVE  /\ [e EXCEPT !.address = p.address] \in RtEntry
               /\ [e EXCEPT !.netmask = p.netmask] \in RtEntry
               /\ [e EXCEPT !.iface = p.iface] \in RtEntry
               /\ [e EXCEPT !.mac = p.mac] \in RtEntry
    <3>1. p \in RtRoute
      BY <1>ty
    <3>2. /\ p.address \in RtAddresses /\ p.netmask \in 0 .. RtBits
          /\ p.iface \in RtIfaces /\ p.mac \in 0 .. 255
      BY <3>1 DEF RtRoute
    <3>. HIDE DEF p
    <3>. QED
      BY <3>2 DEF RtEntry
  <2>4. \E e \in RtEntry : rtList' = [rtList EXCEPT ![rtSet.entry] = e] \/ rtList' = rtList
    <3>1. CASE rtSet.entry \in DOMAIN rtList
      <4>1. rtList[rtSet.entry] \in RtEntry
        BY <1>ty, <3>1
      <4>. QED
        BY <1>3, <2>3, <4>1, FieldStored
    <3>2. CASE rtSet.entry \notin DOMAIN rtList
      <4>1. rtList' = rtList
        BY <1>ty, <1>3, <3>2, FieldStored
      <4>2. Route(0, 0, RtUnset, RtUnset) \in RtEntry
        BY <1>0, RtAssumption DEF Route, RtEntry
      <4>. QED
        BY <4>1, <4>2
    <3>. QED
      BY <3>1, <3>2
  <2>5. rtList' \in Seq(RtEntry) /\ Len(rtList') = Len(rtList)
    BY <1>ty, <2>4
  <2>. QED
    BY <1>ty, <2>1, <2>2, <2>5
<1>4. CASE RtSetReturn
  BY <1>ty, <1>0, <1>4, RetoldAreRoutes DEF RtSetReturn, RtIdleSet
<1>. QED
  BY <1>1, <1>2, <1>3, <1>4

LEMMA RtTypesWalk ==
  ASSUME RtTypes, NEW t \in RtReaders, RtFind(t) \/ RtVisit(t) \/ RtEnd(t) \/ RtAnswer(t) \/ RtReturn(t)
  PROVE  RtTypes'
<1>ty. /\ rtList \in Seq(RtEntry) /\ rtTold \in SUBSET RtRoute /\ rtSet.route \in RtRoute
       /\ rtWalk \in [RtReaders -> RtLookup] /\ rtWalk[t] \in RtLookup
       /\ rtWalk[t].best <= Len(rtList) /\ Len(rtList) \in Nat
  BY DEF RtTypes
<1>0. 0 \in RtAddresses /\ NodeMac \in 0 .. 255
  BY RtAssumption DEF RtAddresses, RtDefault, NodeMac
<1>1. RtIdleWalk \in RtLookup /\ RtIdleWalk.best = 0
  BY <1>0, RtAssumption DEF RtIdleWalk, RtLookup
<1>2. UNCHANGED <<rtList, rtSet, rtTold>>
  BY DEF RtFind, RtVisit, RtEnd, RtAnswer, RtReturn
<1>. SUFFICES \E w \in RtLookup : w.best <= Len(rtList) /\ rtWalk' = [rtWalk EXCEPT ![t] = w]
  <2>1. PICK w \in RtLookup : w.best <= Len(rtList) /\ rtWalk' = [rtWalk EXCEPT ![t] = w]
    OBVIOUS
  <2>2. rtWalk' \in [RtReaders -> RtLookup]
    BY <1>ty, <2>1
  <2>3. ASSUME NEW u \in RtReaders PROVE rtWalk'[u].best <= Len(rtList)
    <3>1. rtWalk[u].best <= Len(rtList) /\ (rtWalk'[u] = w \/ rtWalk'[u] = rtWalk[u])
      BY <1>ty, <2>1 DEF RtTypes
    <3>. QED
      BY <2>1, <3>1
  <2>. QED
    BY <1>2, <2>2, <2>3 DEF RtTypes
<1>3. CASE RtFind(t)
  <2>1. PICK a \in RtAddresses :
     rtWalk' = [rtWalk EXCEPT ![t] =
       [RtIdleWalk EXCEPT !.phase = "walk", !.address = a,
          !.could = Answers(rtTold, a) \cup
                    IF rtSet.at = "idle" THEN {} ELSE Answers(Retold(rtSet.route), a)]]
    BY <1>3 DEF RtFind
  <2>2. Answers(rtTold, a) \in SUBSET (RtRoute \cup {NoRoute})
    BY <1>ty, AnswersAreRoutes
  <2>3. Answers(Retold(rtSet.route), a) \in SUBSET (RtRoute \cup {NoRoute})
    BY <1>ty, AnswersAreRoutes, RetoldAreRoutes
  <2>4. PICK could \in SUBSET (RtRoute \cup {NoRoute}) :
          rtWalk' = [rtWalk EXCEPT ![t] = [RtIdleWalk EXCEPT !.phase = "walk", !.address = a, !.could = could]]
    BY <2>1, <2>2, <2>3
  <2>. DEFINE start == [RtIdleWalk EXCEPT !.phase = "walk", !.address = a, !.could = could]
  <2>5. start \in RtLookup
    BY <1>1 DEF RtLookup
  <2>6. start.best = 0
    BY <1>1 DEF RtIdleWalk
  <2>7. rtWalk' = [rtWalk EXCEPT ![t] = start]
    BY <2>4
  <2>8. 0 <= Len(rtList)
    BY <1>ty
  <2>. HIDE DEF start
  <2>. QED
    BY <2>5, <2>6, <2>7, <2>8
<1>4. CASE RtVisit(t)
  <2>. DEFINE w == rtWalk[t]
              e == rtList[w.at]
              seen == [w EXCEPT !.fair = w.fair /\ FieldsSet(w.at), !.at = w.at + 1]
  <2>1. w.at \in Nat /\ w.at <= Len(rtList) /\ w.at # 0 => e \in RtEntry
    BY <1>ty
  <2>2. w.at <= Len(rtList) /\ w.at \in Nat
    BY <1>ty, <1>4 DEF RtVisit, RtLookup
  <2>3. w.mask \in 0 .. RtBits
    BY <1>ty DEF RtLookup
  <2>4. seen \in RtLookup /\ seen.best = w.best
    <3>1. PICK fair \in BOOLEAN : seen = [w EXCEPT !.fair = fair, !.at = w.at + 1]
      OBVIOUS
    <3>2. w.at + 1 \in Nat \ {0}
      BY <2>2
    <3>3. [w EXCEPT !.fair = fair, !.at = w.at + 1] \in RtLookup
      BY <1>ty, <3>2 DEF RtLookup
    <3>4. [w EXCEPT !.fair = fair, !.at = w.at + 1].best = w.best
      BY <1>ty DEF RtLookup
    <3>. QED
      BY <3>1, <3>3, <3>4
  <2>5. rtWalk' = [rtWalk EXCEPT ![t] =
          IF e.address = w.address /\ e.netmask = RtBits
          THEN [seen EXCEPT !.best = w.at, !.phase = "found"]
          ELSE IF Matches(e, w.address) /\ e.netmask >= w.mask THEN Better(seen, w.at)
          ELSE seen]
    BY <1>4 DEF RtVisit
  <2>6. CASE e.address = w.address /\ e.netmask = RtBits
    <3>1. [seen EXCEPT !.best = w.at, !.phase = "found"] \in RtLookup
      BY <2>2, <2>4 DEF RtLookup
    <3>2. [seen EXCEPT !.best = w.at, !.phase = "found"].best = w.at
      BY <2>4 DEF RtLookup
    <3>. QED
      BY <2>2, <2>5, <2>6, <3>1, <3>2
  <2>7. CASE ~(e.address = w.address /\ e.netmask = RtBits) /\ Matches(e, w.address) /\ e.netmask >= w.mask
    <3>1. w.at # 0
      BY <1>ty DEF RtLookup
    <3>2. Better(seen, w.at) \in RtLookup
      <4>1. e.netmask \in 0 .. RtBits
        BY <2>1, <2>2, <3>1 DEF RtEntry
      <4>2. Better(seen, w.at) = [seen EXCEPT !.best = w.at, !.mask = e.netmask]
        BY DEF Better
      <4>. HIDE DEF seen, e
      <4>. QED
        BY <2>2, <2>4, <4>1, <4>2 DEF RtLookup
    <3>3. Better(seen, w.at).best = w.at
      BY <2>4 DEF RtLookup, Better
    <3>. QED
      BY <2>2, <2>5, <2>7, <3>2, <3>3
  <2>8. CASE ~(e.address = w.address /\ e.netmask = RtBits) /\ ~(Matches(e, w.address) /\ e.netmask >= w.mask)
    BY <1>ty, <2>4, <2>5, <2>8
  <2>. QED
    BY <2>6, <2>7, <2>8
<1>5. CASE RtEnd(t)
  <2>1. [rtWalk[t] EXCEPT !.phase = "found"] \in RtLookup
    BY <1>ty DEF RtLookup
  <2>2. [rtWalk[t] EXCEPT !.phase = "found"].best = rtWalk[t].best
    BY <1>ty DEF RtLookup
  <2>. QED
    BY <1>ty, <1>5, <2>1, <2>2 DEF RtEnd
<1>6. CASE RtAnswer(t)
  <2>. DEFINE got == IF rtWalk[t].best = 0 THEN NoRoute ELSE rtList[rtWalk[t].best]
              answer == [RtIdleWalk EXCEPT !.phase = "answered", !.fair = rtWalk[t].fair,
                                           !.could = rtWalk[t].could, !.got = got]
  <2>1. got \in RtEntry \cup {NoRoute}
    BY <1>ty DEF RtLookup
  <2>. HIDE DEF got
  <2>2. answer \in RtLookup
    BY <1>ty, <1>1, <2>1 DEF RtLookup
  <2>3. answer.best = 0
    BY <1>1 DEF RtIdleWalk
  <2>4. rtWalk' = [rtWalk EXCEPT ![t] = answer]
    BY <1>6 DEF RtAnswer, got
  <2>5. 0 <= Len(rtList)
    BY <1>ty
  <2>. HIDE DEF answer
  <2>. QED
    BY <2>2, <2>3, <2>4, <2>5
<1>7. CASE RtReturn(t)
  <2>1. RtIdleWalk.best <= Len(rtList)
    BY <1>ty, <1>1
  <2>. QED
    BY <1>1, <1>7, <2>1 DEF RtReturn
<1>. QED
  BY <1>3, <1>4, <1>5, <1>6, <1>7

LEMMA RtTypesClear == RtTypes /\ Resting /\ RtClear => RtTypes'
<1>. SUFFICES ASSUME RtTypes, Resting, RtClear PROVE RtTypes'
  OBVIOUS
<1>1. RtCleared[1] \in RtRoute /\ RtCleared \in Seq(RtEntry) /\ Len(RtCleared) = 1
  <2>1. Route(RtOwn, RtBits, RtLo, NodeMac) \in RtRoute
    BY RtAssumption DEF RtRoute, Route, NodeMac
  <2>2. RtRoute \subseteq RtEntry
    BY DEF RtRoute, RtEntry
  <2>. QED
    BY <2>1, <2>2 DEF RtCleared
<1>2. UNCHANGED <<rtSet, rtWalk>> /\ rtList' = RtCleared /\ rtTold' = {RtCleared[1]}
  BY DEF RtClear
<1>3. ASSUME NEW t \in RtReaders PROVE rtWalk[t].best <= 1
  <2>1. rtWalk[t].best = 0
    BY DEF RtClear, RtAlone, Resting
  <2>. QED
    BY <2>1
<1>4. rtList' \in Seq(RtEntry) /\ Len(rtList') = 1 /\ 1 <= RtMax /\ rtTold' \in SUBSET RtRoute
  BY <1>1, <1>2, RtAssumption
<1>. QED
  BY <1>2, <1>3, <1>4 DEF RtTypes

(* The list and the call that works on it.                                  *)
Table == OneEach /\ TellsWhatIsTold /\ Stores /\ OldOrUnset

LEMMA TableInit == RtInit => Table
<1>. SUFFICES ASSUME RtInit PROVE Table
  OBVIOUS
<1>1. RtTypes
  BY RtTypesInit
<1>2. rtSet.at = "idle"
  BY DEF RtInit, RtIdleSet
<1>. DEFINE own == Route(RtOwn, RtBits, RtLo, NodeMac)  default == Route(0, 0, RtLo, NodeMac)
<1>3. DOMAIN rtList = {1, 2} /\ rtList[1] = own /\ rtList[2] = default
  BY DEF RtInit, RtCleared
<1>4. ~SameNet(own, default) /\ ~SameNet(default, own) /\ Whole(own) /\ Whole(default)
  BY RtAssumption DEF SameNet, Route, Whole, NodeMac
<1>. HIDE DEF own, default
<1>5. \A i, j \in DOMAIN rtList : SameNet(rtList[i], rtList[j]) => i = j
  BY <1>3, <1>4
<1>6. \A i \in DOMAIN rtList : Whole(rtList[i])
  BY <1>3, <1>4
<1>7. rtTold = {rtList[i] : i \in DOMAIN rtList}
  BY DEF RtInit
<1>. QED
  BY <1>2, <1>5, <1>6, <1>7 DEF Table, OneEach, TellsWhatIsTold, Stores, OldOrUnset, Set, Others, Contents

LEMMA TableSame == Table /\ UNCHANGED <<rtList, rtSet, rtTold>> => Table'
BY DEF Table, OneEach, TellsWhatIsTold, Stores, OldOrUnset, Set, Others, Contents, Replaces

LEMMA TableIdle ==
  ASSUME Table, rtSet.at = "idle", rtSet'.at = "idle", UNCHANGED <<rtList, rtTold>>
  PROVE  Table'
BY DEF Table, OneEach, TellsWhatIsTold, Stores, OldOrUnset, Set, Others, Contents

LEMMA TableCall == RtTypes /\ Table /\ RtSetCall => Table'
<1>. SUFFICES ASSUME RtTypes, Table, RtSetCall PROVE Table'
  OBVIOUS
<1>1. /\ rtSet.at = "idle" /\ rtTold' = rtTold
      /\ \A i, j \in DOMAIN rtList : SameNet(rtList[i], rtList[j]) => i = j
      /\ \A i \in DOMAIN rtList : Whole(rtList[i])
      /\ rtTold = {rtList[i] : i \in DOMAIN rtList}
      /\ rtList \in Seq(RtEntry)
  BY DEF RtSetCall, RtTypes, Table, OneEach, TellsWhatIsTold, Set, Others, Contents
<1>2. ASSUME NEW r, NEW rest, NEW i \in DOMAIN rtList, SameNet(rtList[i], r), rtList' = rtList,
             rtSet' = [at |-> "iface", entry |-> i, route |-> r, rest |-> rest]
      PROVE  Table'
  <2>1. Set' /\ Others' = DOMAIN rtList \ {i}
    BY <1>2 DEF Set, Others
  <2>2. \A j \in DOMAIN rtList : SameNet(rtList[j], r) <=> j = i
    BY <1>1, <1>2 DEF SameNet
  <2>3. OneEach'
    BY <1>1, <1>2, <2>1, <2>2 DEF OneEach
  <2>4. TellsWhatIsTold'
    BY <1>1, <1>2, <2>1, <2>2 DEF TellsWhatIsTold, Contents
  <2>5. Stores'
    BY <1>2 DEF Stores, SameNet
  <2>6. OldOrUnset'
    BY <1>1, <1>2, <2>2 DEF OldOrUnset, Replaces
  <2>. QED
    BY <2>3, <2>4, <2>5, <2>6 DEF Table
<1>3. ASSUME NEW r, NEW rest, NEW e, e.mac = RtUnset,
             \A i \in DOMAIN rtList : ~SameNet(rtList[i], r), rtList' = Append(rtList, e),
             rtSet' = [at |-> "address", entry |-> Len(rtList) + 1, route |-> r, rest |-> rest]
      PROVE  Table'
  <2>. DEFINE n == Len(rtList) + 1
  <2>1. /\ DOMAIN rtList' = DOMAIN rtList \cup {n} /\ n \notin DOMAIN rtList
        /\ rtList'[n] = e /\ \A i \in DOMAIN rtList : rtList'[i] = rtList[i]
    BY <1>1, <1>3
  <2>2. Set' /\ Others' = DOMAIN rtList
    BY <1>3, <2>1 DEF Set, Others
  <2>3. OneEach'
    BY <1>1, <1>3, <2>1, <2>2 DEF OneEach
  <2>4. TellsWhatIsTold'
    BY <1>1, <1>3, <2>1, <2>2 DEF TellsWhatIsTold, Contents
  <2>5. Stores'
    BY <1>3, <2>1 DEF Stores
  <2>6. OldOrUnset'
    BY <1>3, <2>1 DEF OldOrUnset
  <2>. QED
    BY <2>3, <2>4, <2>5, <2>6 DEF Table
<1>4. ASSUME NEW rest, rtSet' = [RtIdleSet EXCEPT !.rest = rest], rtList' = rtList
      PROVE  Table'
  BY <1>1, <1>4, TableIdle DEF RtIdleSet
<1>5. \A a, n : Route(a, n, RtUnset, RtUnset).mac = RtUnset
  BY DEF Route
<1>. QED
  BY <1>2, <1>3, <1>4, <1>5 DEF RtSetCall

LEMMA TableField == RtTypes /\ Table /\ RtSetField => Table'
<1>. SUFFICES ASSUME RtTypes, Table, RtSetField PROVE Table'
  OBVIOUS
<1>. DEFINE n == rtSet.entry  p == rtSet.route  e == rtList[n]
<1>1. rtSet.at \in {"address", "netmask", "iface", "mac"}
  BY FieldStored
<1>2. /\ Set /\ n \in DOMAIN rtList /\ p \in RtRoute /\ rtList \in Seq(RtEntry) /\ e \in RtEntry
      /\ rtTold \subseteq RtRoute /\ rtTold' = rtTold
  BY <1>1 DEF Table, Stores, Set, RtTypes, RtSetField
<1>. SUFFICES ASSUME NEW at \in {"netmask", "iface", "mac", "return"}, NEW f,
                     rtSet' = [rtSet EXCEPT !.at = at], rtList' = [rtList EXCEPT ![n] = f],
                     /\ f.address = p.address
                     /\ at # "netmask" => f.netmask = p.netmask
                     /\ at \in {"mac", "return"} => f.iface = p.iface
                     /\ at = "return" => f.mac = p.mac,
                     at # "return" => f.mac = RtUnset \/
                       /\ rtSet.at = "iface" /\ at = "mac"
                       /\ \E o \in rtTold : /\ SameNet(o, p) /\ \A q \in rtTold : SameNet(q, p) => q = o
                                            /\ f = [o EXCEPT !.iface = p.iface]
              PROVE  Table'
  <2>1. /\ rtSet.at # "address" => e.address = p.address
        /\ rtSet.at \notin {"address", "netmask"} => e.netmask = p.netmask
        /\ rtSet.at = "mac" => e.iface = p.iface
        /\ e.mac = RtUnset \/ (rtSet.at \in {"iface", "mac"} /\ Replaces(e, p))
    BY <1>1, <1>2 DEF Table, Stores, OldOrUnset
  <2>2. CASE rtSet.at = "address"
    <3>. DEFINE f == [e EXCEPT !.address = p.address]
    <3>1. f.address = p.address /\ f.mac = e.mac
      BY <1>2 DEF RtEntry
    <3>2. rtSet' = [rtSet EXCEPT !.at = "netmask"] /\ rtList' = [rtList EXCEPT ![n] = f]
      BY <2>2, FieldStored
    <3>. HIDE DEF f
    <3>. QED
      BY <2>1, <2>2, <3>1, <3>2
  <2>3. CASE rtSet.at = "netmask"
    <3>. DEFINE f == [e EXCEPT !.netmask = p.netmask]
    <3>1. f.address = e.address /\ f.netmask = p.netmask /\ f.mac = e.mac
      BY <1>2 DEF RtEntry
    <3>2. rtSet' = [rtSet EXCEPT !.at = "iface"] /\ rtList' = [rtList EXCEPT ![n] = f]
      BY <2>3, FieldStored
    <3>. HIDE DEF f
    <3>. QED
      BY <2>1, <2>3, <3>1, <3>2
  <2>4. CASE rtSet.at = "iface"
    <3>. DEFINE f == [e EXCEPT !.iface = p.iface]
    <3>1. f.address = e.address /\ f.netmask = e.netmask /\ f.iface = p.iface /\ f.mac = e.mac
      BY <1>2 DEF RtEntry
    <3>2. rtSet' = [rtSet EXCEPT !.at = "mac"] /\ rtList' = [rtList EXCEPT ![n] = f]
      BY <2>4, FieldStored
    <3>3. f.mac = RtUnset \/ \E o \in rtTold : /\ SameNet(o, p) /\ \A q \in rtTold : SameNet(q, p) => q = o
                                              /\ f = [o EXCEPT !.iface = p.iface]
      BY <2>1, <2>4, <3>1 DEF Replaces
    <3>. HIDE DEF f
    <3>. QED
      BY <2>1, <2>4, <3>1, <3>2, <3>3
  <2>5. CASE rtSet.at = "mac"
    <3>. DEFINE f == [e EXCEPT !.mac = p.mac]
    <3>1. f.address = e.address /\ f.netmask = e.netmask /\ f.iface = e.iface /\ f.mac = p.mac
      BY <1>2 DEF RtEntry
    <3>2. rtSet' = [rtSet EXCEPT !.at = "return"] /\ rtList' = [rtList EXCEPT ![n] = f]
      BY <2>5, FieldStored
    <3>. HIDE DEF f
    <3>. QED
      BY <2>1, <2>5, <3>1, <3>2
  <2>. QED
    BY <1>1, <2>2, <2>3, <2>4, <2>5
<1>3. /\ rtSet'.at = at /\ rtSet'.entry = n /\ rtSet'.route = p
      /\ DOMAIN rtList' = DOMAIN rtList /\ rtList'[n] = f
      /\ \A i \in DOMAIN rtList : i # n => rtList'[i] = rtList[i]
  BY <1>2 DEF RtTypes
<1>4. Set' /\ Others' = Others /\ Others = DOMAIN rtList \ {n}
  BY <1>2, <1>3 DEF Set, Others
<1>5. OneEach'
  BY <1>2, <1>3, <1>4 DEF Table, OneEach
<1>6. TellsWhatIsTold'
  BY <1>2, <1>3, <1>4 DEF Table, TellsWhatIsTold, Contents
<1>7. Stores'
  BY <1>2, <1>3 DEF Stores
<1>8. OldOrUnset'
  BY <1>2, <1>3 DEF OldOrUnset, Replaces
<1>. QED
  BY <1>5, <1>6, <1>7, <1>8 DEF Table

LEMMA TableReturn == RtTypes /\ Table /\ RtSetReturn => Table'
<1>. SUFFICES ASSUME RtTypes, Table, RtSetReturn PROVE Table'
  OBVIOUS
<1>. DEFINE n == rtSet.entry  p == rtSet.route
<1>1. /\ rtSet.at = "return" /\ rtSet'.at = "idle" /\ rtList' = rtList /\ rtTold' = Retold(p)
  BY DEF RtSetReturn, RtIdleSet
<1>2. n \in DOMAIN rtList /\ rtList[n] = p /\ p \in RtRoute
  <2>1. /\ n \in DOMAIN rtList /\ rtList[n] \in RtEntry /\ p \in RtRoute
        /\ rtList[n].address = p.address /\ rtList[n].netmask = p.netmask
        /\ rtList[n].iface = p.iface /\ rtList[n].mac = p.mac
    BY <1>1 DEF Table, Stores, Set, RtTypes
  <2>. QED
    BY <2>1 DEF RtEntry, RtRoute
<1>3. Set /\ ~Set' /\ Others = DOMAIN rtList \ {n} /\ Others' = DOMAIN rtList
  BY <1>1 DEF Set, Others
<1>4. Whole(p)
  BY <1>2, RtAssumption DEF RtRoute, Whole
<1>5. OneEach'
  BY <1>1, <1>2, <1>3, <1>4 DEF Table, OneEach, SameNet
<1>6. TellsWhatIsTold'
  BY <1>1, <1>2, <1>3 DEF Table, TellsWhatIsTold, Contents, Retold
<1>. QED
  BY <1>1, <1>3, <1>5, <1>6 DEF Table, Stores, OldOrUnset

LEMMA TableClear == RtClear => Table'
<1>. SUFFICES ASSUME RtClear PROVE Table'
  OBVIOUS
<1>1. rtSet'.at = "idle" /\ rtList' = RtCleared /\ rtTold' = {RtCleared[1]}
  BY DEF RtClear, RtAlone, RtIdleSet
<1>2. DOMAIN RtCleared = {1} /\ Whole(RtCleared[1])
  BY RtAssumption DEF RtCleared, Route, Whole, NodeMac
<1>. QED
  BY <1>1, <1>2 DEF Table, OneEach, TellsWhatIsTold, Stores, OldOrUnset, Set, Others, Contents

(* What the end of a walk means.                                            *)
LEMMA SameNetMatches ==
  ASSUME NEW e, NEW f, SameNet(e, f), NEW a
  PROVE  e.netmask = f.netmask /\ (Matches(e, a) <=> Matches(f, a))
BY DEF SameNet, Matches

LEMMA LongestIsAnswer ==
  ASSUME NEW routes, NEW a, NEW r \in routes, Matches(r, a),
         \A s \in routes : Matches(s, a) => s.netmask <= r.netmask
  PROVE  r \in Answers(routes, a)
BY DEF Answers, Longest

(* What a walk finds that passed every better entry is right.                *)
LEMMA BestIsRight ==
  ASSUME RtTypes, Table, NEW a, NEW could,
         Answers(rtTold, a) \subseteq could,
         Set => Answers(Retold(rtSet.route), a) \subseteq could,
         NEW b \in DOMAIN rtList, Whole(rtList[b]), Matches(rtList[b], a),
         \A i \in Others : Matches(rtList[i], a) => rtList[i].netmask <= rtList[b].netmask,
         Set /\ Matches(rtSet.route, a) => rtSet.route.netmask <= rtList[b].netmask
  PROVE  Reads(rtList[b], could)
<1>. DEFINE n == rtSet.entry  p == rtSet.route  e == rtList[b]
<1>1. /\ rtTold \subseteq RtRoute /\ p \in RtRoute /\ e \in RtEntry
      /\ \A r \in RtRoute : r # NoRoute /\ r.netmask \in Int /\ [r EXCEPT !.mac = r.mac] = r
  <2>1. rtTold \subseteq RtRoute /\ p \in RtRoute /\ e \in RtEntry
    BY DEF RtTypes
  <2>2. \A r \in RtRoute : r.iface # RtNull /\ r.netmask \in Int /\ [r EXCEPT !.mac = r.mac] = r
    BY RtAssumption DEF RtRoute
  <2>3. NoRoute.iface = RtNull
    BY DEF NoRoute, Route
  <2>. QED
    BY <2>1, <2>2, <2>3
<1>2. CASE b \in Others
  <2>1. e \in Contents
    BY <1>2 DEF Contents
  <2>2. e \in RtRoute /\ e \in rtTold
    BY <1>1, <2>1 DEF Table, TellsWhatIsTold
  <2>3. e \in could
    <3>1. CASE ~Set
      <4>1. rtTold = Contents
        BY <3>1 DEF Table, TellsWhatIsTold
      <4>2. \A s \in rtTold : Matches(s, a) => s.netmask <= e.netmask
        BY <4>1 DEF Contents
      <4>. QED
        BY <2>2, <4>2, LongestIsAnswer
    <3>2. CASE Set
      <4>1. Retold(p) = Contents \cup {p}
        BY <3>2 DEF Retold, Table, TellsWhatIsTold
      <4>2. \A s \in Retold(p) : Matches(s, a) => s.netmask <= e.netmask
        BY <3>2, <4>1 DEF Contents
      <4>. QED
        BY <2>1, <3>2, <4>1, <4>2, LongestIsAnswer
    <3>. QED
      BY <3>1, <3>2
  <2>. QED
    BY <1>1, <2>2, <2>3 DEF Reads, SameNet
<1>3. CASE b \notin Others
  <2>1. Set /\ b = n
    BY <1>3 DEF Others
  <2>2. e.mac # RtUnset /\ rtSet.at \in {"iface", "mac", "return"}
    BY <2>1 DEF Whole, Table, OldOrUnset, Set, RtTypes
  <2>3. SameNet(e, p)
    BY <2>1, <2>2 DEF Table, Stores, SameNet
  <2>4. e.netmask = p.netmask /\ Matches(p, a)
    BY <2>3, SameNetMatches
  <2>5. Retold(p) = Contents \cup {p}
    BY <2>1 DEF Retold, Table, TellsWhatIsTold
  <2>6. \A s \in Contents : Matches(s, a) => s.netmask <= p.netmask
    BY <2>4 DEF Contents
  <2>7. p \in could
    BY <1>1, <2>1, <2>4, <2>5, <2>6, LongestIsAnswer
  <2>8. CASE rtSet.at = "return"
    <3>1. e.address = p.address /\ e.netmask = p.netmask /\ e.iface = p.iface /\ e.mac = p.mac
      BY <2>1, <2>8 DEF Table, Stores
    <3>2. e = p
      BY <1>1, <3>1 DEF RtEntry, RtRoute
    <3>. QED
      BY <1>1, <2>7, <3>2 DEF Reads, SameNet
  <2>9. CASE rtSet.at # "return"
    <3>1. PICK o \in rtTold : /\ SameNet(o, p) /\ \A q \in rtTold : SameNet(q, p) => q = o
                            /\ e = IF rtSet.at = "iface" THEN o ELSE [o EXCEPT !.iface = p.iface]
      BY <2>1, <2>2, <2>9 DEF Table, OldOrUnset, Replaces, Set
    <3>2. o.netmask = p.netmask /\ Matches(o, a)
      BY <2>4, <3>1, SameNetMatches
    <3>3. \A s \in rtTold : s = o \/ s \in Contents
      BY <2>1, <3>1 DEF Table, TellsWhatIsTold
    <3>4. o \in could
      BY <1>1, <2>6, <3>2, <3>3, LongestIsAnswer
    <3>5. CASE rtSet.at = "iface"
      BY <1>1, <3>1, <3>4, <3>5 DEF Reads, SameNet
    <3>6. CASE rtSet.at # "iface"
      <4>1. e = [p EXCEPT !.mac = o.mac]
        BY <1>1, <3>1, <3>6 DEF RtRoute, SameNet
      <4>. QED
        BY <1>1, <2>7, <3>1, <3>4, <4>1 DEF Reads, SameNet
    <3>. QED
      BY <3>5, <3>6
  <2>. QED
    BY <2>8, <2>9
<1>. QED
  BY <1>2, <1>3

(* A walk that passed every entry and found none is right.                   *)
LEMMA NothingIsRight ==
  ASSUME RtTypes, Table, NEW a, NEW could,
         Answers(rtTold, a) \subseteq could,
         Set => Answers(Retold(rtSet.route), a) \subseteq could,
         \A i \in DOMAIN rtList : Whole(rtList[i]) /\ ~Matches(rtList[i], a)
  PROVE  NoRoute \in could
<1>. DEFINE n == rtSet.entry  p == rtSet.route
<1>1. \A s \in Contents : ~Matches(s, a)
  BY DEF Contents, Others
<1>2. CASE ~Set
  <2>1. Longest(rtTold, a) = {}
    BY <1>1, <1>2 DEF Longest, Table, TellsWhatIsTold
  <2>. QED
    BY <2>1 DEF Answers
<1>3. CASE Set
  <2>1. n \in DOMAIN rtList /\ rtList[n].mac # RtUnset
    BY <1>3 DEF Whole, Table, Stores
  <2>2. rtSet.at \in {"iface", "mac", "return"}
    BY <1>3, <2>1 DEF Table, OldOrUnset, Set, RtTypes
  <2>3. SameNet(rtList[n], p)
    BY <1>3, <2>2 DEF Table, Stores, SameNet
  <2>4. ~Matches(p, a)
    BY <2>1, <2>3, SameNetMatches
  <2>5. Retold(p) = Contents \cup {p}
    BY <1>3 DEF Retold, Table, TellsWhatIsTold
  <2>6. Longest(Retold(p), a) = {}
    BY <1>1, <2>4, <2>5 DEF Longest
  <2>. QED
    BY <1>3, <2>6 DEF Answers
<1>. QED
  BY <1>2, <1>3

(* Lookups that run stay right, whoever takes the step.                     *)
Look(w) == CouldHas(w) /\ SoFar(w) /\ Finds(w)

(* A lookup goes on while entries are appended, or set again.                *)
LEMMA LookGoesOn ==
  ASSUME NEW w \in RtLookup, NEW v \in RtLookup,
         \/ v = w
         \/ /\ v.phase = w.phase /\ v.fair = w.fair /\ v.address = w.address /\ v.at = w.at
            /\ v.best = w.best /\ v.mask = w.mask /\ w.could \subseteq v.could,
         rtList \in Seq(RtEntry), rtList' \in Seq(RtEntry), Len(rtList) <= Len(rtList'),
         w.best <= Len(rtList), SoFar(w), Finds(w),
         \A i \in DOMAIN rtList : Whole(rtList[i]) =>
            /\ Whole(rtList'[i]) /\ SameNet(rtList'[i], rtList[i])
            /\ w.phase = "found" /\ Reads(rtList[i], w.could) => Reads(rtList'[i], w.could)
  PROVE  SoFar(v)' /\ Finds(v)'
<1>1. /\ v.phase = w.phase /\ v.fair = w.fair /\ v.address = w.address /\ v.at = w.at
      /\ v.best = w.best /\ v.mask = w.mask /\ w.could \subseteq v.could
  OBVIOUS
<1>2. /\ w.at \in Nat \ {0} /\ w.best \in Nat /\ Len(rtList) \in Nat /\ Len(rtList') \in Nat
      /\ DOMAIN rtList = 1 .. Len(rtList) /\ DOMAIN rtList' = 1 .. Len(rtList')
  BY DEF RtLookup
<1>3. ASSUME w.phase = "walk", w.fair PROVE SoFar(v)'
  <2>1. ASSUME NEW i \in DOMAIN rtList', i < w.at
        PROVE  /\ Whole(rtList'[i])
               /\ Matches(rtList'[i], w.address) => w.best # 0 /\ rtList'[i].netmask <= w.mask
    <3>1. i \in DOMAIN rtList /\ Whole(rtList[i])
      BY <1>2, <1>3, <2>1 DEF SoFar
    <3>2. Matches(rtList[i], w.address) => w.best # 0 /\ rtList[i].netmask <= w.mask
      BY <1>3, <2>1, <3>1 DEF SoFar
    <3>3. Whole(rtList'[i]) /\ SameNet(rtList'[i], rtList[i])
      BY <3>1
    <3>. QED
      BY <3>2, <3>3, SameNetMatches
  <2>2. ASSUME w.best # 0
        PROVE  /\ w.best \in DOMAIN rtList' /\ w.best < w.at
               /\ Matches(rtList'[w.best], w.address)
               /\ w.mask = rtList'[w.best].netmask
    <3>1. /\ w.best \in DOMAIN rtList /\ w.best < w.at /\ Matches(rtList[w.best], w.address)
          /\ w.mask = rtList[w.best].netmask
      BY <1>3, <2>2 DEF SoFar
    <3>2. Whole(rtList[w.best])
      BY <1>3, <3>1 DEF SoFar
    <3>3. SameNet(rtList'[w.best], rtList[w.best])
      BY <3>1, <3>2
    <3>. QED
      BY <1>2, <3>1, <3>3, SameNetMatches
  <2>3. w.at <= Len(rtList') + 1 /\ (w.best = 0 => w.mask = 0)
    BY <1>2, <1>3 DEF SoFar
  <2>. QED
    BY <1>1, <2>1, <2>2, <2>3 DEF SoFar
<1>4. ASSUME w.phase = "found", w.fair PROVE Finds(v)'
  <2>1. w.best # 0 => w.best \in DOMAIN rtList
    BY <1>2
  <2>2. w.best # 0 => Whole(rtList'[w.best]) /\ Reads(rtList'[w.best], w.could)
    BY <1>4, <2>1 DEF Finds
  <2>3. w.best # 0 => Reads(rtList'[w.best], v.could)
    BY <1>1, <2>2 DEF Reads
  <2>. QED
    BY <1>1, <1>4, <2>2, <2>3 DEF Finds
<1>. QED
  BY <1>1, <1>3, <1>4 DEF SoFar, Finds

LEMMA AnswersOfRetold ==
  ASSUME NEW p, NEW a, NEW c \in Answers(Retold(p), a), c # NoRoute, SameNet(c, p)
  PROVE  c = p
BY DEF Answers, Longest, Retold

LEMMA LookCall ==
  ASSUME RtTypes, Table, RtTypes', RtSetCall, NEW t \in RtReaders, Look(rtWalk[t])
  PROVE  Look(rtWalk[t])'
<1>. DEFINE w == rtWalk[t]
<1>1. PICK v : v = rtWalk'[t]
  OBVIOUS
<1>2. /\ w \in RtLookup /\ v \in RtLookup /\ rtList \in Seq(RtEntry) /\ rtList' \in Seq(RtEntry)
      /\ w.best <= Len(rtList) /\ ~Set /\ rtTold' = rtTold
  BY <1>1 DEF RtTypes, RtSetCall, Set
<1>. SUFFICES Look(v)'
  BY <1>1 DEF Look, CouldHas, SoFar, Finds
<1>3. \E e : rtList' = rtList \/ rtList' = Append(rtList, e)
  BY DEF RtSetCall
<1>4. Len(rtList) <= Len(rtList') /\ \A i \in DOMAIN rtList : rtList'[i] = rtList[i]
  BY <1>2, <1>3
<1>5. ASSUME ~Set', v = w PROVE CouldHas(v)'
  BY <1>2, <1>5 DEF Look, CouldHas
<1>6. ASSUME NEW r, NowAlso(r), Set', rtSet'.route = r
      PROVE  /\ CouldHas(v)'
             /\ \/ v = w
                \/ /\ v.phase = w.phase /\ v.fair = w.fair /\ v.address = w.address /\ v.at = w.at
                   /\ v.best = w.best /\ v.mask = w.mask /\ w.could \subseteq v.could
  <2>1. CASE w.phase \notin {"walk", "found"}
    <3>1. v = w
      BY <1>1, <1>6, <2>1 DEF NowAlso
    <3>. QED
      BY <2>1, <3>1 DEF CouldHas
  <2>2. CASE w.phase \in {"walk", "found"}
    <3>1. v = [w EXCEPT !.could = @ \cup Renewed(@, r) \cup Answers(Retold(r), w.address)]
      BY <1>1, <1>6, <2>2 DEF NowAlso
    <3>2. /\ v.phase = w.phase /\ v.fair = w.fair /\ v.address = w.address /\ v.at = w.at
          /\ v.best = w.best /\ v.mask = w.mask
          /\ v.could = w.could \cup Renewed(w.could, r) \cup Answers(Retold(r), w.address)
      BY <1>2, <3>1 DEF RtLookup
    <3>3. Answers(rtTold, w.address) \subseteq w.could
      BY <2>2 DEF Look, CouldHas
    <3>4. ASSUME NEW c \in v.could, c # NoRoute, SameNet(c, r) PROVE r \in v.could
      <4>1. c \in w.could => r \in Renewed(w.could, r)
        BY <3>4 DEF Renewed
      <4>2. c \in Renewed(w.could, r) => c = r
        BY DEF Renewed
      <4>3. c \in Answers(Retold(r), w.address) => c = r
        BY <3>4, AnswersOfRetold
      <4>. QED
        BY <3>2, <4>1, <4>2, <4>3
    <3>5. Retold(r)' = Retold(r)
      BY <1>2 DEF Retold
    <3>6. CouldHas(v)'
      BY <1>2, <1>6, <3>2, <3>3, <3>4, <3>5 DEF CouldHas
    <3>. QED
      BY <3>2, <3>6
  <2>. QED
    BY <2>1, <2>2
<1>7. /\ CouldHas(v)'
      /\ \/ v = w
         \/ /\ v.phase = w.phase /\ v.fair = w.fair /\ v.address = w.address /\ v.at = w.at
            /\ v.best = w.best /\ v.mask = w.mask /\ w.could \subseteq v.could
  <2>1. CASE ~Set'
    <3>1. v = w
      BY <1>1, <2>1 DEF RtSetCall, Set
    <3>. QED
      BY <1>5, <2>1, <3>1
  <2>2. CASE Set'
    <3>1. \E r : NowAlso(r) /\ rtSet'.route = r
      BY <2>2 DEF RtSetCall, Set, RtIdleSet
    <3>. QED
      BY <1>6, <2>2, <3>1
  <2>. QED
    BY <2>1, <2>2
<1>8. \A i \in DOMAIN rtList : Whole(rtList[i]) =>
            /\ Whole(rtList'[i]) /\ SameNet(rtList'[i], rtList[i])
            /\ w.phase = "found" /\ Reads(rtList[i], w.could) => Reads(rtList'[i], w.could)
  BY <1>4 DEF SameNet
<1>9. SoFar(w) /\ Finds(w)
  BY DEF Look
<1>10. SoFar(v)' /\ Finds(v)'
  BY <1>2, <1>4, <1>7, <1>8, <1>9, LookGoesOn
<1>. QED
  BY <1>7, <1>10 DEF Look

LEMMA LookField ==
  ASSUME RtTypes, Table, RtTypes', RtSetField, NEW t \in RtReaders, Look(rtWalk[t])
  PROVE  Look(rtWalk[t])'
<1>. DEFINE w == rtWalk[t]  n == rtSet.entry  p == rtSet.route
<1>1. PICK v : v = rtWalk'[t]
  OBVIOUS
<1>2. /\ w \in RtLookup /\ v \in RtLookup /\ rtList \in Seq(RtEntry) /\ rtList' \in Seq(RtEntry)
      /\ w.best <= Len(rtList) /\ rtTold' = rtTold /\ v = w /\ p \in RtRoute
  BY <1>1 DEF RtTypes, RtSetField
<1>. SUFFICES Look(v)'
  BY <1>1 DEF Look, CouldHas, SoFar, Finds
<1>3. rtSet.at \in {"address", "netmask", "iface", "mac"} /\ rtSet'.route = p /\ Set /\ Set'
  <2>1. rtSet \in [at : {"idle", "address", "netmask", "iface", "mac", "return"}, entry : Nat,
                route : RtRoute, rest : Seq(RtTokens)]
    BY DEF RtTypes
  <2>. QED
    BY <2>1, FieldStored DEF Set
<1>4. n \in DOMAIN rtList /\ rtList[n] \in RtEntry
  BY <1>2, <1>3 DEF Table, Stores
<1>5. Retold(p)' = Retold(p)
  BY <1>2, <1>3 DEF Retold
<1>6. CouldHas(v)'
  BY <1>2, <1>3, <1>5 DEF Look, CouldHas
<1>7. Len(rtList') = Len(rtList) /\ \A i \in DOMAIN rtList : i # n => rtList'[i] = rtList[i]
  BY <1>2, <1>3, FieldStored
<1>8. ASSUME Whole(rtList[n])
      PROVE  /\ Whole(rtList'[n]) /\ SameNet(rtList'[n], rtList[n])
             /\ w.phase = "found" /\ Reads(rtList[n], w.could) => Reads(rtList'[n], w.could)
  <2>. DEFINE e == rtList[n]
  <2>1. rtSet.at \in {"iface", "mac"}
    BY <1>3, <1>8 DEF Whole, Table, OldOrUnset
  <2>2. SameNet(e, p) /\ (rtSet.at = "mac" => e.iface = p.iface)
    BY <1>3, <2>1 DEF Table, Stores, SameNet
  <2>3. rtList'[n] = IF rtSet.at = "iface" THEN [e EXCEPT !.iface = p.iface] ELSE [e EXCEPT !.mac = p.mac]
    BY <1>2, <1>4, <2>1, FieldStored
  <2>4. p.iface # RtUnset /\ p.mac # RtUnset
    BY <1>2, RtAssumption DEF RtRoute
  <2>5. Whole(rtList'[n]) /\ SameNet(rtList'[n], e)
    BY <1>4, <1>8, <2>3, <2>4 DEF Whole, SameNet, RtEntry
  <2>6. ASSUME w.phase = "found", NEW r \in w.could \ {NoRoute}, NEW s \in w.could \ {NoRoute},
               SameNet(r, s), e = [r EXCEPT !.mac = s.mac]
        PROVE  Reads(rtList'[n], w.could)
    <3>1. r \in RtRoute /\ s \in RtRoute
      BY <1>2 DEF RtLookup
    <3>2. SameNet(r, p) /\ SameNet(s, p)
      BY <2>2, <2>6, <3>1 DEF SameNet, RtRoute
    <3>3. p \in w.could
      BY <1>3, <2>6, <3>2 DEF Look, CouldHas
    <3>7. p \in RtRoute
      BY <1>2
    <3>4. p # NoRoute
      <4>1. p.iface # RtNull
        BY <1>2, RtAssumption DEF RtRoute
      <4>. QED
        BY <4>1 DEF NoRoute, Route
    <3>. HIDE DEF e, p
    <3>5. CASE rtSet.at = "iface"
      <4>1. rtList'[n] = [p EXCEPT !.mac = s.mac]
        <5>1. rtList'[n] = [[r EXCEPT !.mac = s.mac] EXCEPT !.iface = p.iface]
          BY <2>3, <2>6, <3>5
        <5>. QED
          BY <3>7, <3>1, <3>2, <5>1 DEF RtRoute, SameNet
      <4>. QED
        BY <3>2, <3>3, <3>4, <4>1 DEF Reads, SameNet
    <3>6. CASE rtSet.at = "mac"
      <4>1. rtList'[n] = [p EXCEPT !.mac = p.mac]
        <5>1. rtList'[n] = [e EXCEPT !.mac = p.mac]
          BY <2>3, <3>6
        <5>3. e \in RtEntry
          BY <1>4 DEF e
        <5>2. e.address = p.address /\ e.netmask = p.netmask /\ e.iface = p.iface
          BY <2>2, <3>6 DEF SameNet
        <5>. QED
          BY <3>7, <5>1, <5>2, <5>3 DEF RtRoute, RtEntry
      <4>. QED
        BY <3>3, <3>4, <4>1 DEF Reads, SameNet
    <3>. QED
      BY <2>1, <3>5, <3>6
  <2>. QED
    BY <2>5, <2>6 DEF Reads
<1>9. \A i \in DOMAIN rtList : Whole(rtList[i]) =>
            /\ Whole(rtList'[i]) /\ SameNet(rtList'[i], rtList[i])
            /\ w.phase = "found" /\ Reads(rtList[i], w.could) => Reads(rtList'[i], w.could)
  BY <1>7, <1>8 DEF SameNet
<1>10. SoFar(w) /\ Finds(w) /\ Len(rtList) <= Len(rtList')
  BY <1>2, <1>7 DEF Look
<1>11. SoFar(v)' /\ Finds(v)'
  BY <1>2, <1>9, <1>10, LookGoesOn
<1>. QED
  BY <1>6, <1>11 DEF Look

LEMMA LookReturn ==
  ASSUME RtSetReturn, NEW t \in RtReaders, Look(rtWalk[t])
  PROVE  Look(rtWalk[t])'
<1>1. /\ Set /\ ~Set' /\ UNCHANGED <<rtList, rtWalk>> /\ rtTold' = Retold(rtSet.route)
  BY DEF RtSetReturn, RtIdleSet, Set
<1>. QED
  BY <1>1 DEF Look, CouldHas, SoFar, Finds

LEMMA LookSame ==
  ASSUME NEW t \in RtReaders, Look(rtWalk[t]), rtWalk'[t] = rtWalk[t],
         UNCHANGED <<rtList, rtTold>>,
         UNCHANGED rtSet \/ ~Set'
  PROVE  Look(rtWalk[t])'
BY DEF Look, CouldHas, SoFar, Finds, Set, Retold

LEMMA LookWalks ==
  ASSUME RtTypes, Table, RtTypes', NEW t \in RtReaders, Look(rtWalk[t]),
         RtFind(t) \/ RtVisit(t) \/ RtEnd(t) \/ RtAnswer(t) \/ RtReturn(t)
  PROVE  Look(rtWalk[t])'
<1>. DEFINE w == rtWalk[t]  p == rtSet.route
<1>1. PICK v : v = rtWalk'[t]
  OBVIOUS
<1>2. /\ w \in RtLookup /\ v \in RtLookup /\ rtWalk \in [RtReaders -> RtLookup]
      /\ rtList \in Seq(RtEntry) /\ w.best <= Len(rtList)
      /\ Len(rtList) \in Nat /\ DOMAIN rtList = 1 .. Len(rtList)
  BY <1>1 DEF RtTypes
<1>3. /\ w.at \in Nat \ {0} /\ w.best \in Nat /\ w.mask \in 0 .. RtBits /\ RtBits \in Nat
      /\ \A i \in DOMAIN rtList : rtList[i] \in RtEntry /\ rtList[i].netmask \in 0 .. RtBits
  <2>1. \A i \in DOMAIN rtList : rtList[i] \in RtEntry
    BY <1>2
  <2>. QED
    BY <1>2, <2>1, RtAssumption DEF RtLookup, RtEntry
<1>4. UNCHANGED <<rtList, rtSet, rtTold>>
  BY DEF RtFind, RtVisit, RtEnd, RtAnswer, RtReturn
<1>. SUFFICES CouldHas(v) /\ SoFar(v) /\ Finds(v)
  BY <1>1, <1>4 DEF Look, CouldHas, SoFar, Finds, Set, Retold
<1>5. CASE RtFind(t)
  <2>1. PICK a \in RtAddresses :
     rtWalk' = [rtWalk EXCEPT ![t] =
       [RtIdleWalk EXCEPT !.phase = "walk", !.address = a,
          !.could = Answers(rtTold, a) \cup
                    IF rtSet.at = "idle" THEN {} ELSE Answers(Retold(rtSet.route), a)]]
    BY <1>5 DEF RtFind
  <2>2. /\ v.phase = "walk" /\ v.address = a /\ v.at = 1 /\ v.best = 0 /\ v.mask = 0
        /\ v.could = Answers(rtTold, a) \cup IF rtSet.at = "idle" THEN {} ELSE Answers(Retold(p), a)
    BY <1>1, <1>2, <2>1 DEF RtIdleWalk
  <2>3. ASSUME Set, NEW c \in v.could, c # NoRoute, SameNet(c, p) PROVE p \in v.could
    <3>1. CASE c \in Answers(Retold(p), a)
      BY <2>2, <2>3, <3>1, AnswersOfRetold DEF Set
    <3>2. CASE c \in Answers(rtTold, a)
      <4>1. c \in rtTold /\ Matches(c, a) /\ \A s \in rtTold : Matches(s, a) => s.netmask <= c.netmask
        BY <2>3, <3>2 DEF Answers, Longest
      <4>2. p.netmask = c.netmask /\ Matches(p, a)
        BY <2>3, <4>1, SameNetMatches
      <4>3. p.netmask \in Int /\ p \in Retold(p)
        BY DEF RtTypes, RtRoute, Retold
      <4>4. \A s \in Retold(p) : Matches(s, a) => s.netmask <= p.netmask
        BY <4>1, <4>2, <4>3 DEF Retold
      <4>5. p \in Answers(Retold(p), a)
        BY <4>2, <4>3, <4>4, LongestIsAnswer
      <4>. QED
        BY <2>2, <2>3, <4>5 DEF Set
    <3>. QED
      BY <2>2, <2>3, <3>1, <3>2 DEF Set
  <2>4. CouldHas(v)
    BY <2>2, <2>3 DEF CouldHas, Set
  <2>5. SoFar(v)
    BY <1>2, <2>2 DEF SoFar
  <2>. QED
    BY <2>2, <2>4, <2>5 DEF Finds
<1>6. CASE RtVisit(t)
  <2>. DEFINE i == w.at
              e == rtList[i]
              seen == [w EXCEPT !.fair = w.fair /\ FieldsSet(w.at), !.at = w.at + 1]
  <2>1. w.phase = "walk" /\ i \in DOMAIN rtList /\ e.netmask \in 0 .. RtBits
    BY <1>2, <1>3, <1>6 DEF RtVisit
  <2>2. v = IF e.address = w.address /\ e.netmask = RtBits
            THEN [seen EXCEPT !.best = w.at, !.phase = "found"]
            ELSE IF Matches(e, w.address) /\ e.netmask >= w.mask THEN Better(seen, w.at)
            ELSE seen
    BY <1>1, <1>2, <1>6 DEF RtVisit
  <2>3. /\ seen.phase = "walk" /\ seen.address = w.address /\ seen.could = w.could
        /\ seen.at = i + 1 /\ seen.best = w.best /\ seen.mask = w.mask
        /\ seen.fair => w.fair /\ Whole(e)
    BY <1>2, <2>1 DEF RtLookup, FieldsSet, Whole
  <2>4. DOMAIN seen = DOMAIN w /\ {"phase", "address", "could", "at", "best", "mask", "fair"} \subseteq DOMAIN w
    BY <1>2 DEF RtLookup
  <2>. HIDE DEF seen
  <2>5. CASE e.address = w.address /\ e.netmask = RtBits
    <3>1. v = [seen EXCEPT !.best = i, !.phase = "found"]
      BY <2>2, <2>5
    <3>2. /\ v.phase = "found" /\ v.address = w.address /\ v.could = w.could /\ v.best = i
          /\ v.fair => w.fair /\ Whole(e)
      BY <2>3, <2>4, <3>1
    <3>3. CouldHas(v) /\ SoFar(v)
      BY <2>1, <3>2 DEF Look, CouldHas, SoFar
    <3>4. ASSUME v.fair PROVE Reads(e, w.could)
      <4>1. Matches(e, w.address)
        BY <2>5 DEF Matches
      <4>2. \A j \in Others : rtList[j].netmask <= e.netmask
        BY <1>3, <2>5 DEF Others
      <4>3. p.netmask <= e.netmask
        BY <2>5 DEF RtTypes, RtRoute
      <4>. QED
        BY <2>1, <3>2, <3>4, <4>1, <4>2, <4>3, BestIsRight DEF Look, CouldHas
    <3>. QED
      BY <1>3, <2>1, <3>2, <3>3, <3>4 DEF Finds
  <2>6. CASE /\ ~(e.address = w.address /\ e.netmask = RtBits)
             /\ Matches(e, w.address) /\ e.netmask >= w.mask
    <3>1. v = [seen EXCEPT !.best = i, !.mask = e.netmask]
      BY <2>2, <2>6 DEF Better
    <3>2. /\ v.phase = "walk" /\ v.address = w.address /\ v.could = w.could /\ v.best = i
          /\ v.at = i + 1 /\ v.mask = e.netmask
          /\ v.fair => w.fair /\ Whole(e)
      BY <2>3, <2>4, <3>1
    <3>3. CouldHas(v) /\ Finds(v)
      BY <2>1, <3>2 DEF Look, CouldHas, Finds
    <3>4. ASSUME v.fair, NEW j \in DOMAIN rtList, j < v.at
          PROVE  Whole(rtList[j]) /\ (Matches(rtList[j], w.address) => rtList[j].netmask <= e.netmask)
      <4>1. CASE j = i
        BY <2>1, <3>2, <3>4, <4>1
      <4>2. CASE j # i
        <5>1. j < i
          BY <1>2, <1>3, <3>2, <3>4, <4>2
        <5>2. Whole(rtList[j]) /\ (Matches(rtList[j], w.address) => rtList[j].netmask <= w.mask)
          BY <2>1, <3>2, <3>4, <5>1 DEF Look, SoFar
        <5>. QED
          BY <1>3, <2>1, <2>6, <5>2
      <4>. QED
        BY <4>1, <4>2
    <3>5. SoFar(v)
      BY <1>2, <1>3, <2>1, <2>6, <3>2, <3>4 DEF SoFar
    <3>. QED
      BY <3>3, <3>5
  <2>7. CASE /\ ~(e.address = w.address /\ e.netmask = RtBits)
             /\ ~(Matches(e, w.address) /\ e.netmask >= w.mask)
    <3>1. v = seen
      BY <2>2, <2>7
    <3>2. CouldHas(v) /\ Finds(v)
      BY <2>1, <2>3, <3>1 DEF Look, CouldHas, Finds
    <3>3. ASSUME v.fair, NEW j \in DOMAIN rtList, j < v.at
          PROVE  Whole(rtList[j]) /\ (Matches(rtList[j], w.address) => w.best # 0 /\ rtList[j].netmask <= w.mask)
      <4>1. CASE j = i
        <5>1. Matches(e, w.address) => e.netmask < w.mask
          BY <1>3, <2>1, <2>7
        <5>2. w.best = 0 => w.mask = 0
          BY <2>1, <2>3, <3>1, <3>3 DEF Look, SoFar
        <5>. QED
          BY <1>3, <2>1, <2>3, <3>1, <3>3, <4>1, <5>1, <5>2
      <4>2. CASE j # i
        <5>1. j < i
          BY <1>2, <1>3, <2>3, <3>1, <3>3, <4>2
        <5>. QED
          BY <2>1, <2>3, <3>1, <3>3, <5>1 DEF Look, SoFar
      <4>. QED
        BY <4>1, <4>2
    <3>4. ASSUME v.fair, w.best # 0
          PROVE  /\ w.best \in DOMAIN rtList /\ w.best < w.at /\ Matches(rtList[w.best], w.address)
                 /\ w.mask = rtList[w.best].netmask
      BY <2>1, <2>3, <3>1, <3>4 DEF Look, SoFar
    <3>5. v.fair /\ w.best = 0 => w.mask = 0
      BY <2>1, <2>3, <3>1 DEF Look, SoFar
    <3>6. SoFar(v)
      BY <1>2, <1>3, <2>1, <2>3, <3>1, <3>3, <3>4, <3>5 DEF SoFar
    <3>. QED
      BY <3>2, <3>6
  <2>. QED
    BY <2>5, <2>6, <2>7
<1>7. CASE RtEnd(t)
  <2>1. w.phase = "walk" /\ w.at > Len(rtList) /\ v = [w EXCEPT !.phase = "found"]
    BY <1>1, <1>2, <1>7 DEF RtEnd
  <2>2. /\ v.phase = "found" /\ v.address = w.address /\ v.could = w.could /\ v.best = w.best
        /\ v.fair = w.fair
    BY <1>2, <2>1 DEF RtLookup
  <2>3. CouldHas(v) /\ SoFar(v)
    BY <2>1, <2>2 DEF Look, CouldHas, SoFar
  <2>4. /\ Answers(rtTold, w.address) \subseteq w.could
        /\ Set => Answers(Retold(p), w.address) \subseteq w.could
    BY <2>1 DEF Look, CouldHas
  <2>5. CASE ~w.fair
    BY <2>2, <2>3, <2>5 DEF Finds
  <2>6. CASE w.fair
    <3>1. ASSUME NEW i \in DOMAIN rtList
          PROVE  /\ Whole(rtList[i])
                 /\ Matches(rtList[i], w.address) => w.best # 0 /\ rtList[i].netmask <= w.mask
      <4>1. i < w.at
        BY <1>2, <1>3, <2>1
      <4>. QED
        BY <2>1, <2>6, <4>1 DEF Look, SoFar
    <3>2. CASE w.best = 0
      <4>1. \A i \in DOMAIN rtList : Whole(rtList[i]) /\ ~Matches(rtList[i], w.address)
        BY <3>1, <3>2
      <4>2. NoRoute \in w.could
        BY <2>4, <4>1, NothingIsRight
      <4>. QED
        BY <2>2, <2>3, <3>2, <4>2 DEF Finds
    <3>3. CASE w.best # 0
      <4>. DEFINE b == w.best
      <4>1. b \in DOMAIN rtList /\ Matches(rtList[b], w.address) /\ w.mask = rtList[b].netmask
        BY <2>1, <2>6, <3>3 DEF Look, SoFar
      <4>2. Whole(rtList[b])
        BY <3>1, <4>1
      <4>3. \A i \in Others : Matches(rtList[i], w.address) => rtList[i].netmask <= rtList[b].netmask
        <5>1. \A i \in Others : i \in DOMAIN rtList
          BY DEF Others
        <5>. QED
          BY <3>1, <4>1, <5>1
      <4>4. ASSUME Set, Matches(p, w.address) PROVE p.netmask <= rtList[b].netmask
        <5>. DEFINE n == rtSet.entry
        <5>1. n \in DOMAIN rtList
          BY <4>4 DEF Table, Stores
        <5>2. rtList[n].mac # RtUnset
          BY <3>1, <5>1 DEF Whole
        <5>3. rtSet.at \in {"iface", "mac", "return"}
          BY <4>4, <5>2 DEF Table, OldOrUnset, Set, RtTypes
        <5>4. SameNet(rtList[n], p)
          BY <4>4, <5>3 DEF Table, Stores, SameNet
        <5>5. Matches(rtList[n], w.address) /\ rtList[n].netmask = p.netmask
          BY <4>4, <5>4, SameNetMatches
        <5>. QED
          BY <3>1, <4>1, <5>1, <5>5
      <4>5. Reads(rtList[b], w.could)
        BY <2>4, <4>1, <4>2, <4>3, <4>4, BestIsRight
      <4>. QED
        BY <2>2, <2>3, <3>3, <4>2, <4>5 DEF Finds
    <3>. QED
      BY <3>2, <3>3
  <2>. QED
    BY <2>3, <2>5, <2>6
<1>8. CASE RtAnswer(t)
  <2>1. v.phase = "answered"
    BY <1>1, <1>2, <1>8 DEF RtAnswer, RtIdleWalk
  <2>. QED
    BY <2>1 DEF CouldHas, SoFar, Finds
<1>9. CASE RtReturn(t)
  <2>1. v.phase = "idle"
    BY <1>1, <1>2, <1>9 DEF RtReturn, RtIdleWalk
  <2>. QED
    BY <2>1 DEF CouldHas, SoFar, Finds
<1>. QED
  BY <1>5, <1>6, <1>7, <1>8, <1>9

(* The answers.                                                             *)
RightAnswer(v) ==
  v.phase = "answered" /\ v.fair =>
    \E r, s \in v.could : SameNet(r, s) /\ v.got = [r EXCEPT !.mac = s.mac]

LEMMA LongestKept ==
  ASSUME RtLongest, \A t \in RtReaders : rtWalk'[t] = rtWalk[t] \/ RightAnswer(rtWalk'[t])
  PROVE  RtLongest'
<1>1. ASSUME NEW t \in RtReaders
      PROVE  LET w == rtWalk'[t] IN
             w.phase = "answered" /\ w.fair =>
               \E r, s \in w.could : SameNet(r, s) /\ w.got = [r EXCEPT !.mac = s.mac]
  <2>1. CASE rtWalk'[t] = rtWalk[t]
    BY <2>1 DEF RtLongest
  <2>2. CASE RightAnswer(rtWalk'[t])
    BY <2>2 DEF RightAnswer
  <2>. QED
    BY <2>1, <2>2
<1>. QED
  BY <1>1 DEF RtLongest

LEMMA LongestStep ==
  ASSUME RtTypes, RtLongest, NEW t \in RtReaders, Look(rtWalk[t]),
         RtFind(t) \/ RtVisit(t) \/ RtEnd(t) \/ RtAnswer(t) \/ RtReturn(t)
  PROVE  RtLongest'
<1>. DEFINE w == rtWalk[t]
<1>1. /\ w \in RtLookup /\ rtWalk \in [RtReaders -> RtLookup]
      /\ \A u \in RtReaders : u = t \/ rtWalk'[u] = rtWalk[u]
  BY DEF RtTypes, RtFind, RtVisit, RtEnd, RtAnswer, RtReturn
<1>. SUFFICES RightAnswer(rtWalk'[t])
  BY <1>1, LongestKept
<1>. USE DEF RightAnswer
<1>3. CASE RtFind(t)
  <2>1. rtWalk'[t].phase = "walk"
    BY <1>1, <1>3 DEF RtFind, RtIdleWalk
  <2>. QED
    BY <2>1
<1>4. CASE RtVisit(t)
  <2>1. rtWalk'[t].phase \in {"walk", "found"}
    BY <1>1, <1>4 DEF RtVisit, RtLookup, Better
  <2>. QED
    BY <2>1
<1>5. CASE RtEnd(t)
  <2>1. rtWalk'[t].phase = "found"
    BY <1>1, <1>5 DEF RtEnd, RtLookup
  <2>. QED
    BY <2>1
<1>6. CASE RtAnswer(t)
  <2>. DEFINE got == IF w.best = 0 THEN NoRoute ELSE rtList[w.best]
  <2>1. /\ w.phase = "found" /\ rtWalk'[t].fair = w.fair /\ rtWalk'[t].could = w.could
        /\ rtWalk'[t].got = got
    BY <1>1, <1>6 DEF RtAnswer, RtIdleWalk
  <2>2. CASE ~w.fair
    BY <2>1, <2>2
  <2>3. CASE w.fair
    <3>1. CASE w.best = 0
      <4>1. NoRoute \in w.could
        BY <2>1, <2>3, <3>1 DEF Look, Finds
      <4>2. SameNet(NoRoute, NoRoute) /\ NoRoute = [NoRoute EXCEPT !.mac = NoRoute.mac]
        BY DEF SameNet, NoRoute, Route
      <4>. QED
        BY <2>1, <3>1, <4>1, <4>2
    <3>2. CASE w.best # 0
      BY <2>1, <2>3, <3>2 DEF Look, Finds, Reads
    <3>. QED
      BY <3>1, <3>2
  <2>. QED
    BY <2>2, <2>3
<1>7. CASE RtReturn(t)
  <2>1. rtWalk'[t].phase = "idle"
    BY <1>1, <1>7 DEF RtReturn, RtIdleWalk
  <2>. QED
    BY <2>1
<1>. QED
  BY <1>3, <1>4, <1>5, <1>6, <1>7

LEMMA CallKeepsPhases ==
  ASSUME RtTypes, RtSetCall, NEW t \in RtReaders
  PROVE  rtWalk'[t] = rtWalk[t] \/ (rtWalk'[t].phase = rtWalk[t].phase /\ rtWalk[t].phase \in {"walk", "found"})
<1>1. CASE rtWalk' = rtWalk
  BY <1>1
<1>2. CASE \E r : NowAlso(r)
  <2>1. PICK r : NowAlso(r)
    BY <1>2
  <2>2. rtWalk[t] \in RtLookup
    BY DEF RtTypes
  <2>3. CASE rtWalk[t].phase \notin {"walk", "found"}
    BY <2>1, <2>3 DEF NowAlso
  <2>4. CASE rtWalk[t].phase \in {"walk", "found"}
    <3>1. rtWalk'[t] = [rtWalk[t] EXCEPT !.could = @ \cup Renewed(@, r) \cup Answers(Retold(r), rtWalk[t].address)]
      BY <2>1, <2>4 DEF NowAlso
    <3>. QED
      BY <2>2, <2>4, <3>1 DEF RtLookup
  <2>. QED
    BY <2>3, <2>4
<1>. QED
  BY <1>1, <1>2 DEF RtSetCall

LEMMA LongestSame == RtLongest /\ UNCHANGED rtWalk => RtLongest'
BY DEF RtLongest

LEMMA RestingStep == RtTypes /\ Resting /\ RtNext => Resting'
<1>. SUFFICES ASSUME RtTypes, Resting, RtNext PROVE Resting'
  OBVIOUS
<1>1. rtWalk \in [RtReaders -> RtLookup]
  BY DEF RtTypes
<1>2. CASE RtUnknown \/ RtSetField \/ RtSetReturn \/ RtClear
  BY <1>2 DEF RtUnknown, RtSetField, RtSetReturn, RtClear, Resting
<1>3. CASE RtSetCall
  BY <1>3, CallKeepsPhases DEF Resting
<1>4. ASSUME NEW t \in RtReaders, RtFind(t) \/ RtVisit(t) \/ RtEnd(t) \/ RtAnswer(t) \/ RtReturn(t)
      PROVE  Resting'
  <2>1. rtWalk' = [rtWalk EXCEPT ![t] = rtWalk'[t]]
    BY <1>1, <1>4 DEF RtFind, RtVisit, RtEnd, RtAnswer, RtReturn
  <2>2. rtWalk'[t].phase = "idle" => rtWalk'[t].best = 0
    <3>1. rtWalk[t] \in RtLookup
      BY <1>1
    <3>2. CASE RtFind(t)
      BY <1>1, <3>2 DEF RtFind, RtIdleWalk
    <3>3. CASE RtVisit(t)
      BY <1>1, <3>1, <3>3 DEF RtVisit, RtLookup, Better
    <3>4. CASE RtEnd(t)
      BY <1>1, <3>1, <3>4 DEF RtEnd, RtLookup
    <3>5. CASE RtAnswer(t)
      BY <1>1, <3>5 DEF RtAnswer, RtIdleWalk
    <3>6. CASE RtReturn(t)
      BY <1>1, <3>6 DEF RtReturn, RtIdleWalk
    <3>. QED
      BY <1>4, <3>2, <3>3, <3>4, <3>5, <3>6
  <2>. QED
    BY <1>1, <2>1, <2>2 DEF Resting
<1>. QED
  BY <1>2, <1>3, <1>4 DEF RtNext

(* The table, and every lookup that is under way or has its answer.          *)
RtInv == /\ RtTypes /\ Resting /\ Table
         /\ \A t \in RtReaders : Look(rtWalk[t])
         /\ RtLongest

LEMMA RtInvInit == RtInit => RtInv
<1>. SUFFICES ASSUME RtInit PROVE RtInv
  OBVIOUS
<1>1. \A t \in RtReaders : rtWalk[t].phase = "idle" /\ rtWalk[t].best = 0
  BY DEF RtInit, RtIdleWalk
<1>2. \A t \in RtReaders : Look(rtWalk[t])
  BY <1>1 DEF Look, CouldHas, SoFar, Finds
<1>3. RtLongest /\ Resting
  BY <1>1 DEF RtLongest, Resting
<1>. QED
  BY <1>2, <1>3, RtTypesInit, TableInit DEF RtInv

LEMMA RtInvNext == RtInv /\ [RtNext]_rtVars => RtInv'
<1>. SUFFICES ASSUME RtInv, [RtNext]_rtVars PROVE RtInv'
  OBVIOUS
<1>0. RtTypes /\ Resting /\ Table /\ RtLongest /\ \A t \in RtReaders : Look(rtWalk[t])
  BY DEF RtInv
<1>1. CASE RtUnknown
  <2>1. UNCHANGED <<rtList, rtWalk, rtTold>> /\ rtSet.at = "idle" /\ rtSet'.at = "idle"
    BY <1>1 DEF RtUnknown, RtIdleSet
  <2>2. RtTypes' /\ Resting' /\ Table'
    <3>1. RtNext
      BY <1>1 DEF RtNext
    <3>. QED
      BY <1>0, <1>1, <2>1, <3>1, RtTypesSet, RestingStep, TableIdle
  <2>3. \A t \in RtReaders : Look(rtWalk[t])'
    BY <1>0, <2>1, LookSame DEF Set
  <2>. QED
    BY <1>0, <2>1, <2>2, <2>3, LongestSame DEF RtInv
<1>2. CASE RtSetCall
  <2>0. RtNext
    BY <1>2 DEF RtNext
  <2>1. RtTypes' /\ Resting' /\ Table'
    BY <1>0, <1>2, <2>0, RtTypesSet, RestingStep, TableCall
  <2>2. \A t \in RtReaders : Look(rtWalk[t])'
    BY <1>0, <1>2, <2>1, LookCall
  <2>3. RtLongest'
    <3>1. \A t \in RtReaders : rtWalk'[t] = rtWalk[t] \/ RightAnswer(rtWalk'[t])
      BY <1>0, <1>2, CallKeepsPhases DEF RightAnswer
    <3>. QED
      BY <1>0, <3>1, LongestKept
  <2>. QED
    BY <2>1, <2>2, <2>3 DEF RtInv
<1>3. CASE RtSetField
  <2>0. RtNext
    BY <1>3 DEF RtNext
  <2>1. RtTypes' /\ Resting' /\ Table'
    BY <1>0, <1>3, <2>0, RtTypesSet, RestingStep, TableField
  <2>2. \A t \in RtReaders : Look(rtWalk[t])'
    BY <1>0, <1>3, <2>1, LookField
  <2>3. RtLongest'
    BY <1>0, <1>3, LongestSame DEF RtSetField
  <2>. QED
    BY <2>1, <2>2, <2>3 DEF RtInv
<1>4. CASE RtSetReturn
  <2>0. RtNext
    BY <1>4 DEF RtNext
  <2>1. RtTypes' /\ Resting' /\ Table'
    BY <1>0, <1>4, <2>0, RtTypesSet, RestingStep, TableReturn
  <2>2. \A t \in RtReaders : Look(rtWalk[t])'
    BY <1>0, <1>4, LookReturn
  <2>3. RtLongest'
    BY <1>0, <1>4, LongestSame DEF RtSetReturn
  <2>. QED
    BY <2>1, <2>2, <2>3 DEF RtInv
<1>5. ASSUME NEW t \in RtReaders, RtFind(t) \/ RtVisit(t) \/ RtEnd(t) \/ RtAnswer(t) \/ RtReturn(t)
      PROVE  RtInv'
  <2>1. UNCHANGED <<rtList, rtSet, rtTold>> /\ \A u \in RtReaders \ {t} : rtWalk'[u] = rtWalk[u]
    BY <1>0, <1>5 DEF RtTypes, RtFind, RtVisit, RtEnd, RtAnswer, RtReturn
  <2>2. RtTypes' /\ Resting' /\ Table'
    <3>1. RtNext
      BY <1>5 DEF RtNext
    <3>. QED
      BY <1>0, <1>5, <2>1, <3>1, RtTypesWalk, RestingStep, TableSame
  <2>3. Look(rtWalk[t])'
    BY <1>0, <1>5, <2>2, LookWalks
  <2>4. ASSUME NEW u \in RtReaders \ {t} PROVE Look(rtWalk[u])'
    BY <1>0, <2>1, LookSame
  <2>5. RtLongest'
    BY <1>0, <1>5, LongestStep
  <2>. QED
    BY <2>2, <2>3, <2>4, <2>5 DEF RtInv
<1>6. CASE RtClear
  <2>1. RtTypes' /\ Resting' /\ Table'
    <3>1. RtNext
      BY <1>6 DEF RtNext
    <3>. QED
      BY <1>0, <1>6, <3>1, RtTypesClear, RestingStep, TableClear
  <2>2. \A t \in RtReaders : rtWalk'[t].phase = "idle"
    BY <1>6 DEF RtClear, RtAlone
  <2>3. \A t \in RtReaders : Look(rtWalk[t])'
    BY <2>2 DEF Look, CouldHas, SoFar, Finds
  <2>4. RtLongest'
    BY <2>2 DEF RtLongest
  <2>. QED
    BY <2>1, <2>3, <2>4 DEF RtInv
<1>7. CASE UNCHANGED rtVars
  <2>1. UNCHANGED <<rtList, rtSet, rtTold, rtWalk>>
    BY <1>7 DEF rtVars
  <2>2. RtTypes' /\ Resting'
    BY <1>0, <2>1 DEF RtTypes, Resting
  <2>3. Table'
    BY <1>0, <2>1, TableSame
  <2>4. \A t \in RtReaders : Look(rtWalk[t])'
    BY <1>0, <2>1, LookSame
  <2>5. RtLongest'
    BY <1>0, <2>1, LongestSame
  <2>. QED
    BY <2>2, <2>3, <2>4, <2>5 DEF RtInv
<1>. QED
  BY <1>1, <1>2, <1>3, <1>4, <1>5, <1>6, <1>7 DEF RtNext

(* The invariant holds, for any routes, texts, interfaces and readers.       *)
THEOREM RouteInvariance == RtSpec => []RtInv
<1>. QED
  BY RtInvInit, RtInvNext, PTL DEF RtSpec

(* csp_rtable_find_iface and csp_rtable_find_mac answer with a longest match *)
(* of some time during the lookup, however many calls of csp_rtable_set     *)
(* overlap it, unless they met an entry before its fields were set.          *)
THEOREM LookupsFindLongest == RtSpec => []RtLongest
<1>1. RtInv => RtLongest
  BY DEF RtInv
<1>. QED
  BY <1>1, RouteInvariance, PTL

(* Types; only the entry that csp_rtable_set works on can lack fields.        *)
LEMMA InvRtType == RtInv => RtTypeOK
<1>. SUFFICES ASSUME RtInv PROVE RtTypeOK
  OBVIOUS
<1>1. RtTypes /\ Table
  BY DEF RtInv
<1>2. ASSUME NEW i \in DOMAIN rtList
      PROVE  /\ rtList[i].address \in RtAddresses /\ rtList[i].netmask \in 0 .. RtBits
             /\ FieldsSet(i) \/ (rtSet.at \in DOMAIN After /\ rtSet.entry = i)
  <2>1. rtList[i] \in RtEntry /\ rtSet.route \in RtRoute
    BY <1>1 DEF RtTypes
  <2>2. rtList[i].address \in RtAddresses /\ rtList[i].netmask \in 0 .. RtBits
    BY <2>1 DEF RtEntry
  <2>3. CASE i \in Others
    BY <1>1, <2>2, <2>3 DEF Table, OneEach, Whole, FieldsSet
  <2>4. CASE i \notin Others
    <3>1. Set /\ rtSet.entry = i
      BY <2>4 DEF Others
    <3>2. CASE rtSet.at = "return"
      <4>1. rtList[i].iface = rtSet.route.iface /\ rtList[i].mac = rtSet.route.mac
        BY <1>1, <3>1, <3>2 DEF Table, Stores
      <4>. QED
        BY <2>1, <2>2, <4>1, RtAssumption DEF FieldsSet, RtRoute
    <3>3. CASE rtSet.at # "return"
      <4>1. rtSet.at \in {"address", "netmask", "iface", "mac"}
        BY <1>1, <3>1, <3>3 DEF Set, RtTypes
      <4>. QED
        BY <2>2, <3>1, <4>1 DEF After
    <3>. QED
      BY <3>2, <3>3
  <2>. QED
    BY <2>3, <2>4
<1>. QED
  BY <1>1, <1>2 DEF RtTypeOK, RtTypes

(* The own address is always at the head of the list.                       *)
OwnHead ==
  /\ rtList # <<>> /\ SameNet(rtList[1], RtCleared[1])
  /\ rtSet.at \in {"address", "netmask"} => rtSet.entry # 1

LEMMA OwnHeadInit == RtInit => OwnHead
BY DEF RtInit, OwnHead, RtCleared, SameNet, Route, RtIdleSet

LEMMA OwnHeadNext == RtTypes /\ Table /\ OwnHead /\ [RtNext]_rtVars => OwnHead'
<1>. SUFFICES ASSUME RtTypes, Table, OwnHead, [RtNext]_rtVars PROVE OwnHead'
  OBVIOUS
<1>1. rtList \in Seq(RtEntry) /\ rtList # <<>> /\ Len(rtList) \in Nat \ {0} /\ 1 \in DOMAIN rtList
  BY DEF RtTypes, OwnHead
<1>2. ASSUME UNCHANGED rtList, rtSet'.at \notin {"address", "netmask"} PROVE OwnHead'
  BY <1>2 DEF OwnHead
<1>3. CASE RtUnknown \/ RtSetReturn
  BY <1>2, <1>3 DEF RtUnknown, RtSetReturn, RtIdleSet
<1>4. CASE RtSetCall
  <2>1. PICK text \in RtText :
          LET r == Plain(Parsed(Head(text)))
              Store(at, i) == rtSet' = [at |-> at, entry |-> i, route |-> r, rest |-> Tail(text)]
          IN \/ \E i \in DOMAIN rtList : Store("iface", i) /\ UNCHANGED rtList
             \/ /\ Store("address", Len(rtList) + 1)
                /\ \E a \in RtAddresses, n \in 0 .. RtBits :
                     rtList' = Append(rtList, Route(a, n, RtUnset, RtUnset))
             \/ rtSet' = [RtIdleSet EXCEPT !.rest = Tail(text)] /\ UNCHANGED rtList
    BY <1>4 DEF RtSetCall
  <2>2. CASE UNCHANGED rtList
    BY <1>1, <1>2, <2>1, <2>2 DEF RtIdleSet
  <2>3. ASSUME NEW e, rtList' = Append(rtList, e), rtSet'.entry = Len(rtList) + 1 PROVE OwnHead'
    <3>1. rtList' # <<>> /\ rtList'[1] = rtList[1]
      BY <1>1, <2>3
    <3>. QED
      BY <1>1, <2>3, <3>1 DEF OwnHead, RtCleared
  <2>. QED
    BY <2>1, <2>2, <2>3 DEF RtIdleSet
<1>5. CASE RtSetField
  <2>1. /\ rtSet.at \in DOMAIN After
        /\ rtList' = [rtList EXCEPT ![rtSet.entry][rtSet.at] = rtSet.route[rtSet.at]]
        /\ rtSet' = [rtSet EXCEPT !.at = After[@]]
    BY <1>5 DEF RtSetField
  <2>2. rtSet'.entry = rtSet.entry /\ (rtSet'.at \in {"address", "netmask"} => rtSet.at = "address")
    BY <2>1 DEF After, RtTypes
  <2>3. rtList' \in Seq(RtEntry) /\ Len(rtList') = Len(rtList) /\ rtList' # <<>>
    <3>1. RtTypes'
      BY <1>5, RtTypesSet
    <3>2. DOMAIN rtList' = DOMAIN rtList
      BY <2>1
    <3>. QED
      BY <1>1, <3>1, <3>2 DEF RtTypes
  <2>4. rtList'[1].address = rtList[1].address /\ rtList'[1].netmask = rtList[1].netmask
    <3>1. CASE rtSet.entry # 1
      BY <1>1, <2>1, <3>1
    <3>2. CASE rtSet.entry = 1
      <4>1. rtSet.at \in {"iface", "mac"}
        BY <2>1, <3>2 DEF OwnHead, After
      <4>2. rtList[1] \in RtEntry
        BY <1>1
      <4>. QED
        BY <1>1, <2>1, <3>2, <4>1, <4>2 DEF RtEntry
    <3>. QED
      BY <3>1, <3>2
  <2>. QED
    BY <2>2, <2>3, <2>4 DEF OwnHead, SameNet, RtCleared
<1>6. CASE RtClear
  BY <1>6 DEF RtClear, RtAlone, RtIdleSet, OwnHead, RtCleared, SameNet
<1>7. CASE UNCHANGED <<rtList, rtSet>>
  BY <1>7 DEF OwnHead, RtCleared
<1>8. CASE \E t \in RtReaders : RtFind(t) \/ RtVisit(t) \/ RtEnd(t) \/ RtAnswer(t) \/ RtReturn(t)
  BY <1>7, <1>8 DEF RtFind, RtVisit, RtEnd, RtAnswer, RtReturn
<1>. QED
  BY <1>3, <1>4, <1>5, <1>6, <1>7, <1>8 DEF RtNext, rtVars

(* The words of an entry end one after the other.                            *)
LEMMA WordsEnd ==
  ASSUME NEW e \in RtRoute
  PROVE  /\ NetEnd(e) \in Nat /\ NameEnd(e) \in Nat /\ MacEnd(e) \in Nat /\ EntryLength(e) \in Nat
         /\ NetEnd(e) + 1 < NameEnd(e) /\ NameEnd(e) <= MacEnd(e) /\ MacEnd(e) < EntryLength(e)
         /\ e.mac # NodeMac => NameEnd(e) + 1 < MacEnd(e)
<1>1. \A n : Digits(n) \in Nat \ {0}
  BY DEF Digits
<1>2. RtLength[RtName[e.iface]] \in Nat \ {0}
  <2>1. e.iface \in RtIfaces
    BY DEF RtRoute
  <2>2. RtName[e.iface] \in RtNames
    BY <2>1 DEF RtNames
  <2>. QED
    BY <2>2, RtAssumption
<1>3. Digits(e.address) \in Nat \ {0} /\ Digits(e.netmask) \in Nat \ {0} /\ Digits(e.mac) \in Nat \ {0}
  BY <1>1
<1>. QED
  BY <1>2, <1>3 DEF NetEnd, NameEnd, MacEnd, EntryLength

(* An entry that is in the buffer as a whole is read as it was.              *)
LEMMA TokenIsEntry ==
  ASSUME NEW e \in RtRoute, NEW room \in Int, MacEnd(e) <= room
  PROVE  SavedToken(e, room) \in RtTokens /\ Parsed(SavedToken(e, room)) = e
<1>. DEFINE words == IF e.mac = NodeMac THEN 3 ELSE 4
<1>1. SavedToken(e, room) = [words |-> words, address |-> e.address, netmask |-> e.netmask,
                             name |-> RtName[e.iface], mac |-> e.mac]
  <2>1. ~(room <= NetEnd(e) + 1) /\ ~(room < NameEnd(e)) /\ room >= MacEnd(e)
    BY WordsEnd
  <2>2. e.mac = NodeMac \/ ~(room <= NameEnd(e) + 1)
    BY WordsEnd
  <2>3. (IF room <= NetEnd(e) + 1 THEN 2
         ELSE IF e.mac = NodeMac \/ room <= NameEnd(e) + 1 THEN 3 ELSE 4) = words
    BY <2>1, <2>2
  <2>. HIDE DEF words
  <2>. QED
    BY <2>1, <2>3, Zenon DEF SavedToken
<1>2. /\ e.address \in RtAddresses /\ e.netmask \in 0 .. RtBits /\ e.iface \in RtIfaces
      /\ e.mac \in 0 .. 255
      /\ e = [address |-> e.address, netmask |-> e.netmask, iface |-> e.iface, mac |-> e.mac]
  BY DEF RtRoute
<1>3. RtName[e.iface] \in RtNames /\ ByName(RtName[e.iface]) = e.iface
  BY <1>2, NamedIface DEF RtNames
<1>4. words \in 0 .. 4 /\ ~(words < 3) /\ (IF words = 4 THEN e.mac ELSE NodeMac) = e.mac
  OBVIOUS
<1>. HIDE DEF words
<1>. QED
  BY <1>1, <1>2, <1>3, <1>4 DEF Parsed, Route, RtTokens

(* The lengths that csp_rtable_save adds up.                                 *)
LEMMA LengthsAddUp ==
  ASSUME NEW list \in Seq(RtRoute)
  PROVE  LET upto == SavedUpto(list) IN
         /\ upto[0] = 0
         /\ \A n \in 1 .. Len(list) : upto[n] = upto[n - 1] + EntryLength(list[n])
<1>. DEFINE m == Len(list)
            Adds(f, k) == f[0] = 0 /\ \A n \in 1 .. k : f[n] = f[n - 1] + EntryLength(list[n])
            Upto(f) == [n \in 0 .. m |-> IF n = 0 THEN 0 ELSE f[n - 1] + EntryLength(list[n])]
            upto == CHOOSE f : f = Upto(f)
            S == {k \in 0 .. m : \E f \in [0 .. k -> Int] : Adds(f, k)}
<1>1. m \in Nat /\ \A n \in 1 .. m : EntryLength(list[n]) \in Nat
  BY WordsEnd
<1>. HIDE DEF m
<1>2. 0 \in S
  <2>. DEFINE f == [n \in 0 .. 0 |-> 0]
  <2>1. f \in [0 .. 0 -> Int] /\ f[0] = 0
    OBVIOUS
  <2>2. Adds(f, 0)
    BY <2>1
  <2>. HIDE DEF f, Adds
  <2>3. 0 \in 0 .. m
    BY <1>1
  <2>. QED
    BY <2>1, <2>2, <2>3
<1>3. ASSUME NEW k \in 0 .. m - 1, k \in S PROVE k + 1 \in S
  <2>1. PICK f \in [0 .. k -> Int] : Adds(f, k)
    BY <1>3
  <2>. DEFINE g == [n \in 0 .. k + 1 |-> IF n = k + 1 THEN f[k] + EntryLength(list[k + 1]) ELSE f[n]]
  <2>2. k \in Nat /\ k + 1 \in 1 .. m /\ f[k] \in Int /\ EntryLength(list[k + 1]) \in Nat
    BY <1>1
  <2>3. g \in [0 .. k + 1 -> Int]
    BY <2>2
  <2>4. g[0] = 0
    BY <2>1, <2>2
  <2>5. ASSUME NEW n \in 1 .. k + 1 PROVE g[n] = g[n - 1] + EntryLength(list[n])
    <3>1. n - 1 \in 0 .. k /\ n \in 0 .. k + 1 /\ n - 1 \in 0 .. k + 1 /\ n - 1 # k + 1
      BY <2>2
    <3>2. g[n - 1] = f[n - 1]
      BY <3>1
    <3>3. CASE n = k + 1
      <4>1. g[n] = f[k] + EntryLength(list[n]) /\ n - 1 = k
        BY <2>2, <3>3
      <4>. QED
        BY <3>2, <4>1
    <3>4. CASE n # k + 1
      <4>1. n \in 1 .. k /\ g[n] = f[n]
        BY <2>2, <3>4
      <4>. HIDE DEF g
      <4>. QED
        BY <2>1, <3>2, <4>1
    <3>. QED
      BY <3>3, <3>4
  <2>. HIDE DEF g
  <2>6. Adds(g, k + 1)
    BY <2>4, <2>5
  <2>7. k + 1 \in 0 .. m
    BY <1>1, <2>2
  <2>. QED
    BY <2>3, <2>6, <2>7
<1>4. m \in S
  <2>. HIDE DEF S
  <2>1. \A k \in 0 .. m : k \in S
    BY <1>1, <1>2, <1>3, AllNumbers
  <2>. QED
    BY <1>1, <2>1
<1>5. PICK f \in [0 .. m -> Int] : Adds(f, m)
  BY <1>4
<1>6. f = Upto(f)
  <2>1. \A n \in 0 .. m : f[n] = IF n = 0 THEN 0 ELSE f[n - 1] + EntryLength(list[n])
    BY <1>1, <1>5
  <2>. QED
    BY <2>1
<1>7. upto = Upto(upto)
  <2>. HIDE DEF Upto
  <2>. QED
    BY <1>6, Zenon
<1>. HIDE DEF upto
<1>8. upto[0] = 0 /\ \A n \in 1 .. m : upto[n] = upto[n - 1] + EntryLength(list[n])
  BY <1>1, <1>7
<1>. QED
  BY <1>8 DEF SavedUpto, upto, Upto, m

(* If all of them is less than the buffer, each entry is in it.               *)
LEMMA EntriesFit ==
  ASSUME NEW list \in Seq(RtRoute), SavedLength(list) < RtMaxlen
  PROVE  \A i \in DOMAIN list : /\ RtMaxlen - 1 - SavedUpto(list)[i - 1] \in Int
                                /\ MacEnd(list[i]) <= RtMaxlen - 1 - SavedUpto(list)[i - 1]
<1>. DEFINE m == Len(list)
            upto == SavedUpto(list)
            S == {n \in 0 .. m : upto[n] \in Nat /\ \A i \in 0 .. n : upto[i] \in Nat /\ upto[i] <= upto[n]}
<1>1. m \in Nat /\ DOMAIN list = 1 .. m
  OBVIOUS
<1>2. \A n \in 1 .. m : EntryLength(list[n]) \in Nat /\ MacEnd(list[n]) \in Nat
                        /\ MacEnd(list[n]) < EntryLength(list[n])
  BY WordsEnd
<1>3. upto[0] = 0 /\ \A n \in 1 .. m : upto[n] = upto[n - 1] + EntryLength(list[n])
  BY LengthsAddUp
<1>4. SavedLength(list) = upto[m]
  BY DEF SavedLength
<1>. HIDE DEF m, upto
<1>5. 0 \in S
  BY <1>1, <1>3
<1>6. ASSUME NEW n \in 0 .. m - 1, n \in S PROVE n + 1 \in S
  <2>1. n \in Nat /\ n + 1 \in 1 .. m /\ (n + 1) - 1 = n /\ n + 1 \in 0 .. m
    BY <1>1
  <2>2. upto[n + 1] = upto[n] + EntryLength(list[n + 1]) /\ EntryLength(list[n + 1]) \in Nat
    BY <1>2, <1>3, <2>1
  <2>3. upto[n] \in Nat /\ \A i \in 0 .. n : upto[i] \in Nat /\ upto[i] <= upto[n]
    BY <1>6
  <2>4. upto[n + 1] \in Nat /\ upto[n] <= upto[n + 1]
    BY <2>2, <2>3
  <2>5. ASSUME NEW i \in 0 .. n + 1 PROVE upto[i] \in Nat /\ upto[i] <= upto[n + 1]
    <3>1. CASE i = n + 1
      BY <2>4, <3>1
    <3>2. CASE i # n + 1
      <4>1. i \in 0 .. n
        BY <2>1, <3>2
      <4>. QED
        BY <2>3, <2>4, <4>1
    <3>. QED
      BY <3>1, <3>2
  <2>. QED
    BY <2>1, <2>4, <2>5
<1>7. m \in S
  <2>. HIDE DEF S
  <2>1. \A k \in 0 .. m : k \in S
    BY <1>1, <1>5, <1>6, AllNumbers
  <2>. QED
    BY <1>1, <2>1
<1>8. ASSUME NEW i \in 1 .. m
      PROVE  upto[i - 1] \in Nat /\ MacEnd(list[i]) <= RtMaxlen - 1 - upto[i - 1]
  <2>1. i - 1 \in 0 .. m /\ i \in 0 .. m
    BY <1>1
  <2>2. upto[i - 1] \in Nat /\ upto[i] \in Nat /\ upto[i] <= upto[m] /\ upto[m] \in Nat
    BY <1>7, <2>1
  <2>3. upto[i] = upto[i - 1] + EntryLength(list[i])
    BY <1>3
  <2>4. upto[m] < RtMaxlen /\ RtMaxlen \in Nat
    BY <1>4, RtAssumption
  <2>. QED
    BY <1>2, <2>2, <2>3, <2>4
<1>9. RtMaxlen \in Nat
  BY RtAssumption
<1>. QED
  BY <1>1, <1>8, <1>9 DEF upto

(* Nothing is lost in a text of csp_rtable_save that fits.                   *)
LEMMA SavedIsRead ==
  ASSUME NEW list \in Seq(RtRoute), SavedLength(list) < RtMaxlen
  PROVE  /\ Saved(list) \in Seq(RtTokens) /\ Len(Saved(list)) = Len(list)
         /\ \A i \in DOMAIN list : Parsed(Saved(list)[i]) = list[i]
<1>. DEFINE room(i) == RtMaxlen - 1 - SavedUpto(list)[i - 1]
<1>1. \A i \in DOMAIN list : room(i) \in Int /\ MacEnd(list[i]) <= room(i)
  BY EntriesFit
<1>. HIDE DEF room
<1>2. ASSUME NEW i \in DOMAIN list
      PROVE  SavedToken(list[i], room(i)) \in RtTokens /\ Parsed(SavedToken(list[i], room(i))) = list[i]
  BY <1>1, TokenIsEntry
<1>3. Saved(list) = [i \in DOMAIN list |-> SavedToken(list[i], room(i))]
  BY Zenon DEF Saved, room
<1>4. DOMAIN list = 1 .. Len(list) /\ Len(list) \in Nat
  OBVIOUS
<1>. DEFINE some == Saved(list)
<1>5. some \in [1 .. Len(list) -> RtTokens]
  BY <1>2, <1>3, <1>4
<1>6. \A i \in DOMAIN list : some[i] = SavedToken(list[i], room(i))
  BY <1>3
<1>. HIDE DEF some
<1>7. some \in Seq(RtTokens) /\ Len(some) = Len(list)
  BY <1>4, <1>5
<1>. QED
  BY <1>2, <1>6, <1>7 DEF some

(* Storing the routes of a list in their order makes its beginnings.        *)
LEMMA StoredNext ==
  ASSUME NEW list \in Seq(RtRoute), NEW n \in 1 .. Len(list),
         \A i, j \in DOMAIN list : SameNet(list[i], list[j]) => i = j,
         SameNet(list[1], RtCleared[1])
  PROVE  Stored(IF n = 1 THEN RtCleared ELSE SubSeq(list, 1, n - 1), list[n]) = SubSeq(list, 1, n)
<1>1. list[n] \in RtRoute /\ Plain(list[n]) = list[n]
  <2>1. list[n] \in RtRoute
    OBVIOUS
  <2>2. list[n].address # RtDefault
    <3>1. RtAddresses = 0 .. RtDefault - 1 /\ RtDefault \in Nat
      BY RtAssumption DEF RtAddresses, RtDefault
    <3>. QED
      BY <2>1, <3>1 DEF RtRoute
  <2>. QED
    BY <2>1, <2>2 DEF Plain
<1>2. CASE n = 1
  <2>1. {i \in DOMAIN RtCleared : SameNet(RtCleared[i], list[1])} = {1}
    BY DEF SameNet, RtCleared
  <2>2. Stored(RtCleared, list[1]) = [i \in {1} |-> list[1]]
    <3>1. DOMAIN RtCleared = {1}
      BY DEF RtCleared
    <3>. QED
      BY <1>1, <1>2, <2>1, <3>1 DEF Stored
  <2>3. SubSeq(list, 1, 1) = <<list[1]>>
    <3>1. 1 <= Len(list) /\ Len(list) \in Nat
      OBVIOUS
    <3>. DEFINE head == SubSeq(list, 1, 1)
    <3>2. head \in Seq(RtRoute) /\ Len(head) = 1 /\ head[1] = list[1]
      BY <3>1
    <3>. HIDE DEF head
    <3>3. head = <<head[1]>>
      BY <3>2
    <3>. QED
      BY <3>2, <3>3 DEF head
  <2>. QED
    BY <1>2, <2>2, <2>3
<1>3. CASE n # 1
  <2>. DEFINE some == SubSeq(list, 1, n - 1)
  <2>1. some \in Seq(RtRoute) /\ Len(some) = n - 1 /\ \A i \in 1 .. n - 1 : some[i] = list[i]
    BY <1>3
  <2>2. Append(some, list[n]) = SubSeq(list, 1, n)
    BY <1>3
  <2>. HIDE DEF some
  <2>3. {i \in DOMAIN some : SameNet(some[i], list[n])} = {}
    BY <1>3, <2>1
  <2>4. Stored(some, list[n]) = Append(some, list[n])
    BY <1>1, <2>3 DEF Stored
  <2>. QED
    BY <1>3, <2>2, <2>4 DEF some
<1>. QED
  BY <1>2, <1>3

(* So csp_rtable_load of a text that reads as a list makes that list.        *)
LEMMA LoadedIsList ==
  ASSUME NEW list \in Seq(RtRoute), list # <<>>,
         NEW tokens, Len(tokens) = Len(list), \A i \in DOMAIN list : Parsed(tokens[i]) = list[i],
         \A i, j \in DOMAIN list : SameNet(list[i], list[j]) => i = j,
         SameNet(list[1], RtCleared[1])
  PROVE  Loaded(RtCleared, tokens) = list
<1>. DEFINE m == Len(list)
            Ends(n) == \E i \in 1 .. n : Parsed(tokens[i]).iface = RtNull
            Upto(f) == [n \in 0 .. m |-> IF n = 0 THEN RtCleared
                                         ELSE IF Ends(n) THEN f[n - 1]
                                         ELSE Stored(f[n - 1], Parsed(tokens[n]))]
            first == [n \in 0 .. m |-> IF n = 0 THEN RtCleared ELSE SubSeq(list, 1, n)]
            upto == CHOOSE f : f = Upto(f)
<1>1. m \in Nat \ {0}
  OBVIOUS
<1>0. \A n \in 1 .. m : ~Ends(n) /\ Parsed(tokens[n]) = list[n]
  <2>1. \A n \in 1 .. m : Parsed(tokens[n]) = list[n] /\ list[n] \in RtRoute
    OBVIOUS
  <2>2. \A r \in RtRoute : r.iface # RtNull
    BY RtAssumption DEF RtRoute
  <2>. QED
    BY <1>1, <2>1, <2>2
<1>. HIDE DEF m, Ends
<1>2. ASSUME NEW n \in 1 .. m PROVE Stored(first[n - 1], list[n]) = first[n]
  <2>1. n - 1 \in 0 .. m /\ n \in 0 .. m /\ n # 0
    BY <1>1
  <2>2. first[n - 1] = IF n = 1 THEN RtCleared ELSE SubSeq(list, 1, n - 1)
    BY <1>1, <2>1
  <2>3. first[n] = SubSeq(list, 1, n)
    BY <2>1
  <2>. HIDE DEF first
  <2>. QED
    BY <2>2, <2>3, StoredNext DEF m
<1>3. first = Upto(first)
  <2>1. \A n \in 0 .. m : first[n] = IF n = 0 THEN RtCleared ELSE Stored(first[n - 1], list[n])
    <3>. SUFFICES ASSUME NEW n \in 0 .. m
                  PROVE  first[n] = IF n = 0 THEN RtCleared ELSE Stored(first[n - 1], list[n])
      OBVIOUS
    <3>1. CASE n = 0
      BY <3>1
    <3>2. CASE n # 0
      <4>1. n \in 1 .. m
        BY <1>1, <3>2
      <4>. HIDE DEF first
      <4>. QED
        BY <1>2, <3>2, <4>1
    <3>. QED
      BY <3>1, <3>2
  <2>2. first = [n \in 0 .. m |-> first[n]]
    OBVIOUS
  <2>. HIDE DEF first
  <2>3. \A n \in 0 .. m : first[n] = IF n = 0 THEN RtCleared
                                    ELSE IF Ends(n) THEN first[n - 1]
                                    ELSE Stored(first[n - 1], Parsed(tokens[n]))
    <3>. SUFFICES ASSUME NEW n \in 0 .. m, n # 0
                  PROVE  ~Ends(n) /\ Parsed(tokens[n]) = list[n]
      BY <2>1
    <3>. QED
      BY <1>0, <1>1
  <2>. QED
    BY <2>2, <2>3
<1>4. upto = Upto(upto)
  <2>. HIDE DEF first, Upto
  <2>. QED
    BY <1>3, Zenon
<1>. HIDE DEF upto
<1>5. upto[0] = RtCleared /\ \A n \in 1 .. m : upto[n] = Stored(upto[n - 1], list[n])
  <2>1. \A n \in 0 .. m : upto[n] = IF n = 0 THEN RtCleared
                                   ELSE IF Ends(n) THEN upto[n - 1]
                                   ELSE Stored(upto[n - 1], Parsed(tokens[n]))
    BY <1>4, Zenon
  <2>2. upto[0] = RtCleared
    BY <1>1, <2>1
  <2>3. ASSUME NEW n \in 1 .. m PROVE upto[n] = Stored(upto[n - 1], list[n])
    <3>1. n \in 0 .. m /\ n # 0
      BY <1>1
    <3>2. ~Ends(n) /\ Parsed(tokens[n]) = list[n]
      BY <1>0
    <3>. QED
      BY <2>1, <3>1, <3>2, Zenon
  <2>. QED
    BY <2>2, <2>3
<1>6. \A n \in 0 .. m : n \in {k \in 0 .. m : upto[k] = first[k]}
  <2>. DEFINE S == {k \in 0 .. m : upto[k] = first[k]}
  <2>1. 0 \in S
    BY <1>1, <1>5
  <2>2. ASSUME NEW n \in 0 .. m - 1, n \in S PROVE n + 1 \in S
    <3>1. n + 1 \in 1 .. m /\ n + 1 - 1 = n
      BY <1>1
    <3>. HIDE DEF first
    <3>2. upto[n + 1] = Stored(first[n], list[n + 1])
      BY <1>5, <2>2, <3>1
    <3>3. first[n + 1] = Stored(first[n], list[n + 1])
      BY <1>2, <3>1
    <3>. QED
      BY <3>1, <3>2, <3>3
  <2>. HIDE DEF S
  <2>3. \A n \in 0 .. m : n \in S
    BY <1>1, <2>1, <2>2, AllNumbers
  <2>. QED
    BY <2>3 DEF S
<1>7. upto[m] = SubSeq(list, 1, m)
  <2>1. upto[m] = first[m]
    <3>1. m \in 0 .. m
      BY <1>1
    <3>. HIDE DEF first
    <3>. QED
      BY <1>6, <3>1
  <2>. QED
    BY <1>1, <2>1
<1>8. SubSeq(list, 1, Len(list)) = list
  OBVIOUS
<1>. QED
  BY <1>7, <1>8, Zenon DEF Loaded, upto, Upto, Ends, m

LEMMA RoundTrip == RtInv /\ OwnHead => RtRoundTrip
<1>. SUFFICES ASSUME RtInv, OwnHead, rtSet.at = "idle", SavedLength(rtList) < RtMaxlen
              PROVE  Loaded(RtCleared, Saved(rtList)) = rtList
  BY DEF RtRoundTrip
<1>1. \A i, j \in DOMAIN rtList : SameNet(rtList[i], rtList[j]) => i = j
  BY DEF RtInv, Table, OneEach, Others, Set
<1>2. \A i \in DOMAIN rtList : rtList[i] \in RtEntry /\ Whole(rtList[i])
  BY DEF RtInv, RtTypes, Table, OneEach, Others, Set
<1>3. rtList \in Seq(RtRoute)
  <2>1. \A i \in DOMAIN rtList : rtList[i] \in RtRoute
    BY <1>2 DEF RtEntry, RtRoute, Whole
  <2>. QED
    BY <2>1 DEF RtInv, RtTypes
<1>4. rtList # <<>> /\ SameNet(rtList[1], RtCleared[1])
  BY DEF OwnHead
<1>. QED
  BY <1>1, <1>3, <1>4, SavedIsRead, LoadedIsList

(* What csp_rtable_save writes of a table of any length, when it returns less  *)
(* than the length of the buffer, csp_rtable_load reads back into the very     *)
(* same table after csp_rtable_clear, whatever the routes, the names and the   *)
(* MAC addresses.                                                           *)
THEOREM TableSurvives == RtSpec => []RtRoundTrip
<1>1. RtInit => RtInv /\ OwnHead
  BY RtInvInit, OwnHeadInit
<1>2. RtInv /\ OwnHead /\ [RtNext]_rtVars => (RtInv /\ OwnHead)'
  BY RtInvNext, OwnHeadNext DEF RtInv
<1>3. RtInv /\ OwnHead => RtRoundTrip
  BY RoundTrip
<1>. QED
  BY <1>1, <1>2, <1>3, PTL DEF RtSpec

-----------------------------------------------------------------------------
(* Positions and cells.                                                     *)
LEMMA RoundsOf ==
  ASSUME NEW a \in Int
  PROVE  \E q \in Int, r \in 0 .. LgCells - 1 : r = CellOf(a) /\ a = q * LgCells + r
<1>. DEFINE q == a \div LgCells  r == a % LgCells
<1>1. LgCells \in Nat \ {0}
  BY LgAssumption
<1>2. q \in Int /\ r \in 0 .. LgCells - 1
  BY <1>1
<1>3. LgCells * q + r = a
  BY <1>1
<1>4. r = CellOf(a)
  BY DEF CellOf
<1>. HIDE DEF q, r
<1>5. a = q * LgCells + r
  BY <1>1, <1>2, <1>3
<1>. QED
  BY <1>2, <1>4, <1>5, Zenon

LEMMA CellRange == ASSUME NEW a \in Int PROVE CellOf(a) \in Ring
BY RoundsOf, Zenon DEF Ring, CellOf

(* Positions that are whole rounds apart have the same cell.                 *)
LEMMA SameCell ==
  ASSUME NEW a \in Int, NEW b \in Int, NEW q \in Int, a = b + q * LgCells
  PROVE  CellOf(a) = CellOf(b)
<1>1. LgCells \in Nat \ {0}
  BY LgAssumption
<1>2. PICK p \in Int, x \in 0 .. LgCells - 1 : x = CellOf(a) /\ a = p * LgCells + x
  BY RoundsOf, Zenon
<1>3. PICK r \in Int, y \in 0 .. LgCells - 1 : y = CellOf(b) /\ b = r * LgCells + y
  BY RoundsOf, Zenon
<1>4. a = p * LgCells + x /\ b = r * LgCells + y
  BY <1>2, <1>3, Zenon
<1>5. PICK d \in Int : d = p - r - q
  OBVIOUS
<1>6. d * LgCells = y - x
  BY <1>1, <1>4, <1>5
<1>7. d = 0
  <2>1. ~(d >= 1)
    <3>. SUFFICES ASSUME d >= 1 PROVE FALSE
      OBVIOUS
    <3>1. d * LgCells >= LgCells
      BY <1>1
    <3>. QED
      BY <1>1, <1>6, <3>1
  <2>2. ~(d <= -1)
    <3>. SUFFICES ASSUME d <= -1 PROVE FALSE
      OBVIOUS
    <3>1. d * LgCells <= -LgCells
      BY <1>1
    <3>. QED
      BY <1>1, <1>6, <3>1
  <2>. QED
    BY <2>1, <2>2
<1>8. x = y
  BY <1>1, <1>6, <1>7
<1>. QED
  BY <1>2, <1>3, <1>8, Zenon

LEMMA CellPlus ==
  ASSUME NEW a \in Int, NEW b \in Int PROVE CellOf(CellOf(a) + b) = CellOf(a + b)
<1>1. PICK q \in Int, x \in 0 .. LgCells - 1 : x = CellOf(a) /\ a = q * LgCells + x
  BY RoundsOf, Zenon
<1>2. a = q * LgCells + x /\ LgCells \in Nat
  BY <1>1, LgAssumption, Zenon
<1>3. a + b = (x + b) + q * LgCells /\ a + b \in Int /\ x + b \in Int
  BY <1>2
<1>4. CellOf(a + b) = CellOf(x + b)
  BY <1>3, SameCell, Zenon
<1>. QED
  BY <1>1, <1>4, Zenon

LEMMA CellOfFirst == ASSUME NEW a \in Ring PROVE CellOf(a) = a
BY LgAssumption DEF Ring, CellOf

(* Two positions with the same cell are a round apart.                      *)
LEMMA RoundApart ==
  ASSUME NEW a \in Int, NEW b \in Int, a < b, CellOf(a) = CellOf(b)
  PROVE  a + LgCells <= b
<1>1. LgCells \in Nat \ {0}
  BY LgAssumption
<1>2. PICK p \in Int, x \in 0 .. LgCells - 1 : x = CellOf(a) /\ a = p * LgCells + x
  BY RoundsOf, Zenon
<1>3. PICK r \in Int, y \in 0 .. LgCells - 1 : y = CellOf(b) /\ b = r * LgCells + y
  BY RoundsOf, Zenon
<1>4. a = p * LgCells + x /\ b = r * LgCells + x
  BY <1>2, <1>3, Zenon
<1>5. PICK d \in Int : d = r - p
  OBVIOUS
<1>6. d * LgCells = b - a
  BY <1>1, <1>4, <1>5
<1>7. d >= 1
  <2>. SUFFICES ASSUME d <= 0 PROVE FALSE
    OBVIOUS
  <2>1. d * LgCells <= 0
    BY <1>1
  <2>. QED
    BY <1>6, <2>1
<1>8. d * LgCells >= LgCells
  BY <1>1, <1>7
<1>. QED
  BY <1>1, <1>6, <1>8

LEMMA WrapIs == ASSUME NEW p \in Ring PROVE Wrap(p + 1) = CellOf(p + 1)
<1>1. LgCells \in Nat \ {0} /\ p \in 0 .. LgCells - 1
  BY LgAssumption DEF Ring
<1>2. CASE p + 1 < LgCells
  <2>1. p + 1 \in Ring
    BY <1>1, <1>2 DEF Ring
  <2>2. Wrap(p + 1) = p + 1
    BY <1>1, <1>2 DEF Wrap
  <2>. QED
    BY <2>1, <2>2, CellOfFirst
<1>3. CASE p + 1 = LgCells
  <2>1. p + 1 = 0 + 1 * LgCells
    BY <1>1, <1>3
  <2>2. CellOf(p + 1) = CellOf(0)
    BY <1>1, <2>1, SameCell
  <2>3. CellOf(0) = 0
    BY <1>1, CellOfFirst DEF Ring
  <2>4. Wrap(p + 1) = 0
    BY <1>1, <1>3 DEF Wrap
  <2>. QED
    BY <2>2, <2>3, <2>4
<1>. QED
  BY <1>1, <1>2, <1>3

-----------------------------------------------------------------------------
LgEntry == [id : Nat, size : 1 .. LgLongest, from : Nat]
LgCellType == [id : 0 .. LgEntries, part : 0 .. LgLongest + 1, value : 0 .. LgLongest]
LgNow == LgEnd + lgWrite.done     \* with the cells of the entry that is written

(* Types, and where the pointers are.                                       *)
LgTypes ==
  /\ lgCell \in [Ring -> LgCellType]
  /\ lgLog \in Seq(LgEntry)
  /\ lgRestarts \in Nat
  /\ \/ lgWrite = NoWrite
     \/ /\ lgWrite \in [id : {Len(lgLog) + lgRestarts + 1}, size : 1 .. LgLongest, done : Nat]
        /\ lgWrite.id <= LgEntries /\ lgWrite.done <= lgWrite.size + 2
  /\ lgStored = CellOf(LgEnd)
  /\ lgInput = CellOf(LgNow) \/ (lgInput = VmemNull /\ lgWrite = NoWrite)

(* The entries follow each other.                                           *)
InRow ==
  /\ \A i \in DOMAIN lgLog :
       lgLog[i].from = IF i = 1 THEN 0 ELSE lgLog[i - 1].from + lgLog[i - 1].size + 2
  /\ \A i \in DOMAIN lgLog : lgLog[i].id <= Len(lgLog) + lgRestarts

(* The cell of an entry is its own until the ring has come round to it.       *)
Proper(e, k) == [id |-> e.id, part |-> k, value |-> IF k \in {0, e.size + 1} THEN e.size ELSE 0]

OwnCells(e) ==
  \A k \in 0 .. e.size + 1 :
    /\ Cell(e, k).id <= e.id => Cell(e, k) = Proper(e, k)
    /\ e.from + k + LgCells < LgNow => Cell(e, k).id > e.id
    /\ lgRestarts = 0 /\ Cell(e, k).id > e.id => e.from + k + LgCells < LgNow

WrittenCells ==
  /\ \A k \in 0 .. lgWrite.done - 1 : lgCell[CellOf(LgEnd + k)] = Proper(lgWrite, k)
  /\ lgRestarts = 0 => \A c \in Ring : LgNow <= c => lgCell[c] = Blank

LgInv == LgTypes /\ InRow /\ (\A i \in DOMAIN lgLog : OwnCells(lgLog[i])) /\ WrittenCells

LEMMA LgConstants == LgCells \in Nat \ {0} /\ LgLongest \in Nat \ {0} /\ LgCells >= LgLongest + 2
                     /\ LgEntries \in Nat /\ LgRestarts \in Nat
BY LgAssumption

LEMMA EndIsNat ==
  ASSUME LgTypes
  PROVE  /\ LgEnd \in Nat /\ LgNow \in Nat /\ lgWrite.done \in Nat /\ lgWrite.size \in Nat
         /\ LgNow = LgEnd + lgWrite.done /\ (lgWrite = NoWrite => lgWrite.done = 0)
         /\ (lgLog = <<>> => LgEnd = 0)
         /\ (lgLog # <<>> => /\ Len(lgLog) \in DOMAIN lgLog
                             /\ LgEnd = lgLog[Len(lgLog)].from + lgLog[Len(lgLog)].size + 2)
<1>1. lgWrite.done \in Nat /\ lgWrite.size \in Nat /\ (lgWrite = NoWrite => lgWrite.done = 0)
  BY LgConstants DEF LgTypes, NoWrite
<1>2. lgLog = <<>> => LgEnd = 0
  BY DEF LgEnd
<1>3. lgLog # <<>> => /\ Len(lgLog) \in DOMAIN lgLog /\ lgLog[Len(lgLog)] \in LgEntry
                      /\ LgEnd = lgLog[Len(lgLog)].from + lgLog[Len(lgLog)].size + 2
  BY DEF LgEnd, LgTypes
<1>4. LgEnd \in Nat
  BY <1>2, <1>3, LgConstants DEF LgEntry
<1>. QED
  BY <1>1, <1>2, <1>3, <1>4 DEF LgNow

LEMMA LgInvInit == LgInit => LgInv
<1>. SUFFICES ASSUME LgInit PROVE LgInv
  OBVIOUS
<1>1. LgEnd = 0 /\ LgNow = 0 /\ lgLog = <<>> /\ 0 \in Ring
  BY LgConstants DEF LgInit, LgEnd, LgNow, NoWrite, Ring
<1>2. CellOf(0) = 0
  BY <1>1, CellOfFirst
<1>3. Blank \in LgCellType
  BY LgConstants DEF Blank, LgCellType
<1>4. LgTypes
  BY <1>1, <1>2, <1>3 DEF LgInit, LgTypes
<1>5. InRow /\ \A i \in DOMAIN lgLog : OwnCells(lgLog[i])
  BY <1>1 DEF InRow
<1>6. WrittenCells
  BY LgConstants DEF WrittenCells, LgInit, NoWrite
<1>. QED
  BY <1>4, <1>5, <1>6 DEF LgInv

(* Every entry ends where the next one begins, the last at the end.           *)
LEMMA InRowMeans ==
  ASSUME LgTypes, InRow, NEW i \in DOMAIN lgLog
  PROVE  /\ lgLog[i] \in LgEntry
         /\ lgLog[i].from + lgLog[i].size + 2 = IF i = Len(lgLog) THEN LgEnd ELSE lgLog[i + 1].from
<1>1. lgLog[i] \in LgEntry /\ i \in 1 .. Len(lgLog) /\ Len(lgLog) \in Nat /\ lgLog # <<>>
  BY DEF LgTypes
<1>2. CASE i = Len(lgLog)
  BY <1>1, <1>2 DEF LgEnd
<1>3. CASE i # Len(lgLog)
  <2>1. i + 1 \in DOMAIN lgLog /\ i + 1 # 1 /\ i + 1 - 1 = i
    BY <1>1, <1>3 DEF LgTypes
  <2>2. \A j \in DOMAIN lgLog : j # 1 => lgLog[j].from = lgLog[j - 1].from + lgLog[j - 1].size + 2
    BY DEF InRow
  <2>3. lgLog[i + 1].from = lgLog[i].from + lgLog[i].size + 2
    <3>1. PICK j \in DOMAIN lgLog : j = i + 1
      BY <2>1
    <3>2. j # 1 /\ j - 1 = i
      BY <1>1, <2>1, <3>1
    <3>3. lgLog[j].from = lgLog[j - 1].from + lgLog[j - 1].size + 2
      BY <2>2, <3>2
    <3>. QED
      BY <3>1, <3>2, <3>3, Zenon
  <2>. QED
    BY <1>1, <1>3, <2>3
<1>. QED
  BY <1>1, <1>2, <1>3

LEMMA LastIsEnd ==
  ASSUME LgTypes, InRow, NEW i \in DOMAIN lgLog
  PROVE  /\ lgLog[i].from + lgLog[i].size + 2 <= LgEnd
         /\ \A j \in DOMAIN lgLog : i < j => lgLog[i].from + lgLog[i].size + 2 <= lgLog[j].from
<1>. DEFINE n == Len(lgLog)
            From(j) == IF j <= n THEN lgLog[j].from ELSE LgEnd
            S == {m \in Nat : i + 1 + m <= n + 1 => From(i + 1) <= From(i + 1 + m)}
<1>1. n \in Nat /\ i \in 1 .. n /\ DOMAIN lgLog = 1 .. n /\ LgEnd \in Nat
  BY EndIsNat DEF LgTypes
<1>. HIDE DEF n
<1>2. ASSUME NEW j \in 1 .. n PROVE From(j) \in Nat /\ From(j + 1) \in Nat /\ From(j) <= From(j + 1)
                                   /\ From(j + 1) = lgLog[j].from + lgLog[j].size + 2
  <2>1. lgLog[j] \in LgEntry /\ lgLog[j].from + lgLog[j].size + 2
                                = IF j = n THEN LgEnd ELSE lgLog[j + 1].from
    BY <1>1, InRowMeans DEF n
  <2>2. lgLog[j].from \in Nat /\ lgLog[j].size \in Nat
    BY <2>1, LgConstants DEF LgEntry
  <2>3. From(j) = lgLog[j].from /\ From(j + 1) = lgLog[j].from + lgLog[j].size + 2
    BY <1>1, <2>1
  <2>. QED
    BY <2>2, <2>3
<1>. HIDE DEF From
<1>3. 0 \in S
  BY <1>1, <1>2
<1>4. ASSUME NEW m \in 0 .. n - i - 1, m \in S PROVE m + 1 \in S
  <2>1. i + 1 + m \in 1 .. n /\ i \in 1 .. n
    BY <1>1
  <2>2. From(i + 1 + m) <= From(i + 1 + m + 1) /\ From(i + 1 + m) \in Nat /\ From(i + 1 + m + 1) \in Nat
        /\ From(i + 1) \in Nat
    BY <1>2, <2>1
  <2>3. From(i + 1) <= From(i + 1 + m)
    BY <1>1, <1>4, <2>1
  <2>4. i + 1 + (m + 1) = i + 1 + m + 1
    BY <1>1
  <2>. QED
    BY <2>2, <2>3, <2>4
<1>. HIDE DEF S
<1>5. \A m \in 0 .. n - i : m \in S
  <2>1. n - i \in Nat /\ \A m \in 0 .. n - i - 1 : m \in S => m + 1 \in S
    BY <1>1, <1>4
  <2>. QED
    BY <1>3, <2>1, AllNumbers
<1>6. ASSUME NEW j \in i + 1 .. n + 1 PROVE From(i + 1) <= From(j)
  <2>1. j - i - 1 \in 0 .. n - i /\ i + 1 + (j - i - 1) = j
    BY <1>1
  <2>. QED
    BY <1>1, <1>5, <2>1 DEF S
<1>7. From(n + 1) = LgEnd /\ \A j \in 1 .. n : From(j) = lgLog[j].from
  BY <1>1 DEF From
<1>8. From(i + 1) = lgLog[i].from + lgLog[i].size + 2
  BY <1>1, <1>2
<1>9. From(i + 1) <= LgEnd
  BY <1>1, <1>6, <1>7
<1>10. ASSUME NEW j \in 1 .. n, i < j PROVE From(i + 1) <= lgLog[j].from
  BY <1>1, <1>6, <1>7, <1>10
<1>. QED
  BY <1>1, <1>8, <1>9, <1>10

LEMMA LgInvCall == LgInv /\ LgCall => LgInv'
<1>. SUFFICES ASSUME LgInv, LgCall PROVE LgInv'
  OBVIOUS
<1>1. PICK size \in 1 .. LgLongest :
        /\ lgWrite = NoWrite /\ Len(lgLog) + lgRestarts < LgEntries
        /\ lgWrite' = [id |-> Len(lgLog) + lgRestarts + 1, size |-> size, done |-> 0]
        /\ lgInput' = (IF lgInput = VmemNull THEN lgStored ELSE lgInput)
        /\ UNCHANGED <<lgCell, lgStored, lgLog, lgRestarts>>
  BY DEF LgCall
<1>2. LgTypes /\ LgEnd \in Nat /\ LgNow = LgEnd + 0 /\ LgEnd' = LgEnd /\ Len(lgLog) \in Nat
  BY <1>1, EndIsNat DEF LgInv, LgEnd, LgTypes
<1>3. LgNow' = LgEnd' + lgWrite'.done /\ lgWrite'.done = 0 /\ LgNow' = LgNow
  BY <1>1, <1>2 DEF LgNow
<1>4. lgInput' = CellOf(LgNow)
  <2>1. LgNow = LgEnd
    BY <1>2
  <2>. QED
    BY <1>1, <1>2, <2>1 DEF LgTypes
<1>5. LgTypes'
  BY <1>1, <1>2, <1>3, <1>4, LgConstants DEF LgTypes
<1>6. InRow'
  BY <1>1 DEF LgInv, InRow
<1>7. \A i \in DOMAIN lgLog : OwnCells(lgLog[i])'
  BY <1>1, <1>3 DEF LgInv, OwnCells, Cell, Proper
<1>8. WrittenCells'
  BY <1>1, <1>3 DEF LgInv, WrittenCells
<1>. QED
  BY <1>1, <1>5, <1>6, <1>7, <1>8 DEF LgInv

LEMMA LgInvWriteCell == LgInv /\ LgWriteCell => LgInv'
<1>. SUFFICES ASSUME LgInv, LgWriteCell PROVE LgInv'
  OBVIOUS
<1>. DEFINE d == lgWrite.done
            new == Proper(lgWrite, d)
<1>1. /\ lgWrite.id # 0 /\ d < lgWrite.size + 2
      /\ lgCell' = [lgCell EXCEPT ![lgInput] = new]
      /\ lgInput' = Wrap(lgInput + 1)
      /\ lgWrite' = [lgWrite EXCEPT !.done = @ + 1]
      /\ UNCHANGED <<lgStored, lgLog, lgRestarts>>
  BY DEF LgWriteCell, StoreAfter, Proper
<1>2. LgTypes /\ LgEnd' = LgEnd /\ Len(lgLog) \in Nat /\ lgRestarts \in Nat
  BY <1>1 DEF LgInv, LgTypes, LgEnd
<1>3. /\ lgWrite \in [id : {Len(lgLog) + lgRestarts + 1}, size : 1 .. LgLongest, done : Nat]
      /\ lgWrite.id \in Nat /\ lgWrite.id <= LgEntries /\ d \in Nat
      /\ lgInput = CellOf(LgNow)
  BY <1>1, <1>2 DEF LgTypes, NoWrite
<1>4. LgEnd \in Nat /\ LgNow \in Nat /\ LgNow = LgEnd + d
  BY <1>2, EndIsNat
<1>5. lgWrite' = [id |-> lgWrite.id, size |-> lgWrite.size, done |-> d + 1]
  BY <1>1, <1>3
<1>6. LgNow' = LgNow + 1
  <2>1. lgWrite'.done = d + 1
    BY <1>5
  <2>2. LgNow' = LgEnd' + lgWrite'.done
    BY DEF LgNow
  <2>. QED
    BY <1>2, <1>3, <1>4, <2>1, <2>2
<1>7. lgInput \in Ring /\ lgInput' = CellOf(LgNow')
  <2>1. lgInput \in Ring
    BY <1>3, <1>4, CellRange
  <2>2. Wrap(lgInput + 1) = CellOf(lgInput + 1)
    BY <2>1, WrapIs
  <2>3. CellOf(CellOf(LgNow) + 1) = CellOf(LgNow + 1)
    <3>1. LgNow \in Int /\ 1 \in Int
      BY <1>4
    <3>. QED
      BY <3>1, CellPlus, Zenon
  <2>. QED
    BY <1>1, <1>3, <1>6, <2>1, <2>2, <2>3, Zenon
<1>. DEFINE at == lgInput
<1>8. new \in LgCellType /\ new.id = Len(lgLog) + lgRestarts + 1
  BY <1>1, <1>3, LgConstants DEF Proper, LgCellType
<1>9. LgTypes'
  <2>1. lgCell' \in [Ring -> LgCellType]
    BY <1>1, <1>2, <1>8 DEF LgTypes
  <2>2. /\ lgWrite' \in [id : {Len(lgLog) + lgRestarts + 1}, size : 1 .. LgLongest, done : Nat]
        /\ lgWrite'.id <= LgEntries /\ lgWrite'.done <= lgWrite'.size + 2
    BY <1>1, <1>3, <1>5, LgConstants
  <2>. QED
    BY <1>1, <1>2, <1>7, <2>1, <2>2 DEF LgTypes
<1>10. InRow'
  BY <1>1 DEF LgInv, InRow
<1>. HIDE DEF new, d
<1>11. ASSUME NEW c \in Ring PROVE lgCell'[c] = IF c = at THEN new ELSE lgCell[c]
  BY <1>1, <1>2 DEF LgTypes
<1>12. ASSUME NEW i \in DOMAIN lgLog PROVE OwnCells(lgLog[i])'
  <2>0. PICK e \in LgEntry : e = lgLog[i]
    BY <1>2 DEF LgTypes
  <2>1. e.id \in Nat /\ e.from \in Nat /\ e.size \in Nat /\ e.id < new.id
    <3>1. e.id \in Nat /\ e.from \in Nat /\ e.size \in Nat
      BY LgConstants DEF LgEntry
    <3>2. e.id <= Len(lgLog) + lgRestarts
      BY <2>0 DEF LgInv, InRow
    <3>. QED
      BY <1>2, <1>8, <3>1, <3>2
  <2>2. e.from + e.size + 2 <= LgEnd
    BY <1>2, <2>0, LastIsEnd DEF LgInv
  <2>. SUFFICES ASSUME NEW k \in 0 .. e.size + 1
       PROVE  /\ Cell(e, k)'.id <= e.id => Cell(e, k)' = Proper(e, k)
              /\ e.from + k + LgCells < LgNow + 1 => Cell(e, k)'.id > e.id
              /\ lgRestarts = 0 /\ Cell(e, k)'.id > e.id => e.from + k + LgCells < LgNow + 1
    BY <1>1, <1>6, <2>0 DEF OwnCells, Cell, Proper
  <2>. DEFINE p == e.from + k
  <2>3. p \in Nat /\ p < LgNow /\ CellOf(p) \in Ring
    <3>1. p \in Nat /\ p < LgEnd
      BY <1>4, <2>1, <2>2
    <3>2. CellOf(p) \in Ring
      BY <3>1, CellRange
    <3>. QED
      BY <1>3, <1>4, <3>1, <3>2
  <2>4. Cell(e, k)' = IF CellOf(p) = at THEN new ELSE Cell(e, k)
    BY <1>11, <2>3 DEF Cell
  <2>5. CellOf(p) = at <=> CellOf(p) = CellOf(LgNow)
    BY <1>3
  <2>6. CellOf(p) = at => p + LgCells <= LgNow
    BY <1>4, <2>3, <2>5, RoundApart
  <2>7. p + LgCells = LgNow => CellOf(p) = at
    <3>. SUFFICES ASSUME p + LgCells = LgNow PROVE CellOf(p) = CellOf(LgNow)
      BY <2>5
    <3>1. LgNow = p + 1 * LgCells
      BY <1>4, <2>3, LgConstants
    <3>. QED
      BY <1>4, <2>3, <3>1, SameCell
  <2>8. /\ Cell(e, k).id <= e.id => Cell(e, k) = Proper(e, k)
        /\ p + LgCells < LgNow => Cell(e, k).id > e.id
        /\ lgRestarts = 0 /\ Cell(e, k).id > e.id => p + LgCells < LgNow
    BY <2>0 DEF LgInv, OwnCells
  <2>9. CASE CellOf(p) = at
    <3>1. Cell(e, k)' = new /\ ~(new.id <= e.id) /\ new.id > e.id
      <4>1. new.id \in Nat
        BY <1>2, <1>8
      <4>. QED
        BY <2>1, <2>4, <2>9, <4>1
    <3>2. p + LgCells < LgNow + 1
      BY <1>4, <2>3, <2>6, <2>9, LgConstants
    <3>. QED
      BY <3>1, <3>2
  <2>10. CASE CellOf(p) # at
    <3>1. Cell(e, k)' = Cell(e, k)
      BY <2>4, <2>10
    <3>2. p + LgCells < LgNow + 1 <=> p + LgCells < LgNow
      BY <1>4, <2>3, <2>7, <2>10, LgConstants
    <3>. QED
      BY <2>8, <3>1, <3>2
  <2>. QED
    BY <2>9, <2>10
<1>13. WrittenCells'
  <2>1. ASSUME NEW k \in 0 .. d PROVE lgCell'[CellOf(LgEnd + k)] = Proper(lgWrite, k)
    <3>1. LgEnd + k \in Int /\ CellOf(LgEnd + k) \in Ring
      BY <1>3, <1>4, CellRange DEF d
    <3>2. CASE k = d
      BY <1>3, <1>4, <1>11, <3>1, <3>2 DEF new, d
    <3>3. CASE k # d
      <4>1. k \in 0 .. d - 1
        BY <1>3, <3>3 DEF d
      <4>2. lgCell[CellOf(LgEnd + k)] = Proper(lgWrite, k)
        BY <4>1 DEF LgInv, WrittenCells, d
      <4>3. CellOf(LgEnd + k) # at
        <5>. SUFFICES ASSUME CellOf(LgEnd + k) = CellOf(LgNow) PROVE FALSE
          BY <1>3
        <5>1. LgEnd + k < LgNow
          BY <1>3, <1>4, <4>1 DEF d
        <5>2. LgEnd + k + LgCells <= LgNow
          BY <1>4, <3>1, <5>1, RoundApart
        <5>3. k \in Nat /\ LgNow = LgEnd + lgWrite.done /\ lgWrite.done < lgWrite.size + 2
              /\ lgWrite.size \in Nat /\ lgWrite.size <= LgLongest /\ lgWrite.done \in Nat
          BY <1>1, <1>3, <1>4, <4>1, LgConstants DEF d
        <5>. QED
          BY <1>4, <5>2, <5>3, LgConstants
      <4>. QED
        BY <1>11, <3>1, <4>2, <4>3
    <3>. QED
      BY <3>2, <3>3
  <2>2. ASSUME lgRestarts = 0, NEW c \in Ring, LgNow + 1 <= c PROVE lgCell'[c] = Blank
    <3>1. LgNow \in Ring /\ c # LgNow /\ LgNow <= c
      BY <1>4, <2>2, LgConstants DEF Ring
    <3>2. at = LgNow
      BY <1>3, <3>1, CellOfFirst
    <3>. QED
      BY <1>11, <2>2, <3>1, <3>2 DEF LgInv, WrittenCells
  <2>3. \A k : Proper(lgWrite', k) = Proper(lgWrite, k)
    BY <1>5 DEF Proper
  <2>4. lgWrite'.done - 1 = d
    BY <1>3, <1>5 DEF d
  <2>. QED
    BY <1>1, <1>2, <1>6, <2>1, <2>2, <2>3, <2>4 DEF WrittenCells
<1>. QED
  BY <1>1, <1>9, <1>10, <1>12, <1>13 DEF LgInv

LEMMA LgInvWritePointer == LgInv /\ LgWritePointer => LgInv'
<1>. SUFFICES ASSUME LgInv, LgWritePointer PROVE LgInv'
  OBVIOUS
<1>1. PICK e : e = [id |-> lgWrite.id, size |-> lgWrite.size, from |-> LgEnd]
  OBVIOUS
<1>2. /\ lgWrite.id # 0 /\ lgWrite.done = lgWrite.size + 2
      /\ lgLog' = Append(lgLog, e) /\ lgStored' = lgInput /\ lgWrite' = NoWrite
      /\ UNCHANGED <<lgCell, lgInput, lgRestarts>>
  BY <1>1 DEF LgWritePointer, StoreAfter
<1>3. LgTypes /\ Len(lgLog) \in Nat /\ lgRestarts \in Nat
  BY DEF LgInv, LgTypes
<1>4. /\ lgWrite \in [id : {Len(lgLog) + lgRestarts + 1}, size : 1 .. LgLongest, done : Nat]
      /\ lgWrite.id <= LgEntries /\ lgInput = CellOf(LgNow)
  BY <1>2, <1>3 DEF LgTypes, NoWrite
<1>5. LgEnd \in Nat /\ LgNow \in Nat /\ LgNow = LgEnd + lgWrite.size + 2 /\ lgWrite.size \in Nat
  <2>1. LgEnd \in Nat /\ LgNow \in Nat /\ LgNow = LgEnd + lgWrite.done /\ lgWrite.size \in Nat
    BY <1>3, EndIsNat
  <2>. QED
    BY <1>2, <2>1
<1>6. e \in LgEntry /\ e.id = Len(lgLog) + lgRestarts + 1 /\ e.id = lgWrite.id
      /\ e.size = lgWrite.size /\ e.from = LgEnd
  BY <1>1, <1>3, <1>4, <1>5 DEF LgEntry
<1>7. /\ lgLog' \in Seq(LgEntry) /\ Len(lgLog') = Len(lgLog) + 1 /\ DOMAIN lgLog' = 1 .. Len(lgLog) + 1
      /\ \A i \in DOMAIN lgLog : i \in 1 .. Len(lgLog) /\ i \in 1 .. Len(lgLog) + 1 /\ lgLog'[i] = lgLog[i]
      /\ lgLog'[Len(lgLog) + 1] = e
      /\ DOMAIN lgLog = 1 .. Len(lgLog)
  BY <1>2, <1>3, <1>6 DEF LgTypes
<1>8. LgEnd' = LgNow
  <2>1. lgLog' # <<>>
    BY <1>3, <1>7
  <2>2. LgEnd' = e.from + e.size + 2
    BY <1>7, <2>1 DEF LgEnd
  <2>. QED
    BY <1>5, <1>6, <2>2
<1>9. LgNow' = LgNow
  <2>1. LgNow' = LgEnd' + lgWrite'.done /\ lgWrite'.done = 0
    BY <1>2 DEF LgNow, NoWrite
  <2>. QED
    BY <1>5, <1>8, <2>1
<1>10. LgTypes'
  <2>1. lgStored' = CellOf(LgEnd') /\ lgInput' = CellOf(LgNow')
    BY <1>2, <1>4, <1>8, <1>9
  <2>. QED
    BY <1>2, <1>3, <1>7, <2>1 DEF LgTypes
<1>11. InRow'
  <2>1. ASSUME NEW i \in 1 .. Len(lgLog) + 1
        PROVE  /\ lgLog'[i].from = IF i = 1 THEN 0 ELSE lgLog'[i - 1].from + lgLog'[i - 1].size + 2
               /\ lgLog'[i].id <= Len(lgLog) + 1 + lgRestarts
    <3>1. CASE i \in DOMAIN lgLog
      <4>1. lgLog'[i] = lgLog[i] /\ (i # 1 => i - 1 \in DOMAIN lgLog)
        BY <1>3, <1>7, <3>1
      <4>2. i # 1 => lgLog'[i - 1] = lgLog[i - 1]
        BY <1>7, <4>1
      <4>3. lgLog[i].from = (IF i = 1 THEN 0 ELSE lgLog[i - 1].from + lgLog[i - 1].size + 2)
            /\ lgLog[i].id <= Len(lgLog) + lgRestarts
        BY <3>1 DEF LgInv, InRow
      <4>4. lgLog[i].id \in Nat
        <5>1. lgLog[i] \in LgEntry
          BY <1>3, <3>1 DEF LgTypes
        <5>. QED
          BY <5>1 DEF LgEntry
      <4>5. lgLog[i].id <= Len(lgLog) + 1 + lgRestarts
        BY <1>3, <4>3, <4>4
      <4>. QED
        BY <4>1, <4>2, <4>3, <4>5
    <3>2. CASE i = Len(lgLog) + 1
      <4>1. lgLog'[i] = e
        BY <1>7, <3>2
      <4>2. CASE lgLog = <<>>
        BY <1>3, <1>6, <3>2, <4>1, <4>2 DEF LgEnd
      <4>3. CASE lgLog # <<>>
        <5>1. i # 1 /\ i - 1 = Len(lgLog) /\ Len(lgLog) \in DOMAIN lgLog
          BY <1>3, <1>7, <3>2, <4>3 DEF LgTypes
        <5>2. lgLog'[i - 1] = lgLog[Len(lgLog)]
          BY <1>7, <5>1
        <5>3. e.from = lgLog[Len(lgLog)].from + lgLog[Len(lgLog)].size + 2
          BY <1>6, <4>3 DEF LgEnd
        <5>4. e.id <= Len(lgLog) + 1 + lgRestarts
          BY <1>3, <1>6
        <5>. QED
          BY <4>1, <5>1, <5>2, <5>3, <5>4
      <4>. QED
        BY <4>2, <4>3
    <3>. QED
      BY <1>3, <1>7, <3>1, <3>2
  <2>. QED
    BY <1>2, <1>7, <2>1 DEF InRow
<1>12. ASSUME NEW i \in 1 .. Len(lgLog) + 1 PROVE OwnCells(lgLog[i])'
  <2>1. CASE i \in DOMAIN lgLog
    BY <1>2, <1>7, <1>9, <2>1 DEF LgInv, OwnCells, Cell, Proper
  <2>2. CASE i = Len(lgLog) + 1
    <3>1. ASSUME NEW k \in 0 .. e.size + 1
          PROVE  /\ Cell(e, k)' = Proper(e, k) /\ ~(Cell(e, k)'.id > e.id)
                 /\ ~(e.from + k + LgCells < LgNow')
      <4>1. k \in 0 .. lgWrite.done - 1 /\ k \in Nat
        BY <1>2, <1>5, <1>6
      <4>2. Cell(e, k)' = Proper(lgWrite, k)
        BY <1>2, <1>6, <4>1 DEF LgInv, WrittenCells, Cell
      <4>3. Proper(lgWrite, k) = Proper(e, k) /\ Proper(e, k).id = e.id
        BY <1>6 DEF Proper
      <4>4. e.id \in Nat
        BY <1>6 DEF LgEntry
      <4>5. lgWrite.size <= LgLongest
        BY <1>4, LgConstants
      <4>6. ~(e.from + k + LgCells < LgNow')
        BY <1>5, <1>6, <1>9, <4>1, <4>5, LgConstants
      <4>. QED
        BY <4>2, <4>3, <4>4, <4>6
    <3>2. lgLog'[i] = e
      BY <1>7, <2>2
    <3>. QED
      BY <3>1, <3>2 DEF OwnCells, Proper
  <2>. QED
    BY <1>3, <1>7, <2>1, <2>2
<1>13. WrittenCells'
  <2>1. lgWrite'.done = 0
    BY <1>2 DEF NoWrite
  <2>2. lgRestarts = 0 => \A c \in Ring : LgNow' <= c => lgCell[c] = Blank
    BY <1>9 DEF LgInv, WrittenCells
  <2>. QED
    BY <1>2, <2>1, <2>2 DEF WrittenCells
<1>. QED
  BY <1>7, <1>10, <1>11, <1>12, <1>13 DEF LgInv

LEMMA LgInvRestart == LgInv /\ LgRestart => LgInv'
<1>. SUFFICES ASSUME LgInv, LgRestart PROVE LgInv'
  OBVIOUS
<1>1. /\ lgRestarts' = lgRestarts + 1 /\ lgWrite' = NoWrite /\ lgInput' = VmemNull
      /\ UNCHANGED <<lgCell, lgStored, lgLog>>
  BY DEF LgRestart
<1>2. LgTypes /\ lgRestarts \in Nat /\ Len(lgLog) \in Nat /\ LgEnd' = LgEnd
  BY <1>1 DEF LgInv, LgTypes, LgEnd
<1>3. LgEnd \in Nat /\ LgNow \in Nat /\ LgEnd <= LgNow /\ LgNow' = LgEnd
  <2>1. LgEnd \in Nat /\ LgNow \in Nat /\ lgWrite.done \in Nat /\ LgNow = LgEnd + lgWrite.done
    BY <1>2, EndIsNat
  <2>2. LgNow' = LgEnd' + lgWrite'.done /\ lgWrite'.done = 0
    BY <1>1 DEF LgNow, NoWrite
  <2>. QED
    BY <1>2, <2>1, <2>2
<1>4. LgTypes'
  BY <1>1, <1>2 DEF LgTypes
<1>5. InRow'
  <2>1. ASSUME NEW i \in DOMAIN lgLog PROVE lgLog[i].id <= Len(lgLog) + (lgRestarts + 1)
    <3>1. lgLog[i] \in LgEntry
      BY <1>2 DEF LgTypes
    <3>2. lgLog[i].id \in Nat
      BY <3>1 DEF LgEntry
    <3>3. lgLog[i].id <= Len(lgLog) + lgRestarts
      BY DEF LgInv, InRow
    <3>. QED
      BY <1>2, <3>2, <3>3
  <2>. QED
    BY <1>1, <2>1 DEF LgInv, InRow
<1>6. ASSUME NEW i \in DOMAIN lgLog PROVE OwnCells(lgLog[i])'
  <2>1. PICK e \in LgEntry : e = lgLog[i]
    BY <1>2 DEF LgTypes
  <2>2. ASSUME NEW k \in 0 .. e.size + 1
        PROVE  /\ Cell(e, k).id <= e.id => Cell(e, k) = Proper(e, k)
               /\ e.from + k + LgCells < LgNow' => Cell(e, k).id > e.id
    <3>1. /\ Cell(e, k).id <= e.id => Cell(e, k) = Proper(e, k)
          /\ e.from + k + LgCells < LgNow => Cell(e, k).id > e.id
      BY <2>1 DEF LgInv, OwnCells
    <3>2. e.from + k + LgCells \in Int
      BY LgConstants DEF LgEntry
    <3>. QED
      BY <1>3, <3>1, <3>2
  <2>3. lgRestarts' # 0
    BY <1>1, <1>2
  <2>. QED
    BY <1>1, <2>1, <2>2, <2>3 DEF OwnCells, Cell, Proper
<1>7. WrittenCells'
  BY <1>1, <1>2 DEF WrittenCells, NoWrite
<1>. QED
  BY <1>1, <1>4, <1>5, <1>6, <1>7 DEF LgInv

LEMMA LgInvNext == LgInv /\ [LgNext]_lgVars => LgInv'
<1>1. CASE UNCHANGED lgVars
  BY <1>1 DEF lgVars, LgInv, LgTypes, InRow, OwnCells, WrittenCells, LgNow, LgEnd, Cell, Proper
<1>2. CASE LgNext
  BY <1>2, LgInvCall, LgInvWriteCell, LgInvWritePointer, LgInvRestart DEF LgNext
<1>. QED
  BY <1>1, <1>2

LEMMA LgInvType == LgInv => LgTypeOK
<1>. SUFFICES ASSUME LgInv PROVE LgTypeOK
  OBVIOUS
<1>1. LgTypes /\ LgEnd \in Nat /\ LgNow \in Nat
  BY EndIsNat DEF LgInv
<1>2. CellOf(LgEnd) \in Ring /\ CellOf(LgNow) \in Ring
  BY <1>1, CellRange
<1>3. \A c \in Ring : c # VmemNull
  BY LgConstants DEF Ring, VmemNull
<1>. QED
  BY <1>1, <1>2, <1>3 DEF LgTypes, LgTypeOK, LgCellType, NoWrite

-----------------------------------------------------------------------------
(* Reading back.  The rounds of log_store_foreach as a function.             *)
Goes(r, byte) ==
  /\ r[0] = FirstRound
  /\ \A n \in 0 .. LgCells - 1 : r[n + 1] = IF r[n].on THEN Round(byte, r[n]) ELSE r[n]

LEMMA ForeachGoes ==
  ASSUME NEW byte PROVE \E r : Goes(r, byte) /\ Foreach(byte) = r[LgCells].out
<1>. DEFINE Step(w) == IF w.on THEN Round(byte, w) ELSE w
            UpTo(k, f) == [n \in 0 .. k |-> IF n = 0 THEN FirstRound ELSE Step(f[n - 1])]
            rounds == CHOOSE f : f = UpTo(LgCells, f)
            S == {k \in Nat : \E f : f = UpTo(k, f)}
<1>1. Foreach(byte) = rounds[LgCells].out
  BY Zenon DEF Foreach
<1>. HIDE DEF Step
<1>2. 0 \in S
  <2>1. [n \in 0 .. 0 |-> FirstRound] = UpTo(0, [n \in 0 .. 0 |-> FirstRound])
    OBVIOUS
  <2>. QED
    BY <2>1
<1>3. ASSUME NEW k \in Nat, k \in S PROVE k + 1 \in S
  <2>1. PICK f : f = UpTo(k, f)
    BY <1>3
  <2>2. PICK g : g = [n \in 0 .. k + 1 |-> IF n <= k THEN f[n] ELSE Step(f[k])]
    OBVIOUS
  <2>3. \A n \in 0 .. k : f[n] = IF n = 0 THEN FirstRound ELSE Step(f[n - 1])
    BY <2>1
  <2>4. ASSUME NEW n \in 0 .. k + 1 PROVE g[n] = IF n = 0 THEN FirstRound ELSE Step(g[n - 1])
    <3>1. CASE n = 0
      BY <2>2, <2>3, <3>1
    <3>2. CASE n \in 1 .. k
      BY <2>2, <2>3, <3>2
    <3>3. CASE n = k + 1
      BY <2>2, <3>3
    <3>. QED
      BY <3>1, <3>2, <3>3
  <2>5. g = UpTo(k + 1, g)
    BY <2>2, <2>4
  <2>. QED
    BY <2>5
<1>4. \E f : f = UpTo(LgCells, f)
  <2>. HIDE DEF S
  <2>1. \A k \in 0 .. LgCells : k \in S
    BY <1>2, <1>3, LgConstants, AllNumbers
  <2>2. LgCells \in S
    BY <2>1, LgConstants
  <2>. HIDE DEF UpTo
  <2>. QED
    BY <2>2 DEF S
<1>5. rounds = UpTo(LgCells, rounds)
  <2>. HIDE DEF UpTo
  <2>. QED
    BY <1>4, Zenon
<1>. HIDE DEF rounds
<1>6. rounds[0] = FirstRound
  BY <1>5, LgConstants
<1>7. ASSUME NEW n \in 0 .. LgCells - 1 PROVE rounds[n + 1] = Step(rounds[n])
  <2>1. PICK k \in 0 .. LgCells : k = n + 1 /\ k # 0 /\ k - 1 = n
    BY LgConstants
  <2>2. rounds[k] = IF k = 0 THEN FirstRound ELSE Step(rounds[k - 1])
    BY <1>5
  <2>. QED
    BY <2>1, <2>2, Zenon
<1>. QED
  BY <1>1, <1>6, <1>7, Zenon DEF Goes, Step

(* Which entries are kept.                                                  *)
LEMMA MaxOfSome ==
  ASSUME NEW n \in Nat, NEW T \in SUBSET (1 .. n), T # {}
  PROVE  \E m \in T : \A i \in T : i <= m
<1>. DEFINE S == {k \in Nat : \A X \in SUBSET (1 .. k) : X # {} => \E m \in X : \A i \in X : i <= m}
<1>1. 0 \in S
  <2>1. 1 .. 0 = {}
    OBVIOUS
  <2>. QED
    BY <2>1
<1>2. ASSUME NEW k \in Nat, k \in S PROVE k + 1 \in S
  <2>. SUFFICES ASSUME NEW X \in SUBSET (1 .. k + 1), X # {} PROVE \E m \in X : \A i \in X : i <= m
    OBVIOUS
  <2>1. CASE k + 1 \in X
    BY <2>1
  <2>2. CASE k + 1 \notin X
    <3>1. X \in SUBSET (1 .. k)
      BY <2>2
    <3>. QED
      BY <1>2, <3>1
  <2>. QED
    BY <2>1, <2>2
<1>3. n \in S
  <2>. HIDE DEF S
  <2>. QED
    BY <1>1, <1>2, AllNumbers
<1>. QED
  BY <1>3

LEMMA KeptIs ==
  ASSUME LgTypes
  PROVE  \E m \in 0 .. Len(lgLog) :
           /\ \A i \in m + 1 .. Len(lgLog) : Intact(lgLog[i])
           /\ m # 0 => ~Intact(lgLog[m])
           /\ Len(Kept) = Len(lgLog) - m /\ DOMAIN Kept = 1 .. Len(lgLog) - m
           /\ \A i \in DOMAIN Kept : Kept[i] = lgLog[Len(lgLog) + 1 - i]
<1>. DEFINE n == Len(lgLog)
            old == {i \in 1 .. n : ~Intact(lgLog[i])}
            m == IF old = {} THEN 0 ELSE CHOOSE k \in old : \A i \in old : i <= k
<1>1. n \in Nat
  BY DEF LgTypes
<1>2. old # {} => m \in old /\ \A i \in old : i <= m
  <2>. SUFFICES ASSUME old # {} PROVE m \in old /\ \A i \in old : i <= m
    OBVIOUS
  <2>1. \E k \in old : \A i \in old : i <= k
    <3>1. old \in SUBSET (1 .. n)
      OBVIOUS
    <3>. HIDE DEF old, n
    <3>. QED
      BY <1>1, <3>1, MaxOfSome
  <2>. HIDE DEF old
  <2>. QED
    BY <2>1
<1>3. m \in 0 .. n
  <2>. HIDE DEF m
  <2>1. CASE old = {}
    BY <1>1, <2>1 DEF m
  <2>2. CASE old # {}
    BY <1>1, <1>2, <2>2
  <2>. QED
    BY <2>1, <2>2
<1>4. \A i \in m + 1 .. n : Intact(lgLog[i])
  <2>. HIDE DEF m
  <2>. SUFFICES ASSUME NEW i \in m + 1 .. n, i \in old PROVE FALSE
    BY <1>1, <1>3
  <2>. QED
    BY <1>1, <1>2, <1>3
<1>5. m # 0 => ~Intact(lgLog[m])
  BY <1>2
<1>6. Kept = [i \in 1 .. n - m |-> lgLog[n + 1 - i]]
  BY DEF Kept
<1>. HIDE DEF m, n, old
<1>7. Kept \in Seq(LgEntry)
  <2>1. ASSUME NEW i \in 1 .. n - m PROVE lgLog[n + 1 - i] \in LgEntry
    <3>1. n + 1 - i \in 1 .. n
      BY <1>1, <1>3
    <3>. QED
      BY <3>1 DEF LgTypes, n
  <2>2. n - m \in Nat
    BY <1>1, <1>3
  <2>. QED
    BY <1>6, <2>1, <2>2
<1>8. DOMAIN Kept = 1 .. n - m /\ n - m \in Nat
  BY <1>1, <1>3, <1>6
<1>9. Len(Kept) = n - m
  <2>1. Len(Kept) \in Nat /\ DOMAIN Kept = 1 .. Len(Kept)
    BY <1>7
  <2>. QED
    BY <1>8, <2>1
<1>10. \A i \in DOMAIN Kept : Kept[i] = lgLog[n + 1 - i]
  BY <1>6
<1>. QED
  BY <1>3, <1>4, <1>5, <1>8, <1>9, <1>10 DEF n

(* Where an entry begins; behind the last one, the end.                      *)
LgFrom(j) == IF j \in DOMAIN lgLog THEN lgLog[j].from ELSE LgEnd

LEMMA Begins ==
  ASSUME LgTypes, InRow, NEW j \in DOMAIN lgLog
  PROVE  /\ lgLog[j] \in LgEntry /\ lgLog[j].size \in Nat \ {0} /\ lgLog[j].id \in Nat
         /\ LgFrom(j) = lgLog[j].from /\ LgFrom(j) \in Nat /\ LgFrom(j + 1) \in Nat
         /\ LgFrom(j + 1) = lgLog[j].from + lgLog[j].size + 2
         /\ LgFrom(j + 1) <= LgEnd
<1>1. lgLog[j] \in LgEntry
      /\ lgLog[j].from + lgLog[j].size + 2 = IF j = Len(lgLog) THEN LgEnd ELSE lgLog[j + 1].from
  BY InRowMeans
<1>2. lgLog[j].size \in Nat \ {0} /\ lgLog[j].id \in Nat /\ lgLog[j].from \in Nat
  BY <1>1, LgConstants DEF LgEntry
<1>3. LgFrom(j) = lgLog[j].from
  BY DEF LgFrom
<1>4. LgFrom(j + 1) = lgLog[j].from + lgLog[j].size + 2
  <2>1. DOMAIN lgLog = 1 .. Len(lgLog) /\ Len(lgLog) \in Nat
    BY DEF LgTypes
  <2>2. CASE j = Len(lgLog)
    BY <1>1, <2>1, <2>2 DEF LgFrom
  <2>3. CASE j # Len(lgLog)
    <3>1. j + 1 \in DOMAIN lgLog
      BY <2>1, <2>3
    <3>. QED
      BY <1>1, <2>3, <3>1 DEF LgFrom
  <2>. QED
    BY <2>2, <2>3
<1>5. LgFrom(j + 1) <= LgEnd
  BY <1>4, LastIsEnd
<1>. QED
  BY <1>1, <1>2, <1>3, <1>4, <1>5

LEMMA Later ==
  ASSUME LgTypes, InRow, NEW i \in 1 .. Len(lgLog) + 1, NEW j \in 1 .. Len(lgLog) + 1, i < j
  PROVE  LgFrom(i) + 3 <= LgFrom(j)
<1>1. Len(lgLog) \in Nat /\ DOMAIN lgLog = 1 .. Len(lgLog) /\ LgEnd \in Nat
  BY EndIsNat DEF LgTypes
<1>2. i \in DOMAIN lgLog
  BY <1>1
<1>3. lgLog[i].size \in Nat \ {0} /\ LgFrom(i) = lgLog[i].from /\ LgFrom(i) \in Nat
  BY <1>2, Begins
<1>4. lgLog[i].from + lgLog[i].size + 2 <= LgFrom(j)
  BY <1>2, LastIsEnd DEF LgFrom
<1>5. LgFrom(j) \in Nat
  <2>1. j \in DOMAIN lgLog => LgFrom(j) \in Nat
    BY Begins
  <2>. QED
    BY <1>1, <2>1 DEF LgFrom
<1>. QED
  BY <1>3, <1>4, <1>5

(* A length that nothing has overwritten is read as what it is.              *)
LEMMA LengthRead ==
  ASSUME LgInv, NEW j \in DOMAIN lgLog, NEW byte, NEW k \in {0, lgLog[j].size + 1},
         Cell(lgLog[j], k).id <= lgLog[j].id
  PROVE  Says(byte, CellOf(lgLog[j].from + k)) = lgLog[j].size
<1>1. lgLog[j].size \in Nat \ {0}
  BY Begins DEF LgInv
<1>2. k \in 0 .. lgLog[j].size + 1
  BY <1>1
<1>3. Cell(lgLog[j], k) = Proper(lgLog[j], k)
  BY <1>2 DEF LgInv, OwnCells
<1>4. Proper(lgLog[j], k).value = lgLog[j].size
  BY DEF Proper
<1>. QED
  BY <1>1, <1>3, <1>4 DEF Says, Cell

LEMMA DataRead ==
  ASSUME LgInv, NEW j \in DOMAIN lgLog, Intact(lgLog[j])
  PROVE  [k \in 1 .. lgLog[j].size |-> Cell(lgLog[j], k)] = Data(lgLog[j])
<1>1. PICK e \in LgEntry : e = lgLog[j] /\ e.size \in Nat
  BY Begins DEF LgInv
<1>2. ASSUME NEW k \in 1 .. e.size PROVE Cell(e, k) = [id |-> e.id, part |-> k, value |-> 0]
  <2>1. k \in 0 .. e.size + 1 /\ k \notin {0, e.size + 1}
    BY <1>1
  <2>2. Cell(e, k) = Proper(e, k)
    BY <1>1, <2>1 DEF LgInv, OwnCells, Intact
  <2>. QED
    BY <2>1, <2>2 DEF Proper
<1>. QED
  BY <1>1, <1>2 DEF Data

(* One round back over an entry whose last length is still there.            *)
LEMMA Back ==
  ASSUME LgInv, NEW j \in DOMAIN lgLog, NEW byte, NEW w,
         w.at = CellOf(LgFrom(j + 1)), w.count = LgEnd - LgFrom(j + 1),
         Cell(lgLog[j], lgLog[j].size + 1).id <= lgLog[j].id
  PROVE  Round(byte, w) =
           IF LgEnd - lgLog[j].from >= LgCells \/ Says(byte, CellOf(lgLog[j].from)) # lgLog[j].size
           THEN [w EXCEPT !.on = FALSE]
           ELSE [at |-> CellOf(lgLog[j].from), count |-> LgEnd - lgLog[j].from, on |-> TRUE,
                 out |-> Append(w.out, [k \in 1 .. lgLog[j].size |-> Cell(lgLog[j], k)])]
<1>1. PICK e \in LgEntry : e = lgLog[j]
  BY Begins DEF LgInv
<1>2. e.size \in Nat \ {0} /\ e.from \in Nat /\ LgFrom(j + 1) = e.from + e.size + 2 /\ LgEnd \in Nat
  BY <1>1, Begins, EndIsNat DEF LgInv
<1>. DEFINE last == CellOf(w.at - 1)
            size == Says(byte, last)
            front == CellOf(last - size - 1)
            sum == w.count + size + 2
<1>3. last = CellOf(e.from + (e.size + 1))
  <2>1. LgFrom(j + 1) + (-1) = e.from + (e.size + 1)
    BY <1>2
  <2>2. CellOf(LgFrom(j + 1)) - 1 = CellOf(LgFrom(j + 1)) + (-1)
    <3>1. CellOf(LgFrom(j + 1)) \in Ring
      BY <1>2, CellRange
    <3>. QED
      BY <3>1 DEF Ring
  <2>3. CellOf(CellOf(LgFrom(j + 1)) + (-1)) = CellOf(LgFrom(j + 1) + (-1))
    <3>1. LgFrom(j + 1) \in Int /\ -1 \in Int
      BY <1>2
    <3>. QED
      BY <3>1, CellPlus, Zenon
  <2>. QED
    BY <2>1, <2>2, <2>3, Zenon
<1>4. size = e.size
  <2>1. Says(byte, CellOf(e.from + (e.size + 1))) = e.size
    BY <1>1, LengthRead
  <2>. HIDE DEF last
  <2>. QED
    BY <1>3, <2>1
<1>5. front = CellOf(e.from)
  <2>1. e.from + (e.size + 1) + (-e.size - 1) = e.from /\ e.from + (e.size + 1) \in Int /\ -e.size - 1 \in Int
    BY <1>2
  <2>2. CellOf(CellOf(e.from + (e.size + 1)) + (-e.size - 1)) = CellOf(e.from + (e.size + 1) + (-e.size - 1))
    BY <2>1, CellPlus, Zenon
  <2>3. last - size - 1 = CellOf(e.from + (e.size + 1)) + (-e.size - 1)
    <3>1. CellOf(e.from + (e.size + 1)) \in Int
      BY <2>1, CellRange DEF Ring
    <3>. HIDE DEF last, size
    <3>. QED
      BY <1>2, <1>3, <1>4, <3>1
  <2>. HIDE DEF last, size
  <2>. QED
    BY <2>1, <2>2, <2>3, Zenon
<1>6. sum = LgEnd - e.from
  <2>. HIDE DEF size
  <2>. QED
    BY <1>2, <1>4
<1>7. Round(byte, w) =
        IF size = 0 \/ Turnaround(sum) \/ Says(byte, front) # size THEN [w EXCEPT !.on = FALSE]
        ELSE [at |-> front, count |-> sum, on |-> TRUE,
              out |-> Append(w.out, [k \in 1 .. size |-> lgCell[CellOf(front + k)]])]
  BY DEF Round
<1>. HIDE DEF last, size, front, sum
<1>8. [k \in 1 .. e.size |-> lgCell[CellOf(CellOf(e.from) + k)]] = [k \in 1 .. e.size |-> Cell(e, k)]
  <2>1. ASSUME NEW k \in 1 .. e.size PROVE lgCell[CellOf(CellOf(e.from) + k)] = Cell(e, k)
    <3>1. e.from \in Int /\ k \in Int
      BY <1>2
    <3>2. CellOf(CellOf(e.from) + k) = CellOf(e.from + k)
      BY <3>1, CellPlus, Zenon
    <3>. QED
      BY <3>2 DEF Cell
  <2>. QED
    BY <2>1
<1>9. Turnaround(sum) <=> LgEnd - e.from >= LgCells
  BY <1>6 DEF Turnaround
<1>10. size # 0
  BY <1>2, <1>4
<1>11. Round(byte, w) =
         IF LgEnd - e.from >= LgCells \/ Says(byte, CellOf(e.from)) # e.size
         THEN [w EXCEPT !.on = FALSE]
         ELSE [at |-> CellOf(e.from), count |-> LgEnd - e.from, on |-> TRUE,
               out |-> Append(w.out, [k \in 1 .. e.size |-> Cell(e, k)])]
  BY <1>4, <1>5, <1>6, <1>7, <1>8, <1>9, <1>10, Zenon
<1>. QED
  BY <1>1, <1>11, Zenon

(* What the loop has after each round.                                      *)
LgWord == [id : Nat, part : Nat, value : Nat]
LgRead == UNION {[1 .. k -> LgWord] : k \in Nat}
LgRound == [at : Ring, count : Int, on : BOOLEAN, out : Seq(LgRead)]

LEMMA CellWord == ASSUME LgTypes, NEW c \in Ring PROVE lgCell[c] \in LgWord /\ lgCell[c].value \in Nat
<1>1. lgCell[c] \in LgCellType
  BY DEF LgTypes
<1>. QED
  BY <1>1, LgConstants DEF LgCellType, LgWord

LEMMA RoundType ==
  ASSUME LgInv, NEW byte \in Nat, NEW w \in LgRound
  PROVE  /\ Round(byte, w) \in LgRound
         /\ Len(w.out) <= Len(Round(byte, w).out)
         /\ \A i \in 1 .. Len(w.out) : Round(byte, w).out[i] = w.out[i]
<1>. DEFINE last == CellOf(w.at - 1)
            size == Says(byte, last)
            front == CellOf(last - size - 1)
            sum == w.count + size + 2
            new == [k \in 1 .. size |-> lgCell[CellOf(front + k)]]
<1>1. w.at \in Int /\ w.count \in Int /\ w.out \in Seq(LgRead) /\ LgTypes
  BY LgConstants DEF LgRound, LgInv, Ring
<1>2. last \in Ring /\ last \in Int
  <2>1. w.at - 1 \in Int
    BY <1>1
  <2>2. last \in Ring
    BY <2>1, CellRange
  <2>. HIDE DEF last
  <2>. QED
    BY <2>2, LgConstants DEF Ring
<1>3. size \in Nat
  <2>. HIDE DEF last
  <2>1. lgCell[last].value \in Nat
    BY <1>1, <1>2, CellWord
  <2>. QED
    BY <2>1 DEF Says
<1>4. front \in Ring /\ front \in Int
  <2>. HIDE DEF last, size
  <2>1. last - size - 1 \in Int
    BY <1>2, <1>3
  <2>2. front \in Ring
    BY <2>1, CellRange
  <2>. HIDE DEF front
  <2>. QED
    BY <2>2, LgConstants DEF Ring
<1>5. Round(byte, w) =
        IF size = 0 \/ Turnaround(sum) \/ Says(byte, front) # size THEN [w EXCEPT !.on = FALSE]
        ELSE [at |-> front, count |-> sum, on |-> TRUE, out |-> Append(w.out, new)]
  BY DEF Round
<1>. HIDE DEF last, size, front
<1>6. new \in LgRead
  <2>1. ASSUME NEW k \in 1 .. size PROVE lgCell[CellOf(front + k)] \in LgWord
    <3>1. front + k \in Int
      BY <1>3, <1>4
    <3>2. CellOf(front + k) \in Ring
      BY <3>1, CellRange
    <3>. QED
      BY <1>1, <3>2, CellWord
  <2>2. new \in [1 .. size -> LgWord]
    BY <2>1
  <2>. HIDE DEF new
  <2>. QED
    BY <1>3, <2>2 DEF LgRead
<1>7. sum \in Int
  BY <1>1, <1>3
<1>. HIDE DEF new, sum
<1>8. CASE size = 0 \/ Turnaround(sum) \/ Says(byte, front) # size
  <2>1. Round(byte, w) = [w EXCEPT !.on = FALSE]
    BY <1>5, <1>8
  <2>2. [w EXCEPT !.on = FALSE] \in LgRound /\ [w EXCEPT !.on = FALSE].out = w.out
    BY DEF LgRound
  <2>. QED
    BY <1>1, <2>1, <2>2
<1>9. CASE ~(size = 0 \/ Turnaround(sum) \/ Says(byte, front) # size)
  <2>1. Round(byte, w) = [at |-> front, count |-> sum, on |-> TRUE, out |-> Append(w.out, new)]
    BY <1>5, <1>9
  <2>2. /\ Append(w.out, new) \in Seq(LgRead) /\ Len(w.out) \in Nat
        /\ Len(Append(w.out, new)) = Len(w.out) + 1
        /\ \A i \in 1 .. Len(w.out) : Append(w.out, new)[i] = w.out[i]
    BY <1>1, <1>6
  <2>. HIDE DEF LgRead
  <2>. QED
    BY <1>4, <1>7, <2>1, <2>2 DEF LgRound
<1>. QED
  BY <1>8, <1>9

LEMMA GoesType ==
  ASSUME LgInv, NEW byte \in Nat, NEW r, Goes(r, byte)
  PROVE  \A n \in 0 .. LgCells : r[n] \in LgRound
<1>. DEFINE S == {n \in Nat : r[n] \in LgRound}
<1>1. 0 \in S
  <2>1. lgStored \in Ring
    BY EndIsNat, CellRange DEF LgInv, LgTypes
  <2>2. <<>> \in Seq(LgRead)
    OBVIOUS
  <2>3. FirstRound \in LgRound
    <3>. HIDE DEF LgRead
    <3>. QED
      BY <2>1, <2>2 DEF FirstRound, LgRound
  <2>. QED
    BY <2>3 DEF Goes
<1>2. ASSUME NEW n \in 0 .. LgCells - 1, n \in S PROVE n + 1 \in S
  <2>1. r[n + 1] = IF r[n].on THEN Round(byte, r[n]) ELSE r[n]
    BY DEF Goes
  <2>. QED
    BY <1>2, <2>1, RoundType
<1>3. \A n \in 0 .. LgCells : n \in S
  <2>. HIDE DEF S
  <2>. QED
    BY <1>1, <1>2, LgConstants, AllNumbers
<1>. QED
  BY <1>3

(* What is read stays; once stopped, nothing is added.                      *)
LEMMA GoesOn ==
  ASSUME LgInv, NEW byte \in Nat, NEW r, Goes(r, byte), NEW k \in 0 .. LgCells
  PROVE  /\ Len(r[k].out) <= Len(r[LgCells].out)
         /\ \A i \in 1 .. Len(r[k].out) : r[LgCells].out[i] = r[k].out[i]
         /\ ~r[k].on => r[LgCells] = r[k]
<1>. DEFINE Ok(m) == /\ Len(r[k].out) <= Len(r[m].out)
                     /\ \A i \in 1 .. Len(r[k].out) : r[m].out[i] = r[k].out[i]
                     /\ ~r[k].on => r[m] = r[k]
            S == {d \in Nat : k + d <= LgCells => Ok(k + d)}
<1>1. \A n \in 0 .. LgCells : r[n] \in LgRound /\ Len(r[n].out) \in Nat
  <2>1. \A n \in 0 .. LgCells : r[n] \in LgRound
    BY GoesType
  <2>2. \A w \in LgRound : Len(w.out) \in Nat
    BY DEF LgRound
  <2>. QED
    BY <2>1, <2>2
<1>2. 0 \in S
  <2>1. k + 0 = k /\ Len(r[k].out) \in Nat
    BY <1>1
  <2>2. Ok(k)
    BY <2>1
  <2>. HIDE DEF Ok
  <2>. QED
    BY <2>1, <2>2
<1>3. ASSUME NEW d \in Nat, d \in S, k + (d + 1) <= LgCells PROVE Ok(k + (d + 1))
  <2>1. PICK n \in 0 .. LgCells - 1 : n = k + d
    BY <1>3, LgConstants
  <2>2. k + (d + 1) = n + 1 /\ n \in 0 .. LgCells /\ n + 1 \in 0 .. LgCells
    BY <2>1, LgConstants
  <2>3. Ok(n)
    <3>1. k + d <= LgCells
      BY <2>1, LgConstants
    <3>. HIDE DEF Ok
    <3>. QED
      BY <1>3, <2>1, <3>1
  <2>4. r[n + 1] = IF r[n].on THEN Round(byte, r[n]) ELSE r[n]
    BY DEF Goes
  <2>5. r[n] \in LgRound /\ Len(r[n].out) \in Nat /\ Len(r[n + 1].out) \in Nat /\ Len(r[k].out) \in Nat
    BY <1>1, <2>2
  <2>6. /\ Len(r[n].out) <= Len(r[n + 1].out)
        /\ \A i \in 1 .. Len(r[n].out) : r[n + 1].out[i] = r[n].out[i]
    BY <2>4, <2>5, RoundType
  <2>7. Ok(n + 1)
    <3>1. Len(r[k].out) <= Len(r[n + 1].out)
      <4>1. Len(r[k].out) <= Len(r[n].out) /\ Len(r[n].out) <= Len(r[n + 1].out)
        BY <2>3, <2>6, Zenon
      <4>2. \A a, b, c \in Nat : a <= b /\ b <= c => a <= c
        OBVIOUS
      <4>. QED
        BY <2>5, <4>1, <4>2, Zenon
    <3>2. ASSUME NEW i \in 1 .. Len(r[k].out) PROVE r[n + 1].out[i] = r[k].out[i]
      <4>1. i \in 1 .. Len(r[n].out)
        BY <2>3, <2>5
      <4>2. r[n + 1].out[i] = r[n].out[i]
        BY <2>6, <4>1, Zenon
      <4>. QED
        BY <2>3, <4>2, Zenon
    <3>3. ~r[k].on => r[n + 1] = r[k]
      BY <2>3, <2>4
    <3>. QED
      BY <3>1, <3>2, <3>3
  <2>. HIDE DEF Ok
  <2>. QED
    BY <2>2, <2>7
<1>. HIDE DEF Ok
<1>4. \A d \in 0 .. LgCells : d \in S
  <2>1. \A d \in 0 .. LgCells - 1 : d \in S => d + 1 \in S
    BY <1>3
  <2>. HIDE DEF S
  <2>. QED
    BY <1>2, <2>1, LgConstants, AllNumbers
<1>5. Ok(LgCells)
  <2>1. LgCells - k \in 0 .. LgCells /\ k + (LgCells - k) = LgCells
    BY LgConstants
  <2>2. LgCells - k \in S
    BY <1>4, <2>1
  <2>. QED
    BY <2>1, <2>2, LgConstants
<1>. QED
  BY <1>5 DEF Ok

(* After as many rounds the loop has given as many of the kept entries.      *)
Given(w, j) ==
  /\ w.at = CellOf(LgFrom(Len(lgLog) - j + 1))
  /\ w.count = LgEnd - LgFrom(Len(lgLog) - j + 1)
  /\ w.on /\ Len(w.out) = j /\ j <= w.count
  /\ \A i \in 1 .. j : w.out[i] = Data(lgLog[Len(lgLog) + 1 - i])

LEMMA GivesKept ==
  ASSUME LgInv, NEW byte \in Nat, NEW r, Goes(r, byte), NEW m \in 0 .. Len(lgLog),
         \A i \in m + 1 .. Len(lgLog) : Intact(lgLog[i]),
         LgEnd - LgFrom(m + 1) < LgCells
  PROVE  /\ Len(lgLog) - m < LgCells
         /\ \A j \in 0 .. Len(lgLog) - m : j <= LgCells /\ Given(r[j], j)
<1>. DEFINE n == Len(lgLog)
            S == {j \in 0 .. n - m : j < LgCells /\ Given(r[j], j)}
<1>1. LgTypes /\ InRow /\ n \in Nat /\ LgEnd \in Nat /\ DOMAIN lgLog = 1 .. n
      /\ m \in 0 .. n
  BY EndIsNat DEF LgInv, LgTypes
<1>. HIDE DEF n
<1>2. 0 \in S
  <2>1. n - 0 + 1 \notin DOMAIN lgLog /\ 0 \in 0 .. n - m
    BY <1>1 DEF n
  <2>2. LgFrom(n - 0 + 1) = LgEnd
    BY <2>1 DEF LgFrom
  <2>3. r[0] = [at |-> CellOf(LgEnd), count |-> 0, on |-> TRUE, out |-> <<>>]
    BY <1>1 DEF Goes, FirstRound, LgTypes
  <2>4. Given(r[0], 0)
    <3>1. LgEnd - LgEnd = 0 /\ Len(<<>>) = 0 /\ 1 .. 0 = {}
      BY <1>1
    <3>2. r[0].at = CellOf(LgEnd) /\ r[0].count = 0 /\ r[0].on /\ r[0].out = <<>>
      BY <2>3
    <3>. QED
      BY <2>2, <3>1, <3>2 DEF Given, n
  <2>. QED
    BY <2>1, <2>4, LgConstants
<1>3. ASSUME NEW j \in 0 .. n - m - 1, j \in S PROVE j + 1 \in S
  <2>1. PICK k \in DOMAIN lgLog : k = n - j
    BY <1>1 DEF n
  <2>2. k + 1 = n - j + 1 /\ k = n - (j + 1) + 1 /\ k = n + 1 - (j + 1) /\ k \in m + 1 .. n
        /\ j + 1 \in 0 .. n - m
    BY <1>1, <2>1
  <2>3. Intact(lgLog[k]) /\ LgFrom(k) = lgLog[k].from /\ LgFrom(k) \in Nat
        /\ LgFrom(k + 1) = lgLog[k].from + lgLog[k].size + 2 /\ lgLog[k].size \in Nat \ {0}
    BY <1>1, <2>1, <2>2, Begins DEF n
  <2>4. LgEnd - LgFrom(k) < LgCells
    <3>1. CASE k = m + 1
      BY <3>1
    <3>2. CASE k # m + 1
      <4>1. m + 1 \in 1 .. n + 1 /\ k \in 1 .. n + 1 /\ m + 1 < k /\ m + 1 \in DOMAIN lgLog
        BY <1>1, <2>2, <3>2
      <4>2. LgFrom(m + 1) + 3 <= LgFrom(k)
        BY <1>1, <4>1, Later DEF n
      <4>3. LgFrom(m + 1) \in Nat
        BY <1>1, <4>1, Begins
      <4>. QED
        BY <1>1, <2>3, <4>2, <4>3, LgConstants
    <3>. QED
      BY <3>1, <3>2
  <2>5. j < LgCells /\ Given(r[j], j) /\ j \in Nat
    BY <1>3, <2>2
  <2>6. r[j].at = CellOf(LgFrom(k + 1)) /\ r[j].count = LgEnd - LgFrom(k + 1)
        /\ r[j].on /\ Len(r[j].out) = j /\ j <= LgEnd - LgFrom(k + 1)
        /\ \A i \in 1 .. j : r[j].out[i] = Data(lgLog[n + 1 - i])
    BY <2>2, <2>5, Zenon DEF Given, n
  <2>7. 0 \in 0 .. lgLog[k].size + 1 /\ lgLog[k].size + 1 \in 0 .. lgLog[k].size + 1
    BY <2>3
  <2>8. Cell(lgLog[k], 0).id <= lgLog[k].id /\ Cell(lgLog[k], lgLog[k].size + 1).id <= lgLog[k].id
    BY <2>3, <2>7, Zenon DEF Intact
  <2>9. Says(byte, CellOf(lgLog[k].from)) = lgLog[k].size
    <3>1. Says(byte, CellOf(lgLog[k].from + 0)) = lgLog[k].size
      BY <2>8, LengthRead
    <3>2. lgLog[k].from + 0 = lgLog[k].from
      BY <2>3
    <3>. QED
      BY <3>1, <3>2, Zenon
  <2>10. ~(LgEnd - lgLog[k].from >= LgCells)
    BY <1>1, <2>3, <2>4, LgConstants
  <2>11. Round(byte, r[j]) = [at |-> CellOf(lgLog[k].from), count |-> LgEnd - lgLog[k].from, on |-> TRUE,
                              out |-> Append(r[j].out, Data(lgLog[k]))]
    <3>1. Round(byte, r[j]) =
            IF LgEnd - lgLog[k].from >= LgCells \/ Says(byte, CellOf(lgLog[k].from)) # lgLog[k].size
            THEN [r[j] EXCEPT !.on = FALSE]
            ELSE [at |-> CellOf(lgLog[k].from), count |-> LgEnd - lgLog[k].from, on |-> TRUE,
                  out |-> Append(r[j].out, [i \in 1 .. lgLog[k].size |-> Cell(lgLog[k], i)])]
      BY <2>6, <2>8, Back
    <3>2. [i \in 1 .. lgLog[k].size |-> Cell(lgLog[k], i)] = Data(lgLog[k])
      BY <2>3, DataRead
    <3>. QED
      BY <2>9, <2>10, <3>1, <3>2, Zenon
  <2>12. r[j + 1] = Round(byte, r[j])
    <3>1. j \in 0 .. LgCells - 1
      BY <2>5, LgConstants
    <3>. QED
      BY <2>6, <3>1 DEF Goes
  <2>13. Data(lgLog[k]) \in LgRead
    <3>1. PICK e \in LgEntry : e = lgLog[k] /\ e.size \in Nat /\ e.id \in Nat
      BY <1>1, Begins
    <3>2. Data(e) \in [1 .. e.size -> LgWord]
      BY <3>1 DEF Data, LgWord
    <3>. QED
      BY <3>1, <3>2 DEF LgRead
  <2>14. r[j].out \in Seq(LgRead)
    <3>1. j \in 0 .. LgCells
      BY <2>5, LgConstants
    <3>2. r[j] \in LgRound
      BY <3>1, GoesType
    <3>. HIDE DEF LgRead
    <3>. QED
      BY <3>2 DEF LgRound
  <2>15. PICK out : out = r[j].out
    OBVIOUS
  <2>16. PICK d : d = Data(lgLog[k])
    OBVIOUS
  <2>17. /\ Len(Append(out, d)) = j + 1 /\ Append(out, d)[j + 1] = d
         /\ \A i \in 1 .. j : Append(out, d)[i] = out[i]
    <3>1. out \in Seq(LgRead) /\ d \in LgRead /\ Len(out) = j
      BY <2>6, <2>13, <2>14, <2>15, <2>16, Zenon
    <3>. QED
      BY <3>1
  <2>18. r[j + 1].at = CellOf(LgFrom(k)) /\ r[j + 1].count = LgEnd - LgFrom(k) /\ r[j + 1].on
         /\ r[j + 1].out = Append(out, d)
    <3>1. r[j + 1] = [at |-> CellOf(LgFrom(k)), count |-> LgEnd - LgFrom(k), on |-> TRUE,
                      out |-> Append(out, d)]
      BY <2>3, <2>11, <2>12, <2>15, <2>16, Zenon
    <3>2. PICK a, c, o : a = CellOf(LgFrom(k)) /\ c = LgEnd - LgFrom(k) /\ o = Append(out, d)
      OBVIOUS
    <3>3. r[j + 1] = [at |-> a, count |-> c, on |-> TRUE, out |-> o]
      BY <3>1, <3>2, Zenon
    <3>4. r[j + 1].at = a /\ r[j + 1].count = c /\ r[j + 1].on /\ r[j + 1].out = o
      BY <3>3
    <3>. QED
      BY <3>2, <3>4, Zenon
  <2>19. j + 1 <= LgEnd - LgFrom(k)
    <3>1. j <= LgEnd - (LgFrom(k) + lgLog[k].size + 2)
      BY <2>3, <2>6, Zenon
    <3>2. \A a, b, c \in Int, s \in Nat \ {0} : a <= b - (c + s + 2) => a + 1 <= b - c
      OBVIOUS
    <3>3. LgFrom(k) \in Int /\ LgEnd \in Int /\ j \in Int
      BY <1>1, <2>3, <2>5
    <3>. QED
      BY <2>3, <3>1, <3>2, <3>3, Zenon
  <2>20. ASSUME NEW i \in 1 .. j + 1 PROVE Append(out, d)[i] = Data(lgLog[n + 1 - i])
    <3>1. CASE i = j + 1
      BY <2>2, <2>16, <2>17, <3>1, Zenon
    <3>2. CASE i # j + 1
      <4>1. i \in 1 .. j
        BY <2>5, <3>2
      <4>. QED
        BY <2>6, <2>15, <2>17, <4>1, Zenon
    <3>. QED
      BY <3>1, <3>2
  <2>21. Given(r[j + 1], j + 1)
    BY <2>2, <2>17, <2>18, <2>19, <2>20, Zenon DEF Given, n
  <2>22. j + 1 < LgCells
    BY <1>1, <2>3, <2>4, <2>5, <2>19, LgConstants
  <2>. QED
    BY <2>2, <2>21, <2>22
<1>4. n - m \in Nat
  BY <1>1 DEF n
<1>5. \A j \in 0 .. n - m : j \in S
  <2>. HIDE DEF S
  <2>1. \A j \in 0 .. (n - m) - 1 : j \in S => j + 1 \in S
    BY <1>3
  <2>. QED
    BY <1>2, <1>4, <2>1, AllNumbers
<1>6. \A j \in 0 .. n - m : j < LgCells /\ Given(r[j], j)
  BY <1>5
<1>7. n - m < LgCells
  BY <1>4, <1>6
<1>8. \A j \in 0 .. n - m : j <= LgCells
  BY <1>6, LgConstants
<1>. QED
  BY <1>6, <1>7, <1>8 DEF n

(* An entry nothing was written over begins at most a round before the end.   *)
LEMMA IntactFits ==
  ASSUME LgInv, NEW j \in DOMAIN lgLog, Intact(lgLog[j])
  PROVE  LgEnd - LgFrom(j) <= LgCells
<1>1. PICK e \in LgEntry : e = lgLog[j]
  BY Begins DEF LgInv
<1>2. e.id \in Nat /\ e.from \in Nat /\ e.size \in Nat /\ LgFrom(j) = e.from
  BY <1>1, Begins DEF LgInv
<1>3. 0 \in 0 .. e.size + 1
  BY <1>2
<1>4. Cell(e, 0).id <= e.id /\ (e.from + 0 + LgCells < LgNow => Cell(e, 0).id > e.id)
  BY <1>1, <1>3 DEF LgInv, OwnCells, Intact
<1>5. Cell(e, 0).id \in Nat
  <2>1. e.from + 0 \in Int
    BY <1>2
  <2>2. CellOf(e.from + 0) \in Ring
    BY <2>1, CellRange
  <2>3. lgCell[CellOf(e.from + 0)] \in LgWord
    BY <2>2, CellWord DEF LgInv
  <2>. QED
    BY <2>3 DEF Cell, LgWord
<1>6. ~(e.from + 0 + LgCells < LgNow)
  BY <1>2, <1>4, <1>5
<1>7. LgEnd \in Nat /\ LgNow \in Nat /\ LgEnd <= LgNow
  <2>1. LgEnd \in Nat /\ LgNow \in Nat /\ lgWrite.done \in Nat /\ LgNow = LgEnd + lgWrite.done
    BY EndIsNat DEF LgInv
  <2>. QED
    BY <2>1
<1>. QED
  BY <1>2, <1>6, <1>7, LgConstants

(* After the kept entries the loop stops, if nothing was broken off and       *)
(* nothing runs: before the first entry the ring is blank, and an older entry *)
(* has its last length but would go beyond a round.                         *)
LEMMA StopsThere ==
  ASSUME LgInv, lgWrite = NoWrite, lgRestarts = 0, NEW byte, NEW w, NEW m \in 0 .. Len(lgLog),
         w.at = CellOf(LgFrom(m + 1)), w.count = LgEnd - LgFrom(m + 1),
         m # 0 => ~Intact(lgLog[m]), LgEnd - LgFrom(m + 1) < LgCells
  PROVE  Round(byte, w) = [w EXCEPT !.on = FALSE]
<1>1. LgTypes /\ InRow /\ LgEnd \in Nat /\ LgNow = LgEnd
      /\ Len(lgLog) \in Nat /\ DOMAIN lgLog = 1 .. Len(lgLog)
  <2>1. LgTypes /\ LgEnd \in Nat /\ LgNow = LgEnd + lgWrite.done /\ lgWrite.done = 0
    BY EndIsNat DEF LgInv
  <2>. QED
    BY <2>1 DEF LgInv, LgTypes
<1>2. CASE m = 0
  <2>1. LgFrom(1) = 0
    <3>1. CASE lgLog = <<>>
      BY <1>1, <3>1 DEF LgFrom, LgEnd
    <3>2. CASE lgLog # <<>>
      <4>1. 1 \in DOMAIN lgLog
        BY <1>1, <3>2
      <4>. QED
        BY <1>1, <4>1 DEF LgFrom, InRow
    <3>. QED
      BY <3>1, <3>2
  <2>2. LgEnd < LgCells /\ w.at = CellOf(0)
    BY <1>1, <1>2, <2>1
  <2>3. w.at = 0
    <3>1. 0 \in Ring
      BY LgConstants DEF Ring
    <3>. QED
      BY <2>2, <3>1, CellOfFirst
  <2>4. CellOf(w.at - 1) = LgCells - 1
    <3>1. LgCells - 1 \in Ring
      BY LgConstants DEF Ring
    <3>2. LgCells - 1 \in Int /\ 0 - 1 \in Int /\ LgCells - 1 = (0 - 1) + 1 * LgCells
      BY LgConstants
    <3>3. CellOf(LgCells - 1) = CellOf(0 - 1)
      BY <3>2, SameCell
    <3>. QED
      BY <2>3, <3>1, <3>3, CellOfFirst
  <2>5. lgCell[LgCells - 1] = Blank
    <3>1. LgCells - 1 \in Ring /\ LgNow <= LgCells - 1
      BY <1>1, <2>2, LgConstants DEF Ring
    <3>. QED
      BY <3>1 DEF LgInv, WrittenCells
  <2>6. Says(byte, CellOf(w.at - 1)) = 0
    BY <2>4, <2>5 DEF Says, Blank
  <2>. QED
    BY <2>6, Zenon DEF Round
<1>3. CASE m # 0
  <2>1. m \in DOMAIN lgLog
    BY <1>1, <1>3
  <2>2. PICK e \in LgEntry : e = lgLog[m]
    BY <1>1, <2>1 DEF LgTypes
  <2>3. e.id \in Nat /\ e.from \in Nat /\ e.size \in Nat \ {0}
        /\ LgFrom(m + 1) = e.from + e.size + 2
    BY <1>1, <2>1, <2>2, Begins
  <2>4. ASSUME NEW k \in 0 .. e.size + 1, ~(Cell(e, k).id <= e.id)
        PROVE  e.from + k + LgCells < LgEnd
    <3>1. Cell(e, k).id \in Nat
      <4>1. e.from + k \in Int
        BY <2>3
      <4>2. CellOf(e.from + k) \in Ring
        BY <4>1, CellRange
      <4>3. lgCell[CellOf(e.from + k)] \in LgWord
        BY <1>1, <4>2, CellWord
      <4>. QED
        BY <4>3 DEF Cell, LgWord
    <3>2. Cell(e, k).id > e.id
      BY <2>3, <2>4, <3>1
    <3>. QED
      BY <1>1, <2>1, <2>2, <3>2 DEF LgInv, OwnCells
  <2>5. Cell(e, e.size + 1).id <= e.id
    <3>. SUFFICES ASSUME ~(Cell(e, e.size + 1).id <= e.id) PROVE FALSE
      OBVIOUS
    <3>1. e.from + (e.size + 1) + LgCells < LgEnd
      BY <2>3, <2>4
    <3>. QED
      BY <1>1, <2>3, <3>1, LgConstants
  <2>6. LgEnd - e.from >= LgCells
    <3>1. PICK k \in 0 .. e.size + 1 : ~(Cell(e, k).id <= e.id)
      BY <1>3, <2>2 DEF Intact
    <3>2. e.from + k + LgCells < LgEnd
      BY <2>4, <3>1
    <3>. QED
      BY <1>1, <2>3, <3>2, LgConstants
  <2>7. Round(byte, w) =
          IF LgEnd - e.from >= LgCells \/ Says(byte, CellOf(e.from)) # e.size
          THEN [w EXCEPT !.on = FALSE]
          ELSE [at |-> CellOf(e.from), count |-> LgEnd - e.from, on |-> TRUE,
                out |-> Append(w.out, [k \in 1 .. e.size |-> Cell(e, k)])]
    BY <2>1, <2>2, <2>5, Back
  <2>. QED
    BY <2>6, <2>7, Zenon
<1>. QED
  BY <1>2, <1>3

LEMMA ReadsKept ==
  ASSUME LgInv, NEW byte \in 0 .. LgLongest
  PROVE  /\ Len(Foreach(byte)) >= Len(Kept) - (IF Full(Kept) THEN 1 ELSE 0)
         /\ \A i \in DOMAIN Kept \cap DOMAIN Foreach(byte) : Foreach(byte)[i] = Data(Kept[i])
         /\ lgWrite = NoWrite /\ lgRestarts = 0 => Len(Foreach(byte)) <= Len(Kept)
<1>. DEFINE n == Len(lgLog)
<1>1. LgTypes /\ InRow /\ LgEnd \in Nat /\ n \in Nat /\ DOMAIN lgLog = 1 .. n /\ byte \in Nat
  BY EndIsNat, LgConstants DEF LgInv, LgTypes
<1>2. PICK r : Goes(r, byte) /\ Foreach(byte) = r[LgCells].out
  BY ForeachGoes
<1>3. PICK m \in 0 .. n :
        /\ \A i \in m + 1 .. n : Intact(lgLog[i])
        /\ m # 0 => ~Intact(lgLog[m])
        /\ Len(Kept) = n - m /\ DOMAIN Kept = 1 .. n - m
        /\ \A i \in DOMAIN Kept : Kept[i] = lgLog[n + 1 - i]
  BY <1>1, KeptIs
<1>. HIDE DEF n
<1>4. ASSUME m # n
      PROVE  /\ m + 1 \in DOMAIN lgLog /\ Intact(lgLog[m + 1]) /\ LgFrom(m + 1) = lgLog[m + 1].from
             /\ LgFrom(m + 1) \in Nat /\ LgEnd - LgFrom(m + 1) <= LgCells
             /\ (Full(Kept) <=> LgEnd - LgFrom(m + 1) = LgCells)
  <2>1. m + 1 \in 1 .. n /\ m + 1 \in m + 1 .. n /\ n - m \in 1 .. n - m /\ n + 1 - (n - m) = m + 1
    BY <1>1, <1>3, <1>4
  <2>2. Intact(lgLog[m + 1]) /\ m + 1 \in DOMAIN lgLog
    BY <1>1, <1>3, <2>1
  <2>3. LgFrom(m + 1) = lgLog[m + 1].from /\ LgFrom(m + 1) \in Nat /\ LgEnd - LgFrom(m + 1) <= LgCells
    BY <1>1, <2>2, Begins, IntactFits
  <2>4. Kept[Len(Kept)] = lgLog[m + 1]
    BY <1>3, <2>1
  <2>5. Kept # <<>>
    BY <1>3, <2>1
  <2>. QED
    BY <2>2, <2>3, <2>4, <2>5 DEF Full
<1>5. m = n => ~Full(Kept) /\ LgFrom(m + 1) = LgEnd
  <2>. SUFFICES ASSUME m = n PROVE ~Full(Kept) /\ LgFrom(m + 1) = LgEnd
    OBVIOUS
  <2>1. DOMAIN Kept = {}
    BY <1>1, <1>3
  <2>2. m + 1 \notin DOMAIN lgLog
    BY <1>1
  <2>3. Len(Kept) = 0
    BY <1>1, <1>3
  <2>4. Kept = <<>>
    <3>1. Kept \in Seq(LgEntry)
      <4>1. Kept = [i \in DOMAIN Kept |-> Kept[i]]
        BY DEF Kept
      <4>. QED
        BY <2>1, <4>1
    <3>. QED
      BY <2>3, <3>1
  <2>. QED
    BY <2>2, <2>4 DEF Full, LgFrom
<1>6. CASE Full(Kept)
  <2>1. m # n /\ LgEnd - LgFrom(m + 1) = LgCells /\ m + 1 \in DOMAIN lgLog /\ Intact(lgLog[m + 1])
        /\ LgFrom(m + 1) = lgLog[m + 1].from /\ LgFrom(m + 1) \in Nat
    BY <1>4, <1>5, <1>6
  <2>2. PICK k \in 0 .. n : k = m + 1 /\ k \in DOMAIN lgLog /\ n - k \in 0 .. n - k /\ n - k \in Nat
                           /\ n - k + 1 = n - m /\ n - (n - k) + 1 = k + 1
    BY <1>1, <1>3, <2>1
  <2>3. lgLog[k].size \in Nat \ {0} /\ LgFrom(k) \in Nat /\ LgFrom(k + 1) = LgFrom(k) + lgLog[k].size + 2
        /\ LgFrom(k) = lgLog[k].from
    BY <1>1, <2>2, Begins
  <2>4. LgEnd - LgFrom(k + 1) < LgCells
    <3>1. LgEnd - LgFrom(k) = LgCells
      BY <2>1, <2>2, Zenon
    <3>. QED
      BY <1>1, <2>3, <3>1, LgConstants
  <2>5. \A i \in k + 1 .. n : Intact(lgLog[i])
    BY <1>1, <1>3, <2>2
  <2>6. n - k < LgCells /\ Given(r[n - k], n - k)
    BY <1>1, <1>2, <2>2, <2>4, <2>5, GivesKept DEF n
  <2>7. PICK j \in 0 .. LgCells - 1 : j = n - k
    BY <2>2, <2>6, LgConstants
  <2>8. /\ r[j].at = CellOf(LgFrom(k + 1)) /\ r[j].count = LgEnd - LgFrom(k + 1) /\ r[j].on /\ Len(r[j].out) = j
        /\ \A i \in 1 .. j : r[j].out[i] = Data(lgLog[n + 1 - i])
    BY <2>2, <2>6, <2>7, Zenon DEF Given, n
  <2>9. Round(byte, r[j]) = [r[j] EXCEPT !.on = FALSE]
    <3>1. lgLog[k].size + 1 \in 0 .. lgLog[k].size + 1
      BY <2>3
    <3>2. Cell(lgLog[k], lgLog[k].size + 1).id <= lgLog[k].id
      BY <2>1, <2>2, <3>1 DEF Intact
    <3>3. Round(byte, r[j]) =
            IF LgEnd - lgLog[k].from >= LgCells \/ Says(byte, CellOf(lgLog[k].from)) # lgLog[k].size
            THEN [r[j] EXCEPT !.on = FALSE]
            ELSE [at |-> CellOf(lgLog[k].from), count |-> LgEnd - lgLog[k].from, on |-> TRUE,
                  out |-> Append(r[j].out, [i \in 1 .. lgLog[k].size |-> Cell(lgLog[k], i)])]
      BY <2>2, <2>8, <3>2, Back
    <3>4. LgEnd - lgLog[k].from >= LgCells
      BY <2>1, <2>2, LgConstants
    <3>. QED
      BY <3>3, <3>4, Zenon
  <2>10. r[j + 1] = [r[j] EXCEPT !.on = FALSE]
    BY <1>2, <2>8, <2>9 DEF Goes
  <2>11. r[j] \in LgRound /\ j + 1 \in 0 .. LgCells
    <3>1. j \in 0 .. LgCells /\ j + 1 \in 0 .. LgCells
      BY LgConstants
    <3>. QED
      BY <1>1, <1>2, <3>1, GoesType
  <2>12. ~r[j + 1].on /\ r[j + 1].out = r[j].out
    BY <2>10, <2>11 DEF LgRound
  <2>13. r[LgCells].out = r[j].out
    BY <1>1, <1>2, <2>11, <2>12, GoesOn
  <2>14. Foreach(byte) = r[j].out /\ r[j].out \in Seq(LgRead)
    BY <1>2, <2>11, <2>13 DEF LgRound
  <2>15. Len(Foreach(byte)) = j /\ DOMAIN Foreach(byte) = 1 .. j
    <3>. HIDE DEF LgRead
    <3>. QED
      BY <2>8, <2>14
  <2>16. Len(Kept) = j + 1
    BY <1>3, <2>2, <2>7
  <2>17. \A i \in DOMAIN Kept \cap DOMAIN Foreach(byte) : Foreach(byte)[i] = Data(Kept[i])
    BY <1>3, <2>8, <2>14, <2>15, Zenon
  <2>. QED
    BY <1>6, <2>15, <2>16, <2>17
<1>7. CASE ~Full(Kept)
  <2>1. LgEnd - LgFrom(m + 1) < LgCells
    BY <1>1, <1>4, <1>5, <1>7, LgConstants
  <2>2. n - m < LgCells /\ Given(r[n - m], n - m)
    <3>1. n - m \in 0 .. n - m
      BY <1>1, <1>3
    <3>. QED
      BY <1>1, <1>2, <1>3, <2>1, <3>1, GivesKept DEF n
  <2>3. PICK j \in 0 .. LgCells - 1 : j = n - m
    BY <1>1, <1>3, <2>2, LgConstants
  <2>4. n - j + 1 = m + 1
    BY <1>1, <1>3, <2>3
  <2>5. /\ r[j].at = CellOf(LgFrom(m + 1)) /\ r[j].count = LgEnd - LgFrom(m + 1) /\ r[j].on /\ Len(r[j].out) = j
        /\ \A i \in 1 .. j : r[j].out[i] = Data(lgLog[n + 1 - i])
    BY <2>2, <2>3, <2>4, Zenon DEF Given, n
  <2>6. j \in 0 .. LgCells /\ j + 1 \in 0 .. LgCells
    BY LgConstants
  <2>7. r[j] \in LgRound /\ r[LgCells] \in LgRound
    <3>1. LgCells \in 0 .. LgCells
      BY LgConstants
    <3>. QED
      BY <1>1, <1>2, <2>6, <3>1, GoesType
  <2>8. /\ j <= Len(Foreach(byte))
        /\ \A i \in 1 .. j : Foreach(byte)[i] = r[j].out[i]
    BY <1>1, <1>2, <2>5, <2>6, GoesOn
  <2>9. Len(Kept) = j /\ DOMAIN Kept = 1 .. j
    BY <1>3, <2>3
  <2>10. \A i \in DOMAIN Kept \cap DOMAIN Foreach(byte) : Foreach(byte)[i] = Data(Kept[i])
    BY <1>3, <2>5, <2>8, <2>9, Zenon
  <2>11. ASSUME lgWrite = NoWrite, lgRestarts = 0 PROVE Len(Foreach(byte)) <= Len(Kept)
    <3>1. Round(byte, r[j]) = [r[j] EXCEPT !.on = FALSE]
      BY <1>3, <2>1, <2>5, <2>11, StopsThere DEF n
    <3>2. r[j + 1] = [r[j] EXCEPT !.on = FALSE]
      BY <1>2, <2>5, <3>1 DEF Goes
    <3>3. ~r[j + 1].on /\ r[j + 1].out = r[j].out
      BY <2>7, <3>2 DEF LgRound
    <3>4. Foreach(byte) = r[j].out
      BY <1>1, <1>2, <2>6, <3>3, GoesOn
    <3>. QED
      BY <2>5, <2>9, <3>4
  <2>12. Len(Foreach(byte)) \in Nat
    <3>1. r[LgCells].out \in Seq(LgRead)
      BY <2>7 DEF LgRound
    <3>. HIDE DEF LgRead
    <3>. QED
      BY <1>2, <3>1
  <2>. QED
    BY <1>7, <2>8, <2>9, <2>10, <2>11, <2>12
<1>. QED
  BY <1>6, <1>7

LEMMA InvReadsBack == LgInv => LgReadsBack
BY ReadsKept DEF LgReadsBack, KeepsEntries, NothingElse

(* Whatever was stored, at whichever point a log_store was broken off, and     *)
(* however often the ring went round: log_store_foreach gives back the newest   *)
(* entries, whole and in their order.                                       *)
THEOREM LogReadsBack == LgSpec => []LgReadsBack
<1>1. LgInv => LgReadsBack
  BY InvReadsBack
<1>. QED
  BY <1>1, LgInvInit, LgInvNext, PTL DEF LgSpec

-----------------------------------------------------------------------------
(* The file transfer.  A map that was made for this file and chunk size has   *)
(* its marks at the first chunks, because the client asks for all the others  *)
(* and the server sends them in order.                                       *)
FtpSteps == {"idle", "file", "newmap", "status", "read", "mark", "crc", "done",
             "ask", "send", "check", "uploaded"}

(* Types.  What a foreign map makes of the chunks to come does not matter.   *)
FtpTypes ==
  /\ ftpSource \in {1, 2}
  /\ ftpThere \subseteq {"data", "map"}
  /\ ftpFile \in [FtpUnit -> 0 .. 2]
  /\ ftpMap \in Seq(BOOLEAN)
  /\ ftpServer \in [size : FtpSizes \cup {0}, units : [FtpUnit -> 0 .. 2], got : {ftpServer.got}]
  /\ ftpCmd \in [at : FtpSteps, size : FtpSizes \cup {1}, chunk : {ftpCmd.chunk}, open : BOOLEAN]
  /\ ftpCmd.at # "idle" => ftpCmd.size \in FtpSizes
  /\ ftpMade \in FtpSizes \cup {0}

(* The files that a download has.                                           *)
FtpFiles ==
  /\ "map" \notin ftpThere => ftpMap = <<>> /\ ftpMade = 0
  /\ ftpCmd.at \in {"newmap", "status", "read", "mark", "crc", "done"} => "data" \in ftpThere
  /\ ftpCmd.at \in {"status", "read", "mark", "crc", "done"} => "map" \in ftpThere

(* A map that was made with the chunk size of the download.                 *)
Suits ==
  /\ ftpCmd.at \in {"status", "read", "mark", "crc", "done"} => ftpCmd.size = ftpMade
  /\ ftpMap # <<>> => Len(ftpMap) = FtpChunks(ftpMade)

(* The chunks received are the first ones ...                               *)
FirstMarked(k) == \A c \in DOMAIN ftpMap : ftpMap[c] <=> c <= k

(* ... because the others are received in their order.                      *)
Follow(k) ==
  /\ ftpWire \in Seq(Int)
  /\ Len(ftpWire) = Len(ftpMap) - k
  /\ \A i \in DOMAIN ftpWire : ftpWire[i] = k + i - 1

ChunkThere(k) == \A u \in FtpUnit : (u - 1) \div ftpMade = k => ftpFile[u] = ftpSource

InTurn ==
  \E k \in 0 .. Len(ftpMap) :
    /\ FirstMarked(k)
    /\ At("read") => Follow(k)
    /\ At("mark") => k < Len(ftpMap) /\ ftpCmd.chunk = k /\ Follow(k + 1) /\ ChunkThere(k)

MarksAreTrue ==
  \A u \in FtpUnit :
    LET c == (u - 1) \div ftpMade + 1 IN
    c \in DOMAIN ftpMap /\ ftpMap[c] => ftpFile[u] = ftpSource

FtpInv == FtpTypes /\ FtpFiles /\ (ftpMade # 0 => Suits /\ InTurn /\ MarksAreTrue)

(* A unit is in the chunk that is found by division, and that is written      *)
(* with all its units, the last as far as the file goes.                    *)
LEMMA DivBounds ==
  ASSUME NEW a \in Nat, NEW b \in Nat \ {0}
  PROVE  \E q, r \in Nat : q = a \div b /\ r = a % b /\ a = q * b + r /\ r < b
<1> DEFINE q == a \div b  r == a % b
<1>1. q \in Nat /\ r \in Nat /\ r < b
  OBVIOUS
<1>2. b * q + r = a
  OBVIOUS
<1>3. q = a \div b /\ r = a % b
  OBVIOUS
<1> HIDE DEF q, r
<1>4. a = q * b + r
  BY <1>1, <1>2
<1> QED  BY <1>1, <1>3, <1>4, Zenon

LEMMA QuotientIs ==
  ASSUME NEW a \in Nat, NEW b \in Nat \ {0}, NEW q \in Int, q * b <= a, a < q * b + b
  PROVE  a \div b = q
<1>1. PICK r \in Nat : r = a \div b /\ r * b <= a /\ a < r * b + b
  <2>1. PICK r \in Nat, s \in Nat : r = a \div b /\ a = r * b + s /\ s < b
    BY DivBounds, Zenon
  <2> HIDE <2>1
  <2>2. a = r * b + s /\ s < b
    BY <2>1, Zenon
  <2>3. r * b <= a /\ a < r * b + b
    BY <2>2
  <2> QED  BY <2>1, <2>3, Zenon
<1>2. ~(q < r)
  <2> SUFFICES ASSUME q < r PROVE FALSE
    OBVIOUS
  <2>1. PICK d \in Nat : r = q + 1 + d
    <3>1. r - q - 1 \in Nat /\ r = q + 1 + (r - q - 1)
      BY <1>1
    <3> QED  BY <3>1
  <2>2. r * b = q * b + b + d * b /\ d * b \in Nat
    BY <2>1
  <2> QED  BY <1>1, <2>2
<1>3. ~(r < q)
  <2> SUFFICES ASSUME r < q PROVE FALSE
    OBVIOUS
  <2>1. PICK d \in Nat : q = r + 1 + d
    <3>1. q - r - 1 \in Nat /\ q = r + 1 + (q - r - 1)
      BY <1>1
    <3> QED  BY <3>1
  <2>2. q * b = r * b + b + d * b /\ d * b \in Nat
    BY <1>1, <2>1
  <2> QED  BY <1>1, <2>2
<1>4. q = r
  BY <1>1, <1>2, <1>3
<1> QED  BY <1>1, <1>4, Zenon

(* The last chunk ends with the file.                                       *)
LEMMA LastChunk ==
  ASSUME NEW size \in Nat \ {0}
  PROVE  /\ FtpChunks(size) \in Nat \ {0}
         /\ LastLength(size) \in 1 .. size
         /\ FtpUnits = (FtpChunks(size) - 1) * size + LastLength(size)
<1>1. PICK q \in Nat, r \in Nat : /\ q = FtpUnits \div size /\ r = FtpUnits % size
                                  /\ FtpUnits = q * size + r /\ r < size
  BY FtpAssumption, DivBounds, Zenon
<1>2. FtpUnits \in Nat \ {0} /\ FtpUnits + size - 1 \in Nat
  BY FtpAssumption
<1>3. CASE r = 0
  <2>1. q * size <= FtpUnits + size - 1 /\ FtpUnits + size - 1 < q * size + size
    BY <1>1, <1>2, <1>3
  <2>2. FtpChunks(size) = q
    <3>1. (FtpUnits + size - 1) \div size = q
      BY <1>2, <2>1, q \in Int, QuotientIs, Zenon
    <3> QED  BY <3>1, Zenon DEF FtpChunks
  <2>3. q # 0
    BY <1>1, <1>2, <1>3
  <2>4. (q - 1) * size + size = q * size
    BY <1>1
  <2> QED  BY <1>1, <1>3, <2>2, <2>3, <2>4 DEF LastLength
<1>4. CASE r # 0
  <2>1. (q + 1) * size = q * size + size
    BY <1>1
  <2>2. (q + 1) * size <= FtpUnits + size - 1 /\ FtpUnits + size - 1 < (q + 1) * size + size
    BY <1>1, <1>2, <1>4, <2>1
  <2>3. FtpChunks(size) = q + 1
    <3>1. (FtpUnits + size - 1) \div size = q + 1
      BY <1>2, <2>2, q + 1 \in Int, QuotientIs, Zenon
    <3> QED  BY <3>1, Zenon DEF FtpChunks
  <2> QED  BY <1>1, <1>4, <2>3 DEF LastLength
<1> QED  BY <1>3, <1>4

LEMMA UnitIsWritten ==
  ASSUME NEW size \in Nat \ {0}, NEW u \in FtpUnit
  PROVE  LET c == (u - 1) \div size IN c \in 0 .. FtpChunks(size) - 1 /\ u \in Written(c, size)
<1> DEFINE last == FtpChunks(size) - 1
<1>1. u \in Nat \ {0} /\ u <= FtpUnits
  BY FtpAssumption DEF FtpUnit
<1>2. PICK c \in Nat : c = (u - 1) \div size /\ c * size <= u - 1 /\ u - 1 < c * size + size
  <2>1. u - 1 \in Nat
    BY <1>1
  <2>2. PICK c \in Nat, s \in Nat : c = (u - 1) \div size /\ u - 1 = c * size + s /\ s < size
    BY <2>1, DivBounds, Zenon
  <2> HIDE <2>2
  <2>3. u - 1 = c * size + s /\ s < size
    BY <2>2, Zenon
  <2>4. c * size <= u - 1 /\ u - 1 < c * size + size
    BY <1>1, <2>3
  <2> QED  BY <2>2, <2>4, Zenon
<1>6. c * size <= u - 1 /\ u - 1 < c * size + size
  BY <1>2, Zenon
<1> HIDE <1>2
<1>3. last \in Nat /\ LastLength(size) \in 1 .. size /\ FtpUnits = last * size + LastLength(size)
  BY LastChunk
<1> HIDE DEF last
<1>4. c <= last
  <2> SUFFICES ASSUME last < c PROVE FALSE
    BY <1>3
  <2>1. PICK d \in Nat : c = last + 1 + d
    <3>1. c - last - 1 \in Nat /\ c = last + 1 + (c - last - 1)
      BY <1>6, <1>3
    <3> QED  BY <3>1
  <2>2. c * size = last * size + size + d * size /\ d * size \in Nat
    BY <1>3, <2>1
  <2> QED  BY <1>1, <1>6, <1>3, <2>2
<1>5. u \in Written(c, size)
  <2>1. CASE c = last
    BY <1>1, <1>6, <1>3, <2>1 DEF Written, last
  <2>2. CASE c # last
    BY <1>1, <1>6, <1>3, <2>2 DEF Written, last
  <2> QED  BY <2>1, <2>2
<1>7. c \in 0 .. FtpChunks(size) - 1
  BY <1>3, <1>4 DEF last
<1> QED  BY <1>2, <1>5, <1>7, Zenon

(* When the first k chunks are received, the reply is one range with the     *)
(* others, and the server sends those in their order.                       *)
LEMMA FlattenOne == ASSUME NEW S, NEW x \in Seq(S) PROVE FlattenSeq(<<x>>) = x
<1> DEFINE body(f) == [i \in 1 .. 1 |-> IF i = 1 THEN <<x>>[i] ELSE f[i - 1] \o <<x>>[i]]
           g == [i \in 1 .. 1 |-> x]
           flatten == CHOOSE f : f = body(f)
<1>1. g = body(g)
  OBVIOUS
<1>2. flatten = body(flatten)
  <2> HIDE DEF g, body
  <2> QED  BY <1>1, Zenon
<1>3. flatten[1] = x
  <2> HIDE DEF flatten
  <2> QED  BY <1>2
<1>4. Len(<<x>>) = 1
  OBVIOUS
<1> QED  BY <1>3, <1>4 DEF FlattenSeq

LEMMA MinOfInterval ==
  ASSUME NEW a \in Nat, NEW b \in Nat, a <= b PROVE Min(a .. b) = a
<1>1. a \in a .. b /\ \A y \in a .. b : a <= y
  OBVIOUS
<1>2. \A x \in a .. b : (\A y \in a .. b : x <= y) => x = a
  BY <1>1
<1> QED  BY <1>1, <1>2 DEF Min

LEMMA RangesAfterPrefix ==
  ASSUME NEW n \in Nat \ {0}, NEW k \in 0 .. n, NEW received \in Seq(BOOLEAN),
         Len(received) = n, \A c \in DOMAIN received : received[c] <=> c <= k
  PROVE  ChunksIn(Ranges(received, n)) = [j \in 1 .. n - k |-> k + j - 1]
<1> DEFINE lacks == Lacking(received, n)
           ends == {c \in 0 .. n - 1 : /\ \E m \in lacks : m <= c
                                       /\ c \in lacks => c = n - 1}
           End(i) == CHOOSE c \in ends : Cardinality({d \in ends : d <= c}) = i
<1>1. lacks = k .. n - 1
  BY DEF Lacking
<1>2. Ranges(received, n) = [i \in 1 .. Min({FtpRanges, Cardinality(ends)}) |-> RangeTo(lacks, End(i))]
  BY DEF Ranges
<1> HIDE DEF lacks
<1>3. CASE k = n
  <2>1. lacks = {}
    BY <1>1, <1>3
  <2>2. ends = {}
    BY <2>1
  <2>3. Cardinality(ends) = 0
    BY <2>2, FS_EmptySet
  <2>4. Min({FtpRanges, 0}) = 0
    BY FtpAssumption DEF Min
  <2> HIDE DEF ends, End
  <2>5. Ranges(received, n) = <<>>
    <3>1. 1 .. Min({FtpRanges, Cardinality(ends)}) = {}
      BY <2>3, <2>4
    <3>2. Ranges(received, n) = [i \in {} |-> RangeTo(lacks, End(i))]
      BY <1>2, <3>1, Zenon
    <3>3. [i \in {} |-> RangeTo(lacks, End(i))] = <<>>
      OBVIOUS
    <3> QED  BY <3>2, <3>3, Zenon
  <2>6. ChunksIn(Ranges(received, n)) = <<>>
    BY <2>5 DEF ChunksIn, FlattenSeq
  <2>7. [j \in 1 .. n - k |-> k + j - 1] = <<>>
    BY <1>3
  <2> QED  BY <2>6, <2>7
<1>4. CASE k < n
  <2>1. ends = {n - 1}
    BY <1>1, <1>4
  <2>2. Cardinality(ends) = 1
    BY <2>1, FS_Singleton
  <2>3. Min({FtpRanges, 1}) = 1
    BY FtpAssumption DEF Min
  <2>4. End(1) = n - 1
    <3>0. n - 1 \in {n - 1}
      OBVIOUS
    <3>1. {d \in {n - 1} : d <= n - 1} = {n - 1}
      OBVIOUS
    <3>2. Cardinality({d \in {n - 1} : d <= n - 1}) = 1
      BY <3>1, FS_Singleton
    <3> QED  BY <2>1, <3>2
  <2> HIDE DEF ends, End
  <2>5. {m \in lacks : m <= n - 1} = k .. n - 1
    BY <1>1
  <2>6. Cardinality(k .. n - 1) = n - k
    BY <1>4, FS_Interval
  <2>7. Min(k .. n - 1) = k
    BY <1>4, MinOfInterval
  <2> DEFINE range == [next |-> k, count |-> n - k]
  <2>8. RangeTo(lacks, n - 1) = range
    BY <2>5, <2>6, <2>7 DEF RangeTo
  <2>9. Ranges(received, n) = [i \in 1 .. 1 |-> RangeTo(lacks, End(i))]
    BY <1>2, <2>2, <2>3
  <2>10. Ranges(received, n) = <<range>>
    BY <2>4, <2>8, <2>9
  <2> DEFINE chunks == [j \in 1 .. n - k |-> k + j - 1]
  <2>11. chunks \in Seq(Int)
    <3>1. n - k \in Nat
      BY <1>4
    <3> QED  BY <3>1
  <2>12. [i \in DOMAIN <<range>> |-> [j \in 1 .. <<range>>[i].count |-> <<range>>[i].next + j - 1]]
         = <<chunks>>
    <3>1. DOMAIN <<range>> = {1} /\ <<range>>[1] = range /\ DOMAIN <<chunks>> = {1}
      OBVIOUS
    <3>2. range.next = k /\ range.count = n - k
      OBVIOUS
    <3>3. [j \in 1 .. <<range>>[1].count |-> <<range>>[1].next + j - 1] = <<chunks>>[1]
      BY <3>1, <3>2
    <3> HIDE DEF range, chunks
    <3>4. \A i \in {1} : [j \in 1 .. <<range>>[i].count |-> <<range>>[i].next + j - 1] = <<chunks>>[i]
      BY <3>3, Zenon
    <3> DEFINE sent(i) == [j \in 1 .. <<range>>[i].count |-> <<range>>[i].next + j - 1]
    <3>5. \A i \in {1} : sent(i) = <<chunks>>[i]
      BY <3>4, Zenon
    <3> HIDE DEF sent
    <3>6. [i \in {1} |-> sent(i)] = <<chunks>>
      BY <3>1, <3>5
    <3> QED  BY <3>1, <3>6 DEF sent
  <2> HIDE DEF chunks, range
  <2>13. FlattenSeq(<<chunks>>) = chunks
    BY <2>11, FlattenOne
  <2>14. ChunksIn(<<range>>) = chunks
    BY <2>12, <2>13, Zenon DEF ChunksIn
  <2> QED  BY <2>10, <2>14 DEF chunks
<1> QED  BY <1>3, <1>4

-----------------------------------------------------------------------------
LEMMA FtpInvInit == FtpInit => FtpInv
<1> SUFFICES ASSUME FtpInit PROVE FtpInv
  OBVIOUS
<1>1. FtpTypes
  BY DEF FtpInit, FtpTypes, FtpSteps, NoCommand, Empty, Hole
<1>2. FtpFiles
  BY DEF FtpInit, FtpFiles, NoCommand
<1> QED  BY <1>1, <1>2 DEF FtpInit, FtpInv

LEMMA CmdAt ==
  ASSUME FtpTypes, NEW at \in FtpSteps \ {"idle"}, Goto(at), ftpCmd.at # "idle"
  PROVE  /\ ftpCmd' \in [at : FtpSteps, size : FtpSizes \cup {1}, chunk : {ftpCmd'.chunk},
                         open : BOOLEAN]
         /\ ftpCmd'.at = at /\ ftpCmd'.size = ftpCmd.size /\ ftpCmd'.size \in FtpSizes
         /\ ftpCmd'.chunk = ftpCmd.chunk
BY DEF FtpTypes, Goto

LEMMA CmdStopped ==
  ASSUME Stop
  PROVE  /\ ftpCmd' \in [at : FtpSteps, size : FtpSizes \cup {1}, chunk : {ftpCmd'.chunk},
                         open : BOOLEAN]
         /\ ftpCmd'.at = "idle"
BY DEF Stop, NoCommand, FtpSteps

LEMMA CmdStarted ==
  ASSUME NEW at \in FtpSteps \ {"idle"}, Start(at)
  PROVE  /\ ftpCmd' \in [at : FtpSteps, size : FtpSizes \cup {1}, chunk : {ftpCmd'.chunk},
                         open : BOOLEAN]
         /\ ftpCmd'.at = at /\ ftpCmd'.size \in FtpSizes
BY DEF Start, NoCommand

LEMMA MarkedMap ==
  ASSUME NEW map \in Seq(BOOLEAN), NEW c
  PROVE  /\ [map EXCEPT ![c] = TRUE] \in Seq(BOOLEAN)
         /\ Len([map EXCEPT ![c] = TRUE]) = Len(map)
<1> DEFINE n == Len(map)  marked == [map EXCEPT ![c] = TRUE]
<1>1. n \in Nat /\ map \in [1 .. n -> BOOLEAN]
  OBVIOUS
<1>2. marked \in [1 .. n -> BOOLEAN]
  BY <1>1
<1> HIDE DEF n, marked
<1> QED  BY <1>1, <1>2 DEF n, marked

LEMMA FtpTypesNext == FtpTypes /\ [FtpNext]_ftpVars => FtpTypes'
<1> SUFFICES ASSUME FtpTypes, [FtpNext]_ftpVars PROVE FtpTypes'
  OBVIOUS
<1> USE DEF At
<1>1. ASSUME UNCHANGED <<ftpSource, ftpThere, ftpFile, ftpMap, ftpServer, ftpMade>>,
             ftpCmd' \in [at : FtpSteps, size : FtpSizes \cup {1}, chunk : {ftpCmd'.chunk},
                          open : BOOLEAN],
             ftpCmd'.at # "idle" => ftpCmd'.size \in FtpSizes
      PROVE  FtpTypes'
  BY <1>1 DEF FtpTypes
<1>2. CASE FtpUser
  <2>1. Empty \in [FtpUnit -> 0 .. 2] /\ <<>> \in Seq(BOOLEAN)
    BY DEF Empty, Hole
  <2>2. ftpSource' \in {1, 2} /\ ftpThere' \subseteq {"data", "map"}
    BY <1>2 DEF FtpUser, FtpTypes
  <2>3. ftpFile' \in [FtpUnit -> 0 .. 2] /\ ftpMap' \in Seq(BOOLEAN)
    <3>1. (ftpFile' = ftpFile \/ ftpFile' = Empty) /\ (ftpMap' = ftpMap \/ ftpMap' = <<>>)
      BY <1>2 DEF FtpUser
    <3> QED  BY <2>1, <3>1 DEF FtpTypes
  <2> QED  BY <1>2, <2>2, <2>3 DEF FtpUser, FtpTypes
<1>3. CASE FtpKill \/ FtpFail \/ FtpUploaded
  BY <1>1, <1>3, CmdStopped DEF FtpKill, FtpFail, FtpUploaded
<1>4. CASE FtpDownload
  BY <1>1, <1>4, CmdStarted DEF FtpDownload, Start, FtpSteps
<1>5. CASE FtpOpenFile
  <2>1. PICK at \in {"status", "newmap"} : Goto(at)
    BY <1>5 DEF FtpOpenFile
  <2>2. at \in FtpSteps \ {"idle"} /\ ftpCmd.at # "idle"
    BY <1>5 DEF FtpOpenFile, FtpSteps
  <2> QED  BY <1>5, <2>1, <2>2, CmdAt DEF FtpOpenFile, FtpTypes
<1>6. CASE FtpCreateMap
  <2>1. CASE "map" \notin ftpThere
    BY <1>6, <2>1 DEF FtpCreateMap, FtpTypes
  <2>2. CASE "map" \in ftpThere
    <3>1. Goto("status") /\ "status" \in FtpSteps \ {"idle"} /\ ftpCmd.at # "idle"
      BY <1>6, <2>2 DEF FtpCreateMap, FtpSteps
    <3>2. ftpCmd.size \in Nat \ {0}
      BY <3>1, FtpAssumption DEF FtpTypes
    <3>3. FtpChunks(ftpCmd.size) \in Nat
      BY <3>2, LastChunk
    <3>4. ftpMap' \in Seq(BOOLEAN)
      <4>1. ftpMap' = [c \in 1 .. FtpChunks(ftpCmd.size) |-> FALSE]
        BY <1>6, <2>2 DEF FtpCreateMap
      <4>2. \A n \in Nat : [c \in 1 .. n |-> FALSE] \in Seq(BOOLEAN)
        OBVIOUS
      <4> QED  BY <3>3, <4>1, <4>2
    <3> QED  BY <1>6, <2>2, <3>1, <3>4, CmdAt DEF FtpCreateMap, FtpTypes
  <2> QED  BY <2>1, <2>2
<1>7. CASE FtpStatusReply
  BY <1>1, <1>7, CmdAt DEF FtpStatusReply, FtpSteps
<1>8. CASE FtpReadData
  <2>1. ftpFile' \in [FtpUnit -> 0 .. 2]
    BY <1>8 DEF FtpReadData, FtpTypes
  <2>2. /\ ftpCmd' \in [at : FtpSteps, size : FtpSizes \cup {1}, chunk : {ftpCmd'.chunk},
                        open : BOOLEAN]
        /\ ftpCmd'.size \in FtpSizes
    BY <1>8 DEF FtpReadData, FtpTypes, FtpSteps
  <2> QED  BY <1>8, <2>1, <2>2 DEF FtpReadData, FtpTypes
<1>9. CASE FtpMark
  <2>1. PICK at \in {"read", "crc"} : Goto(at)
    BY <1>9 DEF FtpMark
  <2>2. ftpMap' \in Seq(BOOLEAN)
    BY <1>9, MarkedMap DEF FtpMark, FtpTypes
  <2>3. at \in FtpSteps \ {"idle"} /\ ftpCmd.at # "idle"
    BY <1>9 DEF FtpMark, FtpSteps
  <2> QED  BY <1>9, <2>1, <2>2, <2>3, CmdAt DEF FtpMark, FtpTypes
<1>10. CASE FtpCrc
  BY <1>1, <1>10, CmdAt DEF FtpCrc, FtpSteps
<1>11. CASE FtpDone
  <2>1. <<>> \in Seq(BOOLEAN)
    OBVIOUS
  <2> QED  BY <1>11, <2>1, CmdStopped DEF FtpDone, FtpTypes
<1>12. CASE FtpUpload
  <2>1. /\ ftpCmd' \in [at : FtpSteps, size : FtpSizes \cup {1}, chunk : {ftpCmd'.chunk},
                        open : BOOLEAN]
        /\ ftpCmd'.size \in FtpSizes
    BY <1>12, CmdStarted DEF FtpUpload, FtpSteps
  <2>2. ftpServer' \in [size : FtpSizes \cup {0}, units : [FtpUnit -> 0 .. 2],
                        got : {ftpServer'.got}]
    BY <1>12, <2>1 DEF FtpUpload, FtpTypes, Empty, Hole
  <2> QED  BY <1>12, <2>1, <2>2 DEF FtpUpload, Start, FtpTypes
<1>13. CASE FtpStatusRequest
  BY <1>1, <1>13, CmdAt DEF FtpStatusRequest, FtpSteps
<1>14. CASE FtpData
  <2>1. ftpServer' \in [size : FtpSizes \cup {0}, units : [FtpUnit -> 0 .. 2],
                        got : {ftpServer'.got}]
    <3>1. CASE UNCHANGED ftpServer
      BY <3>1 DEF FtpTypes
    <3>2. CASE ~UNCHANGED ftpServer
      <4> DEFINE units == [u \in FtpUnit |-> IF u \in Written(Head(ftpWire), ftpCmd.size)
                                             THEN ftpSource ELSE ftpServer.units[u]]
                 got == ftpServer.got \cup {Head(ftpWire)}
      <4>1. units \in [FtpUnit -> 0 .. 2]
        BY DEF FtpTypes
      <4>2. ftpServer' = [ftpServer EXCEPT !.units = units, !.got = got]
        BY <1>14, <3>2 DEF FtpData
      <4> HIDE DEF units, got
      <4> QED  BY <4>1, <4>2 DEF FtpTypes
    <3> QED  BY <3>1, <3>2
  <2>2. /\ ftpCmd' \in [at : FtpSteps, size : FtpSizes \cup {1}, chunk : {ftpCmd'.chunk},
                        open : BOOLEAN]
        /\ ftpCmd'.size \in FtpSizes
    BY <1>14 DEF FtpData, FtpTypes
  <2> QED  BY <1>14, <2>1, <2>2 DEF FtpData, FtpTypes
<1>15. CASE FtpDataSent
  BY <1>1, <1>15, CmdAt DEF FtpDataSent, FtpSteps
<1>16. CASE FtpCheck
  BY <1>1, <1>16, CmdAt DEF FtpCheck, FtpSteps
<1>17. CASE UNCHANGED ftpVars
  BY <1>17 DEF ftpVars, FtpTypes
<1> QED  BY <1>2, <1>3, <1>4, <1>5, <1>6, <1>7, <1>8, <1>9, <1>10, <1>11, <1>12, <1>13, <1>14,
            <1>15, <1>16, <1>17 DEF FtpNext

LEMMA FtpFilesNext == FtpTypes /\ FtpFiles /\ [FtpNext]_ftpVars => FtpFiles'
<1> SUFFICES ASSUME FtpTypes, FtpFiles, [FtpNext]_ftpVars PROVE FtpFiles'
  OBVIOUS
<1> USE DEF At
<1>1. ASSUME UNCHANGED <<ftpThere, ftpMap, ftpMade>>,
             \/ ftpCmd'.at \notin {"newmap", "status", "read", "mark", "crc", "done"}
             \/ ftpCmd.at \in {"status", "read", "mark", "crc", "done"}
      PROVE  FtpFiles'
  BY <1>1 DEF FtpFiles
<1>2. CASE FtpUser
  BY <1>2 DEF FtpUser, FtpFiles
<1>3. CASE FtpKill \/ FtpFail \/ FtpUploaded
  BY <1>1, <1>3, CmdStopped DEF FtpKill, FtpFail, FtpUploaded
<1>4. CASE FtpDownload \/ FtpUpload
  BY <1>1, <1>4 DEF FtpDownload, FtpUpload, Start, NoCommand
<1>5. CASE FtpOpenFile
  <2>1. ftpCmd'.at = IF "map" \in ftpThere THEN "status" ELSE "newmap"
    BY <1>5 DEF FtpOpenFile, FtpTypes, Goto
  <2> QED  BY <1>5, <2>1 DEF FtpOpenFile, FtpFiles
<1>6. CASE FtpCreateMap
  <2>1. CASE "map" \notin ftpThere
    BY <1>6, <2>1 DEF FtpCreateMap, FtpFiles
  <2>2. CASE "map" \in ftpThere
    BY <1>6, <2>2 DEF FtpCreateMap, FtpFiles
  <2> QED  BY <2>1, <2>2
<1>7. CASE FtpStatusReply \/ FtpReadData \/ FtpCrc
  BY <1>1, <1>7 DEF FtpStatusReply, FtpReadData, FtpCrc
<1>8. CASE FtpMark
  BY <1>8 DEF FtpMark, FtpFiles
<1>9. CASE FtpDone
  BY <1>9, CmdStopped DEF FtpDone, FtpFiles
<1>10. CASE FtpStatusRequest \/ FtpData \/ FtpDataSent \/ FtpCheck
  BY <1>1, <1>10 DEF FtpStatusRequest, FtpData, FtpDataSent, FtpCheck, Goto, FtpTypes
<1>11. CASE UNCHANGED ftpVars
  BY <1>11 DEF ftpVars, FtpFiles
<1> QED  BY <1>2, <1>3, <1>4, <1>5, <1>6, <1>7, <1>8, <1>9, <1>10, <1>11 DEF FtpNext

(* What holds of a map that was made for this file and chunk size.           *)
Resumes == ftpMade # 0 => Suits /\ InTurn /\ MarksAreTrue

LEMMA MapLength == FtpTypes => Len(ftpMap) \in Nat /\ DOMAIN ftpMap = 1 .. Len(ftpMap)
BY DEF FtpTypes

LEMMA RepliesInTurn == FtpTypes /\ FtpFiles /\ Resumes /\ FtpStatusReply => Resumes'
<1> SUFFICES ASSUME FtpTypes, FtpFiles, Resumes, FtpStatusReply, ftpMade' # 0
             PROVE  Suits' /\ InTurn' /\ MarksAreTrue'
  BY DEF Resumes
<1> DEFINE n == FtpChunks(ftpMade)
<1>1. /\ ftpCmd.at = "status" /\ Len(ftpMap) >= FtpChunks(ftpCmd.size)
      /\ ftpWire' = ChunksIn(Ranges(ftpMap, FtpChunks(ftpCmd.size)))
      /\ Goto("read")
      /\ UNCHANGED <<ftpSource, ftpFile, ftpMap, ftpMade>>
  BY DEF FtpStatusReply, At
<1>2. Suits /\ InTurn /\ MarksAreTrue /\ ftpCmd.size = ftpMade /\ ftpMade \in Nat \ {0}
  BY <1>1, FtpAssumption DEF Resumes, Suits, FtpTypes
<1>3. ftpCmd'.at = "read" /\ ftpCmd'.size = ftpCmd.size
  BY <1>1 DEF Goto, FtpTypes
<1>4. n \in Nat \ {0}
  BY <1>2, LastChunk
<1>5. ftpMap \in Seq(BOOLEAN) /\ Len(ftpMap) = n
  <2>1. ftpMap # <<>>
    BY <1>1, <1>2, <1>4
  <2> QED  BY <1>2, <2>1 DEF Suits, FtpTypes
<1>6. PICK k \in 0 .. Len(ftpMap) : FirstMarked(k)
  BY <1>2 DEF InTurn
<1> HIDE DEF n
<1>7. ftpWire' = [j \in 1 .. n - k |-> k + j - 1]
  <2>1. ftpWire' = ChunksIn(Ranges(ftpMap, n))
    BY <1>1, <1>2 DEF n
  <2> QED  BY <1>4, <1>5, <1>6, <2>1, RangesAfterPrefix DEF FirstMarked
<1>8. Follow(k)'
  <2>1. n - k \in Nat
    BY <1>4, <1>5, <1>6
  <2> HIDE <1>1
  <2>2. ftpMap' = ftpMap
    BY <1>1
  <2> QED  BY <1>5, <1>6, <1>7, <2>1, <2>2 DEF Follow
<1>9. InTurn'
  BY <1>1, <1>3, <1>6, <1>8 DEF InTurn, FirstMarked, At
<1>10. Suits'
  BY <1>1, <1>2, <1>3 DEF Suits
<1>11. MarksAreTrue'
  BY <1>1, <1>2 DEF MarksAreTrue
<1> QED  BY <1>9, <1>10, <1>11

LEMMA ReadsInTurn == FtpTypes /\ FtpFiles /\ Resumes /\ FtpReadData => Resumes'
<1> SUFFICES ASSUME FtpTypes, FtpFiles, Resumes, FtpReadData, ftpMade' # 0
             PROVE  Suits' /\ InTurn' /\ MarksAreTrue'
  BY DEF Resumes
<1>1. /\ ftpCmd.at = "read" /\ ftpWire # <<>>
      /\ ftpFile' = [u \in FtpUnit |-> IF u \in Written(Head(ftpWire), ftpCmd.size)
                                       THEN ftpSource ELSE ftpFile[u]]
      /\ ftpWire' = Tail(ftpWire)
      /\ UNCHANGED <<ftpSource, ftpMap, ftpMade>>
  BY DEF FtpReadData, At
<1>2. Suits /\ InTurn /\ MarksAreTrue /\ ftpCmd.size = ftpMade /\ ftpMade \in Nat \ {0}
  BY <1>1, FtpAssumption DEF Resumes, Suits, FtpTypes
<1>3. ftpCmd'.at = "mark" /\ ftpCmd'.size = ftpCmd.size /\ ftpCmd'.chunk = Head(ftpWire)
  BY DEF FtpReadData, FtpTypes
<1>4. PICK k \in 0 .. Len(ftpMap) : FirstMarked(k) /\ Follow(k)
  BY <1>1, <1>2 DEF InTurn, At
<1>5. Len(ftpMap) \in Nat
  BY MapLength
<1>6. Head(ftpWire) = k /\ k < Len(ftpMap)
  BY <1>1, <1>4, <1>5 DEF Follow
<1>7. Follow(k + 1)'
  <2> DEFINE wire == ftpWire
  <2>1. wire \in Seq(Int) /\ wire # <<>> /\ Len(wire) = Len(ftpMap) - k
        /\ \A i \in DOMAIN wire : wire[i] = k + i - 1
    BY <1>1, <1>4 DEF Follow
  <2> HIDE DEF wire
  <2>2. /\ Tail(wire) \in Seq(Int) /\ Len(Tail(wire)) = Len(wire) - 1
        /\ \A i \in DOMAIN Tail(wire) : i + 1 \in DOMAIN wire /\ Tail(wire)[i] = wire[i + 1] /\ i \in Nat
    BY <2>1
  <2>3. \A i \in DOMAIN Tail(wire) : Tail(wire)[i] = (k + 1) + i - 1
    BY <2>1, <2>2
  <2>4. Len(Tail(wire)) = Len(ftpMap) - (k + 1)
    BY <1>5, <2>1, <2>2
  <2>5. ftpWire' = Tail(wire) /\ ftpMap' = ftpMap
    BY <1>1 DEF wire
  <2> QED  BY <2>2, <2>3, <2>4, <2>5 DEF Follow
<1>8. ChunkThere(k)'
  <2> SUFFICES ASSUME NEW u \in FtpUnit, (u - 1) \div ftpMade = k PROVE ftpFile'[u] = ftpSource
    BY <1>1 DEF ChunkThere
  <2>1. u \in Written(k, ftpMade)
    BY <1>2, UnitIsWritten
  <2> QED  BY <1>1, <1>2, <1>6, <2>1
<1>9. InTurn'
  BY <1>1, <1>3, <1>4, <1>6, <1>7, <1>8 DEF InTurn, FirstMarked, At
<1>10. Suits'
  BY <1>1, <1>2, <1>3 DEF Suits
<1>11. MarksAreTrue'
  BY <1>1, <1>2 DEF MarksAreTrue
<1> QED  BY <1>9, <1>10, <1>11

LEMMA MarksInTurn == FtpTypes /\ FtpFiles /\ Resumes /\ FtpMark => Resumes'
<1> SUFFICES ASSUME FtpTypes, FtpFiles, Resumes, FtpMark, ftpMade' # 0
             PROVE  Suits' /\ InTurn' /\ MarksAreTrue'
  BY DEF Resumes
<1>1. /\ ftpCmd.at = "mark"
      /\ ftpMap' = [ftpMap EXCEPT ![ftpCmd.chunk + 1] = TRUE]
      /\ UNCHANGED <<ftpSource, ftpFile, ftpWire, ftpMade>>
  BY DEF FtpMark, At
<1>2. Suits /\ InTurn /\ MarksAreTrue /\ ftpCmd.size = ftpMade /\ ftpMade \in Nat \ {0}
  BY <1>1, FtpAssumption DEF Resumes, Suits, FtpTypes
<1>3. ftpCmd'.at \in {"read", "crc"} /\ ftpCmd'.size = ftpCmd.size
  BY DEF FtpMark, FtpTypes, Goto
<1>4. PICK k \in 0 .. Len(ftpMap) : /\ FirstMarked(k) /\ k < Len(ftpMap) /\ ftpCmd.chunk = k
                                    /\ Follow(k + 1) /\ ChunkThere(k)
  BY <1>1, <1>2 DEF InTurn, At
<1>5. Len(ftpMap) \in Nat /\ DOMAIN ftpMap = 1 .. Len(ftpMap) /\ k \in Nat
  BY MapLength, <1>4
<1>6. ftpMap' \in Seq(BOOLEAN) /\ Len(ftpMap') = Len(ftpMap) /\ DOMAIN ftpMap' = DOMAIN ftpMap
      /\ \A c \in DOMAIN ftpMap : ftpMap'[c] = IF c = k + 1 THEN TRUE ELSE ftpMap[c]
  <2>1. ftpMap \in Seq(BOOLEAN)
    BY DEF FtpTypes
  <2> QED  BY <1>1, <1>4, <2>1, MarkedMap
<1>7. FirstMarked(k + 1)'
  <2> SUFFICES ASSUME NEW c \in DOMAIN ftpMap PROVE ftpMap'[c] <=> c <= k + 1
    BY <1>6 DEF FirstMarked
  <2>1. c <= k + 1 <=> c = k + 1 \/ c <= k
    BY <1>5
  <2>2. ftpMap[c] <=> c <= k
    BY <1>4 DEF FirstMarked
  <2>3. ftpMap'[c] <=> c = k + 1 \/ ftpMap[c]
    BY <1>6, Zenon
  <2> QED  BY <2>1, <2>2, <2>3, Zenon
<1>8. Follow(k + 1)'
  BY <1>1, <1>4, <1>6 DEF Follow
<1>9. InTurn'
  <2>1. k + 1 \in 0 .. Len(ftpMap')
    BY <1>4, <1>5, <1>6
  <2> QED  BY <1>3, <1>7, <1>8, <2>1 DEF InTurn, At
<1>10. Suits'
  <2>1. ftpMap # <<>>
    BY <1>4, <1>5
  <2> QED  BY <1>1, <1>2, <1>3, <1>6, <2>1 DEF Suits
<1>11. MarksAreTrue'
  <2> SUFFICES ASSUME NEW u \in FtpUnit, (u - 1) \div ftpMade + 1 \in DOMAIN ftpMap,
                      ftpMap'[(u - 1) \div ftpMade + 1]
               PROVE  ftpFile[u] = ftpSource
    BY <1>1, <1>6 DEF MarksAreTrue
  <2> DEFINE c == (u - 1) \div ftpMade
  <2>1. c \in Int
    BY <1>2, UnitIsWritten
  <2>2. c = k => ftpFile[u] = ftpSource
    BY <1>4 DEF ChunkThere
  <2>3. ftpMap[c + 1] => ftpFile[u] = ftpSource
    BY <1>2 DEF MarksAreTrue
  <2> HIDE DEF c
  <2>4. c + 1 \in DOMAIN ftpMap /\ ftpMap'[c + 1]
    BY DEF c
  <2>5. c + 1 = k + 1 \/ ftpMap[c + 1]
    BY <1>6, <2>4
  <2> QED  BY <1>5, <2>1, <2>2, <2>3, <2>5
<1> QED  BY <1>9, <1>10, <1>11

LEMMA ResumesNext == FtpTypes /\ FtpFiles /\ Resumes /\ [FtpNext]_ftpVars => Resumes'
<1> SUFFICES ASSUME FtpTypes, FtpFiles, Resumes, [FtpNext]_ftpVars PROVE Resumes'
  OBVIOUS
<1> USE DEF At
<1>1. ASSUME UNCHANGED <<ftpSource, ftpFile, ftpMap, ftpMade>>, ftpCmd'.at \notin {"read", "mark"},
             ftpCmd'.at \in {"status", "crc", "done"} =>
               /\ ftpCmd.at \in {"status", "read", "mark", "crc", "done"}
               /\ ftpCmd'.size = ftpCmd.size
      PROVE  Resumes'
  BY <1>1 DEF Resumes, Suits, InTurn, FirstMarked, MarksAreTrue
<1>2. CASE FtpUser
  BY <1>2 DEF FtpUser, Resumes
<1>3. CASE FtpKill \/ FtpFail \/ FtpUploaded
  BY <1>1, <1>3, CmdStopped DEF FtpKill, FtpFail, FtpUploaded
<1>4. CASE FtpDownload \/ FtpUpload
  BY <1>1, <1>4 DEF FtpDownload, FtpUpload, Start, NoCommand
<1>5. CASE FtpOpenFile
  <2> SUFFICES ASSUME ftpMade' # 0 PROVE Suits' /\ InTurn' /\ MarksAreTrue'
    BY DEF Resumes
  <2>1. ftpMade' = ftpMade /\ ftpMade = ftpCmd.size
    BY <1>5 DEF FtpOpenFile
  <2>2. ftpCmd'.at = "status" /\ ftpCmd'.size = ftpCmd.size
    BY <1>5, <2>1 DEF FtpOpenFile, FtpTypes, FtpFiles, Goto
  <2>3. UNCHANGED <<ftpSource, ftpFile, ftpMap>>
    BY <1>5 DEF FtpOpenFile
  <2>4. Suits /\ InTurn /\ MarksAreTrue
    BY <2>1 DEF Resumes
  <2> QED  BY <2>1, <2>2, <2>3, <2>4 DEF Suits, InTurn, FirstMarked, MarksAreTrue
<1>6. CASE FtpCreateMap
  <2> DEFINE n == FtpChunks(ftpCmd.size)
  <2>0. ftpCmd.at = "newmap" /\ ftpMade' = ftpCmd.size
    BY <1>6 DEF FtpCreateMap
  <2>1. CASE "map" \notin ftpThere
    <3>1. ftpMap' = <<>> /\ ftpCmd' = ftpCmd
      BY <1>6, <2>1 DEF FtpCreateMap, FtpFiles
    <3>2. Suits'
      BY <2>0, <3>1 DEF Suits
    <3>3. InTurn'
      <4>1. 0 \in 0 .. Len(ftpMap') /\ DOMAIN ftpMap' = {}
        BY <3>1
      <4> QED  BY <2>0, <3>1, <4>1 DEF InTurn, FirstMarked
    <3>4. MarksAreTrue'
      BY <3>1 DEF MarksAreTrue
    <3> QED  BY <3>2, <3>3, <3>4 DEF Resumes
  <2>2. CASE "map" \in ftpThere
    <3>1. ftpMap' = [c \in 1 .. n |-> FALSE] /\ Goto("status")
      BY <1>6, <2>2 DEF FtpCreateMap
    <3>2. ftpCmd'.at = "status" /\ ftpCmd'.size = ftpCmd.size
      BY <3>1 DEF Goto, FtpTypes
    <3>3. n \in Nat
      <4>1. ftpCmd.size \in Nat \ {0}
        BY <2>0, FtpAssumption DEF FtpTypes
      <4> QED  BY <4>1, LastChunk
    <3>4. Suits'
      <4>1. n = FtpChunks(ftpMade')
        BY <2>0
      <4> HIDE DEF n
      <4>2. Len(ftpMap') = n
        BY <3>1, <3>3
      <4> QED  BY <2>0, <3>2, <4>1, <4>2 DEF Suits
    <3> HIDE DEF n
    <3>5. InTurn'
      <4>1. 0 \in 0 .. Len(ftpMap')
        BY <3>1, <3>3
      <4>2. FirstMarked(0)'
        BY <3>1, <3>3 DEF FirstMarked
      <4> QED  BY <3>2, <4>1, <4>2 DEF InTurn
    <3>6. MarksAreTrue'
      BY <3>1 DEF MarksAreTrue
    <3> QED  BY <3>4, <3>5, <3>6 DEF Resumes
  <2> QED  BY <2>1, <2>2
<1>7. CASE FtpStatusReply
  BY <1>7, RepliesInTurn
<1>8. CASE FtpReadData
  BY <1>8, ReadsInTurn
<1>9. CASE FtpMark
  BY <1>9, MarksInTurn
<1>10. CASE FtpCrc
  BY <1>1, <1>10 DEF FtpCrc, Goto, FtpTypes
<1>11. CASE FtpDone
  BY <1>11 DEF FtpDone, Resumes
<1>12. CASE FtpStatusRequest \/ FtpDataSent \/ FtpCheck
  BY <1>1, <1>12 DEF FtpStatusRequest, FtpDataSent, FtpCheck, Goto, FtpTypes
<1>13. CASE FtpData
  BY <1>1, <1>13 DEF FtpData, FtpTypes
<1>14. CASE UNCHANGED ftpVars
  BY <1>14 DEF ftpVars, Resumes, Suits, InTurn, FirstMarked, Follow, ChunkThere, MarksAreTrue
<1> QED  BY <1>2, <1>3, <1>4, <1>5, <1>6, <1>7, <1>8, <1>9, <1>10, <1>11, <1>12, <1>13, <1>14
         DEF FtpNext

LEMMA FtpInvNext == FtpInv /\ [FtpNext]_ftpVars => FtpInv'
BY FtpTypesNext, FtpFilesNext, ResumesNext DEF FtpInv, Resumes

LEMMA InvResumes == FtpInv => FtpResumes
<1> SUFFICES ASSUME FtpInv, ftpMade # 0
             PROVE  MarksAreTrue /\ (At("read") => Missing = {ftpWire[i] + 1 : i \in DOMAIN ftpWire})
  BY DEF FtpResumes, MarksAreTrue
<1>1. FtpTypes /\ InTurn /\ MarksAreTrue
  BY DEF FtpInv
<1>2. ASSUME At("read") PROVE Missing = {ftpWire[i] + 1 : i \in DOMAIN ftpWire}
  <2>1. PICK k \in 0 .. Len(ftpMap) : FirstMarked(k) /\ Follow(k)
    BY <1>1, <1>2 DEF InTurn
  <2>2. Len(ftpMap) \in Nat /\ DOMAIN ftpMap = 1 .. Len(ftpMap)
    BY <1>1, MapLength
  <2>3. Missing = k + 1 .. Len(ftpMap)
    BY <2>1, <2>2 DEF Missing, FirstMarked
  <2>4. DOMAIN ftpWire = 1 .. Len(ftpMap) - k /\ \A i \in DOMAIN ftpWire : ftpWire[i] + 1 = k + i
    BY <2>1, <2>2 DEF Follow
  <2>5. ASSUME NEW m \in k + 1 .. Len(ftpMap) PROVE \E i \in DOMAIN ftpWire : ftpWire[i] + 1 = m
    <3>1. m - k \in DOMAIN ftpWire /\ k + (m - k) = m
      BY <2>1, <2>2, <2>4
    <3> QED  BY <2>4, <3>1
  <2>6. ASSUME NEW i \in DOMAIN ftpWire PROVE ftpWire[i] + 1 \in k + 1 .. Len(ftpMap)
    BY <2>1, <2>2, <2>4
  <2> QED  BY <2>3, <2>5, <2>6
<1> QED  BY <1>1, <1>2

LEMMA InvFtpType == FtpInv => FtpTypeOK
<1> SUFFICES ASSUME FtpInv PROVE FtpTypeOK
  OBVIOUS
<1>1. ftpCmd.at \in {"read", "mark", "crc", "done"} => ftpThere = {"data", "map"}
  BY DEF FtpInv, FtpTypes, FtpFiles
<1> QED  BY <1>1 DEF FtpInv, FtpTypes, FtpTypeOK, At

(* The map and the file of a download keep what a resumed one relies on.      *)
THEOREM FtpInvariance == FtpSpec => []FtpInv
BY FtpInvInit, FtpInvNext, PTL DEF FtpSpec

(* For a file of any size and any chunk sizes, downloads may be broken off     *)
(* anywhere: a chunk that the map marks holds the file's data, and what a       *)
(* resumed download asks for is all that is missing.                          *)
THEOREM DownloadsResume == FtpSpec => []FtpResumes
BY FtpInvariance, InvResumes, PTL

-----------------------------------------------------------------------------
(* The three together, as the run has them: each keeps its types, whichever   *)
(* of them runs.                                                             *)
THEOREM StoresTypeCorrect == Spec => []StoresTypeOK
<1>. DEFINE Stores3 == RtInv /\ LgInv /\ FtpInv
            all == <<store, rtVars, lgVars, ftpVars>>
<1>1. Init => Stores3
  BY RtInvInit, LgInvInit, FtpInvInit DEF Init
<1>2. ASSUME [Next]_all PROVE [RtNext]_rtVars /\ [LgNext]_lgVars /\ [FtpNext]_ftpVars
  <2>1. CASE UNCHANGED all
    BY <2>1
  <2>2. CASE OnlyTable
    BY <2>2 DEF OnlyTable
  <2>3. CASE OnlyLog
    BY <2>3 DEF OnlyLog
  <2>4. CASE OnlyFtp
    BY <2>4 DEF OnlyFtp
  <2>. QED
    BY <1>2, <2>1, <2>2, <2>3, <2>4 DEF Next
<1>3. Stores3 /\ [Next]_all => Stores3'
  BY <1>2, RtInvNext, LgInvNext, FtpInvNext
<1>4. Stores3 => StoresTypeOK
  BY InvRtType, LgInvType, InvFtpType DEF StoresTypeOK
<1>. QED
  BY <1>1, <1>3, <1>4, PTL DEF Spec
=============================================================================
