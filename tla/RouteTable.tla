----------------------------- MODULE RouteTable -----------------------------
(***************************************************************************)
(* The routing table (csp_rtable_cidr.c): a linked list without a lock.     *)
(* The router and the tasks that send walk it, one entry after the other,   *)
(* while the server task stores a route for a CMP request, one field after  *)
(* the other.  Entries are only freed by csp_rtable_clear, which a program   *)
(* calls when nothing walks the list.                                       *)
(***************************************************************************)
EXTENDS Integers, Sequences, SequencesExt, FiniteSetsExt

CONSTANTS RtBits,     \* CSP_ID_HOST_SIZE
          RtOwn,      \* csp_get_address()
          RtIfaces,   \* csp_iflist
          RtName,     \* the name of each interface
          RtLength,   \* the characters of each name
          RtMaxlen,   \* the length of the buffer given to csp_rtable_save
          RtLo,       \* csp_if_lo
          RtTexts,    \* the texts given to csp_rtable_load, or one route of a CMP request
          RtReaders,  \* tasks that look up routes
          RtUnset,    \* what malloc leaves in a field
          RtNull,     \* no interface, and a name that none has
          RtMax       \* bound on the entries

VARIABLES rtList,   \* rtable
          rtSet,    \* csp_rtable_set in the server task
          rtWalk,   \* csp_rtable_find in each reader
          rtTold    \* the routes told to csp_rtable_set, by prefix (history)

rtVars == <<rtList, rtSet, rtWalk, rtTold>>

RtAddresses == 0 .. 2 ^ RtBits - 1
RtDefault == 2 ^ RtBits      \* CSP_DEFAULT_ROUTE
NodeMac == 255               \* CSP_NODE_MAC

Route(address, netmask, iface, mac) ==
  [address |-> address, netmask |-> netmask, iface |-> iface, mac |-> mac]

RtNames == {RtName[i] : i \in RtIfaces}

(* A text between two commas: how many of "%u/%u %s %u" sscanf finds in it    *)
(* and what they are.  A netmask is never longer than an address: the shift  *)
(* by a negative number would be undefined.                                 *)
RtTokens == [words : 0 .. 4, address : RtAddresses \cup {RtDefault}, netmask : 0 .. RtBits,
             name : RtNames \cup {RtNull}, mac : 0 .. 255]

ASSUME RtAssumption ==
  /\ RtBits \in Nat \ {0} /\ RtDefault \in Nat /\ RtOwn \in RtAddresses
  /\ RtMax \in Nat \ {0, 1}
  /\ RtLo \in RtIfaces /\ RtNull \notin RtIfaces
  /\ RtUnset \notin RtIfaces /\ RtUnset \notin 0 .. 255
  /\ RtTexts \subseteq Seq(RtTokens) \ {<<>>}
  /\ RtNull \notin RtNames /\ RtLength \in [RtNames -> Nat \ {0}] /\ RtMaxlen \in Nat

(* Names differ in the ten characters that are compared, and a name has no   *)
(* blank and no comma; csp_iflist_add looks at neither.                      *)
ASSUME RtNamesDiffer ==
  RtName \in [RtIfaces -> RtNames] /\ \A i, j \in RtIfaces : RtName[i] = RtName[j] => i = j

-----------------------------------------------------------------------------
Matches(e, address) ==
  LET hosts == 2 ^ (RtBits - e.netmask) IN e.address \div hosts = address \div hosts

SameNet(e, f) == e.address = f.address /\ e.netmask = f.netmask

(* csp_rtable_set: the address of the default route stands for 0/0.         *)
Plain(r) == IF r.address = RtDefault THEN [r EXCEPT !.address = 0, !.netmask = 0] ELSE r

(* What csp_rtable_set does to a list nobody else uses.                     *)
Stored(list, route) ==
  LET r == Plain(route)  old == {i \in DOMAIN list : SameNet(list[i], r)} IN
  IF old = {} THEN Append(list, r)
  ELSE [i \in DOMAIN list |-> IF i \in old THEN r ELSE list[i]]

RtCleared == <<Route(RtOwn, RtBits, RtLo, NodeMac)>>

(* csp_iflist_get_by_name.                                                  *)
ByName(name) ==
  IF name \in RtNames THEN CHOOSE i \in RtIfaces : RtName[i] = name ELSE RtNull

(* What csp_rtable_parse makes of a token.  It stops at one of fewer than      *)
(* three words and at a name that no interface has: neither has an interface. *)
Parsed(token) ==
  Route(token.address, token.netmask,
        IF token.words < 3 THEN RtNull ELSE ByName(token.name),
        IF token.words = 4 THEN token.mac ELSE NodeMac)

(* csp_rtable_load into a list nobody else uses.                             *)
Loaded(list, tokens) ==
  LET Upto[n \in 0 .. Len(tokens)] ==
        IF n = 0 THEN list
        ELSE IF \E i \in 1 .. n : Parsed(tokens[i]).iface = RtNull THEN Upto[n - 1]
        ELSE Stored(Upto[n - 1], Parsed(tokens[n]))
  IN Upto[Len(tokens)]

(* Where the words of "%u/%u %s %u, " end, the last of which is left out for   *)
(* CSP_NODE_MAC, and the characters of an entry.                             *)
Digits(n) == IF n < 10 THEN 1 ELSE IF n < 100 THEN 2 ELSE 3
NetEnd(e) == Digits(e.address) + 1 + Digits(e.netmask)
NameEnd(e) == NetEnd(e) + 1 + RtLength[RtName[e.iface]]
MacEnd(e) == NameEnd(e) + IF e.mac = NodeMac THEN 0 ELSE 1 + Digits(e.mac)
EntryLength(e) == MacEnd(e) + 2

(* len of csp_rtable_save after each entry; the last is what it returns.       *)
SavedUpto(list) ==
  LET Upto[n \in 0 .. Len(list)] == IF n = 0 THEN 0 ELSE Upto[n - 1] + EntryLength(list[n])
  IN Upto

SavedLength(list) == SavedUpto(list)[Len(list)]

(* Mutant: the MAC address is never saved.                                  *)
SavedTokenNoMac(e, room) ==
  [words |-> IF room <= NetEnd(e) + 1 THEN 2 ELSE 3,
   address |-> e.address, netmask |-> e.netmask,
   name |-> IF room < NameEnd(e) THEN RtNull ELSE RtName[e.iface], mac |-> NodeMac]

(* An entry as sscanf finds it in the text of csp_rtable_save, when there is    *)
(* room for that many of its characters.  Of a MAC address that is cut the     *)
(* first digits are left; a name that is cut is no interface's; before that,  *)
(* two words at most are there.                                             *)
SavedToken(e, room) ==
  [words |-> IF room <= NetEnd(e) + 1 THEN 2
             ELSE IF e.mac = NodeMac \/ room <= NameEnd(e) + 1 THEN 3 ELSE 4,
   address |-> e.address, netmask |-> e.netmask,
   name |-> IF room < NameEnd(e) THEN RtNull ELSE RtName[e.iface],
   mac |-> IF room >= MacEnd(e) THEN e.mac
           ELSE IF room = MacEnd(e) - 1 THEN e.mac \div 10 ELSE e.mac \div 100]

(* The tokens in the buffer, which ends with a zero.                         *)
Saved(list) ==
  [i \in DOMAIN list |-> SavedToken(list[i], RtMaxlen - 1 - SavedUpto(list)[i - 1])]

-----------------------------------------------------------------------------
NoRoute == Route(0, 0, RtNull, NodeMac)
RtIdleWalk == [phase |-> "idle", address |-> 0, at |-> 1, best |-> 0, mask |-> 0, got |-> NoRoute,
               fair |-> TRUE, could |-> {}]
RtIdleSet == [at |-> "idle", entry |-> 0, route |-> Route(0, 0, RtLo, NodeMac), rest |-> <<>>]

(* The routes that csp_init sets.                                           *)
RtInit == /\ rtList = Append(RtCleared, Route(0, 0, RtLo, NodeMac))
          /\ rtSet = RtIdleSet
          /\ rtTold = {rtList[i] : i \in DOMAIN rtList}
          /\ rtWalk = [t \in RtReaders |-> RtIdleWalk]

(* The right answers: a route with the longest of the netmasks that match.  *)
Longest(routes, address) ==
  {r \in routes : /\ Matches(r, address)
                  /\ \A s \in routes : Matches(s, address) => s.netmask <= r.netmask}

Answers(routes, address) ==
  IF Longest(routes, address) = {} THEN {NoRoute}
  ELSE Longest(routes, address)

Retold(route) == {r \in rtTold : ~SameNet(r, route)} \cup {route}

(* From its call on, until it returns, both the old and the new are right;   *)
(* and a new route for a net that was right at some time of the lookup is.   *)
Renewed(could, route) == {route : r \in {c \in could : c # NoRoute /\ SameNet(c, route)}}

NowAlso(route) ==
  rtWalk' = [t \in RtReaders |->
    IF rtWalk[t].phase \notin {"walk", "found"} THEN rtWalk[t]
    ELSE [rtWalk[t] EXCEPT !.could = @ \cup Renewed(@, route)
                                       \cup Answers(Retold(route), rtWalk[t].address)]]

-----------------------------------------------------------------------------
(* csp_rtable_parse takes the next token of its text and ends at the first    *)
(* that it cannot read or whose interface it does not know; the route that a  *)
(* CMP request sets, whose interface is looked up in the same way, is a text  *)
(* of one token.                                                            *)
RtText == IF rtSet.rest = <<>> THEN RtTexts ELSE {rtSet.rest}

RtUnknown == /\ rtSet.at = "idle"
             /\ \E text \in RtText : Parsed(Head(text)).iface = RtNull
             /\ rtSet' = RtIdleSet
             /\ UNCHANGED <<rtList, rtWalk, rtTold>>

(* csp_rtable_set finds the entry, or appends a new one whose fields are not *)
(* set, or returns because there is no memory ...                           *)
RtSetCall ==
  /\ rtSet.at = "idle"
  /\ \E text \in RtText :
       LET r == Plain(Parsed(Head(text)))
           old == {i \in DOMAIN rtList : SameNet(rtList[i], r)}
           Store(at, i) == rtSet' = [at |-> at, entry |-> i, route |-> r, rest |-> Tail(text)]
       IN /\ r.iface # RtNull
          /\ \/ \E i \in old : Store("iface", i) /\ NowAlso(r) /\ UNCHANGED rtList
             \/ /\ old = {} /\ Len(rtList) < RtMax
                /\ Store("address", Len(rtList) + 1) /\ NowAlso(r)
                /\ \E a \in RtAddresses, n \in 0 .. RtBits :
                     rtList' = Append(rtList, Route(a, n, RtUnset, RtUnset))
             \/ /\ old = {}
                /\ rtSet' = [RtIdleSet EXCEPT !.rest = Tail(text)]
                /\ UNCHANGED <<rtList, rtWalk>>
  /\ UNCHANGED rtTold

After == [address |-> "netmask", netmask |-> "iface", iface |-> "mac", mac |-> "return"]

(* ... stores one field after the other ...                                 *)
RtSetField ==
  /\ rtSet.at \in DOMAIN After
  /\ rtList' = [rtList EXCEPT ![rtSet.entry][rtSet.at] = rtSet.route[rtSet.at]]
  /\ rtSet' = [rtSet EXCEPT !.at = After[@]]
  /\ UNCHANGED <<rtWalk, rtTold>>

(* ... and returns.                                                         *)
RtSetReturn == /\ rtSet.at = "return"
               /\ rtTold' = Retold(rtSet.route)
               /\ rtSet' = [RtIdleSet EXCEPT !.rest = rtSet.rest]
               /\ UNCHANGED <<rtList, rtWalk>>

-----------------------------------------------------------------------------
(* csp_rtable_find_iface and csp_rtable_find_mac: start at the head ...      *)
RtFind(t) ==
  /\ rtWalk[t].phase = "idle"
  /\ \E a \in RtAddresses :
       rtWalk' = [rtWalk EXCEPT ![t] =
         [RtIdleWalk EXCEPT !.phase = "walk", !.address = a,
            !.could = Answers(rtTold, a) \cup
                      IF rtSet.at = "idle" THEN {} ELSE Answers(Retold(rtSet.route), a)]]
  /\ UNCHANGED <<rtList, rtSet, rtTold>>

(* Mutant: the length of the best netmask is not remembered.                *)
BetterNoMask(w, i) == [w EXCEPT !.best = i]

Better(w, i) == [w EXCEPT !.best = i, !.mask = rtList[i].netmask]

FieldsSet(i) == rtList[i].iface # RtUnset /\ rtList[i].mac # RtUnset

(* ... look at one entry; an exact one ends the walk ...                    *)
RtVisit(t) ==
  LET w == rtWalk[t]
      seen == [w EXCEPT !.fair = w.fair /\ FieldsSet(w.at), !.at = w.at + 1]
      e == rtList[w.at]
  IN /\ w.phase = "walk" /\ w.at <= Len(rtList)
     /\ rtWalk' = [rtWalk EXCEPT ![t] =
          IF e.address = w.address /\ e.netmask = RtBits
          THEN [seen EXCEPT !.best = w.at, !.phase = "found"]
          ELSE IF Matches(e, w.address) /\ e.netmask >= w.mask THEN Better(seen, w.at)
          ELSE seen]
     /\ UNCHANGED <<rtList, rtSet, rtTold>>

RtEnd(t) ==
  /\ rtWalk[t].phase = "walk" /\ rtWalk[t].at > Len(rtList)
  /\ rtWalk' = [rtWalk EXCEPT ![t].phase = "found"]
  /\ UNCHANGED <<rtList, rtSet, rtTold>>

(* ... and take the interface or the MAC address from the best one.         *)
RtAnswer(t) ==
  LET w == rtWalk[t] IN
  /\ w.phase = "found"
  /\ rtWalk' = [rtWalk EXCEPT ![t] =
       [RtIdleWalk EXCEPT !.phase = "answered", !.fair = w.fair, !.could = w.could,
          !.got = IF w.best = 0 THEN NoRoute ELSE rtList[w.best]]]
  /\ UNCHANGED <<rtList, rtSet, rtTold>>

RtReturn(t) == /\ rtWalk[t].phase = "answered"
               /\ rtWalk' = [rtWalk EXCEPT ![t] = RtIdleWalk]
               /\ UNCHANGED <<rtList, rtSet, rtTold>>

-----------------------------------------------------------------------------
(* csp_rtable_clear, when no other task uses the table.                      *)
RtAlone == rtSet = RtIdleSet /\ \A t \in RtReaders : rtWalk[t].phase = "idle"

RtClear == /\ RtAlone
           /\ rtList' = RtCleared
           /\ rtTold' = {RtCleared[1]}
           /\ UNCHANGED <<rtSet, rtWalk>>

RtNext == \/ RtUnknown \/ RtSetCall \/ RtSetField \/ RtSetReturn
          \/ \E t \in RtReaders : RtFind(t) \/ RtVisit(t) \/ RtEnd(t) \/ RtAnswer(t) \/ RtReturn(t)
          \/ RtClear

RtSpec == RtInit /\ [][RtNext]_rtVars

-----------------------------------------------------------------------------
RtTypeOK ==
  /\ Len(rtList) <= RtMax
  /\ \A i \in DOMAIN rtList :
       /\ rtList[i].address \in RtAddresses /\ rtList[i].netmask \in 0 .. RtBits
       /\ FieldsSet(i) \/ (rtSet.at \in DOMAIN After /\ rtSet.entry = i)
  /\ \A t \in RtReaders : rtWalk[t].best <= Len(rtList)

(* A lookup gives the interface and the MAC address of a route with the      *)
(* longest netmask that matches, as the table was told before the lookup or  *)
(* by a csp_rtable_set that ran at the same time, or as it was told for that *)
(* net later in the lookup.  Excepted are lookups that met an entry before   *)
(* its fields were set.                                                     *)
RtLongest ==
  \A t \in RtReaders :
    LET w == rtWalk[t] IN
    w.phase = "answered" /\ w.fair =>
      \E r, s \in w.could : SameNet(r, s) /\ w.got = [r EXCEPT !.mac = s.mac]

(* If the length that csp_rtable_save returns says that the buffer had room,   *)
(* the text that csp_rtable_load reads out of it after csp_rtable_clear brings *)
(* back the very same table: every MAC address, also those left out of the    *)
(* text, and the order, on which the choice between two entries of equal      *)
(* length depends; the own address, which csp_rtable_clear puts at the head,   *)
(* was there before.  Memory for the entries is taken to be there.            *)
RtRoundTrip ==
  rtSet.at = "idle" /\ SavedLength(rtList) < RtMaxlen =>
    Loaded(RtCleared, Saved(rtList)) = rtList
=============================================================================
