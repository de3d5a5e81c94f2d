----------------------------- MODULE EtharpProofs ------------------------------
(****************************************************************************)
(* Theorems about Etharp, for tables of any size, any set of hosts, and any *)
(* of the times: the type invariant, and, as long as the main loop is not   *)
(* interrupted while it sends, that the table is sound, that packets leave  *)
(* for the address announced last, and that nothing is asked for twice      *)
(* between two ticks.                                                       *)
(****************************************************************************)
EXTENDS Etharp, TLAPS

LEMMA SlotsNat == Slots \subseteq Nat /\ 0 \in Slots
  BY TableAssumption DEF Slots

LEMMA HopIsHost == \A d \in Packets : NextHop(d) \in Hosts
  BY AddressAssumption DEF NextHop, Packets

-----------------------------------------------------------------------------
(* Looking for an entry. *)

LEMMA RecycledInSlots == Recycled \subseteq Slots
  BY DEF Recycled, First, Oldest

(* An index that etharp_find_entry returns is that of an entry for the      *)
(* address, or there is no such entry.                                      *)
LEMMA FindEntryResult ==
  ASSUME NEW ip, NEW tryHard \in BOOLEAN, NEW i \in FindEntry(ip, tryHard)
  PROVE  i \in Slots /\ (i \in Match(ip) \/ Match(ip) = {})
  <1>1. CASE Match(ip) # {} \/ ~tryHard
    <2>1. i \in First(Match(ip))
      BY <1>1 DEF FindEntry
    <2> QED
      BY <2>1 DEF First, Match
  <1>2. CASE Match(ip) = {} /\ tryHard
    <2>1. i \in Recycled
      BY <1>2 DEF FindEntry
    <2> QED
      BY <1>2, <2>1, RecycledInSlots
  <1> QED
    BY <1>1, <1>2

(* The entry that etharp_output finds is resolved, and the one of the       *)
(* address.                                                                 *)
LEMMA FoundResult ==
  ASSUME hint \in Slots, NEW ip, NEW i \in Found(ip)
  PROVE  i \in Slots /\ IsStable(table[i]) /\ table[i].ip = ip
  BY DEF Found, First, Resolved

LEMMA BlankIsEntry == Blank \in Entry
  BY AgeAssumption DEF Blank, Entry, States

(* What etharp_find_entry hands out is an entry with the address asked for. *)
LEMMA ClaimedIsEntry ==
  ASSUME TypeOK, NEW ip \in Hosts, NEW i \in Slots
  PROVE  /\ Claimed(i, ip) \in Entry
         /\ Claimed(i, ip).ip = ip
         /\ Asked(i, ip) \in Entry
         /\ Asked(i, ip).ip = ip
         /\ Asked(i, ip).state # "empty"
  <1>1. Claimed(i, ip) \in Entry /\ Claimed(i, ip).ip = ip
    <2>1. CASE i \in Match(ip)
      BY <2>1 DEF Claimed, Match, TypeOK
    <2>2. CASE i \notin Match(ip)
      BY <2>2, BlankIsEntry DEF Claimed, Blank, Entry
    <2> QED
      BY <2>1, <2>2
  <1> DEFINE e == Claimed(i, ip)
  <1>2. Asked(i, ip) = [e EXCEPT !.state = IF @ = "empty" THEN "pending" ELSE @]
    BY DEF Asked
  <1> HIDE DEF e
  <1>3. e \in Entry /\ e.ip = ip
    BY <1>1 DEF e
  <1> QED
    BY <1>1, <1>2, <1>3 DEF Entry, States

-----------------------------------------------------------------------------
(* The type invariant. *)

LEMMA InitTyped == Init => TypeOK
  <1> SUFFICES ASSUME Init PROVE TypeOK
    OBVIOUS
  <1>1. Gateway \in Packets
    BY AddressAssumption DEF Packets
  <1> QED
    BY <1>1, SlotsNat, BlankIsEntry, AgeAssumption
    DEF Init, TypeOK, NoCall, Silence

(* Only entries that hold an address are resolved.                          *)
Named == \A i \in Slots : table[i].state # "empty" => table[i].ip \in Hosts

LEMMA ToIndexTyped ==
  ASSUME TypeOK, Named, NEW i \in Slots, NEW ok \in BOOLEAN, ToIndex(i, ok)
  PROVE  /\ table' \in [Slots -> Entry] /\ asked' \in [Hosts -> Nat]
         /\ Named'
  <1>1. CASE Renews(i, ok)
    <2>1. table[i].ip \in Hosts
      BY <1>1 DEF Renews, Named
    <2>2. [table[i] EXCEPT !.state = "rerequesting"] \in Entry
      BY DEF TypeOK, Entry, States
    <2>3. table' = [table EXCEPT ![i] = [table[i] EXCEPT !.state = "rerequesting"]]
      BY <1>1 DEF ToIndex
    <2>4. asked' = [asked EXCEPT ![table[i].ip] = @ + 1]
      BY <1>1 DEF ToIndex
    <2>5. [table[i] EXCEPT !.state = "rerequesting"].ip = table[i].ip
      BY DEF TypeOK, Entry
    <2> QED
      BY <2>1, <2>2, <2>3, <2>4, <2>5 DEF TypeOK, Named
  <1>2. CASE ~Renews(i, ok)
    BY <1>2 DEF ToIndex, TypeOK, Named
  <1> QED
    BY <1>1, <1>2

LEMMA StepTyped == TypeOK /\ Named /\ [Next]_vars => TypeOK' /\ Named'
  <1> SUFFICES ASSUME TypeOK, Named, [Next]_vars PROVE TypeOK' /\ Named'
    OBVIOUS
  <1>1. ASSUME NEW d \in Packets, MainOutput(d) PROVE TypeOK' /\ Named'
    <2>1. NextHop(d) \in Hosts
      BY HopIsHost
    <2>2. ASSUME NEW i \in Found(NextHop(d)),
                 call' = [pc |-> "send", i |-> i, d |-> d], hint' = i,
                 UNCHANGED table, UNCHANGED <<heard, asked>>
          PROVE  TypeOK' /\ Named'
      <3>1. i \in Slots
        BY FoundResult DEF TypeOK
      <3> QED
        BY <2>2, <3>1 DEF TypeOK, Named
    <2>3. ASSUME NEW i \in FindEntry(NextHop(d), TRUE),
                 call' = [pc |-> "queue", i |-> i, d |-> d],
                 table' = [table EXCEPT ![i] = Asked(i, NextHop(d))],
                 UNCHANGED hint, UNCHANGED <<heard, asked>>
          PROVE  TypeOK' /\ Named'
      <3>1. i \in Slots
        BY FindEntryResult
      <3>2. Asked(i, NextHop(d)) \in Entry /\ Asked(i, NextHop(d)).ip \in Hosts
        BY <2>1, <3>1, ClaimedIsEntry
      <3> QED
        BY <2>3, <3>1, <3>2 DEF TypeOK, Named
    <2> QED
      BY <1>1, <2>2, <2>3 DEF MainOutput
  <1>2. CASE MainSend
    <2>1. PICK ok \in BOOLEAN : ToIndex(call.i, ok)
      BY <1>2 DEF MainSend
    <2>2. call.i \in Slots /\ NoCall \in [pc : {"none", "send", "queue"},
                                          i : Slots, d : Packets]
      BY SlotsNat, AddressAssumption DEF TypeOK, NoCall, Packets
    <2>3. /\ table' \in [Slots -> Entry] /\ asked' \in [Hosts -> Nat]
          /\ Named'
      BY <2>1, <2>2, ToIndexTyped
    <2> QED
      BY <1>2, <2>2, <2>3 DEF MainSend, TypeOK
  <1>3. CASE MainQueue
    <2>1. call.i \in Slots /\ call.d \in Packets
          /\ NoCall \in [pc : {"none", "send", "queue"}, i : Slots, d : Packets]
      BY SlotsNat, AddressAssumption DEF TypeOK, NoCall, Packets
    <2>2. [table[call.i] EXCEPT !.q = call.d] \in Entry
      BY <2>1 DEF TypeOK, Entry
    <2>3. table' = table
          \/ table' = [table EXCEPT ![call.i] = [table[call.i] EXCEPT !.q = call.d]]
      BY <1>3, <2>1 DEF MainQueue, TypeOK
    <2>4. table' \in [Slots -> Entry]
      BY <2>1, <2>2, <2>3 DEF TypeOK
    <2>5. \A i \in Slots : table'[i].ip = table[i].ip
                        /\ table'[i].state = table[i].state
      BY <2>1, <2>2, <2>3 DEF TypeOK, Entry
    <2> QED
      BY <1>3, <2>1, <2>4, <2>5 DEF MainQueue, TypeOK, Named
  <1>4. ASSUME NEW d \in Packets, InputOutput(d) PROVE TypeOK' /\ Named'
    <2>1. NextHop(d) \in Hosts
      BY HopIsHost
    <2>2. ASSUME NEW i \in Found(NextHop(d)), NEW ok \in BOOLEAN,
                 ToIndex(i, ok), hint' = i, UNCHANGED <<call, heard>>
          PROVE  TypeOK' /\ Named'
      <3>1. i \in Slots
        BY FoundResult DEF TypeOK
      <3>2. /\ table' \in [Slots -> Entry] /\ asked' \in [Hosts -> Nat]
            /\ Named'
        BY <2>2, <3>1, ToIndexTyped
      <3> QED
        BY <2>2, <3>1, <3>2 DEF TypeOK
    <2>3. ASSUME NEW i \in FindEntry(NextHop(d), TRUE), NEW copied \in BOOLEAN,
                 table' = [table EXCEPT ![i] =
                             [Asked(i, NextHop(d)) EXCEPT
                                !.q = IF copied THEN d ELSE @]],
                 UNCHANGED <<hint, asked>>, UNCHANGED <<call, heard>>
          PROVE  TypeOK' /\ Named'
      <3> DEFINE e == Asked(i, NextHop(d))
                 f == [e EXCEPT !.q = IF copied THEN d ELSE @]
      <3>1. i \in Slots
        BY FindEntryResult
      <3>2. e \in Entry /\ e.ip \in Hosts
        BY <2>1, <3>1, ClaimedIsEntry
      <3> HIDE DEF e
      <3>3. f \in Entry /\ f.ip \in Hosts
        BY <3>2 DEF Entry
      <3>4. table' = [table EXCEPT ![i] = f]
        BY <2>3 DEF e
      <3>5. UNCHANGED <<hint, asked, call, heard>>
        BY <2>3
      <3> HIDE DEF f
      <3> QED
        BY <3>1, <3>3, <3>4, <3>5 DEF TypeOK, Named
    <2> QED
      BY <1>4, <2>2, <2>3 DEF InputOutput
  <1>5. ASSUME NEW ip \in Hosts, NEW mac \in Macs, NEW forUs \in BOOLEAN,
               ArpInput(ip, mac, forUs)
        PROVE  TypeOK' /\ Named'
    <2>1. heard' \in [Hosts -> [mac : Macs \union {None}, age : 0..(MaxAge - 1)]]
      <3>1. heard' = [heard EXCEPT ![ip] = [mac |-> mac, age |-> 0]]
        BY <1>5 DEF ArpInput
      <3>2. 0 \in 0..(MaxAge - 1)
        BY AgeAssumption
      <3> QED
        BY <3>1, <3>2 DEF TypeOK
    <2>2. CASE UNCHANGED table
      BY <1>5, <2>1, <2>2 DEF ArpInput, TypeOK, Named
    <2>3. ASSUME NEW i \in FindEntry(ip, forUs),
                 table' = [table EXCEPT ![i] =
                             [Claimed(i, ip) EXCEPT !.state = "stable",
                                !.mac = mac, !.ctime = 0, !.q = None]]
          PROVE  TypeOK' /\ Named'
      <3> DEFINE e == Claimed(i, ip)
                 f == [e EXCEPT !.state = "stable", !.mac = mac,
                                !.ctime = 0, !.q = None]
      <3>1. i \in Slots
        BY FindEntryResult
      <3>2. e \in Entry /\ e.ip \in Hosts
        BY <3>1, ClaimedIsEntry
      <3> HIDE DEF e
      <3>3. f \in Entry /\ f.ip \in Hosts
        <4>1. 0 \in 0..(MaxAge - 1)
          BY AgeAssumption
        <4> QED
          BY <3>2, <4>1 DEF Entry, States
      <3>4. table' = [table EXCEPT ![i] = f]
        BY <2>3 DEF e
      <3> HIDE DEF f
      <3> QED
        BY <1>5, <2>1, <3>1, <3>3, <3>4 DEF ArpInput, TypeOK, Named
    <2> QED
      BY <1>5, <2>2, <2>3 DEF ArpInput
  <1>6. CASE Tick
    <2>1. \A i \in Slots : Aged(table[i]) \in Entry
                        /\ (Aged(table[i]).state # "empty" =>
                              Aged(table[i]).ip \in Hosts)
      <3> TAKE i \in Slots
      <3> DEFINE e == table[i]
      <3>1. e \in Entry /\ (e.state # "empty" => e.ip \in Hosts)
        BY DEF TypeOK, Named
      <3> HIDE DEF e
      <3>2. CASE e.state = "empty" \/ Expired(e)
        BY <3>2, BlankIsEntry DEF Aged, Blank, e
      <3>3. CASE e.state # "empty" /\ ~Expired(e)
        <4>1. Aged(e) = [e EXCEPT !.ctime = @ + 1,
                          !.state = IF @ = "rerequesting" THEN "stable" ELSE @]
          BY <3>3 DEF Aged
        <4>2. e.ctime + 1 \in 0..(MaxAge - 1)
          BY <3>1, <3>3, AgeAssumption DEF Expired, Entry
        <4>3. Aged(e) \in Entry /\ Aged(e).ip = e.ip
          BY <3>1, <4>1, <4>2 DEF Entry, States
        <4> QED
          BY <3>1, <3>3, <4>3 DEF e
      <3> QED
        BY <3>2, <3>3
    <2>2. heard' \in [Hosts -> [mac : Macs \union {None}, age : 0..(MaxAge - 1)]]
      <3>1. ASSUME NEW ip \in Hosts
            PROVE  heard'[ip] \in [mac : Macs \union {None}, age : 0..(MaxAge - 1)]
        BY <1>6, AgeAssumption DEF Tick, TypeOK, Silence
      <3> QED
        BY <1>6, <3>1 DEF Tick
    <2> QED
      BY <1>6, <2>1, <2>2 DEF Tick, TypeOK, Named
  <1>7. CASE UNCHANGED vars
    BY <1>7 DEF vars, TypeOK, Named
  <1> QED
    BY <1>1, <1>2, <1>3, <1>4, <1>5, <1>6, <1>7 DEF Next

(* Ages, indices and addresses stay in their ranges, interrupts or not: the *)
(* u8_t ctime never wraps.                                                  *)
THEOREM TableTyped == Spec => []TypeOK
  <1>1. Init => Named
    BY DEF Init, Named, Blank
  <1> QED
    BY <1>1, InitTyped, StepTyped, PTL DEF Spec

-----------------------------------------------------------------------------
(* The inductive invariant of a main loop that is not interrupted: beside   *)
(* the soundness of the table, a resolved entry is what its host announced, *)
(* and as old; a call holds the entry of its next hop; and an address that  *)
(* has been asked for again has no entry that would be asked for.           *)

Fresh == \A i \in Slots : IsStable(table[i]) =>
            /\ table[i].mac # None
            /\ heard[table[i].ip] = [mac |-> table[i].mac, age |-> table[i].ctime]

CallInv ==
    /\ call.pc = "send" => /\ IsStable(table[call.i])
                           /\ table[call.i].ip = NextHop(call.d)
    /\ call.pc = "queue" => /\ table[call.i].state = "pending"
                            /\ table[call.i].ip = NextHop(call.d)

Calm == /\ NoFlood
        /\ \A i \in Slots :
              table[i].state = "stable" /\ table[i].ctime >= Rerequest
                => asked[table[i].ip] = 0

TableInv == TypeOK /\ Named /\ TableSound /\ Fresh /\ CallInv /\ Calm

LEMMA InitInv == Init => TableInv
  <1> SUFFICES ASSUME Init PROVE TableInv
    OBVIOUS
  <1>1. \A i \in Slots : table[i].state = "empty" /\ table[i].q = None
    BY DEF Init, Blank
  <1>2. CallInv
    BY DEF Init, NoCall, CallInv
  <1> QED
    BY <1>1, <1>2, InitTyped
    DEF TableInv, Named, TableSound, Fresh, Calm, NoFlood, IsStable, Init

(* One entry is put where etharp_find_entry said, for the same address, and *)
(* what waits on it waits rightly.                                          *)
LEMMA PutSound ==
  ASSUME TypeOK, TableSound, NEW ip \in Hosts, NEW i \in Slots,
         i \in Match(ip) \/ Match(ip) = {},
         NEW e \in Entry, e.ip = ip,
         e.q # None => e.state = "pending" /\ NextHop(e.q) = ip,
         table' = [table EXCEPT ![i] = e]
  PROVE  TableSound'
  <1>1. \A j \in Slots : table'[j] = IF j = i THEN e ELSE table[j]
    BY DEF TypeOK
  <1>2. \A j \in Slots : table[j].state # "empty" /\ table[j].ip = ip => j = i
    BY DEF TableSound, Match
  <1> QED
    BY <1>1, <1>2 DEF TableSound

(* The others have other addresses.                                         *)
LEMMA OthersDiffer ==
  ASSUME TableSound, NEW ip, NEW i \in Slots,
         i \in Match(ip) \/ Match(ip) = {}
  PROVE  \A j \in Slots \ {i} : table[j].state # "empty" => table[j].ip # ip
  BY DEF TableSound, Match

(* With no resolved entry for the address, the one that is found or made is *)
(* pending, and keeps what waited on it for this address.                   *)
LEMMA AskedShape ==
  ASSUME TypeOK, TableSound, NEW ip \in Hosts, NEW i \in Slots, Resolved(ip) = {}
  PROVE  /\ Asked(i, ip).state = "pending"
         /\ Asked(i, ip).q # None => NextHop(Asked(i, ip).q) = ip
  <1>1. CASE i \in Match(ip)
    <2>1. table[i].state = "pending" /\ table[i].ip = ip
      BY <1>1 DEF Match, Resolved, IsStable, TypeOK, Entry, States
    <2>2. Claimed(i, ip) = table[i] /\ table[i] \in Entry
      BY <1>1 DEF Claimed, TypeOK
    <2>3. Asked(i, ip).state = "pending" /\ Asked(i, ip).q = table[i].q
      BY <2>1, <2>2 DEF Asked, Entry
    <2> QED
      BY <2>1, <2>3 DEF TableSound
  <1>2. CASE i \notin Match(ip)
    BY <1>2 DEF Asked, Claimed, Blank
  <1> QED
    BY <1>1, <1>2

(* A pending entry is put: nothing that is resolved changes.                *)
LEMMA PutPending ==
  ASSUME TableInv, NEW ip \in Hosts, NEW i \in Slots,
         i \in Match(ip) \/ Match(ip) = {},
         NEW e \in Entry, e.ip = ip, e.state = "pending",
         e.q # None => NextHop(e.q) = ip,
         table' = [table EXCEPT ![i] = e], UNCHANGED <<heard, asked>>
  PROVE  TableSound' /\ Fresh' /\ Calm'
  <1>1. TableSound'
    BY PutSound DEF TableInv
  <1>2. \A j \in Slots : table'[j] = IF j = i THEN e ELSE table[j]
    BY DEF TableInv, TypeOK
  <1>3. Fresh'
    BY <1>2 DEF TableInv, Fresh, IsStable
  <1>4. Calm'
    BY <1>2 DEF TableInv, Calm, NoFlood
  <1> QED
    BY <1>1, <1>3, <1>4

(* A packet is sent through an entry, which may be asked for again.         *)
LEMMA ToIndexInv ==
  ASSUME TableInv, NEW i \in Slots, NEW ok \in BOOLEAN, ToIndex(i, ok),
         heard' = heard
  PROVE  TableSound' /\ Fresh' /\ Calm'
  <1>1. CASE ~Renews(i, ok)
    BY <1>1 DEF ToIndex, TableInv, TableSound, Fresh, Calm, NoFlood
  <1>2. CASE Renews(i, ok)
    <2> DEFINE ip == table[i].ip
    <2>1. /\ table[i].state = "stable" /\ ip \in Hosts /\ asked[ip] = 0
      BY <1>2 DEF Renews, TableInv, Named, Calm
    <2>2. table' = [table EXCEPT ![i].state = "rerequesting"]
          /\ asked' = [asked EXCEPT ![ip] = @ + 1]
      BY <1>2 DEF ToIndex
    <2>3. \A j \in Slots : /\ j # i => table'[j] = table[j]
                           /\ table'[j].ip = table[j].ip
                           /\ table'[j].mac = table[j].mac
                           /\ table'[j].ctime = table[j].ctime
                           /\ table'[j].q = table[j].q
      BY <2>2 DEF TableInv, TypeOK, Entry
    <2>4. table'[i].state = "rerequesting"
      BY <2>2 DEF TableInv, TypeOK, Entry
    <2>5. table[i].q = None
      BY <2>1 DEF TableInv, TableSound
    <2>6. TableSound'
      BY <2>1, <2>3, <2>4, <2>5 DEF TableInv, TableSound
    <2>7. Fresh'
      BY <2>1, <2>3, <2>4 DEF TableInv, Fresh, IsStable
    <2>8. \A h \in Hosts : asked'[h] = IF h = ip THEN 1 ELSE asked[h]
      BY <2>1, <2>2 DEF TableInv, TypeOK
    <2>9. \A j \in Slots : j # i /\ table[j].state = "stable"
                             => table[j].ip \in Hosts /\ table[j].ip # ip
      BY <2>1 DEF TableInv, Named, TableSound
    <2>10. Calm'
      BY <2>3, <2>4, <2>8, <2>9 DEF TableInv, Calm, NoFlood
    <2> QED
      BY <2>6, <2>7, <2>10
  <1> QED
    BY <1>1, <1>2

LEMMA StepInv ==
  ASSUME ~Preempted, TableInv, [Next]_vars
  PROVE  TableInv'
  <1>0. TypeOK' /\ Named'
    BY StepTyped DEF TableInv
  <1>T. TypeOK
    BY DEF TableInv
  <1> SUFFICES TableSound' /\ Fresh' /\ CallInv' /\ Calm'
    BY <1>0 DEF TableInv
  <1>1. ASSUME NEW d \in Packets, MainOutput(d)
        PROVE  TableSound' /\ Fresh' /\ CallInv' /\ Calm'
    <2>1. NextHop(d) \in Hosts
      BY HopIsHost
    <2>2. ASSUME NEW i \in Found(NextHop(d)),
                 call' = [pc |-> "send", i |-> i, d |-> d],
                 UNCHANGED table, UNCHANGED <<heard, asked>>
          PROVE  TableSound' /\ Fresh' /\ CallInv' /\ Calm'
      <3>1. IsStable(table[i]) /\ table[i].ip = NextHop(d)
        BY <1>T, FoundResult DEF TypeOK
      <3>2. CallInv'
        BY <2>2, <3>1 DEF CallInv, IsStable
      <3> QED
        BY <2>2, <3>2 DEF TableInv, TableSound, Fresh, Calm, NoFlood
    <2>3. ASSUME Resolved(NextHop(d)) = {}, NEW i \in FindEntry(NextHop(d), TRUE),
                 call' = [pc |-> "queue", i |-> i, d |-> d],
                 table' = [table EXCEPT ![i] = Asked(i, NextHop(d))],
                 UNCHANGED <<heard, asked>>
          PROVE  TableSound' /\ Fresh' /\ CallInv' /\ Calm'
      <3> DEFINE e == Asked(i, NextHop(d))
      <3>1. i \in Slots /\ (i \in Match(NextHop(d)) \/ Match(NextHop(d)) = {})
        BY FindEntryResult
      <3>2. e \in Entry /\ e.ip = NextHop(d) /\ e.state = "pending"
            /\ (e.q # None => NextHop(e.q) = NextHop(d))
        BY <1>T, <2>1, <2>3, <3>1, ClaimedIsEntry, AskedShape DEF TableInv
      <3>3. table'[i] = e /\ table' = [table EXCEPT ![i] = e]
        BY <1>T, <2>3, <3>1 DEF TypeOK
      <3> HIDE DEF e
      <3>4. CallInv'
        BY <2>3, <3>2, <3>3 DEF CallInv
      <3>5. TableSound' /\ Fresh' /\ Calm'
        BY <2>1, <2>3, <3>1, <3>2, <3>3, PutPending
      <3> QED
        BY <3>4, <3>5
    <2> QED
      BY <1>1, <2>2, <2>3 DEF MainOutput
  <1>2. CASE MainSend
    <2>1. PICK ok \in BOOLEAN : ToIndex(call.i, ok)
      BY <1>2 DEF MainSend
    <2>2. call.i \in Slots /\ heard' = heard /\ call' = NoCall
      BY <1>2, <1>T DEF MainSend, TypeOK
    <2>3. CallInv'
      BY <2>2 DEF CallInv, NoCall
    <2> QED
      BY <2>1, <2>2, <2>3, ToIndexInv
  <1>3. CASE MainQueue
    <2> DEFINE i == call.i
               e == [table[i] EXCEPT !.q = call.d]
    <2>1. i \in Slots /\ call.d \in Packets /\ call' = NoCall
          /\ UNCHANGED <<heard, asked>>
      BY <1>3, <1>T DEF MainQueue, TypeOK
    <2>2. CallInv'
      BY <2>1 DEF CallInv, NoCall
    <2>3. CASE table' = table
      BY <2>1, <2>2, <2>3 DEF TableInv, TableSound, Fresh, Calm, NoFlood
    <2>4. CASE table' = [table EXCEPT ![i] = e]
      <3>1. table[i].state = "pending" /\ table[i].ip = NextHop(call.d)
        BY <1>3 DEF MainQueue, TableInv, CallInv
      <3>2. e \in Entry /\ e.ip = NextHop(call.d) /\ e.state = "pending"
            /\ e.q = call.d
        BY <1>T, <2>1, <3>1 DEF TypeOK, Entry
      <3>3. i \in Match(NextHop(call.d)) /\ NextHop(call.d) \in Hosts
        BY <2>1, <3>1, HopIsHost DEF Match
      <3> HIDE DEF e
      <3>4. TableSound' /\ Fresh' /\ Calm'
        BY <2>1, <2>4, <3>2, <3>3, PutPending
      <3> QED
        BY <2>2, <3>4
    <2>5. table' = table \/ table' = [table EXCEPT ![i] = e]
      BY <1>3, <1>T, <2>1 DEF MainQueue, TypeOK
    <2> QED
      BY <2>3, <2>4, <2>5
  <1>4. ASSUME NEW d \in Packets, InputOutput(d)
        PROVE  TableSound' /\ Fresh' /\ CallInv' /\ Calm'
    <2>1. NextHop(d) \in Hosts /\ call.pc = "none" /\ UNCHANGED <<call, heard>>
      BY <1>4, HopIsHost DEF InputOutput, MayReceive
    <2>2. CallInv'
      BY <2>1 DEF CallInv
    <2>3. ASSUME NEW i \in Found(NextHop(d)), NEW ok \in BOOLEAN, ToIndex(i, ok)
          PROVE  TableSound' /\ Fresh' /\ Calm'
      <3>1. i \in Slots
        BY <1>T, FoundResult DEF TypeOK
      <3> QED
        BY <2>1, <2>3, <3>1, ToIndexInv
    <2>4. ASSUME Resolved(NextHop(d)) = {}, NEW i \in FindEntry(NextHop(d), TRUE),
                 NEW copied \in BOOLEAN,
                 table' = [table EXCEPT ![i] =
                             [Asked(i, NextHop(d)) EXCEPT
                                !.q = IF copied THEN d ELSE @]],
                 UNCHANGED <<hint, asked>>
          PROVE  TableSound' /\ Fresh' /\ Calm'
      <3> DEFINE e == Asked(i, NextHop(d))
                 f == [e EXCEPT !.q = IF copied THEN d ELSE @]
      <3>1. i \in Slots /\ (i \in Match(NextHop(d)) \/ Match(NextHop(d)) = {})
        BY FindEntryResult
      <3>2. e \in Entry /\ e.ip = NextHop(d) /\ e.state = "pending"
            /\ (e.q # None => NextHop(e.q) = NextHop(d))
        BY <1>T, <2>1, <2>4, <3>1, ClaimedIsEntry, AskedShape DEF TableInv
      <3>3. table' = [table EXCEPT ![i] = f] /\ UNCHANGED <<heard, asked>>
        BY <2>1, <2>4
      <3> HIDE DEF e
      <3>4. f \in Entry /\ f.ip = NextHop(d) /\ f.state = "pending"
            /\ (f.q # None => NextHop(f.q) = NextHop(d))
        BY <3>2 DEF Entry
      <3> HIDE DEF f
      <3> QED
        BY <2>1, <3>1, <3>3, <3>4, PutPending
    <2> QED
      BY <1>4, <2>2, <2>3, <2>4 DEF InputOutput
  <1>5. ASSUME NEW ip \in Hosts, NEW mac \in Macs, NEW forUs \in BOOLEAN,
               ArpInput(ip, mac, forUs)
        PROVE  TableSound' /\ Fresh' /\ CallInv' /\ Calm'
    <2>1. call.pc = "none" /\ UNCHANGED <<call, asked>>
          /\ heard' = [heard EXCEPT ![ip] = [mac |-> mac, age |-> 0]]
      BY <1>5 DEF ArpInput, MayReceive
    <2>2. CallInv'
      BY <2>1 DEF CallInv
    <2>3. \A h \in Hosts : heard'[h] = IF h = ip THEN [mac |-> mac, age |-> 0]
                                                 ELSE heard[h]
      BY <1>T, <2>1 DEF TypeOK
    <2>4. CASE Match(ip) = {} /\ UNCHANGED table
      <3>1. \A j \in Slots : table[j].state # "empty" =>
               table[j].ip # ip /\ table[j].ip \in Hosts
        BY <2>4 DEF Match, TableInv, Named
      <3>2. Fresh'
        BY <2>3, <2>4, <3>1 DEF TableInv, Fresh, IsStable
      <3> QED
        BY <2>1, <2>2, <2>4, <3>2 DEF TableInv, TableSound, Calm, NoFlood
    <2>5. ASSUME NEW i \in FindEntry(ip, forUs),
                 table' = [table EXCEPT ![i] =
                             [Claimed(i, ip) EXCEPT !.state = "stable",
                                !.mac = mac, !.ctime = 0, !.q = None]]
          PROVE  TableSound' /\ Fresh' /\ Calm'
      <3> DEFINE e == Claimed(i, ip)
                 f == [e EXCEPT !.state = "stable", !.mac = mac,
                                !.ctime = 0, !.q = None]
      <3>1. i \in Slots /\ (i \in Match(ip) \/ Match(ip) = {})
        BY FindEntryResult
      <3>2. e \in Entry /\ e.ip = ip
        BY <1>T, <3>1, ClaimedIsEntry
      <3>3. table' = [table EXCEPT ![i] = f]
        BY <2>5
      <3> HIDE DEF e
      <3>4. f.ip = ip /\ f.state = "stable" /\ f.mac = mac /\ f.ctime = 0
            /\ f.q = None /\ f \in Entry
        <4>1. 0 \in 0..(MaxAge - 1)
          BY AgeAssumption
        <4> QED
          BY <3>2, <4>1 DEF Entry, States
      <3> HIDE DEF f
      <3>5. TableSound'
        BY <1>T, <3>1, <3>3, <3>4, PutSound DEF TableInv
      <3>6. \A j \in Slots : table'[j] = IF j = i THEN f ELSE table[j]
        BY <1>T, <3>1, <3>3 DEF TypeOK
      <3>7. \A j \in Slots \ {i} : table[j].state # "empty" =>
               table[j].ip # ip /\ table[j].ip \in Hosts
        BY <3>1, OthersDiffer DEF TableInv, Named
      <3>8. Fresh'
        <4>1. mac # None
          BY AddressAssumption
        <4> QED
          BY <2>3, <3>4, <3>6, <3>7, <4>1 DEF TableInv, Fresh, IsStable
      <3>9. Calm'
        BY <2>1, <3>4, <3>6, AgeAssumption DEF TableInv, Calm, NoFlood
      <3> QED
        BY <3>5, <3>8, <3>9
    <2> QED
      BY <1>5, <2>2, <2>4, <2>5 DEF ArpInput
  <1>6. CASE Tick
    <2>1. /\ \A i \in Slots : table'[i] = Aged(table[i])
          /\ \A h \in Hosts : asked'[h] = 0
          /\ call.pc = "none" /\ call' = call
      BY <1>6 DEF Tick
    <2>2. \A i \in Slots :
             \/ table'[i] = Blank
             \/ /\ table[i].state # "empty" /\ ~Expired(table[i])
                /\ table'[i].ip = table[i].ip /\ table'[i].mac = table[i].mac
                /\ table'[i].q = table[i].q
                /\ table'[i].ctime = table[i].ctime + 1
                /\ table'[i].state = IF table[i].state = "rerequesting"
                                     THEN "stable" ELSE table[i].state
      <3> TAKE i \in Slots
      <3> DEFINE e == table[i]
      <3>1. e \in Entry /\ table'[i] = Aged(e)
        BY <1>T, <2>1 DEF TypeOK
      <3> HIDE DEF e
      <3>2. CASE e.state = "empty" \/ Expired(e)
        BY <3>1, <3>2 DEF Aged
      <3>3. CASE e.state # "empty" /\ ~Expired(e)
        <4>1. Aged(e) = [e EXCEPT !.ctime = @ + 1,
                          !.state = IF @ = "rerequesting" THEN "stable" ELSE @]
          BY <3>3 DEF Aged
        <4> QED
          BY <3>1, <3>3, <4>1 DEF Entry, e
      <3> QED
        BY <3>2, <3>3
    <2>3. CallInv'
      BY <2>1 DEF CallInv
    <2>4. TableSound'
      BY <2>2 DEF TableInv, TableSound, Blank
    <2>5. Fresh'
      <3> SUFFICES ASSUME NEW i \in Slots, IsStable(table'[i])
                   PROVE  /\ table'[i].mac # None
                          /\ heard'[table'[i].ip] =
                               [mac |-> table'[i].mac, age |-> table'[i].ctime]
        BY DEF Fresh, IsStable
      <3>1. table'[i] # Blank
        BY DEF IsStable, Blank
      <3>2. IsStable(table[i]) /\ ~Expired(table[i])
            /\ table'[i].ip = table[i].ip /\ table'[i].mac = table[i].mac
            /\ table'[i].ctime = table[i].ctime + 1
        BY <2>2, <3>1 DEF IsStable
      <3> DEFINE h == table[i].ip
      <3>3. h \in Hosts /\ table[i].mac # None
            /\ heard[h] = [mac |-> table[i].mac, age |-> table[i].ctime]
        BY <3>2 DEF TableInv, Named, Fresh, IsStable
      <3>4. table[i].ctime + 1 < MaxAge
        BY <1>T, <3>2, AgeAssumption DEF Expired, TypeOK, Entry
      <3>5. heard'[h] = IF heard[h].mac # None /\ heard[h].age + 1 < MaxAge
                        THEN [heard[h] EXCEPT !.age = @ + 1] ELSE Silence
        BY <1>6, <3>3 DEF Tick
      <3>6. heard'[h] = [mac |-> table[i].mac, age |-> table[i].ctime + 1]
        BY <3>3, <3>4, <3>5
      <3> QED
        BY <3>2, <3>3, <3>6
    <2>6. Calm'
      BY <1>0, <2>1 DEF Calm, NoFlood, Named
    <2> QED
      BY <2>3, <2>4, <2>5, <2>6
  <1>7. CASE UNCHANGED vars
    BY <1>7 DEF vars, TableInv, TableSound, Fresh, CallInv, Calm, NoFlood
  <1> QED
    BY <1>1, <1>2, <1>3, <1>4, <1>5, <1>6, <1>7 DEF Next

LEMMA InvHolds == ~Preempted => (Spec => []TableInv)
  <1> SUFFICES ASSUME ~Preempted PROVE Spec => []TableInv
    OBVIOUS
  <1>1. TableInv /\ [Next]_vars => TableInv'
    BY StepInv
  <1> QED
    BY <1>1, InitInv, PTL DEF Spec

(* As long as the main loop is not interrupted while it sends, an address   *)
(* has one entry at most, and a packet waits only on the pending entry of   *)
(* its own next hop, so that the entry etharp_find_entry recycles meets its *)
(* assertion.                                                               *)
THEOREM TableIsSound == ~Preempted => (Spec => []TableSound)
  <1>1. TableInv => TableSound
    BY DEF TableInv
  <1> QED
    BY <1>1, InvHolds, PTL

(* Under the same condition a packet that finds a resolved entry leaves for *)
(* the address its next hop announced last.                                 *)
THEOREM AddressesAreFresh == ~Preempted => (Spec => []AddressFresh)
  <1>1. TableInv => AddressFresh
    <2> SUFFICES ASSUME TableInv PROVE AddressFresh
      OBVIOUS
    <2>1. ASSUME NEW d \in Packets, NEW i \in Slots, IsStable(table[i]),
                 table[i].ip = NextHop(d)
          PROVE  Right(i, d)
      <3>1. /\ table[i].mac # None
            /\ heard[NextHop(d)] = [mac |-> table[i].mac, age |-> table[i].ctime]
        BY <2>1 DEF TableInv, Fresh
      <3> QED
        BY <3>1 DEF Right
    <2>2. ASSUME NEW d \in Packets, NEW i \in Found(NextHop(d)) PROVE Right(i, d)
      BY <2>1, FoundResult DEF TableInv, TypeOK
    <2>3. call.pc = "send" => Right(call.i, call.d)
      BY <2>1 DEF TableInv, TypeOK, CallInv
    <2> QED
      BY <2>2, <2>3 DEF AddressFresh
  <1> QED
    BY <1>1, InvHolds, PTL

(* Under the same condition a known address is asked for again once between *)
(* two ticks at most, however often it is used.                             *)
THEOREM NothingIsFlooded == ~Preempted => (Spec => []NoFlood)
  <1>1. TableInv => NoFlood
    BY DEF TableInv, Calm
  <1> QED
    BY <1>1, InvHolds, PTL

================================================================================
