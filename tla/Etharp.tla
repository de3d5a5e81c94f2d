-------------------------------- MODULE Etharp --------------------------------
(****************************************************************************)
(* The ARP table of lwIP (etharp.c): a handful of entries that map the next *)
(* hop of a packet to an Ethernet address.  An entry that is not resolved   *)
(* yet keeps the last packet that asked for it, entries age in ticks of     *)
(* etharp_tmr, and one that is used shortly before it ages out is asked for *)
(* again.  Both contexts send through the table: the main loop from the TCP *)
(* timer, the Ethernet interrupt from its callbacks.                        *)
(*                                                                          *)
(* The build has no static entries, no queue but one packet per entry       *)
(* (ARP_QUEUEING 0), and learns from ARP packets only (ETHARP_TRUST_IP_MAC  *)
(* 0).  The program sends neither broadcasts nor multicasts.                *)
(****************************************************************************)
EXTENDS Integers

CONSTANTS
    TableSize,      \* ARP_TABLE_SIZE
    MaxAge,         \* ARP_MAXAGE
    Rerequest,      \* ARP_AGE_REREQUEST_USED
    MaxPending,     \* ARP_MAXPENDING
    Hosts,          \* the IP addresses that may send ARP packets
    Gateway,        \* the one of netif->gw
    Remotes,        \* destinations outside the subnet
    Macs,           \* Ethernet addresses
    None,           \* no address, no packet
    Preempted       \* ENET_RECEIVE_ALL_INTERRUPT: input in the ENET ISR

ASSUME TableAssumption == TableSize \in Nat \ {0}
ASSUME AgeAssumption ==
    /\ MaxAge \in 1..255 /\ Rerequest \in 1..MaxAge
    /\ MaxPending \in Nat \ {0}
ASSUME AddressAssumption ==
    /\ Gateway \in Hosts
    /\ Hosts \cap Remotes = {}
    /\ None \notin Hosts \union Remotes \union Macs
ASSUME BuildAssumption == Preempted \in BOOLEAN

VARIABLES
    table,   \* arp_table
    hint,    \* etharp_cached_entry
    call,    \* an etharp_output of the main loop: where it is, its locals
    heard,   \* history: what each host announced in the last MaxAge ticks
    asked    \* history: how often each was asked for again since the last tick

vars == <<table, hint, call, heard, asked>>

-----------------------------------------------------------------------------
(* Entries and packets.  A packet is its destination.  The request that     *)
(* etharp_query sends with every packet it queues and the reply to a        *)
(* request for our address change nothing here, and what becomes of them is *)
(* ignored.                                                                 *)

Slots == 0..(TableSize - 1)
Packets == Hosts \union Remotes

\* The gateway's entry serves all that is outside the local network.
NextHop(d) == IF d \in Hosts THEN d ELSE Gateway

States == {"empty", "pending", "stable", "rerequesting"}

Entry == [state : States, ip : Hosts \union {None}, mac : Macs \union {None},
          ctime : 0..(MaxAge - 1), q : Packets \union {None}]

\* What a freed entry keeps in its other fields is never read.
Blank == [state |-> "empty", ip |-> None, mac |-> None, ctime |-> 0, q |-> None]

IsStable(e) == e.state \in {"stable", "rerequesting"}

-----------------------------------------------------------------------------
(* etharp_find_entry.  Its result is a set of at most one index: none means *)
(* ERR_MEM.                                                                 *)

\* Mutant: only resolved entries are compared.
Match_Stable(ip) == {i \in Slots : IsStable(table[i]) /\ table[i].ip = ip}

Match(ip) == {i \in Slots : table[i].state # "empty" /\ table[i].ip = ip}

First(S) == {i \in S : \A j \in S : i <= j}

\* The sweep replaces its candidate by one that is as old.
Oldest(S) == {i \in S : \A j \in S :
                 \/ table[j].ctime < table[i].ctime
                 \/ table[j].ctime = table[i].ctime /\ j <= i}

(* The entry to give up, in the order of choice: an empty one, the oldest   *)
(* resolved one, the oldest without a packet, the oldest with one.          *)
Recycled ==
    LET empty  == {i \in Slots : table[i].state = "empty"}
        stable == {i \in Slots : IsStable(table[i])}
        quiet  == {i \in Slots : table[i].state = "pending" /\ table[i].q = None}
        queued == {i \in Slots : table[i].state = "pending" /\ table[i].q # None}
    IN  CASE empty # {}  -> First(empty)
          [] empty = {} /\ stable # {} -> Oldest(stable)
          [] empty = {} /\ stable = {} /\ quiet # {} -> Oldest(quiet)
          [] OTHER -> Oldest(queued)

FindEntry(ip, tryHard) ==
    IF Match(ip) # {} \/ ~tryHard THEN First(Match(ip)) ELSE Recycled

\* Mutant: an entry that is found starts its time anew.
Claimed_Renewed(i, ip) ==
    IF i \in Match(ip) THEN [table[i] EXCEPT !.ctime = 0]
                       ELSE [Blank EXCEPT !.ip = ip]

\* The entry as etharp_find_entry leaves it: its own, or freed and set up.
Claimed(i, ip) == IF i \in Match(ip) THEN table[i] ELSE [Blank EXCEPT !.ip = ip]

-----------------------------------------------------------------------------
(* Sending. *)

Resolved(ip) == {i \in Slots : IsStable(table[i]) /\ table[i].ip = ip}

\* Mutant: the cached entry is used for any address.
Found_AnyHint(ip) == IF IsStable(table[hint]) THEN {hint} ELSE First(Resolved(ip))

\* The entry that etharp_output finds: the last one used, or the first one.
Found(ip) == IF hint \in Resolved(ip) THEN {hint} ELSE First(Resolved(ip))

(* etharp_output_to_arp_index: the packet is sent, and the address asked    *)
(* for again (ok: there was memory to ask) if it is about to expire.        *)
Renews(i, ok) == ok /\ table[i].state = "stable" /\ table[i].ctime >= Rerequest

\* Mutant: nothing remembers that the address was asked for again.
ToIndex_Forgets(i, ok) ==
    /\ asked' = IF Renews(i, ok) THEN [asked EXCEPT ![table[i].ip] = @ + 1]
                                 ELSE asked
    /\ UNCHANGED table

ToIndex(i, ok) ==
    IF Renews(i, ok)
    THEN /\ asked' = [asked EXCEPT ![table[i].ip] = @ + 1]
         /\ table' = [table EXCEPT ![i].state = "rerequesting"]
    ELSE UNCHANGED <<table, asked>>

(* etharp_query up to the test of the state: the entry is there, and a new  *)
(* one is pending.  It is never a resolved one, since etharp_output has     *)
(* just looked for these.                                                   *)
Asked(i, ip) ==
    [Claimed(i, ip) EXCEPT !.state = IF @ = "empty" THEN "pending" ELSE @]

NoCall == [pc |-> "none", i |-> 0, d |-> Gateway]

(* etharp_output of the main loop, until it has decided to send the packet  *)
(* to entry i or to queue it there,                                         *)
MainOutput(d) ==
    LET ip == NextHop(d)
    IN  /\ call.pc = "none"
        /\ \/ \E i \in Found(ip) :
                 /\ call' = [pc |-> "send", i |-> i, d |-> d]
                 /\ hint' = i
                 /\ UNCHANGED table
           \/ /\ Resolved(ip) = {}
              /\ \E i \in FindEntry(ip, TRUE) :
                    /\ call' = [pc |-> "queue", i |-> i, d |-> d]
                    /\ table' = [table EXCEPT ![i] = Asked(i, ip)]
              /\ UNCHANGED hint
        /\ UNCHANGED <<heard, asked>>

\* and the rest of it: the packet is sent,
MainSend ==
    /\ call.pc = "send"
    /\ \E ok \in BOOLEAN : ToIndex(call.i, ok)
    /\ call' = NoCall
    /\ UNCHANGED <<hint, heard>>

\* or a copy of it is left on the entry, if there is memory for one.
MainQueue ==
    /\ call.pc = "queue"
    /\ table' \in {table, [table EXCEPT ![call.i].q = call.d]}
    /\ call' = NoCall
    /\ UNCHANGED <<hint, heard, asked>>

-----------------------------------------------------------------------------
(* The input side.  It runs in the ENET interrupt, or between two calls of  *)
(* sys_check_timeouts in the build that polls the driver.                   *)

MayReceive == Preempted \/ call.pc = "none"

\* A callback sends: the whole of etharp_output.
InputOutput(d) ==
    LET ip == NextHop(d)
    IN  /\ MayReceive
        /\ \/ \E i \in Found(ip), ok \in BOOLEAN : ToIndex(i, ok) /\ hint' = i
           \/ /\ Resolved(ip) = {}
              /\ \E i \in FindEntry(ip, TRUE), copied \in BOOLEAN :
                    table' = [table EXCEPT ![i] =
                                [Asked(i, ip) EXCEPT !.q = IF copied THEN d
                                                                     ELSE @]]
              /\ UNCHANGED <<hint, asked>>
        /\ UNCHANGED <<call, heard>>

(* etharp_arp_input: a request or a reply of host ip, which has the address *)
(* mac at this time.  etharp_update_arp_entry makes the entry of the host   *)
(* if the packet was for us, and otherwise only looks for it; a packet that *)
(* waits on it leaves.  A probe with the sender 0.0.0.0 changes nothing.    *)
ArpInput(ip, mac, forUs) ==
    /\ MayReceive
    /\ \/ /\ ~forUs /\ Match(ip) = {}
          /\ UNCHANGED table
       \/ \E i \in FindEntry(ip, forUs) :
             table' = [table EXCEPT ![i] =
                         [Claimed(i, ip) EXCEPT !.state = "stable", !.mac = mac,
                                                !.ctime = 0, !.q = None]]
    /\ heard' = [heard EXCEPT ![ip] = [mac |-> mac, age |-> 0]]
    /\ UNCHANGED <<hint, call, asked>>

-----------------------------------------------------------------------------
(* etharp_tmr. *)

Expired(e) == \/ e.ctime + 1 >= MaxAge
              \/ e.state = "pending" /\ e.ctime + 1 >= MaxPending

Aged(e) == IF e.state = "empty" \/ Expired(e) THEN Blank
           ELSE [e EXCEPT !.ctime = @ + 1,
                          !.state = IF @ = "rerequesting" THEN "stable" ELSE @]

Silence == [mac |-> None, age |-> 0]

Tick ==
    /\ call.pc = "none"
    /\ table' = [i \in Slots |-> Aged(table[i])]
    /\ heard' = [ip \in Hosts |->
                   IF heard[ip].mac # None /\ heard[ip].age + 1 < MaxAge
                   THEN [heard[ip] EXCEPT !.age = @ + 1] ELSE Silence]
    /\ asked' = [ip \in Hosts |-> 0]
    /\ UNCHANGED <<hint, call>>

-----------------------------------------------------------------------------

Init ==
    /\ table = [i \in Slots |-> Blank]
    /\ hint = 0
    /\ call = NoCall
    /\ heard = [ip \in Hosts |-> Silence]
    /\ asked = [ip \in Hosts |-> 0]

Next ==
    \/ \E d \in Packets : MainOutput(d) \/ InputOutput(d)
    \/ MainSend \/ MainQueue
    \/ \E ip \in Hosts, mac \in Macs, forUs \in BOOLEAN :
          ArpInput(ip, mac, forUs)
    \/ Tick

Spec == /\ Init /\ [][Next]_vars
        /\ WF_vars(MainSend \/ MainQueue) /\ SF_vars(Tick)

-----------------------------------------------------------------------------
(* Properties. *)

(* Type invariant: in particular the age of an entry stays below MaxAge,    *)
(* and so within its u8_t.                                                  *)
TypeOK ==
    /\ table \in [Slots -> Entry]
    /\ hint \in Slots
    /\ call \in [pc : {"none", "send", "queue"}, i : Slots, d : Packets]
    /\ heard \in [Hosts -> [mac : Macs \union {None}, age : 0..(MaxAge - 1)]]
    /\ asked \in [Hosts -> Nat]

(* However entries are made, recycled, resolved and aged, an address has    *)
(* one entry at most, and a packet waits only on an entry that is not       *)
(* resolved, that of its own next hop.  The assertion of etharp_find_entry  *)
(* on the entry it recycles is a part of this.                              *)
TableSound ==
    /\ \A i, j \in Slots :
          (table[i].state # "empty" /\ table[j].state # "empty"
             /\ table[i].ip = table[j].ip) => i = j
    /\ \A i \in Slots : table[i].q # None =>
          table[i].state = "pending" /\ table[i].ip = NextHop(table[i].q)

(* An IP packet that finds a resolved entry, by the cached index or by the  *)
(* search, leaves for the address its next hop announced last, and that     *)
(* less than ARP_MAXAGE ticks ago; so does one that is about to.            *)
Right(i, d) == /\ table[i].mac = heard[NextHop(d)].mac
               /\ table[i].mac # None

AddressFresh ==
    /\ \A d \in Packets : \A i \in Found(NextHop(d)) : Right(i, d)
    /\ call.pc = "send" => Right(call.i, call.d)

(* etharp.c: "to prevent flooding the network with ARP requests if this     *)
(* address is used frequently".  However often both contexts send to a      *)
(* known address, and whatever its host answers meanwhile, it is asked for  *)
(* again once between two ticks at most.                                    *)
NoFlood == \A ip \in Hosts : asked[ip] <= 1

(* No packet waits for ever on the entry of the gateway, which serves the   *)
(* most destinations: the gateway answers, another host takes the entry, or *)
(* it ages out, however often it is sent to meanwhile.                      *)
Waits(ip) == \E i \in Slots : table[i].ip = ip /\ table[i].q # None

QueueDrains == Waits(Gateway) ~> ~Waits(Gateway)

=============================================================================
